----------------------- MODULE NativeSocketRefinement -----------------------
(* NativeSocket implements SocketOwnership, for any constants.             *)
EXTENDS NativeSocketProofs

lifeMap == [s \in Sockets |-> Life(s)]
userMap == [s \in Sockets |-> User(s)]

(* Nobody owns the monitor of a socket that is not live.                   *)
LEMMA OnlyLiveOwned ==
  ASSUME IInv, NEW s \in Sockets, native[s] # "live"
  PROVE  owner[s] = NoThread
<1>1. CASE owner[s] \in Threads
  <2>1. Occupies(owner[s], s, Monitored)
    BY <1>1 DEF IInv, MonitorsMatchFrames, Inside
  <2>2. Monitored \cap Creating = {}
    BY DEF Monitored, Creating
  <2> QED
    BY <1>1, <2>1, <2>2, LiveOccupied
<1> QED
  BY <1>1 DEF IInv, TypeOK

(* The state of a socket as its native code sees it.                       *)
LEMMA Mapped ==
  ASSUME NEW s \in Sockets
  PROVE  /\ lifeMap[s] = Life(s)
         /\ userMap[s] = User(s)
         /\ native[s] \in {"none", "building"} => Life(s) = "unborn"
         /\ native[s] \in {"live", "deleting"} => Life(s) = "alive"
         /\ native[s] = "deleted" => Life(s) = "freed"
         /\ native[s] = "deleting" => User(s) = CleanerThread
         /\ native[s] # "deleting" => User(s) = owner[s]
BY DEF lifeMap, userMap, Life, User

(* A step that leaves the C++ objects and the monitors alone.              *)
LEMMA Stutter ==
  ASSUME UNCHANGED <<native, owner>>
  PROVE  UNCHANGED <<lifeMap, userMap>>
BY DEF lifeMap, userMap, Life, User

LEMMA InitMaps == Init => Ownership!Init
BY DEF Init, Ownership!Init, Life, User

(* A change of one socket's state that the contract sees.                  *)
LEMMA MapUpdate ==
  ASSUME NEW s \in Sockets, NEW l, NEW u,
         Life(s)' = l, User(s)' = u,
         \A r \in Sockets \ {s} : native'[r] = native[r] /\ owner'[r] = owner[r]
  PROVE  /\ lifeMap' = [lifeMap EXCEPT ![s] = l]
         /\ userMap' = [userMap EXCEPT ![s] = u]
<1>1. \A r \in Sockets \ {s} : Life(r)' = Life(r) /\ User(r)' = User(r)
  BY DEF Life, User
<1> QED
  BY <1>1 DEF lifeMap, userMap

LEMMA CreateCallMaps ==
  ASSUME IInv, NEW t \in Threads, NEW s \in Sockets, CreateCall(t, s)
  PROVE  UNCHANGED <<lifeMap, userMap>>
<1>1. /\ native[s] = "none" /\ native'[s] = "building" /\ owner' = owner
      /\ \A r \in Sockets \ {s} : native'[r] = native[r]
  BY DEF CreateCall, IInv, TypeOK
<1>2. \A r \in Sockets : Life(r)' = Life(r) /\ User(r)' = User(r)
  BY <1>1 DEF Life, User
<1> QED
  BY <1>2 DEF lifeMap, userMap

(* The publication of the Java object opens the socket.                    *)
LEMMA CreateReturnMaps ==
  ASSUME IInv, NEW t \in Threads, CreateReturn(t)
  PROVE  Ownership!Next
<1>1. In(t, Creating) /\ In(t, {"create"})
  BY DEF CreateReturn, In, Creating
<1>2. PICK s \in Sockets : s = Top(t) /\ native[s] = "building"
  BY <1>1, CreatingPins
<1>3. /\ native'[s] = "live" /\ owner' = owner
      /\ \A r \in Sockets \ {s} : native'[r] = native[r]
  BY <1>2 DEF CreateReturn, IInv, TypeOK
<1>4. Life(s) = "unborn" /\ Life(s)' = "alive" /\ User(s)' = User(s)
  BY <1>2, <1>3 DEF Life, User
<1>5. /\ lifeMap' = [lifeMap EXCEPT ![s] = "alive"]
      /\ userMap' = [userMap EXCEPT ![s] = User(s)]
  BY <1>3, <1>4, MapUpdate
<1>6. userMap' = userMap
  BY <1>5 DEF userMap
<1>7. Ownership!Open(s)
  BY <1>4, <1>5, <1>6 DEF Ownership!Open, lifeMap, userMap
<1> QED
  BY <1>7 DEF Ownership!Next

(* Entering a free monitor takes the socket; a re-entrant call stutters.   *)
LEMMA EnterMaps ==
  ASSUME IInv, NEW t \in Threads, Enter(t)
  PROVE  Ownership!Next \/ UNCHANGED <<lifeMap, userMap>>
<1>0. TypeOK /\ stack[t] # <<>> /\ Last(stack[t]).at = "wait"
  BY DEF Enter, In, IInv
<1>1. PICK s \in Sockets : s = Top(t)
  BY <1>0, TopLemma
<1>2. native[s] = "live"
  <2>1. Occupies(t, s, {"wait"})
    BY <1>0, <1>1, TopLemma DEF Occupies
  <2> QED
    BY <2>1, LiveOccupied DEF Creating
<1>3. /\ native' = native /\ owner'[s] = t /\ owner[s] \in {NoThread, t}
      /\ \A r \in Sockets \ {s} : owner'[r] = owner[r]
  BY <1>0, <1>1 DEF Enter, CanEnter, TypeOK
<1>4. Life(s) = "alive" /\ Life(s)' = "alive" /\ User(s)' = t /\ User(s) = owner[s]
  BY <1>2, <1>3 DEF Life, User
<1>5. /\ lifeMap' = [lifeMap EXCEPT ![s] = "alive"]
      /\ userMap' = [userMap EXCEPT ![s] = t]
  BY <1>3, <1>4, MapUpdate
<1>6. lifeMap' = lifeMap
  BY <1>4, <1>5 DEF lifeMap
<1>7. CASE owner[s] = t
  BY <1>4, <1>5, <1>6, <1>7 DEF userMap
<1>8. CASE owner[s] = NoThread
  <2>1. Ownership!Take(t, s)
    BY <1>4, <1>5, <1>6, <1>8 DEF Ownership!Take, lifeMap, userMap
  <2> QED
    BY <2>1 DEF Ownership!Next
<1> QED
  BY <1>3, <1>7, <1>8

(* The outermost return leaves the socket; the others stutter.             *)
LEMMA ReturnMaps ==
  ASSUME IInv, NEW t \in Threads, Return(t)
  PROVE  Ownership!Next \/ UNCHANGED <<lifeMap, userMap>>
<1>0. TypeOK /\ stack[t] # <<>> /\ Last(stack[t]).at = "native"
  BY DEF Return, In, IInv
<1>1. PICK s \in Sockets : s = Top(t)
  BY <1>0, TopLemma
<1>2. Occupies(t, s, {"native"}) /\ Occupies(t, s, Monitored)
  BY <1>0, <1>1, TopLemma DEF Occupies, Monitored
<1>3. native[s] = "live" /\ owner[s] = t /\ t # NoThread
  BY <1>2, LiveOccupied, ThreadsAssumption
     DEF Creating, IInv, MonitorsMatchFrames, Inside
<1>4. /\ native' = native /\ owner'[s] \in {NoThread, t}
      /\ \A r \in Sockets \ {s} : owner'[r] = owner[r]
  BY <1>0, <1>1 DEF Return, TypeOK
<1>5. Life(s) = "alive" /\ Life(s)' = "alive" /\ User(s) = t /\ User(s)' = owner'[s]
  BY <1>3, <1>4 DEF Life, User
<1>6. /\ lifeMap' = [lifeMap EXCEPT ![s] = "alive"]
      /\ userMap' = [userMap EXCEPT ![s] = owner'[s]]
  BY <1>4, <1>5, MapUpdate
<1>7. lifeMap' = lifeMap
  BY <1>5, <1>6 DEF lifeMap
<1>8. CASE owner'[s] = t
  BY <1>5, <1>6, <1>7, <1>8 DEF userMap
<1>9. CASE owner'[s] = NoThread
  <2>1. Ownership!Leave(s)
    BY <1>3, <1>5, <1>6, <1>7, <1>9 DEF Ownership!Leave, lifeMap, userMap
  <2> QED
    BY <2>1 DEF Ownership!Next
<1> QED
  BY <1>4, <1>8, <1>9

(* destruct takes the socket without its monitor: nobody can hold that.    *)
LEMMA CleanerBeginMaps ==
  ASSUME IInv, NEW s \in Sockets, CleanerBegin(s)
  PROVE  Ownership!Next
<1>1. native[s] = "live" /\ <<"socket", s>> \notin alive
  BY DEF CleanerBegin, IInv, WrapperInsideNativeLife
<1>2. owner[s] = NoThread
  <2>1. CASE owner[s] \in Threads
    <3>1. Occupies(owner[s], s, Monitored) /\ Monitored \cap Creating = {}
      BY <2>1 DEF IInv, MonitorsMatchFrames, Inside, Monitored, Creating
    <3> QED
      BY <1>1, <2>1, <3>1, LiveOccupied
  <2> QED
    BY <2>1 DEF IInv, TypeOK
<1>3. /\ native'[s] = "deleting" /\ owner' = owner
      /\ \A r \in Sockets \ {s} : native'[r] = native[r]
  BY DEF CleanerBegin, IInv, TypeOK
<1>4. /\ Life(s) = "alive" /\ Life(s)' = "alive"
      /\ User(s) = NoThread /\ User(s)' = CleanerThread
  BY <1>1, <1>2, <1>3 DEF Life, User
<1>5. /\ lifeMap' = [lifeMap EXCEPT ![s] = "alive"]
      /\ userMap' = [userMap EXCEPT ![s] = CleanerThread]
  BY <1>3, <1>4, MapUpdate
<1>6. lifeMap' = lifeMap
  BY <1>4, <1>5 DEF lifeMap
<1>7. Ownership!Take(CleanerThread, s)
  BY <1>4, <1>5, <1>6 DEF Ownership!Take, lifeMap, userMap
<1> QED
  BY <1>7 DEF Ownership!Next

LEMMA CleanerEndMaps ==
  ASSUME IInv, NEW s \in Sockets, CleanerEnd(s)
  PROVE  Ownership!Next
<1>1. native[s] = "deleting" /\ s \in globals /\ owner[s] = NoThread
  BY OnlyLiveOwned DEF CleanerEnd, IInv, WrapperInsideNativeLife
<1>2. <<"timeout", s>> \in alive
  BY <1>1, ReachableIsAlive DEF ReachableKind, Pinned, PinnedByNative, Kinds
<1>3. /\ native'[s] = "deleted" /\ owner' = owner
      /\ \A r \in Sockets \ {s} : native'[r] = native[r]
  BY <1>2 DEF CleanerEnd, IInv, TypeOK
<1>4. /\ Life(s) = "alive" /\ Life(s)' = "freed"
      /\ User(s) = CleanerThread /\ User(s)' = NoThread
  BY <1>1, <1>3 DEF Life, User
<1>5. /\ lifeMap' = [lifeMap EXCEPT ![s] = "freed"]
      /\ userMap' = [userMap EXCEPT ![s] = NoThread]
  BY <1>3, <1>4, MapUpdate
<1>6. Ownership!Free(s)
  BY <1>4, <1>5, ThreadsAssumption DEF Ownership!Free, lifeMap, userMap
<1> QED
  BY <1>6 DEF Ownership!Next

LEMMA NextMaps ==
  IInv /\ [Next]_vars => [Ownership!Next]_(Ownership!vars)
<1> SUFFICES ASSUME IInv, [Next]_vars
             PROVE  Ownership!Next \/ UNCHANGED <<lifeMap, userMap>>
  BY DEF Ownership!vars, lifeMap, userMap
<1>1. CASE UNCHANGED vars
  BY <1>1, Stutter DEF vars
<1>2. ASSUME NEW t \in Threads, ThreadStep(t)
      PROVE  Ownership!Next \/ UNCHANGED <<lifeMap, userMap>>
  <2>1. CASE \/ \E s \in Sockets : Call(t, s)
             \/ CreateQuery(t) \/ CreateQueryReturn(t) \/ Notify(t)
             \/ \E k \in {"callbacks", "observer", "timeout"} : Query(t, k)
             \/ CallbackReturn(t)
    BY <2>1, Stutter DEF Call, CreateQuery, CreateQueryReturn, Notify, Query,
                         CallbackReturn, Invoke
  <2>2. CASE \/ \E s \in Sockets : CreateCall(t, s)
             \/ CreateReturn(t) \/ Enter(t) \/ Return(t)
    BY <2>2, CreateCallMaps, CreateReturnMaps, EnterMaps, ReturnMaps
  <2> QED
    BY <1>2, <2>1, <2>2 DEF ThreadStep
<1>3. ASSUME NEW s \in Sockets, SocketStep(s)
      PROVE  Ownership!Next \/ UNCHANGED <<lifeMap, userMap>>
  <2>1. CASE (\E k \in Kinds : Forget(k, s) \/ Collect(k, s)) \/ Link(s) \/ Unlink(s)
    BY <2>1, Stutter DEF Forget, Collect, Link, Unlink
  <2>2. CASE CleanerBegin(s) \/ CleanerEnd(s)
    BY <2>2, CleanerBeginMaps, CleanerEndMaps
  <2> QED
    BY <1>3, <2>1, <2>2 DEF SocketStep
<1> QED
  BY <1>1, <1>2, <1>3 DEF Next

(* The monitors, the references and the cleaner implement the contract of  *)
(* a native socket: one user at a time, from its construction to its one   *)
(* destruction, by its last user.                                          *)
THEOREM Refinement == Spec => ImplementsOwnership
BY InitMaps, NextMaps, Invariance, PTL DEF Spec, ImplementsOwnership, Ownership!Spec
=============================================================================
