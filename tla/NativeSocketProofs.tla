------------------------- MODULE NativeSocketProofs -------------------------
(* Proofs about NativeSocket, for any sockets, threads and depth of calls. *)
EXTENDS NativeSocket, TLAPS, SequenceTheorems, WellFoundedInduction

Places == Monitored \cup Creating \cup {"wait"}

-----------------------------------------------------------------------------
(* Sequences and stacks.                                                   *)

(* What Front does to a non-empty sequence. *)
LEMMA FrontLemma ==
  ASSUME NEW S, NEW q \in Seq(S), q # <<>>
  PROVE  /\ Len(q) \in Nat \ {0}
         /\ Front(q) \in Seq(S)
         /\ DOMAIN Front(q) = 1 .. Len(q) - 1
         /\ Len(Front(q)) = Len(q) - 1
         /\ \A i \in 1 .. Len(q) - 1 : Front(q)[i] = q[i]
<1>1. Len(q) \in Nat /\ Len(q) # 0
  OBVIOUS
<1>2. PICK n \in Nat : n = Len(q) - 1
  BY <1>1
<1>3. Front(q) = SubSeq(q, 1, n)
  BY <1>2 DEF Front
<1>4. Len(SubSeq(q, 1, n)) = n
  BY <1>2
<1>5. /\ SubSeq(q, 1, n) \in Seq(S)
      /\ \A i \in 1 .. n : SubSeq(q, 1, n)[i] = q[i]
  BY <1>2
<1> QED
  BY <1>1, <1>2, <1>3, <1>4, <1>5

(* Replacing the last element keeps the others. *)
LEMMA ReplaceLastLemma ==
  ASSUME NEW S, NEW q \in Seq(S), q # <<>>, NEW f \in S
  PROVE  /\ Append(Front(q), f) \in Seq(S)
         /\ Len(Append(Front(q), f)) = Len(q)
         /\ DOMAIN Append(Front(q), f) = 1 .. Len(q)
         /\ \A i \in 1 .. Len(q) - 1 : Append(Front(q), f)[i] = q[i]
         /\ Append(Front(q), f)[Len(q)] = f
<1>1. /\ Append(Front(q), f) \in Seq(S)
      /\ Len(Append(Front(q), f)) = Len(Front(q)) + 1
      /\ \A i \in 1 .. Len(Front(q)) : Append(Front(q), f)[i] = Front(q)[i]
      /\ Append(Front(q), f)[Len(Front(q)) + 1] = f
  BY FrontLemma, AppendProperties
<1> QED
  BY <1>1, FrontLemma

(* The innermost frame of a thread that is inside the library. *)
LEMMA TopLemma ==
  ASSUME TypeOK, NEW t \in Threads, stack[t] # <<>>
  PROVE  /\ Len(stack[t]) \in DOMAIN stack[t]
         /\ Last(stack[t]) = stack[t][Len(stack[t])]
         /\ Last(stack[t]) \in Frames
         /\ Top(t) = stack[t][Len(stack[t])].sock
         /\ Top(t) \in Sockets
<1>1. stack[t] \in Seq(Frames)
  BY DEF TypeOK
<1>2. Len(stack[t]) \in DOMAIN stack[t] /\ stack[t][Len(stack[t])] \in Frames
  BY <1>1
<1> QED
  BY <1>2 DEF Last, Top, Frames

(* The stacks after each kind of change: every other thread's stack is as  *)
(* it was, and so are the frames below the innermost one.                  *)
LEMMA PushLemma ==
  ASSUME TypeOK, NEW t \in Threads, NEW s \in Sockets, NEW p \in Places,
         Push(t, s, p)
  PROVE  /\ stack' \in [Threads -> Seq(Frames)]
         /\ \A u \in Threads \ {t} : stack'[u] = stack[u]
         /\ Len(stack'[t]) = Len(stack[t]) + 1
         /\ DOMAIN stack[t] = 1 .. Len(stack[t])
         /\ DOMAIN stack'[t] = 1 .. Len(stack[t]) + 1
         /\ \A i \in DOMAIN stack[t] : stack'[t][i] = stack[t][i]
         /\ stack'[t][Len(stack[t]) + 1] = [sock |-> s, at |-> p]
<1> DEFINE f == [sock |-> s, at |-> p]
<1>1. f \in Frames
  BY DEF Frames, Places
<1>2. stack \in [Threads -> Seq(Frames)] /\ stack[t] \in Seq(Frames)
  BY DEF TypeOK
<1>3. stack' = [stack EXCEPT ![t] = Append(stack[t], f)]
  BY DEF Push
<1>4. stack'[t] = Append(stack[t], f)
  BY <1>2, <1>3
<1>5. /\ Append(stack[t], f) \in Seq(Frames)
      /\ Len(Append(stack[t], f)) = Len(stack[t]) + 1
      /\ \A i \in 1 .. Len(stack[t]) : Append(stack[t], f)[i] = stack[t][i]
      /\ Append(stack[t], f)[Len(stack[t]) + 1] = f
  BY <1>1, <1>2, AppendProperties
<1> HIDE DEF f
<1>6. DOMAIN Append(stack[t], f) = 1 .. Len(stack[t]) + 1
      /\ DOMAIN stack[t] = 1 .. Len(stack[t])
  BY <1>2, <1>5
<1> QED
  BY <1>2, <1>3, <1>4, <1>5, <1>6 DEF f

LEMMA MoveLemma ==
  ASSUME TypeOK, NEW t \in Threads, stack[t] # <<>>, NEW p \in Places,
         Move(t, p)
  PROVE  /\ stack' \in [Threads -> Seq(Frames)]
         /\ \A u \in Threads \ {t} : stack'[u] = stack[u]
         /\ stack'[t] # <<>>
         /\ Len(stack'[t]) = Len(stack[t])
         /\ DOMAIN stack'[t] = DOMAIN stack[t]
         /\ DOMAIN stack[t] = 1 .. Len(stack[t])
         /\ \A i \in DOMAIN stack[t] \ {Len(stack[t])} : stack'[t][i] = stack[t][i]
         /\ stack'[t][Len(stack[t])] = [sock |-> Top(t), at |-> p]
<1> DEFINE f == [sock |-> Top(t), at |-> p]
<1>1. f \in Frames
  BY TopLemma DEF Frames, Places
<1>2. stack \in [Threads -> Seq(Frames)] /\ stack[t] \in Seq(Frames)
  BY DEF TypeOK
<1>3. stack' = [stack EXCEPT ![t] = Append(Front(stack[t]), f)]
  BY DEF Move
<1>4. stack'[t] = Append(Front(stack[t]), f)
  BY <1>2, <1>3
<1> HIDE DEF f
<1>5. /\ stack'[t] \in Seq(Frames)
      /\ Len(stack'[t]) = Len(stack[t])
      /\ DOMAIN stack'[t] = 1 .. Len(stack[t])
      /\ \A i \in 1 .. Len(stack[t]) - 1 : stack'[t][i] = stack[t][i]
      /\ stack'[t][Len(stack[t])] = f
  BY <1>1, <1>2, <1>4, ReplaceLastLemma
<1>6. DOMAIN stack[t] = 1 .. Len(stack[t]) /\ Len(stack[t]) \in Nat \ {0}
  BY <1>2
<1>7. \A i \in DOMAIN stack[t] \ {Len(stack[t])} : stack'[t][i] = stack[t][i]
  BY <1>5, <1>6
<1>8. stack'[t] # <<>>
  BY <1>5, <1>6
<1>9. stack' \in [Threads -> Seq(Frames)] /\ \A u \in Threads \ {t} : stack'[u] = stack[u]
  BY <1>2, <1>3, <1>4, <1>5
<1> QED
  BY <1>5, <1>6, <1>7, <1>8, <1>9 DEF f

LEMMA PopLemma ==
  ASSUME TypeOK, NEW t \in Threads, stack[t] # <<>>, Pop(t)
  PROVE  /\ stack' \in [Threads -> Seq(Frames)]
         /\ \A u \in Threads \ {t} : stack'[u] = stack[u]
         /\ Len(stack[t]) \in Nat \ {0}
         /\ Len(stack'[t]) = Len(stack[t]) - 1
         /\ DOMAIN stack[t] = 1 .. Len(stack[t])
         /\ DOMAIN stack'[t] = 1 .. Len(stack[t]) - 1
         /\ stack'[t] = Front(stack[t])
         /\ \A i \in DOMAIN stack'[t] : stack'[t][i] = stack[t][i]
<1>1. stack \in [Threads -> Seq(Frames)] /\ stack[t] \in Seq(Frames)
  BY DEF TypeOK
<1>2. stack' = [stack EXCEPT ![t] = Front(stack[t])] /\ stack'[t] = Front(stack[t])
  BY <1>1 DEF Pop
<1>3. /\ Len(stack[t]) \in Nat \ {0}
      /\ stack'[t] \in Seq(Frames)
      /\ DOMAIN stack'[t] = 1 .. Len(stack[t]) - 1
      /\ Len(stack'[t]) = Len(stack[t]) - 1
      /\ \A i \in 1 .. Len(stack[t]) - 1 : stack'[t][i] = stack[t][i]
  BY <1>1, <1>2, FrontLemma
<1>4. DOMAIN stack[t] = 1 .. Len(stack[t])
  BY <1>1
<1>5. stack' \in [Threads -> Seq(Frames)] /\ \A u \in Threads \ {t} : stack'[u] = stack[u]
  BY <1>1, <1>2, <1>3
<1> QED
  BY <1>2, <1>3, <1>4, <1>5

-----------------------------------------------------------------------------
(* Type correctness.                                                       *)

LEMMA InitTypeOK == Init => TypeOK
<1>1. <<>> \in Seq(Frames)
  BY EmptySeq
<1>2. Given \subseteq Objects
  BY DEF Given, Objects, Kinds
<1> QED
  BY <1>1, <1>2 DEF Init, TypeOK

LEMMA ThreadTypeOK ==
  ASSUME TypeOK, NEW t \in Threads, ThreadStep(t)
  PROVE  TypeOK'
<1> USE DEF heap, cleaner
<1>1. ASSUME NEW s \in Sockets, CreateCall(t, s) PROVE TypeOK'
  <2>1. stack' \in [Threads -> Seq(Frames)]
    BY <1>1, PushLemma DEF CreateCall, Places, Creating
  <2> QED
    BY <1>1, <2>1 DEF CreateCall, TypeOK
<1>2. ASSUME NEW s \in Sockets, Call(t, s) PROVE TypeOK'
  <2>1. stack' \in [Threads -> Seq(Frames)]
    BY <1>2, PushLemma DEF Call, Places
  <2> QED
    BY <1>2, <2>1 DEF Call, TypeOK
<1>3. ASSUME NEW k, NEW p \in Places, stack[t] # <<>>, Invoke(t, k, p)
      PROVE  TypeOK'
  <2>1. stack' \in [Threads -> Seq(Frames)]
    BY <1>3, MoveLemma DEF Invoke, TypeOK
  <2> QED
    BY <1>3, <2>1 DEF Invoke, TypeOK
<1>4. CASE CreateQuery(t)
  BY <1>3, <1>4 DEF CreateQuery, In, Places, Creating
<1>5. CASE CreateQueryReturn(t)
  <2>1. stack' \in [Threads -> Seq(Frames)] /\ Top(t) \in Sockets
    BY <1>5, MoveLemma, TopLemma DEF CreateQueryReturn, In, Places, Creating
  <2>2. alive' \subseteq Objects /\ appRefs' \subseteq Objects /\ globals' \subseteq Sockets
    BY <1>5, <2>1 DEF CreateQueryReturn, TypeOK, Objects, Kinds
  <2> QED
    BY <1>5, <2>1, <2>2 DEF CreateQueryReturn, TypeOK
<1>6. CASE CreateReturn(t)
  <2>1. stack' \in [Threads -> Seq(Frames)] /\ Top(t) \in Sockets
    BY <1>6, PopLemma, TopLemma DEF CreateReturn, In
  <2>2. /\ alive' \subseteq Objects /\ appRefs' \subseteq Objects
        /\ registered' \subseteq Sockets
        /\ native' \in [Sockets -> {"none", "building", "live", "deleting", "deleted"}]
    BY <1>6, <2>1 DEF CreateReturn, TypeOK, Objects, Kinds
  <2> QED
    BY <1>6, <2>1, <2>2 DEF CreateReturn, TypeOK
<1>7. CASE Enter(t)
  <2>1. stack' \in [Threads -> Seq(Frames)]
    BY <1>7, MoveLemma DEF Enter, In, Places, Monitored
  <2> QED
    BY <1>7, <2>1 DEF Enter, TypeOK
<1>8. CASE Notify(t)
  BY <1>3, <1>8 DEF Notify, In, Places, Monitored
<1>9. ASSUME NEW k \in {"callbacks", "observer", "timeout"}, Query(t, k)
      PROVE  TypeOK'
  BY <1>3, <1>9 DEF Query, In, Places, Monitored
<1>10. CASE CallbackReturn(t)
  <2>1. stack' \in [Threads -> Seq(Frames)]
    BY <1>10, MoveLemma DEF CallbackReturn, In, Places, Monitored
  <2> QED
    BY <1>10, <2>1 DEF CallbackReturn, TypeOK
<1>11. CASE Return(t)
  <2>1. stack' \in [Threads -> Seq(Frames)]
    BY <1>11, PopLemma DEF Return, In
  <2> QED
    BY <1>11, <2>1 DEF Return, TypeOK
<1> QED
  BY <1>1, <1>2, <1>4, <1>5, <1>6, <1>7, <1>8, <1>9, <1>10, <1>11 DEF ThreadStep

LEMMA SocketTypeOK ==
  ASSUME TypeOK, NEW s \in Sockets, SocketStep(s)
  PROVE  TypeOK'
<1> USE DEF heap, cleaner, TypeOK
<1>1. ASSUME NEW k \in Kinds, Forget(k, s) PROVE TypeOK'
  BY <1>1 DEF Forget
<1>2. ASSUME NEW k \in Kinds, Collect(k, s) PROVE TypeOK'
  BY <1>2 DEF Collect
<1>3. CASE Link(s)
  BY <1>3 DEF Link
<1>4. CASE Unlink(s)
  BY <1>4 DEF Unlink
<1>5. CASE CleanerBegin(s)
  BY <1>5 DEF CleanerBegin
<1>6. CASE CleanerEnd(s)
  BY <1>6 DEF CleanerEnd
<1> QED
  BY <1>1, <1>2, <1>3, <1>4, <1>5, <1>6 DEF SocketStep

LEMMA NextTypeOK == TypeOK /\ [Next]_vars => TypeOK'
<1> SUFFICES ASSUME TypeOK, [Next]_vars PROVE TypeOK'
  OBVIOUS
<1>1. CASE UNCHANGED vars
  BY <1>1 DEF vars, TypeOK
<1>2. CASE Next
  BY <1>2, ThreadTypeOK, SocketTypeOK DEF Next
<1> QED
  BY <1>1, <1>2

(* Every variable keeps its type, the stacks being stacks of frames.       *)
THEOREM TypeCorrect == Spec => []TypeOK
BY InitTypeOK, NextTypeOK, PTL DEF Spec

-----------------------------------------------------------------------------
(* Reachability.                                                           *)

(* Reachability is closed: a step that only pins what was reachable, and   *)
(* links only sockets that were reachable, makes nothing reachable -- but  *)
(* a timeout, whose wrapper was in use, may be new.                        *)
LEMMA ClosureLemma ==
  ASSUME NEW s \in Sockets,
         \A k \in Kinds : Pinned(k, s)' =>
           ReachableKind(k, s) \/ (k = "timeout" /\ BoxRooted(s)),
         linked'[s] => linked[s] \/ SocketReachable(s)
  PROVE  \A k \in Kinds : ReachableKind(k, s)' =>
           ReachableKind(k, s) \/ (k = "timeout" /\ Pinned(k, s)')
<1>1. BoxRooted(s)' => BoxRooted(s) \/ SocketReachable(s)
  BY DEF BoxRooted, ReachableKind, HeldBySocket, Kinds
<1>2. SocketReachable(s)' => SocketReachable(s)
  <2>1. Pinned("socket", s)' => SocketReachable(s)
    BY DEF ReachableKind, SocketReachable, Kinds
  <2>2. linked'[s] /\ BoxRooted(s)' => SocketReachable(s)
    BY <1>1 DEF SocketReachable
  <2> QED
    BY <2>1, <2>2 DEF SocketReachable
<1>3. ASSUME NEW k \in Kinds, ReachableKind(k, s)'
      PROVE  ReachableKind(k, s) \/ (k = "timeout" /\ Pinned(k, s)')
  <2>1. CASE Pinned(k, s)'
    BY <2>1
  <2>2. CASE k = "box" /\ BoxRooted(s)'
    BY <1>1, <2>2 DEF ReachableKind, HeldBySocket
  <2>3. CASE k \in HeldBySocket \cup {"socket"} /\ SocketReachable(s)'
    BY <1>2, <2>3 DEF ReachableKind, HeldBySocket
  <2> QED
    BY <1>3, <2>1, <2>2, <2>3 DEF ReachableKind, HeldBySocket
<1> QED
  BY <1>3

(* What the frames pin after each kind of change of a stack.               *)
LEMMA PushPins ==
  ASSUME TypeOK, NEW t \in Threads, NEW s \in Sockets, NEW p \in Places,
         Push(t, s, p), NEW k, NEW r, PinnedByFrame(k, r)'
  PROVE  PinnedByFrame(k, r) \/ (r = s /\ k \in Locals([sock |-> s, at |-> p]))
<1>0. PICK u \in Threads : \E i \in DOMAIN stack'[u] :
        stack'[u][i].sock = r /\ k \in Locals(stack'[u][i])
  BY DEF PinnedByFrame, Locals
<1>1. PICK i \in DOMAIN stack'[u] :
        stack'[u][i].sock = r /\ k \in Locals(stack'[u][i])
  BY <1>0
<1>2. CASE u # t
  BY <1>1, <1>2, PushLemma DEF PinnedByFrame
<1>3. CASE u = t /\ i \in DOMAIN stack[t]
  BY <1>1, <1>3, PushLemma DEF PinnedByFrame
<1>4. CASE u = t /\ i \notin DOMAIN stack[t]
  <2>1. stack[t] \in Seq(Frames)
    BY DEF TypeOK
  <2>2. i = Len(stack[t]) + 1
    <3>1. Len(stack[t]) \in Nat
      BY <2>1
    <3>2. i \in 1 .. Len(stack[t]) + 1 /\ i \notin 1 .. Len(stack[t])
      BY <1>4, PushLemma
    <3> QED
      BY <3>1, <3>2
  <2>3. stack'[t][i] = [sock |-> s, at |-> p]
    BY <2>2, PushLemma
  <2> QED
    BY <1>1, <1>4, <2>3
<1> QED
  BY <1>2, <1>3, <1>4

LEMMA MovePins ==
  ASSUME TypeOK, NEW t \in Threads, stack[t] # <<>>, NEW p \in Places,
         Move(t, p), p \in Creating <=> Last(stack[t]).at \in Creating,
         NEW k, NEW r, PinnedByFrame(k, r)'
  PROVE  PinnedByFrame(k, r)
<1>0. PICK u \in Threads : \E i \in DOMAIN stack'[u] :
        stack'[u][i].sock = r /\ k \in Locals(stack'[u][i])
  BY DEF PinnedByFrame, Locals
<1>1. PICK i \in DOMAIN stack'[u] :
        stack'[u][i].sock = r /\ k \in Locals(stack'[u][i])
  BY <1>0
<1>2. CASE u # t \/ i # Len(stack[t])
  <2>1. i \in DOMAIN stack[u] /\ stack'[u][i] = stack[u][i]
    BY <1>1, <1>2, MoveLemma
  <2> QED
    BY <1>1, <2>1 DEF PinnedByFrame
<1>3. CASE u = t /\ i = Len(stack[t])
  <2>1. stack'[t][i] = [sock |-> Top(t), at |-> p]
    BY <1>3, MoveLemma
  <2>2. r = Top(t) /\ k \in Locals(stack[t][i])
    BY <1>1, <1>3, <2>1, TopLemma DEF Locals
  <2>3. stack[t][i].sock = r /\ i \in DOMAIN stack[t]
    BY <1>3, <2>2, TopLemma
  <2> QED
    BY <2>2, <2>3 DEF PinnedByFrame
<1> QED
  BY <1>2, <1>3

LEMMA PopPins ==
  ASSUME TypeOK, NEW t \in Threads, stack[t] # <<>>, Pop(t),
         NEW k, NEW r, PinnedByFrame(k, r)'
  PROVE  PinnedByFrame(k, r)
<1>0. PICK u \in Threads : \E i \in DOMAIN stack'[u] :
        stack'[u][i].sock = r /\ k \in Locals(stack'[u][i])
  BY DEF PinnedByFrame, Locals
<1>1. PICK i \in DOMAIN stack'[u] :
        stack'[u][i].sock = r /\ k \in Locals(stack'[u][i])
  BY <1>0
<1>2. i \in DOMAIN stack[u] /\ stack'[u][i] = stack[u][i]
  BY <1>1, PopLemma
<1> QED
  BY <1>1, <1>2 DEF PinnedByFrame

(* A frame pins what its code has in hand.                                 *)
LEMMA FramePins ==
  ASSUME NEW t \in Threads, NEW i \in DOMAIN stack[t], NEW k \in Kinds,
         k \in Locals(stack[t][i])
  PROVE  ReachableKind(k, stack[t][i].sock)
BY DEF ReachableKind, Pinned, PinnedByFrame

-----------------------------------------------------------------------------
(* Which sockets a thread has frames for, after each change of its stack.  *)

LEMMA OccupiesOthers ==
  ASSUME NEW u, stack'[u] = stack[u], NEW r, NEW W
  PROVE  Occupies(u, r, W)' <=> Occupies(u, r, W)
BY DEF Occupies

LEMMA PushOccupies ==
  ASSUME TypeOK, NEW t \in Threads, NEW s \in Sockets, NEW p \in Places,
         Push(t, s, p), NEW r, NEW W
  PROVE  Occupies(t, r, W)' <=> Occupies(t, r, W) \/ (r = s /\ p \in W)
<1> DEFINE n == Len(stack[t])
<1>0. n \in Nat
  BY DEF TypeOK
<1>1. DOMAIN stack[t] = 1 .. n /\ DOMAIN stack'[t] = 1 .. n + 1
  BY PushLemma
<1>2. \A i \in DOMAIN stack[t] : stack'[t][i] = stack[t][i]
  BY PushLemma
<1>3. stack'[t][n + 1] = [sock |-> s, at |-> p]
  BY PushLemma
<1> HIDE DEF n
<1>4. /\ DOMAIN stack'[t] = DOMAIN stack[t] \cup {n + 1}
      /\ n + 1 \notin DOMAIN stack[t]
  BY <1>0, <1>1
<1> QED
  BY <1>2, <1>3, <1>4 DEF Occupies

LEMMA MoveOccupies ==
  ASSUME TypeOK, NEW t \in Threads, stack[t] # <<>>, NEW p \in Places,
         Move(t, p), NEW r, NEW W, Last(stack[t]).at \in W => p \in W
  PROVE  Occupies(t, r, W)' <=> Occupies(t, r, W) \/ (r = Top(t) /\ p \in W)
<1> DEFINE n == Len(stack[t])
<1>1. /\ n \in DOMAIN stack[t]
      /\ stack[t][n].sock = Top(t)
      /\ stack[t][n].at = Last(stack[t]).at
  BY TopLemma
<1>2. DOMAIN stack'[t] = DOMAIN stack[t] /\ stack'[t][n] = [sock |-> Top(t), at |-> p]
  BY MoveLemma
<1>3. \A i \in DOMAIN stack[t] : i # n => stack'[t][i] = stack[t][i]
  BY MoveLemma
<1> HIDE DEF n
<1>4. ASSUME Occupies(t, r, W)' PROVE Occupies(t, r, W) \/ (r = Top(t) /\ p \in W)
  BY <1>2, <1>3, <1>4 DEF Occupies
<1>5. ASSUME Occupies(t, r, W) PROVE Occupies(t, r, W)'
  <2>1. PICK i \in DOMAIN stack[t] : stack[t][i].sock = r /\ stack[t][i].at \in W
    BY <1>5 DEF Occupies
  <2>2. stack'[t][i].sock = r /\ stack'[t][i].at \in W
    BY <1>1, <1>2, <1>3, <2>1
  <2> QED
    BY <1>2, <2>1, <2>2 DEF Occupies
<1>6. ASSUME r = Top(t), p \in W PROVE Occupies(t, r, W)'
  BY <1>1, <1>2, <1>6 DEF Occupies
<1> QED
  BY <1>4, <1>5, <1>6

LEMMA PopOccupies ==
  ASSUME TypeOK, NEW t \in Threads, stack[t] # <<>>, Pop(t), NEW r, NEW W
  PROVE  /\ Occupies(t, r, W)' => Occupies(t, r, W)
         /\ Occupies(t, r, W) =>
              Occupies(t, r, W)' \/ (r = Top(t) /\ Last(stack[t]).at \in W)
         /\ HoldsBelow(t, r) <=> Occupies(t, r, Monitored)'
<1>1. Occupies(t, r, W)' => Occupies(t, r, W)
  <2>1. \A i \in DOMAIN stack'[t] : i \in DOMAIN stack[t] /\ stack'[t][i] = stack[t][i]
    BY PopLemma
  <2> QED
    BY <2>1 DEF Occupies
<1>2. ASSUME Occupies(t, r, W)
      PROVE  Occupies(t, r, W)' \/ (r = Top(t) /\ Last(stack[t]).at \in W)
  <2>1. PICK i \in DOMAIN stack[t] : stack[t][i].sock = r /\ stack[t][i].at \in W
    BY <1>2 DEF Occupies
  <2>2. CASE i = Len(stack[t])
    BY <2>1, <2>2, TopLemma
  <2>3. CASE i # Len(stack[t])
    <3>1. i \in DOMAIN stack'[t]
      BY <2>3, PopLemma
    <3> QED
      BY <2>1, <3>1, PopLemma DEF Occupies
  <2> QED
    BY <2>2, <2>3
<1>3. HoldsBelow(t, r) <=> Occupies(t, r, Monitored)'
  BY PopLemma DEF HoldsBelow, Occupies
<1> QED
  BY <1>1, <1>2, <1>3

LEMMA MoveSameOccupies ==
  ASSUME TypeOK, NEW t \in Threads, stack[t] # <<>>, NEW p \in Places,
         Move(t, p), NEW u \in Threads, NEW r, NEW W,
         p \in W <=> Last(stack[t]).at \in W
  PROVE  Occupies(u, r, W)' <=> Occupies(u, r, W)
<1>1. CASE u # t
  BY <1>1, MoveLemma, OccupiesOthers
<1>2. CASE u = t
  <2>1. Occupies(t, r, W)' <=> Occupies(t, r, W) \/ (r = Top(t) /\ p \in W)
    BY MoveOccupies
  <2>2. p \in W => Occupies(t, Top(t), W)
    BY TopLemma DEF Occupies
  <2> QED
    BY <1>2, <2>1, <2>2
<1> QED
  BY <1>1, <1>2

(* Calls stay nested in notifications.                                     *)
LEMMA PushNests ==
  ASSUME TypeOK, CallsNestInNotifications, NEW t \in Threads,
         NEW s \in Sockets, NEW p \in Places, Push(t, s, p),
         stack[t] = <<>> \/ In(t, {"on"})
  PROVE  CallsNestInNotifications'
<1> DEFINE n == Len(stack[t])
<1>0. n \in Nat
  BY DEF TypeOK
<1>1. /\ DOMAIN stack[t] = 1 .. n
      /\ DOMAIN stack'[t] = 1 .. n + 1
      /\ Len(stack'[t]) = n + 1
      /\ \A i \in DOMAIN stack[t] : stack'[t][i] = stack[t][i]
      /\ \A u \in Threads \ {t} : stack'[u] = stack[u]
  BY PushLemma
<1>2. n # 0 => stack[t][n].at = "on"
  BY TopLemma DEF In
<1>3. \A i \in 1 .. n : i < n => stack[t][i].at = "on"
  BY <1>1 DEF CallsNestInNotifications
<1> HIDE DEF n
<1>4. ASSUME NEW i \in 1 .. n + 1, i < n + 1 PROVE stack'[t][i].at = "on"
  <2>1. i \in 1 .. n
    BY <1>0, <1>4
  <2> QED
    BY <1>0, <1>1, <1>2, <1>3, <2>1
<1> QED
  BY <1>1, <1>4 DEF CallsNestInNotifications

LEMMA MoveNests ==
  ASSUME TypeOK, CallsNestInNotifications, NEW t \in Threads,
         stack[t] # <<>>, NEW p \in Places, Move(t, p)
  PROVE  CallsNestInNotifications'
<1>1. \A u \in Threads \ {t} : stack'[u] = stack[u]
  BY MoveLemma
<1>2. /\ DOMAIN stack'[t] = DOMAIN stack[t]
      /\ Len(stack'[t]) = Len(stack[t])
      /\ \A i \in DOMAIN stack[t] \ {Len(stack[t])} : stack'[t][i] = stack[t][i]
  BY MoveLemma
<1>3. ASSUME NEW i \in DOMAIN stack'[t], i < Len(stack'[t])
      PROVE  stack'[t][i].at = "on"
  <2>0. Len(stack[t]) \in Nat
    BY DEF TypeOK
  <2>1. i # Len(stack[t])
    BY <1>2, <1>3, <2>0
  <2> QED
    BY <1>2, <1>3, <2>1 DEF CallsNestInNotifications
<1> QED
  BY <1>1, <1>3 DEF CallsNestInNotifications

LEMMA PopNests ==
  ASSUME TypeOK, CallsNestInNotifications, NEW t \in Threads,
         stack[t] # <<>>, Pop(t)
  PROVE  CallsNestInNotifications'
<1>1. \A u \in Threads \ {t} : stack'[u] = stack[u]
  BY PopLemma
<1>2. ASSUME NEW i \in DOMAIN stack'[t], i < Len(stack'[t])
      PROVE  stack'[t][i].at = "on"
  <2>1. i \in DOMAIN stack[t] /\ i < Len(stack[t]) /\ stack'[t][i] = stack[t][i]
    BY <1>2, PopLemma
  <2> QED
    BY <2>1 DEF CallsNestInNotifications
<1> QED
  BY <1>1, <1>2 DEF CallsNestInNotifications

-----------------------------------------------------------------------------
(* The inductive invariant.                                                *)

(* A thread that waits for a socket's method or is inside one keeps the    *)
(* Java object, hence the native one and its timeouts' references.         *)
LEMMA LiveFrames ==
  ASSUME IInv, NEW t \in Threads, NEW i \in DOMAIN stack[t],
         stack[t][i].at \notin Creating
  PROVE  LET s == stack[t][i].sock IN
         /\ s \in Sockets
         /\ <<"socket", s>> \in alive
         /\ native[s] = "live"
         /\ s \in globals
<1> DEFINE s == stack[t][i].sock
<1>1. s \in Sockets
  <2>1. stack[t] \in Seq(Frames)
    BY DEF IInv, TypeOK
  <2>2. stack[t][i] \in Frames
    BY <2>1
  <2> QED
    BY <2>2 DEF Frames
<1>2. ReachableKind("socket", s)
  BY FramePins DEF Locals, Kinds
<1>3. <<"socket", s>> \in Objects
  BY <1>1 DEF Objects, Kinds
<1>4. <<"socket", s>> \in Reachable
  BY <1>2, <1>3 DEF Reachable
<1>5. <<"socket", s>> \in alive
  BY <1>4 DEF IInv, HeapIsSound
<1> QED
  BY <1>1, <1>5 DEF IInv, WrapperInsideNativeLife

(* The same, for a thread that occupies a socket outside its creation.     *)
LEMMA LiveOccupied ==
  ASSUME IInv, NEW t \in Threads, NEW s, NEW W, W \cap Creating = {},
         Occupies(t, s, W)
  PROVE  s \in Sockets /\ <<"socket", s>> \in alive /\ native[s] = "live" /\ s \in globals
<1>1. PICK i \in DOMAIN stack[t] : stack[t][i].sock = s /\ stack[t][i].at \in W
  BY DEF Occupies
<1> QED
  BY <1>1, LiveFrames

(* A step that collects nothing and only pins what was reachable.          *)
LEMMA QuietHeap ==
  ASSUME IInv, alive' = alive,
         \A s \in Sockets, k \in Kinds : Pinned(k, s)' => ReachableKind(k, s),
         \A s \in Sockets : linked'[s] => linked[s] \/ SocketReachable(s)
  PROVE  HeapIsSound'
<1>1. ASSUME NEW s \in Sockets, NEW k \in Kinds, ReachableKind(k, s)'
      PROVE  ReachableKind(k, s)
  <2>1. ReachableKind(k, s) \/ (k = "timeout" /\ Pinned(k, s)')
    BY <1>1, ClosureLemma
  <2> QED
    BY <2>1
<1>2. Reachable' \subseteq Reachable
  BY <1>1 DEF Reachable, Objects
<1> QED
  BY <1>2 DEF IInv, HeapIsSound

LEMMA ReachableIsAlive ==
  ASSUME IInv, NEW s \in Sockets, NEW k \in Kinds, ReachableKind(k, s)
  PROVE  <<k, s>> \in alive
<1>1. <<k, s>> \in Objects
  BY DEF Objects
<1>2. <<k, s>> \in Reachable
  BY <1>1 DEF Reachable
<1> QED
  BY <1>2 DEF IInv, HeapIsSound

(* IInv is TypeOK and Core.                                                *)
Core ==
  /\ CreationIsExclusive
  /\ CallsNestInNotifications
  /\ MonitorsMatchFrames
  /\ HeapIsSound
  /\ WrapperInsideNativeLife
  /\ ReferencesResolve

LEMMA InitIInv == Init => IInv
<1> SUFFICES ASSUME Init PROVE IInv
  OBVIOUS
<1>1. TypeOK
  BY InitTypeOK
<1>2. \A t \in Threads : stack[t] = <<>> /\ DOMAIN stack[t] = {}
  BY DEF Init
<1>3. CreationIsExclusive /\ CallsNestInNotifications
  BY <1>2 DEF CreationIsExclusive, CallsNestInNotifications, Occupies
<1>4. MonitorsMatchFrames
  BY <1>2, ThreadsAssumption DEF MonitorsMatchFrames, Inside, Occupies, Init
<1>5. HeapIsSound
  <2>1. \A s \in Sockets, k \in Kinds : Pinned(k, s) => k \in {"callbacks", "observer", "box"}
    BY <1>2 DEF Init, Given, Pinned, PinnedByFrame, PinnedByNative
  <2>2. \A s \in Sockets : ~SocketReachable(s)
    BY <2>1 DEF SocketReachable, Init, Kinds
  <2>3. \A s \in Sockets, k \in Kinds :
          ReachableKind(k, s) => k \in {"callbacks", "observer", "box"}
    BY <2>1, <2>2 DEF ReachableKind
  <2> QED
    BY <2>3 DEF HeapIsSound, Reachable, Objects, Given, Init
<1>6. WrapperInsideNativeLife /\ ReferencesResolve
  BY DEF WrapperInsideNativeLife, ReferencesResolve, Init, Given
<1> QED
  BY <1>1, <1>3, <1>4, <1>5, <1>6 DEF IInv

(* A callback starts or ends: the frame stays with its socket and keeps    *)
(* the monitor, or stays a frame of create().                              *)
LEMMA MoveStep ==
  ASSUME IInv, NEW t \in Threads, stack[t] # <<>>, NEW p \in Places, Move(t, p),
         p \in Monitored <=> Last(stack[t]).at \in Monitored,
         p \in Creating <=> Last(stack[t]).at \in Creating,
         UNCHANGED <<owner, native, heap, cleaner, aborted>>
  PROVE  Core'
<1>0. TypeOK
  BY DEF IInv
<1>1. \A u \in Threads, r \in Sockets :
        /\ Occupies(u, r, Monitored)' <=> Occupies(u, r, Monitored)
        /\ Occupies(u, r, Creating)' <=> Occupies(u, r, Creating)
  BY <1>0, MoveSameOccupies
<1>2. \A u \in Threads : Len(stack'[u]) = Len(stack[u])
  BY <1>0, MoveLemma
<1>3. CreationIsExclusive'
  BY <1>1, <1>2 DEF CreationIsExclusive, IInv
<1>4. CallsNestInNotifications'
  BY <1>0, MoveNests DEF IInv
<1>5. MonitorsMatchFrames'
  BY <1>1 DEF MonitorsMatchFrames, Inside, IInv
<1>6. HeapIsSound'
  <2>1. \A s \in Sockets, k \in Kinds : PinnedByFrame(k, s)' => PinnedByFrame(k, s)
    BY <1>0, MovePins
  <2>2. \A s \in Sockets, k \in Kinds : Pinned(k, s)' => ReachableKind(k, s)
    BY <2>1 DEF Pinned, PinnedByNative, ReachableKind, heap
  <2> QED
    BY <2>2, QuietHeap DEF heap
<1>7. WrapperInsideNativeLife' /\ ReferencesResolve'
  BY DEF WrapperInsideNativeLife, ReferencesResolve, IInv, heap, cleaner
<1> QED
  BY <1>3, <1>4, <1>5, <1>6, <1>7 DEF Core

(* Native code finds the Java object it calls.                             *)
LEMMA InvokeStep ==
  ASSUME IInv, NEW t \in Threads, NEW k \in Kinds, NEW p \in Places,
         stack[t] # <<>>, Invoke(t, k, p), ReachableKind(k, Top(t)),
         p \in Monitored <=> Last(stack[t]).at \in Monitored,
         p \in Creating <=> Last(stack[t]).at \in Creating
  PROVE  Core'
<1>1. Top(t) \in Sockets
  BY TopLemma DEF IInv
<1>2. <<k, Top(t)>> \in alive
  BY <1>1, ReachableIsAlive
<1> QED
  BY <1>2, MoveStep DEF Invoke

(* A thread whose innermost frame is no frame of create() has none.        *)
LEMMA NotCreating ==
  ASSUME IInv, NEW t \in Threads,
         stack[t] = <<>> \/ Last(stack[t]).at \notin Creating, NEW r \in Sockets
  PROVE  ~Occupies(t, r, Creating)
<1>1. SUFFICES ASSUME NEW i \in DOMAIN stack[t],
                      stack[t][i].sock = r, stack[t][i].at \in Creating
               PROVE  FALSE
  BY DEF Occupies
<1>2. Occupies(t, r, Creating)
  BY <1>1 DEF Occupies
<1>3. Len(stack[t]) = 1
  BY <1>2 DEF IInv, CreationIsExclusive
<1>4. stack[t] \in Seq(Frames)
  BY DEF IInv, TypeOK
<1>5. i = Len(stack[t]) /\ stack[t] # <<>>
  BY <1>3, <1>4
<1>6. TypeOK
  BY DEF IInv
<1>7. Last(stack[t]).at \in Creating
  BY <1>1, <1>5, <1>6, TopLemma
<1> QED
  BY <1>5, <1>7

LEMMA CallStep ==
  ASSUME IInv, NEW t \in Threads, NEW s \in Sockets, Call(t, s)
  PROVE  Core'
<1>0. TypeOK /\ Push(t, s, "wait") /\ "wait" \in Places
  BY DEF IInv, Call, Places
<1>1. \A u \in Threads, r \in Sockets :
        /\ Occupies(u, r, Monitored)' <=> Occupies(u, r, Monitored)
        /\ Occupies(u, r, Creating)' <=> Occupies(u, r, Creating)
  <2>1. \A r \in Sockets :
        /\ Occupies(t, r, Monitored)' <=> Occupies(t, r, Monitored)
        /\ Occupies(t, r, Creating)' <=> Occupies(t, r, Creating)
    BY <1>0, PushOccupies DEF Monitored, Creating
  <2>2. \A u \in Threads \ {t} : stack'[u] = stack[u]
    BY <1>0, PushLemma
  <2> QED
    BY <2>1, <2>2, OccupiesOthers
<1>2. \A r \in Sockets : ~Occupies(t, r, Creating)
  <2>1. stack[t] = <<>> \/ Last(stack[t]).at \notin Creating
    BY DEF Call, InAppCode, In, Creating
  <2> QED
    BY <2>1, NotCreating
<1>3. CreationIsExclusive'
  <2>1. \A u \in Threads \ {t} : Len(stack'[u]) = Len(stack[u])
    BY <1>0, PushLemma
  <2> QED
    BY <1>1, <1>2, <2>1 DEF CreationIsExclusive, IInv, Call
<1>4. CallsNestInNotifications'
  BY <1>0, PushNests DEF IInv, Call, InAppCode
<1>5. MonitorsMatchFrames'
  BY <1>1 DEF MonitorsMatchFrames, Inside, IInv, Call
<1>6. HeapIsSound'
  <2>1. ReachableKind("socket", s)
    BY DEF Call, CanName, ReachableKind, SocketReachable, Pinned
  <2>2. \A r \in Sockets, k \in Kinds :
          PinnedByFrame(k, r)' => PinnedByFrame(k, r) \/ (r = s /\ k = "socket")
    BY <1>0, PushPins DEF Locals, Creating
  <2>3. \A r \in Sockets, k \in Kinds : Pinned(k, r)' => ReachableKind(k, r)
    BY <2>1, <2>2 DEF Pinned, PinnedByNative, ReachableKind, Call, heap
  <2> QED
    BY <2>3, QuietHeap DEF Call, heap
<1>7. WrapperInsideNativeLife' /\ ReferencesResolve'
  BY DEF WrapperInsideNativeLife, ReferencesResolve, IInv, heap, cleaner, Call
<1> QED
  BY <1>3, <1>4, <1>5, <1>6, <1>7 DEF Core

LEMMA CreateCallStep ==
  ASSUME IInv, NEW t \in Threads, NEW s \in Sockets, CreateCall(t, s)
  PROVE  Core'
<1>0. /\ TypeOK /\ Push(t, s, "create") /\ "create" \in Places
      /\ stack[t] = <<>> /\ native[s] = "none"
  BY DEF IInv, CreateCall, Places, Creating
<1>1. \A r \in Sockets :
        /\ Occupies(t, r, Monitored)' <=> Occupies(t, r, Monitored)
        /\ Occupies(t, r, Creating)' <=> r = s
  <2>1. \A r : ~Occupies(t, r, Creating)
    BY <1>0 DEF Occupies
  <2> QED
    BY <1>0, <2>1, PushOccupies DEF Monitored, Creating
<1>2. \A u \in Threads \ {t}, r \in Sockets :
        /\ stack'[u] = stack[u]
        /\ Occupies(u, r, Monitored)' <=> Occupies(u, r, Monitored)
        /\ Occupies(u, r, Creating)' <=> Occupies(u, r, Creating)
  BY <1>0, PushLemma, OccupiesOthers
<1>3. \A u \in Threads : ~Occupies(u, s, Creating)
  BY <1>0 DEF IInv, CreationIsExclusive
<1>4. CreationIsExclusive'
  <2>1. Len(stack'[t]) = 1
    <3>1. Len(stack'[t]) = Len(stack[t]) + 1
      BY <1>0, PushLemma
    <3> QED
      BY <1>0, <3>1
  <2>2. native' = [native EXCEPT ![s] = "building"] /\ native'[s] = "building"
    BY <1>0 DEF CreateCall, TypeOK
  <2>3. \A r \in Sockets : r # s => native'[r] = native[r]
    BY <1>0, <2>2 DEF TypeOK
  <2>4. ASSUME NEW r \in Sockets, NEW u \in Threads, Occupies(u, r, Creating)'
        PROVE  /\ native'[r] = "building"
               /\ Len(stack'[u]) = 1
               /\ \A v \in Threads : Occupies(v, r, Creating)' => u = v
    <3>1. CASE r = s
      BY <1>1, <1>2, <1>3, <2>1, <2>2, <2>4, <3>1
    <3>2. CASE r # s
      BY <1>1, <1>2, <2>3, <2>4, <3>2 DEF IInv, CreationIsExclusive
    <3> QED
      BY <3>1, <3>2
  <2> QED
    BY <2>4 DEF CreationIsExclusive
<1>5. CallsNestInNotifications'
  BY <1>0, PushNests DEF IInv
<1>6. MonitorsMatchFrames'
  BY <1>1, <1>2 DEF MonitorsMatchFrames, Inside, IInv, CreateCall
<1>7. HeapIsSound'
  <2>1. \A r \in Sockets, k \in Kinds :
          PinnedByFrame(k, r)' =>
            PinnedByFrame(k, r) \/ (r = s /\ k \in {"callbacks", "observer"})
    BY <1>0, PushPins DEF Locals, Creating
  <2>2. \A r \in Sockets, k \in Kinds : Pinned(k, r)' => ReachableKind(k, r)
    BY <2>1 DEF Pinned, PinnedByNative, ReachableKind, CreateCall, heap
  <2> QED
    BY <2>2, QuietHeap DEF CreateCall, heap
<1>8. WrapperInsideNativeLife'
  <2>1. /\ <<"socket", s>> \notin alive
        /\ s \notin queued
    BY <1>0 DEF IInv, WrapperInsideNativeLife
  <2>2. \A r \in Sockets : native'[r] = IF r = s THEN "building" ELSE native[r]
    BY <1>0 DEF CreateCall, TypeOK
  <2>3. /\ alive' = alive /\ linked' = linked /\ globals' = globals
        /\ registered' = registered /\ queued' = queued
    BY DEF CreateCall, heap, cleaner
  <2>4. ~linked[s] /\ s \notin registered
    BY <2>1 DEF IInv, WrapperInsideNativeLife
  <2>5. ASSUME NEW r \in Sockets
        PROVE  /\ <<"socket", r>> \in alive' => native'[r] = "live"
               /\ linked'[r] \/ r \in registered' => <<"socket", r>> \in alive'
               /\ r \in queued' => native'[r] = "live" /\ <<"socket", r>> \notin alive'
               /\ native'[r] \in {"live", "deleting"} => r \in globals'
    <3>1. CASE r = s
      BY <2>1, <2>2, <2>3, <2>4, <3>1
    <3>2. CASE r # s
      <4>1. native'[r] = native[r]
        BY <2>2, <3>2
      <4> QED
        BY <2>3, <4>1 DEF IInv, WrapperInsideNativeLife
    <3> QED
      BY <3>1, <3>2
  <2> QED
    BY <2>5 DEF WrapperInsideNativeLife
<1>9. ReferencesResolve'
  BY DEF ReferencesResolve, IInv, CreateCall
<1> QED
  BY <1>4, <1>5, <1>6, <1>7, <1>8, <1>9 DEF Core

(* create() has its arguments in hand, and so the box they refer to.       *)
LEMMA CreatingPins ==
  ASSUME IInv, NEW t \in Threads, In(t, Creating)
  PROVE  /\ Top(t) \in Sockets
         /\ Occupies(t, Top(t), Creating)
         /\ native[Top(t)] = "building"
         /\ Len(stack[t]) = 1
         /\ PinnedByFrame("callbacks", Top(t))
         /\ PinnedByFrame("observer", Top(t))
         /\ BoxRooted(Top(t))
<1> DEFINE n == Len(stack[t])
<1>1. /\ n \in DOMAIN stack[t]
      /\ stack[t][n].sock = Top(t)
      /\ stack[t][n].at \in Creating
      /\ Top(t) \in Sockets
  BY TopLemma DEF In, IInv
<1> HIDE DEF n
<1>2. Occupies(t, Top(t), Creating)
  BY <1>1 DEF Occupies
<1>3. PinnedByFrame("callbacks", Top(t)) /\ PinnedByFrame("observer", Top(t))
  BY <1>1 DEF PinnedByFrame, Locals
<1>4. BoxRooted(Top(t))
  BY <1>3 DEF BoxRooted, Pinned
<1>5. native[Top(t)] = "building" /\ Len(stack[t]) = 1
  BY <1>1, <1>2 DEF IInv, CreationIsExclusive
<1> QED
  BY <1>1, <1>2, <1>3, <1>4, <1>5

LEMMA CreateQueryReturnStep ==
  ASSUME IInv, NEW t \in Threads, CreateQueryReturn(t)
  PROVE  Core'
<1> DEFINE s == Top(t)
<1>0. /\ TypeOK /\ stack[t] # <<>> /\ Move(t, "create") /\ "create" \in Places
      /\ In(t, Creating)
  BY DEF IInv, CreateQueryReturn, In, Places, Creating
<1>1. CASE UNCHANGED heap
  BY <1>0, <1>1, MoveStep DEF CreateQueryReturn, In, Creating, Monitored
<1>2. CASE /\ alive' = alive \cup {<<"timeout", s>>}
           /\ appRefs' = appRefs \cup {<<"timeout", s>>}
           /\ globals' = globals \cup {s}
           /\ UNCHANGED linked
  <2>1. \A u \in Threads, r \in Sockets :
          /\ Occupies(u, r, Monitored)' <=> Occupies(u, r, Monitored)
          /\ Occupies(u, r, Creating)' <=> Occupies(u, r, Creating)
    BY <1>0, MoveSameOccupies DEF CreateQueryReturn, In, Creating, Monitored
  <2>2. CreationIsExclusive'
    <3>1. \A u \in Threads : Len(stack'[u]) = Len(stack[u])
      BY <1>0, MoveLemma
    <3> QED
      BY <2>1, <3>1 DEF CreationIsExclusive, IInv, CreateQueryReturn
  <2>3. CallsNestInNotifications'
    BY <1>0, MoveNests DEF IInv
  <2>4. MonitorsMatchFrames'
    BY <2>1 DEF MonitorsMatchFrames, Inside, IInv, CreateQueryReturn
  <2>5. HeapIsSound'
    <3>1. \A r \in Sockets, k \in Kinds : PinnedByFrame(k, r)' => PinnedByFrame(k, r)
      BY <1>0, MovePins DEF CreateQueryReturn, In, Creating
    <3>2. s \in Sockets /\ BoxRooted(s)
      BY <1>0, CreatingPins
    <3>3. ASSUME NEW r \in Sockets, NEW k \in Kinds, Pinned(k, r)'
          PROVE  Pinned(k, r) \/ (k = "timeout" /\ r = s)
      BY <1>2, <3>1, <3>3 DEF Pinned, PinnedByNative
    <3>4. ASSUME NEW r \in Sockets, NEW k \in Kinds, ReachableKind(k, r)'
          PROVE  <<k, r>> \in alive'
      <4>1. \A j \in Kinds : Pinned(j, r)' =>
              ReachableKind(j, r) \/ (j = "timeout" /\ BoxRooted(r))
        BY <3>2, <3>3 DEF ReachableKind
      <4>2. ReachableKind(k, r) \/ (k = "timeout" /\ Pinned(k, r)')
        BY <1>2, <3>4, <4>1, ClosureLemma
      <4>3. ReachableKind(k, r) \/ (k = "timeout" /\ r = s)
        BY <3>3, <4>2 DEF ReachableKind
      <4> QED
        BY <1>2, <4>3, ReachableIsAlive
    <3> QED
      BY <3>4 DEF HeapIsSound, Reachable, Objects
  <2>6. WrapperInsideNativeLife' /\ ReferencesResolve'
    BY <1>2 DEF WrapperInsideNativeLife, ReferencesResolve, IInv, cleaner, CreateQueryReturn
  <2> QED
    BY <2>2, <2>3, <2>4, <2>5, <2>6 DEF Core
<1> QED
  BY <1>1, <1>2 DEF CreateQueryReturn

LEMMA CreateReturnStep ==
  ASSUME IInv, NEW t \in Threads, CreateReturn(t)
  PROVE  Core'
<1> DEFINE s == Top(t)
<1>0. /\ TypeOK /\ stack[t] # <<>> /\ Pop(t)
      /\ In(t, Creating) /\ s \in globals
      /\ Last(stack[t]).at = "create"
  BY DEF IInv, CreateReturn, In, Creating
<1>1. /\ s \in Sockets
      /\ native[s] = "building"
      /\ Len(stack[t]) = 1
      /\ Occupies(t, s, Creating)
      /\ PinnedByFrame("callbacks", s) /\ PinnedByFrame("observer", s)
      /\ BoxRooted(s)
  BY <1>0, CreatingPins
<1>2. stack'[t] \in Seq(Frames) /\ DOMAIN stack'[t] = {}
  <2>1. /\ stack' \in [Threads -> Seq(Frames)]
        /\ DOMAIN stack'[t] = 1 .. Len(stack[t]) - 1
    BY <1>0, PopLemma
  <2> QED
    BY <1>1, <2>1
<1>3. \A r \in Sockets :
        /\ ~Occupies(t, r, Creating)'
        /\ Occupies(t, r, Monitored)' <=> Occupies(t, r, Monitored)
  <2>1. \A r \in Sockets : Occupies(t, r, Monitored) => Occupies(t, r, Monitored)'
    BY <1>0, PopOccupies DEF Monitored
  <2> QED
    BY <1>2, <2>1 DEF Occupies
<1>4. \A u \in Threads \ {t}, r \in Sockets :
        /\ stack'[u] = stack[u]
        /\ Occupies(u, r, Monitored)' <=> Occupies(u, r, Monitored)
        /\ Occupies(u, r, Creating)' <=> Occupies(u, r, Creating)
  BY <1>0, PopLemma, OccupiesOthers
<1>5. \A r \in Sockets : native'[r] = IF r = s THEN "live" ELSE native[r]
  BY <1>0, <1>1 DEF CreateReturn, TypeOK
<1>6. CreationIsExclusive'
  <2>1. \A u \in Threads \ {t} : ~Occupies(u, s, Creating)
    BY <1>1 DEF IInv, CreationIsExclusive
  <2>2. ASSUME NEW r \in Sockets, NEW u \in Threads, Occupies(u, r, Creating)'
        PROVE  /\ native'[r] = "building"
               /\ Len(stack'[u]) = 1
               /\ \A v \in Threads : Occupies(v, r, Creating)' => u = v
    <3>1. u # t /\ Occupies(u, r, Creating) /\ r # s /\ stack'[u] = stack[u]
      BY <1>3, <1>4, <2>1, <2>2
    <3>2. native'[r] = "building" /\ Len(stack'[u]) = 1
      BY <1>5, <3>1 DEF IInv, CreationIsExclusive
    <3>3. ASSUME NEW v \in Threads, Occupies(v, r, Creating)' PROVE u = v
      <4>1. v # t /\ Occupies(v, r, Creating)
        BY <1>3, <1>4, <3>3
      <4> QED
        BY <3>1, <4>1 DEF IInv, CreationIsExclusive
    <3> QED
      BY <3>2, <3>3
  <2> QED
    BY <2>2 DEF CreationIsExclusive
<1>7. CallsNestInNotifications'
  BY <1>0, PopNests DEF IInv
<1>8. MonitorsMatchFrames'
  BY <1>3, <1>4 DEF MonitorsMatchFrames, Inside, IInv, CreateReturn
<1>9. HeapIsSound'
  <2>1. \A r \in Sockets, k \in Kinds : PinnedByFrame(k, r)' => PinnedByFrame(k, r)
    BY <1>0, PopPins
  <2>2. ASSUME NEW r \in Sockets, NEW k \in Kinds, Pinned(k, r)'
        PROVE  Pinned(k, r) \/ (k = "socket" /\ r = s)
    BY <2>1, <2>2 DEF Pinned, PinnedByNative, CreateReturn
  <2>3. ASSUME NEW r \in Sockets, NEW k \in Kinds, ReachableKind(k, r)'
        PROVE  <<k, r>> \in alive'
    <3>1. CASE r # s
      <4>1. ReachableKind(k, r)
        <5>1. \A j \in Kinds : Pinned(j, r)' => ReachableKind(j, r)
          BY <2>2, <3>1 DEF ReachableKind
        <5>2. linked' = linked
          BY DEF CreateReturn
        <5>3. ReachableKind(k, r) \/ (k = "timeout" /\ Pinned(k, r)')
          BY <2>3, <5>1, <5>2, ClosureLemma
        <5> QED
          BY <5>1, <5>3
      <4> QED
        BY <4>1, ReachableIsAlive DEF CreateReturn
    <3>2. CASE r = s /\ k = "socket"
      BY <3>2 DEF CreateReturn
    <3>3. CASE r = s /\ k \in {"callbacks", "observer", "box"}
      <4>1. ReachableKind(k, s)
        BY <1>1, <3>3 DEF ReachableKind, Pinned
      <4> QED
        BY <1>1, <3>3, <4>1, ReachableIsAlive DEF CreateReturn
    <3>4. CASE r = s /\ k = "timeout"
      <4>1. "timeout" \in Kinds /\ Pinned("timeout", r)'
        BY <2>3, <3>4 DEF ReachableKind, HeldBySocket, Kinds
      <4>2. ReachableKind("timeout", r)
        BY <2>2, <4>1 DEF ReachableKind
      <4> QED
        BY <3>4, <4>1, <4>2, ReachableIsAlive DEF CreateReturn
    <3> QED
      BY <3>1, <3>2, <3>3, <3>4 DEF Kinds
  <2> QED
    BY <2>3 DEF HeapIsSound, Reachable, Objects
<1>10. WrapperInsideNativeLife'
  <2>1. <<"socket", s>> \notin alive /\ s \notin queued
    BY <1>1 DEF IInv, WrapperInsideNativeLife
  <2> QED
    BY <1>0, <1>1, <1>5, <2>1 DEF IInv, WrapperInsideNativeLife, CreateReturn
<1>11. ReferencesResolve'
  BY DEF ReferencesResolve, IInv, CreateReturn
<1> QED
  BY <1>6, <1>7, <1>8, <1>9, <1>10, <1>11 DEF Core

(* Waiting ends: the monitor was free, or it is a re-entrant call.         *)
LEMMA EnterStep ==
  ASSUME IInv, NEW t \in Threads, Enter(t)
  PROVE  Core'
<1>0. /\ TypeOK /\ stack[t] # <<>> /\ Move(t, "native") /\ "native" \in Places
      /\ Last(stack[t]).at = "wait"
  BY DEF IInv, Enter, In, Places, Monitored
<1>1. PICK s \in Sockets : s = Top(t)
  BY <1>0, TopLemma
<1>2. \A r \in Sockets :
        Occupies(t, r, Monitored)' <=> Occupies(t, r, Monitored) \/ r = s
  BY <1>0, <1>1, MoveOccupies DEF Monitored
<1>3. \A u \in Threads \ {t}, r \in Sockets :
        Occupies(u, r, Monitored)' <=> Occupies(u, r, Monitored)
  BY <1>0, MoveLemma, OccupiesOthers
<1>4. \A u \in Threads, r \in Sockets :
        Occupies(u, r, Creating)' <=> Occupies(u, r, Creating)
  BY <1>0, MoveSameOccupies DEF Creating
<1>5. CreationIsExclusive'
  <2>1. \A u \in Threads : Len(stack'[u]) = Len(stack[u])
    BY <1>0, MoveLemma
  <2> QED
    BY <1>4, <2>1 DEF CreationIsExclusive, IInv, Enter
<1>6. CallsNestInNotifications'
  BY <1>0, MoveNests DEF IInv
<1>7. MonitorsMatchFrames'
  <2>1. /\ owner[s] \in {NoThread, t}
        /\ \A r \in Sockets : owner'[r] = IF r = s THEN t ELSE owner[r]
    BY <1>0, <1>1 DEF Enter, CanEnter, TypeOK
  <2>2. ASSUME NEW r \in Sockets, NEW u \in Threads
        PROVE  owner'[r] = u <=> Occupies(u, r, Monitored)'
    <3>1. owner[r] = u <=> Occupies(u, r, Monitored)
      BY DEF IInv, MonitorsMatchFrames, Inside
    <3>2. u # NoThread
      BY ThreadsAssumption
    <3> QED
      BY <1>2, <1>3, <2>1, <3>1, <3>2
  <2> QED
    BY <2>2 DEF MonitorsMatchFrames, Inside
<1>8. HeapIsSound'
  <2>1. \A r \in Sockets, k \in Kinds : PinnedByFrame(k, r)' => PinnedByFrame(k, r)
    BY <1>0, MovePins DEF Creating
  <2>2. \A r \in Sockets, k \in Kinds : Pinned(k, r)' => ReachableKind(k, r)
    BY <2>1 DEF Pinned, PinnedByNative, ReachableKind, Enter, heap
  <2> QED
    BY <2>2, QuietHeap DEF Enter, heap
<1>9. WrapperInsideNativeLife' /\ ReferencesResolve'
  BY DEF WrapperInsideNativeLife, ReferencesResolve, IInv, heap, cleaner, Enter
<1> QED
  BY <1>5, <1>6, <1>7, <1>8, <1>9 DEF Core

(* The monitor is released exactly when no frame below holds it.           *)
LEMMA ReturnStep ==
  ASSUME IInv, NEW t \in Threads, Return(t)
  PROVE  Core'
<1>0. /\ TypeOK /\ stack[t] # <<>> /\ Pop(t) /\ Last(stack[t]).at = "native"
  BY DEF IInv, Return, In
<1>1. PICK s \in Sockets : s = Top(t)
  BY <1>0, TopLemma
<1>2. \A r \in Sockets : r # s =>
        (Occupies(t, r, Monitored)' <=> Occupies(t, r, Monitored))
  BY <1>0, <1>1, PopOccupies
<1>3. \A u \in Threads \ {t} : stack'[u] = stack[u]
  BY <1>0, PopLemma
<1>4. \A r \in Sockets : ~Occupies(t, r, Creating)'
  BY <1>0, PopOccupies, NotCreating DEF Creating
<1>5. CreationIsExclusive'
  <2>1. ASSUME NEW r \in Sockets, NEW u \in Threads, Occupies(u, r, Creating)'
        PROVE  u # t /\ stack'[u] = stack[u] /\ Occupies(u, r, Creating)
    BY <1>3, <1>4, <2>1, OccupiesOthers
  <2> QED
    BY <2>1 DEF CreationIsExclusive, IInv, Return
<1>6. CallsNestInNotifications'
  BY <1>0, PopNests DEF IInv
<1>7. MonitorsMatchFrames'
  <2>1. owner[s] = t
    <3>1. Occupies(t, s, Monitored)
      BY <1>0, <1>1, TopLemma DEF Occupies, Monitored
    <3> QED
      BY <3>1 DEF IInv, MonitorsMatchFrames, Inside
  <2>2. HoldsBelow(t, s) <=> Occupies(t, s, Monitored)'
    BY <1>0, PopOccupies
  <2>3. \A r \in Sockets :
          owner'[r] = IF r = s THEN IF HoldsBelow(t, s) THEN t ELSE NoThread
                               ELSE owner[r]
    BY <1>0, <1>1 DEF Return, TypeOK
  <2>4. ASSUME NEW r \in Sockets, NEW u \in Threads
        PROVE  owner'[r] = u <=> Occupies(u, r, Monitored)'
    <3>1. owner[r] = u <=> Occupies(u, r, Monitored)
      BY DEF IInv, MonitorsMatchFrames, Inside
    <3>2. u # NoThread
      BY ThreadsAssumption
    <3>3. u # t => (Occupies(u, r, Monitored)' <=> Occupies(u, r, Monitored))
      BY <1>3, OccupiesOthers
    <3> QED
      BY <1>2, <2>1, <2>2, <2>3, <3>1, <3>2, <3>3
  <2> QED
    BY <2>4 DEF MonitorsMatchFrames, Inside
<1>8. HeapIsSound'
  <2>1. \A r \in Sockets, k \in Kinds : PinnedByFrame(k, r)' => PinnedByFrame(k, r)
    BY <1>0, PopPins
  <2>2. \A r \in Sockets, k \in Kinds : Pinned(k, r)' => ReachableKind(k, r)
    BY <2>1 DEF Pinned, PinnedByNative, ReachableKind, Return, heap
  <2> QED
    BY <2>2, QuietHeap DEF Return, heap
<1>9. WrapperInsideNativeLife' /\ ReferencesResolve'
  BY DEF WrapperInsideNativeLife, ReferencesResolve, IInv, heap, cleaner, Return
<1> QED
  BY <1>5, <1>6, <1>7, <1>8, <1>9 DEF Core

(* A method keeps `this`, whose fields keep the callbacks and observer.    *)
LEMMA MethodReaches ==
  ASSUME IInv, NEW t \in Threads, In(t, {"native"}),
         NEW k \in {"callbacks", "observer", "timeout"},
         k = "timeout" => Top(t) \in globals
  PROVE  ReachableKind(k, Top(t))
<1> DEFINE n == Len(stack[t])
<1>1. n \in DOMAIN stack[t] /\ stack[t][n].sock = Top(t) /\ stack[t][n].at = "native"
  BY TopLemma DEF In, IInv
<1> HIDE DEF n
<1>2. PinnedByFrame("socket", Top(t))
  BY <1>1 DEF PinnedByFrame, Locals, Creating
<1>3. SocketReachable(Top(t))
  BY <1>2 DEF SocketReachable, Pinned
<1>4. CASE k \in {"callbacks", "observer"}
  BY <1>3, <1>4 DEF ReachableKind, HeldBySocket
<1>5. CASE k = "timeout"
  BY <1>5 DEF ReachableKind, Pinned, PinnedByNative
<1> QED
  BY <1>4, <1>5

(* Every step of a thread keeps the invariant.                             *)
LEMMA ThreadIInv ==
  ASSUME IInv, NEW t \in Threads, ThreadStep(t)
  PROVE  Core'
<1>1. CASE \E s \in Sockets : CreateCall(t, s) \/ Call(t, s)
  BY <1>1, CreateCallStep, CallStep
<1>2. CASE CreateQuery(t)
  <2>1. stack[t] # <<>> /\ Last(stack[t]).at = "create" /\ In(t, Creating)
    BY <1>2 DEF CreateQuery, In, Creating
  <2>2. ReachableKind("callbacks", Top(t))
    BY <2>1, CreatingPins DEF ReachableKind, Pinned
  <2>3. /\ "callbacks" \in Kinds
        /\ "createQuery" \in Places \cap Creating
        /\ {"create", "createQuery"} \cap Monitored = {}
        /\ "create" \in Creating
    BY DEF Kinds, Places, Creating, Monitored
  <2> QED
    BY <1>2, <2>1, <2>2, <2>3, InvokeStep DEF CreateQuery
<1>3. CASE CreateQueryReturn(t) \/ CreateReturn(t) \/ Enter(t) \/ Return(t)
  BY <1>3, CreateQueryReturnStep, CreateReturnStep, EnterStep, ReturnStep
<1>4. ASSUME NEW k \in {"callbacks", "observer", "timeout"}, In(t, {"native"}),
             NEW p \in {"on", "query"}, Invoke(t, k, p),
             k = "timeout" => Top(t) \in globals
      PROVE  Core'
  <2>1. stack[t] # <<>> /\ Last(stack[t]).at = "native"
    BY <1>4 DEF In
  <2>2. ReachableKind(k, Top(t)) /\ k \in Kinds
    BY <1>4, MethodReaches DEF Kinds
  <2>3. /\ p \in Places /\ {p, "native"} \subseteq Monitored
        /\ {p, "native"} \cap Creating = {}
    BY DEF Places, Monitored, Creating
  <2> QED
    BY <1>4, <2>1, <2>2, <2>3, InvokeStep
<1>5. CASE Notify(t)
  BY <1>4, <1>5 DEF Notify
<1>6. CASE \E k \in {"callbacks", "observer", "timeout"} : Query(t, k)
  BY <1>4, <1>6 DEF Query
<1>7. CASE CallbackReturn(t)
  BY <1>7, MoveStep DEF CallbackReturn, In, Places, Monitored, Creating
<1> QED
  BY <1>1, <1>2, <1>3, <1>5, <1>6, <1>7 DEF ThreadStep

(* The application, the collector and the cleaner change no stack.         *)
LEMMA QuietStacks ==
  ASSUME IInv, UNCHANGED <<stack, owner>>,
         \A s \in Sockets : native[s] = "building" => native'[s] = "building"
  PROVE  CreationIsExclusive' /\ CallsNestInNotifications' /\ MonitorsMatchFrames'
<1>1. \A t, s, W : Occupies(t, s, W)' <=> Occupies(t, s, W)
  BY DEF Occupies
<1> QED
  BY <1>1 DEF IInv, CreationIsExclusive, CallsNestInNotifications,
              MonitorsMatchFrames, Inside

LEMMA QuietPins ==
  ASSUME UNCHANGED stack, NEW k, NEW s
  PROVE  PinnedByFrame(k, s)' <=> PinnedByFrame(k, s)
BY DEF PinnedByFrame

LEMMA ForgetStep ==
  ASSUME IInv, NEW s \in Sockets, NEW k \in Kinds, Forget(k, s)
  PROVE  Core'
<1>1. CreationIsExclusive' /\ CallsNestInNotifications' /\ MonitorsMatchFrames'
  BY QuietStacks DEF Forget
<1>2. HeapIsSound'
  <2>1. \A r \in Sockets, j \in Kinds : Pinned(j, r)' => ReachableKind(j, r)
    BY QuietPins DEF Pinned, PinnedByNative, ReachableKind, Forget
  <2> QED
    BY <2>1, QuietHeap DEF Forget
<1>3. WrapperInsideNativeLife' /\ ReferencesResolve'
  BY DEF WrapperInsideNativeLife, ReferencesResolve, IInv, cleaner, Forget
<1> QED
  BY <1>1, <1>2, <1>3 DEF Core

LEMMA LinkStep ==
  ASSUME IInv, NEW s \in Sockets, Link(s) \/ Unlink(s)
  PROVE  Core'
<1>1. UNCHANGED <<stack, owner, native, alive, appRefs, globals, cleaner, aborted>>
  BY DEF Link, Unlink
<1>2. \A r \in Sockets : linked'[r] => linked[r] \/ SocketReachable(r)
  BY DEF Link, Unlink, SocketReachable, Pinned, IInv, TypeOK
<1>3. CreationIsExclusive' /\ CallsNestInNotifications' /\ MonitorsMatchFrames'
  BY <1>1, QuietStacks
<1>4. HeapIsSound'
  <2>1. \A r \in Sockets, k \in Kinds : Pinned(k, r)' => ReachableKind(k, r)
    BY <1>1, QuietPins DEF Pinned, PinnedByNative, ReachableKind
  <2> QED
    BY <1>1, <1>2, <2>1, QuietHeap
<1>5. WrapperInsideNativeLife'
  <2>1. \A r \in Sockets : SocketReachable(r) => <<"socket", r>> \in alive
    BY ReachableIsAlive DEF ReachableKind, Kinds
  <2> QED
    BY <1>1, <1>2, <2>1 DEF WrapperInsideNativeLife, IInv, cleaner
<1>6. ReferencesResolve'
  BY <1>1 DEF ReferencesResolve, IInv
<1> QED
  BY <1>3, <1>4, <1>5, <1>6 DEF Core

(* A linked socket is reachable from its own timeouts.                     *)
LEMMA LinkedIsReachable ==
  ASSUME IInv, NEW s \in Sockets, linked[s]
  PROVE  ReachableKind("socket", s) /\ native[s] = "live"
<1>1. <<"socket", s>> \in alive
  BY DEF IInv, WrapperInsideNativeLife
<1>2. native[s] = "live" /\ s \in globals
  BY <1>1 DEF IInv, WrapperInsideNativeLife
<1>3. BoxRooted(s)
  BY <1>2 DEF BoxRooted, Pinned, PinnedByNative
<1> QED
  BY <1>2, <1>3 DEF ReachableKind, SocketReachable

LEMMA CollectStep ==
  ASSUME IInv, NEW s \in Sockets, NEW k \in Kinds, Collect(k, s)
  PROVE  Core'
<1>1. CreationIsExclusive' /\ CallsNestInNotifications' /\ MonitorsMatchFrames'
  BY QuietStacks DEF Collect
<1>2. HeapIsSound'
  <2>1. \A j, r : Pinned(j, r)' <=> Pinned(j, r)
    BY QuietPins DEF Pinned, PinnedByNative, Collect
  <2>2. Reachable' = Reachable
    BY <2>1 DEF Reachable, ReachableKind, SocketReachable, BoxRooted, Collect
  <2>3. <<k, s>> \notin Reachable /\ alive' = alive \ {<<k, s>>}
    BY DEF Collect
  <2> QED
    BY <2>2, <2>3 DEF HeapIsSound, IInv
<1>3. WrapperInsideNativeLife'
  <2>1. /\ native' = native /\ linked' = linked /\ globals' = globals
        /\ \A r \in Sockets :
             <<"socket", r>> \in alive' <=>
               <<"socket", r>> \in alive /\ ~(k = "socket" /\ r = s)
    BY DEF Collect
  <2>2. \A r \in Sockets : r # s =>
          /\ r \in registered' <=> r \in registered
          /\ r \in queued' <=> r \in queued
    BY DEF Collect, cleaner
  <2>3. CASE k # "socket"
    BY <2>1, <2>3 DEF WrapperInsideNativeLife, IInv, Collect, cleaner
  <2>4. CASE k = "socket"
    <3>1. <<"socket", s>> \in alive /\ native[s] = "live"
      BY <2>4 DEF Collect, IInv, WrapperInsideNativeLife
    <3>2. ~linked[s]
      <4>1. <<"socket", s>> \in Objects
        BY DEF Objects, Kinds
      <4>2. <<"socket", s>> \notin Reachable
        BY <2>4 DEF Collect
      <4>3. ~ReachableKind("socket", s)
        BY <4>1, <4>2 DEF Reachable
      <4> QED
        BY <4>3, LinkedIsReachable
    <3>3. s \notin registered'
      BY <2>4 DEF Collect, cleaner
    <3>4. s \in globals
      BY <3>1 DEF IInv, WrapperInsideNativeLife
    <3>5. ASSUME NEW r \in Sockets
          PROVE  /\ <<"socket", r>> \in alive' => native'[r] = "live"
                 /\ linked'[r] \/ r \in registered' => <<"socket", r>> \in alive'
                 /\ r \in queued' => native'[r] = "live" /\ <<"socket", r>> \notin alive'
                 /\ native'[r] \in {"live", "deleting"} => r \in globals'
      <4>1. CASE r = s
        BY <2>1, <2>4, <3>1, <3>2, <3>3, <3>4, <4>1
      <4>2. CASE r # s
        BY <2>1, <2>2, <4>2 DEF IInv, WrapperInsideNativeLife
      <4> QED
        BY <4>1, <4>2
    <3> QED
      BY <3>5 DEF WrapperInsideNativeLife
  <2> QED
    BY <2>3, <2>4
<1>4. ReferencesResolve'
  BY DEF ReferencesResolve, IInv, Collect
<1> QED
  BY <1>1, <1>2, <1>3, <1>4 DEF Core

LEMMA CleanerBeginStep ==
  ASSUME IInv, NEW s \in Sockets, CleanerBegin(s)
  PROVE  Core'
<1>1. /\ native[s] = "live" /\ <<"socket", s>> \notin alive /\ s \in globals
      /\ ~linked[s] /\ s \notin registered
  BY DEF CleanerBegin, IInv, WrapperInsideNativeLife
<1>2. \A r \in Sockets : native'[r] = IF r = s THEN "deleting" ELSE native[r]
  BY DEF CleanerBegin, IInv, TypeOK
<1>3. CreationIsExclusive' /\ CallsNestInNotifications' /\ MonitorsMatchFrames'
  BY <1>1, <1>2, QuietStacks DEF CleanerBegin
<1>4. HeapIsSound'
  <2>1. \A r \in Sockets, k \in Kinds : Pinned(k, r)' => ReachableKind(k, r)
    BY QuietPins DEF Pinned, PinnedByNative, ReachableKind, CleanerBegin, heap
  <2> QED
    BY <2>1, QuietHeap DEF CleanerBegin, heap
<1>5. WrapperInsideNativeLife'
  <2>1. /\ alive' = alive /\ linked' = linked /\ globals' = globals
        /\ registered' = registered /\ queued' = queued \ {s}
    BY DEF CleanerBegin, heap
  <2>2. ASSUME NEW r \in Sockets
        PROVE  /\ <<"socket", r>> \in alive' => native'[r] = "live"
               /\ linked'[r] \/ r \in registered' => <<"socket", r>> \in alive'
               /\ r \in queued' => native'[r] = "live" /\ <<"socket", r>> \notin alive'
               /\ native'[r] \in {"live", "deleting"} => r \in globals'
    <3>1. CASE r = s
      BY <1>1, <1>2, <2>1, <3>1
    <3>2. CASE r # s
      BY <1>2, <2>1, <3>2 DEF IInv, WrapperInsideNativeLife
    <3> QED
      BY <3>1, <3>2
  <2> QED
    BY <2>2 DEF WrapperInsideNativeLife
<1>6. ReferencesResolve'
  BY DEF ReferencesResolve, IInv, CleanerBegin
<1> QED
  BY <1>3, <1>4, <1>5, <1>6 DEF Core

(* The destructor finds its Timeout, which its own reference keeps alive.  *)
LEMMA CleanerEndStep ==
  ASSUME IInv, NEW s \in Sockets, CleanerEnd(s)
  PROVE  Core'
<1>1. native[s] = "deleting" /\ s \in globals
  BY DEF CleanerEnd, IInv, WrapperInsideNativeLife
<1>2. <<"timeout", s>> \in alive
  BY <1>1, ReachableIsAlive DEF ReachableKind, Pinned, PinnedByNative, Kinds
<1>3. /\ \A r \in Sockets : native'[r] = IF r = s THEN "deleted" ELSE native[r]
      /\ globals' = globals \ {s}
      /\ aborted' = aborted
  BY <1>2 DEF CleanerEnd, IInv, TypeOK
<1>4. CreationIsExclusive' /\ CallsNestInNotifications' /\ MonitorsMatchFrames'
  BY <1>1, <1>3, QuietStacks DEF CleanerEnd
<1>5. HeapIsSound'
  <2>1. \A r \in Sockets, k \in Kinds : Pinned(k, r)' => ReachableKind(k, r)
    BY <1>3, QuietPins DEF Pinned, PinnedByNative, ReachableKind, CleanerEnd
  <2> QED
    BY <2>1, QuietHeap DEF CleanerEnd
<1>6. WrapperInsideNativeLife'
  <2>1. /\ alive' = alive /\ linked' = linked
        /\ registered' = registered /\ queued' = queued
    BY DEF CleanerEnd, cleaner
  <2>2. <<"socket", s>> \notin alive /\ s \notin queued
    BY <1>1 DEF IInv, WrapperInsideNativeLife
  <2>3. ASSUME NEW r \in Sockets
        PROVE  /\ <<"socket", r>> \in alive' => native'[r] = "live"
               /\ linked'[r] \/ r \in registered' => <<"socket", r>> \in alive'
               /\ r \in queued' => native'[r] = "live" /\ <<"socket", r>> \notin alive'
               /\ native'[r] \in {"live", "deleting"} => r \in globals'
    <3>1. CASE r = s
      BY <1>3, <2>1, <2>2, <3>1 DEF IInv, WrapperInsideNativeLife
    <3>2. CASE r # s
      BY <1>3, <2>1, <3>2 DEF IInv, WrapperInsideNativeLife
    <3> QED
      BY <3>1, <3>2
  <2> QED
    BY <2>3 DEF WrapperInsideNativeLife
<1>7. ReferencesResolve'
  BY <1>3 DEF ReferencesResolve, IInv
<1> QED
  BY <1>4, <1>5, <1>6, <1>7 DEF Core

LEMMA NextIInv == IInv /\ [Next]_vars => IInv'
<1> SUFFICES ASSUME IInv, [Next]_vars PROVE IInv'
  OBVIOUS
<1>1. TypeOK'
  BY NextTypeOK DEF IInv
<1>2. Core'
  <2>1. CASE UNCHANGED vars
    <3>1. UNCHANGED <<stack, owner, native, alive, appRefs, linked, globals,
                      registered, queued, aborted>>
      BY <2>1 DEF vars
    <3>2. CreationIsExclusive' /\ CallsNestInNotifications' /\ MonitorsMatchFrames'
      BY <3>1, QuietStacks
    <3>3. HeapIsSound'
      <4>1. \A r \in Sockets, k \in Kinds : Pinned(k, r)' => ReachableKind(k, r)
        BY <3>1, QuietPins DEF Pinned, PinnedByNative, ReachableKind
      <4> QED
        BY <3>1, <4>1, QuietHeap
    <3>4. WrapperInsideNativeLife' /\ ReferencesResolve'
      BY <3>1 DEF WrapperInsideNativeLife, ReferencesResolve, IInv
    <3> QED
      BY <3>2, <3>3, <3>4 DEF Core
  <2>2. ASSUME NEW t \in Threads, ThreadStep(t) PROVE Core'
    BY <2>2, ThreadIInv
  <2>3. ASSUME NEW s \in Sockets, SocketStep(s) PROVE Core'
    BY <2>3, ForgetStep, LinkStep, CollectStep, CleanerBeginStep, CleanerEndStep
       DEF SocketStep
  <2> QED
    BY <2>1, <2>2, <2>3 DEF Next
<1> QED
  BY <1>1, <1>2 DEF Core, IInv

(* The invariant holds for any sockets, threads, callbacks' calls and      *)
(* dropped references.                                                     *)
THEOREM Invariance == Spec => []IInv
BY InitIInv, NextIInv, PTL DEF Spec

(* The destruct of the cleaner never overtakes a call: a thread waiting    *)
(* for, or inside, a method of a socket finds the C++ object live.         *)
THEOREM CallsFindLiveSocket == Spec => []NoUseAfterFree
<1>1. IInv => NoUseAfterFree
  BY LiveFrames DEF NoUseAfterFree
<1> QED
  BY <1>1, Invariance, PTL

(* The synchronized methods keep all but one thread out of a socket, also  *)
(* while callbacks of it call it, or other sockets, again.                 *)
THEOREM MutualExclusion == Spec => []OneThreadInside
<1>1. IInv => OneThreadInside
  BY DEF IInv, MonitorsMatchFrames, OneThreadInside
<1> QED
  BY <1>1, Invariance, PTL

(* No weak reference that getObj or the destructor uses was cleared.       *)
THEOREM WeakReferencesResolve == Spec => []ReferencesResolve
<1>1. IInv => ReferencesResolve
  BY DEF IInv
<1> QED
  BY <1>1, Invariance, PTL

(* A socket that its own timeouts can reach is not destroyed.              *)
THEOREM LinkedSocketsStay == Spec => []LinkedSocketStays
<1>1. IInv => LinkedSocketStays
  BY LinkedIsReachable DEF LinkedSocketStays
<1> QED
  BY <1>1, Invariance, PTL

-----------------------------------------------------------------------------
(* A locking discipline for applications, for any sockets, threads and     *)
(* depth of calls: if callbacks only call their own socket and those that  *)
(* come later in some order, threads never wait in a circle.               *)

(* r is s, or comes after it in the order R.                               *)
AtOrAfter(R, r, s) == r = s \/ <<r, s>> \in R

(* R is a well-founded order of the sockets that the callbacks follow.     *)
CallsFollow(R) ==
  /\ IsWellFoundedOn(R, Sockets)
  /\ \A q, r, s \in Sockets : <<q, r>> \in R /\ <<r, s>> \in R => <<q, s>> \in R
  /\ \A r, s \in Sockets : <<r, s>> \in MayCall => AtOrAfter(R, s, r)

(* The calls of a thread are nested in that order.                         *)
OrderedStacks(R) ==
  \A t \in Threads : \A i, j \in DOMAIN stack[t] :
    i < j => AtOrAfter(R, stack[t][j].sock, stack[t][i].sock)

-----------------------------------------------------------------------------
(* Each kind of change of a stack preserves the order.                     *)

LEMMA PushOrdered ==
  ASSUME NEW R, CallsFollow(R), TypeOK, OrderedStacks(R), NEW t \in Threads,
         NEW s \in Sockets, NEW p \in Places, Push(t, s, p),
         stack[t] = <<>> \/ <<Top(t), s>> \in MayCall
  PROVE  OrderedStacks(R)'
<1> DEFINE n == Len(stack[t])
<1>1. n \in Nat /\ stack[t] \in Seq(Frames)
  BY DEF TypeOK
<1>2. /\ DOMAIN stack[t] = 1 .. n
      /\ DOMAIN stack'[t] = 1 .. n + 1
      /\ \A i \in 1 .. n : stack'[t][i] = stack[t][i]
      /\ stack'[t][n + 1] = [sock |-> s, at |-> p]
      /\ \A u \in Threads \ {t} : stack'[u] = stack[u]
  BY PushLemma
<1>3. \A i \in 1 .. n : stack[t][i].sock \in Sockets
  <2>1. \A i \in 1 .. n : stack[t][i] \in Frames
    BY <1>1
  <2> QED
    BY <2>1 DEF Frames
<1>4. \A i \in 1 .. n : AtOrAfter(R, s, stack[t][i].sock)
  <2> SUFFICES ASSUME NEW i \in 1 .. n
               PROVE  AtOrAfter(R, s, stack[t][i].sock)
    OBVIOUS
  <2>1. stack[t] # <<>>
    BY <1>1
  <2>2. /\ Top(t) \in Sockets /\ Top(t) = stack[t][n].sock
        /\ n \in 1 .. n
    BY <1>2, <2>1, TopLemma
  <2>3. AtOrAfter(R, s, Top(t))
    BY <2>1, <2>2 DEF CallsFollow
  <2>4. AtOrAfter(R, Top(t), stack[t][i].sock)
    <3>1. CASE i = n
      BY <2>2, <3>1 DEF AtOrAfter
    <3>2. CASE i # n
      <4>1. i < n
        BY <1>1, <3>2
      <4> QED
        BY <1>2, <2>2, <4>1 DEF OrderedStacks
    <3> QED
      BY <3>1, <3>2
  <2>5. stack[t][i].sock \in Sockets
    BY <1>3
  <2> QED
    BY <2>2, <2>3, <2>4, <2>5 DEF AtOrAfter, CallsFollow
<1> HIDE DEF n
<1>5. ASSUME NEW i \in 1 .. n + 1, NEW j \in 1 .. n + 1, i < j
      PROVE  AtOrAfter(R, stack'[t][j].sock, stack'[t][i].sock)
  <2>1. i \in 1 .. n
    BY <1>1, <1>5
  <2>2. CASE j = n + 1
    BY <1>2, <1>4, <2>1, <2>2
  <2>3. CASE j # n + 1
    <3>1. j \in 1 .. n
      BY <1>1, <2>3
    <3> QED
      BY <1>2, <1>5, <2>1, <3>1 DEF OrderedStacks
  <2> QED
    BY <2>2, <2>3
<1> QED
  BY <1>2, <1>5 DEF OrderedStacks

LEMMA MoveOrdered ==
  ASSUME NEW R, TypeOK, OrderedStacks(R), NEW t \in Threads,
         stack[t] # <<>>, NEW p \in Places, Move(t, p)
  PROVE  OrderedStacks(R)'
<1>1. /\ DOMAIN stack'[t] = DOMAIN stack[t]
      /\ \A i \in DOMAIN stack[t] \ {Len(stack[t])} : stack'[t][i] = stack[t][i]
      /\ stack'[t][Len(stack[t])] = [sock |-> Top(t), at |-> p]
      /\ \A u \in Threads \ {t} : stack'[u] = stack[u]
  BY MoveLemma
<1>2. Top(t) = stack[t][Len(stack[t])].sock
  BY TopLemma
<1>3. \A i \in DOMAIN stack[t] : stack'[t][i].sock = stack[t][i].sock
  BY <1>1, <1>2
<1> QED
  BY <1>1, <1>3 DEF OrderedStacks

LEMMA PopOrdered ==
  ASSUME NEW R, TypeOK, OrderedStacks(R), NEW t \in Threads,
         stack[t] # <<>>, Pop(t)
  PROVE  OrderedStacks(R)'
<1>1. /\ DOMAIN stack'[t] \subseteq DOMAIN stack[t]
      /\ \A i \in DOMAIN stack'[t] : stack'[t][i] = stack[t][i]
      /\ \A u \in Threads \ {t} : stack'[u] = stack[u]
  BY PopLemma
<1> QED
  BY <1>1 DEF OrderedStacks

(* Every step.                                                             *)
LEMMA StepOrdered ==
  ASSUME NEW R, CallsFollow(R)
  PROVE  TypeOK /\ OrderedStacks(R) /\ [Next]_vars => OrderedStacks(R)'
<1> SUFFICES ASSUME TypeOK, OrderedStacks(R), [Next]_vars PROVE OrderedStacks(R)'
  OBVIOUS
<1>1. CASE UNCHANGED stack
  BY <1>1 DEF OrderedStacks
<1>2. ASSUME NEW t \in Threads, NEW p \in Places, stack[t] # <<>>, Move(t, p)
      PROVE  OrderedStacks(R)'
  BY <1>2, MoveOrdered
<1>3. ASSUME NEW t \in Threads, NEW s \in Sockets, CreateCall(t, s)
      PROVE  OrderedStacks(R)'
  BY <1>3, PushOrdered DEF CreateCall, Places, Creating
<1>4. ASSUME NEW t \in Threads, NEW s \in Sockets, Call(t, s)
      PROVE  OrderedStacks(R)'
  BY <1>4, PushOrdered DEF Call, InAppCode, Places
<1>5. ASSUME NEW t \in Threads, CreateReturn(t) \/ Return(t)
      PROVE  OrderedStacks(R)'
  BY <1>5, PopOrdered DEF CreateReturn, Return, In
<1>6. ASSUME NEW t \in Threads,
             \/ CreateQuery(t) \/ Notify(t)
             \/ \E k \in {"callbacks", "observer", "timeout"} : Query(t, k)
      PROVE  OrderedStacks(R)'
  BY <1>1, <1>2, <1>6 DEF CreateQuery, Notify, Query, Invoke, In, Places, Monitored, Creating
<1>7. ASSUME NEW t \in Threads, Enter(t) \/ CallbackReturn(t) \/ CreateQueryReturn(t)
      PROVE  OrderedStacks(R)'
  BY <1>2, <1>7 DEF Enter, CallbackReturn, CreateQueryReturn, In, Places, Monitored, Creating
<1>8. ASSUME NEW s \in Sockets, SocketStep(s)
      PROVE  UNCHANGED stack
  BY <1>8 DEF SocketStep, Forget, Collect, Link, Unlink, CleanerBegin, CleanerEnd
<1>9. UNCHANGED vars => UNCHANGED stack
  BY DEF vars
<1> QED
  BY <1>1, <1>3, <1>4, <1>5, <1>6, <1>7, <1>8, <1>9 DEF Next, ThreadStep

-----------------------------------------------------------------------------
(* Of the threads of a circle take one that waits for a socket after which *)
(* none of the others comes: the owner of that socket waits for a later    *)
(* one, as its own calls are nested in the order.                          *)
LEMMA NoCircle ==
  ASSUME NEW R, CallsFollow(R), IInv, OrderedStacks(R)
  PROVE  NoWaitCycle
<1> SUFFICES ASSUME NEW S \in (SUBSET Threads) \ {{}}
             PROVE  \E t \in S : \A u \in S : ~WaitsFor(t, u)
  BY DEF NoWaitCycle
<1> SUFFICES ASSUME \A t \in S : \E u \in S : WaitsFor(t, u)
             PROVE  FALSE
  OBVIOUS
<1>1. TypeOK
  BY DEF IInv
<1> DEFINE T == {Top(t) : t \in S}
<1>2. T \subseteq Sockets /\ T # {}
  <2>1. \A t \in S : stack[t] # <<>>
    BY DEF WaitsFor, In
  <2>2. \A t \in S : Top(t) \in Sockets
    BY <1>1, <2>1, TopLemma
  <2>3. T # {}
    <3>1. PICK t : t \in S
      OBVIOUS
    <3>2. Top(t) \in T
      BY <3>1
    <3> HIDE DEF T
    <3> QED
      BY <3>2
  <2> QED
    BY <2>2, <2>3
<1>3. PICK x \in T : \A y \in T : <<y, x>> \notin R
  <2>1. IsWellFoundedOn(R, Sockets)
    BY DEF CallsFollow
  <2> HIDE DEF T
  <2> QED
    BY <1>2, <2>1, WFMin
<1>4. PICK t \in S : x = Top(t)
  OBVIOUS
<1>5. PICK u \in S : WaitsFor(t, u)
  OBVIOUS
<1>6. PICK v \in S : WaitsFor(u, v)
  OBVIOUS
<1>7. x \in Sockets /\ owner[x] = u /\ u \in Threads
  BY <1>2, <1>4, <1>5 DEF WaitsFor
<1>8. PICK i \in DOMAIN stack[u] : stack[u][i].sock = x /\ stack[u][i].at \in Monitored
  BY <1>7 DEF IInv, MonitorsMatchFrames, Inside, Occupies
<1> DEFINE n == Len(stack[u])
<1>9. /\ n \in DOMAIN stack[u] /\ stack[u][n].at = "wait"
      /\ Top(u) = stack[u][n].sock /\ owner[Top(u)] # u
  BY <1>1, <1>6, <1>7, TopLemma DEF WaitsFor, In
<1>10. i < n
  <2>1. i # n
    BY <1>8, <1>9 DEF Monitored
  <2>2. DOMAIN stack[u] = 1 .. n /\ n \in Nat
    BY <1>1, <1>7 DEF TypeOK
  <2> QED
    BY <2>1, <2>2
<1>11. AtOrAfter(R, Top(u), x)
  BY <1>7, <1>8, <1>9, <1>10 DEF OrderedStacks
<1> QED
  BY <1>3, <1>7, <1>9, <1>11 DEF AtOrAfter

(* An application whose callbacks call other sockets in one order only     *)
(* does not deadlock on the sockets' monitors (the synchronized methods of *)
(* NativeSctpSocket, and the callbacks that "call into this library").     *)
THEOREM OrderedCallsDoNotDeadlock ==
  ASSUME NEW R, CallsFollow(R)
  PROVE  Spec => []NoWaitCycle
<1>1. Init => OrderedStacks(R)
  <2> SUFFICES ASSUME Init, NEW t \in Threads PROVE DOMAIN stack[t] = {}
    BY DEF OrderedStacks
  <2>1. stack[t] = <<>>
    BY DEF Init
  <2> QED
    BY <2>1
<1>2. IInv => TypeOK
  BY DEF IInv
<1>3. IInv /\ OrderedStacks(R) => NoWaitCycle
  BY NoCircle
<1>4. TypeOK /\ OrderedStacks(R) /\ [Next]_vars => OrderedStacks(R)'
  BY StepOrdered
<1> QED
  BY <1>1, <1>2, <1>3, <1>4, Invariance, PTL DEF Spec
=============================================================================
