---------------------------- MODULE NativeSocket ----------------------------
(***************************************************************************)
(* The life of native SCTP sockets under the JVM: threads of the           *)
(* application call the synchronized methods of NativeSctpSocket, native   *)
(* code calls back into Java while the monitor is held, the application    *)
(* drops references, the collector collects, and the cleaner thread        *)
(* destroys native sockets whose Java object is gone.                      *)
(*                                                                         *)
(* For each socket s there are up to five Java objects <<kind, s>>: the    *)
(* NativeSctpSocket, the callbacks and the packet observer it was created  *)
(* with, the Timeout that the callbacks made for it (one stands for all),  *)
(* and the "box", the application's SocketWrapper, which the callbacks and *)
(* the timeout refer to and which may refer back to the socket.            *)
(*                                                                         *)
(* The JVM is external: monitors are re-entrant, an object no root reaches *)
(* may be collected at any time, and a collected object's cleaning action  *)
(* runs once on the single thread of DcSctp4j.CLEANER.                     *)
(***************************************************************************)
EXTENDS Naturals, Sequences, SequencesExt

CONSTANTS
  Sockets,        \* the sockets that may be created
  Threads,        \* the application's threads
  NoThread,       \* the owner of a free monitor
  CleanerThread,  \* the thread of DcSctp4j.CLEANER
  MayCall,        \* <<r, s>>: the On... callbacks of r may call a method of s
  Forgettable,    \* the kinds of object the application may drop (a bound)
  MaxDepth        \* how deep calls may nest on a thread (a bound)

Kinds   == {"socket", "callbacks", "observer", "timeout", "box"}
Objects == Kinds \X Sockets

ASSUME ThreadsAssumption ==
  /\ NoThread \notin Threads
  /\ CleanerThread \notin Threads
  /\ CleanerThread # NoThread
ASSUME MayCallAssumption == MayCall \subseteq Sockets \X Sockets
ASSUME BoundsAssumption == Forgettable \subseteq Kinds /\ MaxDepth \in Nat

VARIABLES
  stack,       \* stack[t]: the library calls thread t is inside, innermost last
  owner,       \* owner[s]: the thread that holds the monitor of s, or NoThread
  native,      \* native[s]: the C++ NativeSctpSocket
  alive,       \* the Java objects that have not been collected
  appRefs,     \* the objects the application refers to from its roots
  linked,      \* linked[s]: the box of s refers to the socket
  globals,     \* sockets whose WrappedTimeout holds its JNI global reference
  registered,  \* sockets with a cleaning action that has not been queued
  queued,      \* sockets whose cleaning action waits for the cleaner thread
  aborted      \* a Java exception reached dcsctp, built with -fno-exceptions

vars == <<stack, owner, native, alive, appRefs, linked, globals,
          registered, queued, aborted>>
heap == <<alive, appRefs, linked, globals>>
cleaner == <<registered, queued>>

(* Where a frame is: blocked at the monitor; in native code; in an On...   *)
(* callback, whose code may call the library; in another callback, whose   *)
(* code may not; or, while create() runs, in the dcsctp constructor or in  *)
(* a callback from it.                                                     *)
Monitored == {"native", "on", "query"}
Creating  == {"create", "createQuery"}
Frames    == [sock : Sockets, at : Monitored \cup Creating \cup {"wait"}]

TypeOK ==
  /\ stack \in [Threads -> Seq(Frames)]
  /\ owner \in [Sockets -> Threads \cup {NoThread}]
  /\ native \in [Sockets -> {"none", "building", "live", "deleting", "deleted"}]
  /\ alive \subseteq Objects
  /\ appRefs \subseteq Objects
  /\ linked \in [Sockets -> BOOLEAN]
  /\ globals \subseteq Sockets
  /\ registered \subseteq Sockets
  /\ queued \subseteq Sockets
  /\ aborted \in BOOLEAN

Given == {"callbacks", "observer", "box"} \X Sockets

Init ==
  /\ stack = [t \in Threads |-> <<>>]
  /\ owner = [s \in Sockets |-> NoThread]
  /\ native = [s \in Sockets |-> "none"]
  /\ alive = Given
  /\ appRefs = Given
  /\ linked = [s \in Sockets |-> FALSE]
  /\ globals = {}
  /\ registered = {}
  /\ queued = {}
  /\ aborted = FALSE

-----------------------------------------------------------------------------
(* Reachability, as the collector sees it.                                 *)

(* Mutant: static native methods that only get the pointer.                *)
LocalsPointerOnly(f) ==
  IF f.at \in Creating THEN {"callbacks", "observer"} ELSE {}

(* A method of the socket keeps `this` alive; create() keeps its arguments *)
(* alive until the NativeSctpSocket object stores them.                    *)
Locals(f) ==
  IF f.at \in Creating THEN {"callbacks", "observer"} ELSE {"socket"}

PinnedByFrame(k, s) ==
  \E t \in Threads : \E i \in DOMAIN stack[t] :
    stack[t][i].sock = s /\ k \in Locals(stack[t][i])

(* Mutant: a weak reference in WrappedTimeout.                             *)
PinnedByNativeWeakly(k, s) == FALSE

(* WrappedTimeout refers to its Timeout with a JNI global reference;       *)
(* WrappedSocketCallbacks and WrappedPacketObserver hold weak ones.        *)
PinnedByNative(k, s) == k = "timeout" /\ s \in globals

(* Mutant: the cleaning action captures `this` instead of the pointer.     *)
PinnedCapturingThis(k, s) ==
  \/ <<k, s>> \in appRefs
  \/ PinnedByFrame(k, s)
  \/ PinnedByNative(k, s)
  \/ k = "socket" /\ s \in registered

Pinned(k, s) ==
  <<k, s>> \in appRefs \/ PinnedByFrame(k, s) \/ PinnedByNative(k, s)

BoxRooted(s) == \E k \in {"box", "callbacks", "timeout"} : Pinned(k, s)

SocketReachable(s) == Pinned("socket", s) \/ (linked[s] /\ BoxRooted(s))

(* Mutant: NativeSctpSocket without its callbacks and observer fields.     *)
HeldByPointerOnly == {}

(* The kinds of object the socket object refers to, directly or not.       *)
HeldBySocket == {"callbacks", "observer", "box"}

ReachableKind(k, s) ==
  \/ Pinned(k, s)
  \/ k = "box" /\ BoxRooted(s)
  \/ k \in HeldBySocket \cup {"socket"} /\ SocketReachable(s)

Reachable == {o \in Objects : ReachableKind(o[1], o[2])}

(* The application can get hold of the socket to call it.                  *)
CanName(s) == <<"socket", s>> \in appRefs \/ (linked[s] /\ BoxRooted(s))

-----------------------------------------------------------------------------
(* Stacks.                                                                 *)

In(t, W)  == stack[t] # <<>> /\ Last(stack[t]).at \in W
Top(t)    == Last(stack[t]).sock
Push(t, s, p) ==
  stack' = [stack EXCEPT ![t] = Append(@, [sock |-> s, at |-> p])]
Move(t, p) ==
  stack' = [stack EXCEPT ![t] = Append(Front(@), [sock |-> Top(t), at |-> p])]
Pop(t)    == stack' = [stack EXCEPT ![t] = Front(@)]

(* Mutants: a return that always, or never, releases the monitor.          *)
HoldsBelowNever(t, s) == FALSE
HoldsBelowAlways(t, s) == TRUE

(* t holds the monitor of s for a call below its innermost one.            *)
HoldsBelow(t, s) ==
  \E i \in DOMAIN Front(stack[t]) :
    stack[t][i].sock = s /\ stack[t][i].at \in Monitored

-----------------------------------------------------------------------------
(* Creation.                                                               *)

(* DcSctpSocketFactory.create enters create_.                              *)
CreateCall(t, s) ==
  /\ stack[t] = <<>>
  /\ native[s] = "none"
  /\ {<<"callbacks", s>>, <<"observer", s>>} \subseteq appRefs
  /\ Push(t, s, "create")
  /\ native' = [native EXCEPT ![s] = "building"]
  /\ UNCHANGED <<owner, heap, cleaner, aborted>>

(* The constructor has made its timers; create() wraps the pointer, stores *)
(* the callbacks and the observer, registers the cleaning action, returns. *)
CreateReturn(t) ==
  LET s == Top(t) IN
  /\ In(t, {"create"})
  /\ s \in globals
  /\ Pop(t)
  /\ native' = [native EXCEPT ![s] = "live"]
  /\ alive' = alive \cup {<<"socket", s>>}
  /\ appRefs' = appRefs \cup {<<"socket", s>>}
  /\ registered' = registered \cup {s}
  /\ UNCHANGED <<owner, linked, globals, queued, aborted>>

-----------------------------------------------------------------------------
(* Synchronized methods and the callbacks made inside them.                *)

(* Application code, at the bottom of a thread or in an On... callback.    *)
InAppCode(t, s) ==
  stack[t] = <<>> \/ (In(t, {"on"}) /\ <<Top(t), s>> \in MayCall)

Call(t, s) ==
  /\ InAppCode(t, s)
  /\ CanName(s)
  /\ Len(stack[t]) < MaxDepth
  /\ Push(t, s, "wait")
  /\ UNCHANGED <<owner, native, heap, cleaner, aborted>>

(* Mutant: methods that are not synchronized.                              *)
CanEnterUnsynchronized(t, s) == TRUE

(* The monitor is free or already this thread's.                           *)
CanEnter(t, s) == owner[s] \in {NoThread, t}

Enter(t) ==
  /\ In(t, {"wait"})
  /\ CanEnter(t, Top(t))
  /\ owner' = [owner EXCEPT ![Top(t)] = t]
  /\ Move(t, "native")
  /\ UNCHANGED <<native, heap, cleaner, aborted>>

(* Native code calls the Java object of kind k.  A weak reference that was *)
(* cleared makes getObj throw, and the exception cannot cross dcsctp.      *)
Invoke(t, k, p) ==
  /\ IF <<k, Top(t)>> \in alive
     THEN Move(t, p) /\ UNCHANGED aborted
     ELSE aborted' = TRUE /\ UNCHANGED stack
  /\ UNCHANGED <<owner, native, heap, cleaner>>

(* OnMessageReceived, OnError, ... OnTotalBufferedAmountLow.               *)
Notify(t) == In(t, {"native"}) /\ Invoke(t, "callbacks", "on")

(* sendPacketWithStatus, createTimeout, Now, getRandomInt, the observer's  *)
(* methods and the timeout's start, stop and restart.                      *)
Query(t, k) ==
  /\ In(t, {"native"})
  /\ k = "timeout" => Top(t) \in globals
  /\ Invoke(t, k, "query")

(* The dcsctp constructor calls the callbacks.                             *)
CreateQuery(t) == In(t, {"create"}) /\ Invoke(t, "callbacks", "createQuery")

CallbackReturn(t) ==
  /\ In(t, {"on", "query"})
  /\ Move(t, "native")
  /\ UNCHANGED <<owner, native, heap, cleaner, aborted>>

(* A callback of the constructor returns; createTimeout's result becomes   *)
(* the WrappedTimeout's global reference.                                  *)
CreateQueryReturn(t) ==
  LET o == <<"timeout", Top(t)>> IN
  /\ In(t, {"createQuery"})
  /\ Move(t, "create")
  /\ \/ UNCHANGED heap
     \/ /\ alive' = alive \cup {o}
        /\ appRefs' = appRefs \cup {o}
        /\ globals' = globals \cup {Top(t)}
        /\ UNCHANGED linked
  /\ UNCHANGED <<owner, native, cleaner, aborted>>

(* The outermost call on the socket releases its monitor.                  *)
Return(t) ==
  /\ In(t, {"native"})
  /\ Pop(t)
  /\ owner' = [owner EXCEPT ![Top(t)] =
                 IF HoldsBelow(t, Top(t)) THEN t ELSE NoThread]
  /\ UNCHANGED <<native, heap, cleaner, aborted>>

-----------------------------------------------------------------------------
(* The application's references.                                           *)

Forget(k, s) ==
  /\ k \in Forgettable
  /\ <<k, s>> \in appRefs
  /\ appRefs' = appRefs \ {<<k, s>>}
  /\ UNCHANGED <<stack, owner, native, alive, linked, globals, cleaner, aborted>>

(* wrapper.socket = socket; the application reaches the wrapper itself or  *)
(* through the callbacks or the timeout.                                   *)
Link(s) ==
  /\ <<"socket", s>> \in appRefs
  /\ BoxRooted(s)
  /\ linked' = [linked EXCEPT ![s] = TRUE]
  /\ UNCHANGED <<stack, owner, native, alive, appRefs, globals, cleaner, aborted>>

Unlink(s) ==
  /\ linked[s]
  /\ BoxRooted(s)
  /\ linked' = [linked EXCEPT ![s] = FALSE]
  /\ UNCHANGED <<stack, owner, native, alive, appRefs, globals, cleaner, aborted>>

-----------------------------------------------------------------------------
(* The collector and the cleaner thread.                                   *)

(* Collecting a registered object queues its cleaning action.              *)
Collect(k, s) ==
  /\ <<k, s>> \in alive \ Reachable
  /\ alive' = alive \ {<<k, s>>}
  /\ IF k = "socket" /\ s \in registered
     THEN registered' = registered \ {s} /\ queued' = queued \cup {s}
     ELSE UNCHANGED cleaner
  /\ UNCHANGED <<stack, owner, native, appRefs, linked, globals, aborted>>

(* Mutant: destruct enters the monitor too.                                *)
CleanerBeginLocking(s) ==
  /\ s \in queued
  /\ \A r \in Sockets : native[r] # "deleting"
  /\ owner[s] = NoThread
  /\ owner' = [owner EXCEPT ![s] = CleanerThread]
  /\ queued' = queued \ {s}
  /\ native' = [native EXCEPT ![s] = "deleting"]
  /\ UNCHANGED <<stack, heap, registered, aborted>>

(* Mutant: a cleaning action that can run again.                           *)
CleanerBeginRepeatable(s) ==
  /\ s \in queued
  /\ \A r \in Sockets : native[r] # "deleting"
  /\ native' = [native EXCEPT ![s] = "deleting"]
  /\ UNCHANGED <<stack, owner, heap, registered, queued, aborted>>

(* destruct(ptr): the one cleaner thread starts to delete a socket.        *)
CleanerBegin(s) ==
  /\ s \in queued
  /\ \A r \in Sockets : native[r] # "deleting"
  /\ queued' = queued \ {s}
  /\ native' = [native EXCEPT ![s] = "deleting"]
  /\ UNCHANGED <<stack, owner, heap, registered, aborted>>

(* The dcsctp destructor stops its timers, which calls Timeout.stop, and   *)
(* releases them, which deletes the global references.                     *)
CleanerEnd(s) ==
  /\ native[s] = "deleting"
  /\ IF <<"timeout", s>> \in alive
     THEN /\ native' = [native EXCEPT ![s] = "deleted"]
          /\ globals' = globals \ {s}
          /\ UNCHANGED aborted
     ELSE aborted' = TRUE /\ UNCHANGED <<native, globals>>
  /\ UNCHANGED <<stack, owner, alive, appRefs, linked, cleaner>>

-----------------------------------------------------------------------------
ThreadStep(t) ==
  \/ \E s \in Sockets : CreateCall(t, s) \/ Call(t, s)
  \/ CreateQuery(t)
  \/ CreateQueryReturn(t)
  \/ CreateReturn(t)
  \/ Enter(t)
  \/ Notify(t)
  \/ \E k \in {"callbacks", "observer", "timeout"} : Query(t, k)
  \/ CallbackReturn(t)
  \/ Return(t)

SocketStep(s) ==
  \/ \E k \in Kinds : Forget(k, s) \/ Collect(k, s)
  \/ Link(s)
  \/ Unlink(s)
  \/ CleanerBegin(s)
  \/ CleanerEnd(s)

Next ==
  /\ ~aborted
  /\ (\E t \in Threads : ThreadStep(t)) \/ (\E s \in Sockets : SocketStep(s))

Spec == Init /\ [][Next]_vars

(* The collector finds garbage, and the cleaner thread runs.  Nothing is   *)
(* assumed of the application's threads.                                   *)
Fairness ==
  \A s \in Sockets :
    /\ WF_vars(~aborted /\ Collect("socket", s))
    /\ WF_vars(~aborted /\ CleanerBegin(s))
    /\ WF_vars(~aborted /\ CleanerEnd(s))

FairSpec == Spec /\ Fairness
-----------------------------------------------------------------------------
(* Properties.                                                             *)

(* Every frame of every thread that is waiting for, or inside, a method of *)
(* a socket finds the C++ object constructed and not destroyed: the        *)
(* cleaner's destruct(ptr) can never overtake a call that uses ptr.        *)
NoUseAfterFree ==
  \A t \in Threads : \A i \in DOMAIN stack[t] :
    stack[t][i].at \notin Creating => native[stack[t][i].sock] = "live"

(* t has a frame for s at one of the places in W.                          *)
Occupies(t, s, W) ==
  \E i \in DOMAIN stack[t] : stack[t][i].sock = s /\ stack[t][i].at \in W

Inside(t, s) == Occupies(t, s, Monitored)

(* dcsctp is not thread safe: two threads are never inside one socket at   *)
(* once, callbacks and calls made from callbacks included.                 *)
OneThreadInside ==
  \A s \in Sockets : \A t, u \in Threads :
    Inside(t, s) /\ Inside(u, s) => t = u

(* getObj never meets a cleared weak reference, and the destructor finds   *)
(* its Timeout: native code keeps no Java object alive but the timeouts,   *)
(* so this rests on the strong fields of NativeSctpSocket.                 *)
ReferencesResolve == ~aborted

(* The cost of the timeouts' global references: a socket stored where its  *)
(* own timeouts can reach it is never destroyed, dropped or not.           *)
LinkedSocketStays ==
  \A s \in Sockets : linked[s] => native[s] \notin {"deleting", "deleted"}

WaitsFor(t, u) == In(t, {"wait"}) /\ owner[Top(t)] = u /\ u # t

(* Threads that call sockets from callbacks of other sockets hold several  *)
(* monitors; no set of them is ever waiting for one another in a circle.   *)
NoWaitCycle ==
  \A S \in (SUBSET Threads) \ {{}} : \E t \in S : \A u \in S : ~WaitsFor(t, u)

(* Nobody refers to the socket, and no thread has a call pending on it.   *)
Dropped(s) ==
  /\ native[s] = "live"
  /\ <<"socket", s>> \notin appRefs
  /\ ~linked[s]
  /\ \A t \in Threads : \A i \in DOMAIN stack[t] : stack[t][i].sock # s

(* A socket that was dropped is eventually destroyed, though its timeouts, *)
(* callbacks and wrapper are still around and other sockets are busy.      *)
Reclaimed == \A s \in Sockets : Dropped(s) ~> native[s] = "deleted"

(* The inductive invariant behind the safety properties.                   *)

(* A thread inside create() is inside nothing else, and is the one thread  *)
(* building that socket.                                                   *)
CreationIsExclusive ==
  \A s \in Sockets : \A t \in Threads :
    Occupies(t, s, Creating) =>
      /\ native[s] = "building"
      /\ Len(stack[t]) = 1
      /\ \A u \in Threads : Occupies(u, s, Creating) => t = u

(* Only On... callbacks make further calls.                                *)
CallsNestInNotifications ==
  \A t \in Threads : \A i \in DOMAIN stack[t] :
    i < Len(stack[t]) => stack[t][i].at = "on"

MonitorsMatchFrames ==
  \A s \in Sockets : \A t \in Threads : owner[s] = t <=> Inside(t, s)

HeapIsSound == Reachable \subseteq alive

(* The Java socket exists only while the native one is usable, and its     *)
(* cleaning action is queued exactly when it is gone.                      *)
WrapperInsideNativeLife ==
  \A s \in Sockets :
    /\ <<"socket", s>> \in alive => native[s] = "live"
    /\ linked[s] \/ s \in registered => <<"socket", s>> \in alive
    /\ s \in queued => native[s] = "live" /\ <<"socket", s>> \notin alive
    /\ native[s] \in {"live", "deleting"} => s \in globals

IInv ==
  /\ TypeOK
  /\ CreationIsExclusive
  /\ CallsNestInNotifications
  /\ MonitorsMatchFrames
  /\ HeapIsSound
  /\ WrapperInsideNativeLife
  /\ ReferencesResolve

(* The sockets as their native code sees them.                             *)
Life(s) ==
  IF native[s] \in {"live", "deleting"} THEN "alive"
  ELSE IF native[s] = "deleted" THEN "freed" ELSE "unborn"
User(s) == IF native[s] = "deleting" THEN CleanerThread ELSE owner[s]

Ownership == INSTANCE SocketOwnership WITH
  Users  <- Threads \cup {CleanerThread},
  NoUser <- NoThread,
  life   <- [s \in Sockets |-> Life(s)],
  user   <- [s \in Sockets |-> User(s)]

(* Monitors, reachability and the cleaner together give every native       *)
(* socket one user at a time, the thread that frees it being the last.     *)
ImplementsOwnership == Ownership!Spec
=============================================================================
