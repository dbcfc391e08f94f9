---------------------------- MODULE TimersProofs ----------------------------
(* Proofs about Timers, for any sockets and any number of starts: a        *)
(* running timer stays armed whoever calls its socket; one that only the   *)
(* executor's thread uses never expires early and leaves no task behind.   *)
EXTENDS Timers, TLAPS, FiniteSetTheorems, SequenceTheorems

Done       == <<>>
Scheduling == <<"schedule">>
Scripts    == {Done, StopCalls, RestartCalls, StartCalls, Scheduling}

-----------------------------------------------------------------------------
(* The inductive invariant.                                                *)

(* The executor is inside the sockets whose monitor it holds; the Java     *)
(* methods of a timeout are executed under the monitor.                    *)
ExecutorHolds ==
  /\ \A s \in Sockets :
       /\ owner[s] = "executor" <=> exec.at \in {"handle", "inside"} /\ exec.sock = s
       /\ owner[s] = "free" => todo[s] = Done
  /\ exec.at = "handle" => todo[exec.sock] = Done

(* What the fields of the timeout are worth before each of the Java calls. *)
ScriptsAgree ==
  \A s \in Sockets :
    /\ todo[s] \in Scripts
    /\ running[s] => gen[s] # 0
    /\ todo[s] = StopCalls => ~running[s]
    /\ todo[s] \in {RestartCalls, StartCalls, Scheduling} => running[s]
    /\ todo[s] \in {Done, StopCalls, Scheduling} => timeoutId[s] = gen[s]
    /\ todo[s] \in {Done, StopCalls} => future[s] = gen[s]

(* A confined timeout has one task at most, and none while the executor    *)
(* carries its identifier, whose delay has run out.                        *)
Confined ==
  \A s \in Sockets \ Shared :
    /\ owner[s] # "other"
    /\ pending[s] \subseteq {future[s]}
    /\ ~running[s] /\ todo[s] = Done => pending[s] = {}
    /\ todo[s] \in {StartCalls, Scheduling} => pending[s] = {}
    /\ exec.at \in {"run", "wait", "handle"} /\ exec.sock = s =>
         gen[s] \in elapsed[s] /\ pending[s] = {}
    /\ exec.at \in {"wait", "handle"} /\ exec.sock = s => exec.id = gen[s]

TimersInv ==
  /\ TypeOK
  /\ ExecutorHolds
  /\ ScriptsAgree
  /\ Confined
  /\ RunningIsArmed

-----------------------------------------------------------------------------
(* Lemmas.                                                                 *)

(* The Java calls, one after the other.                                    *)
LEMMA ScriptsLemma ==
  /\ Head(StopCalls) = "cancel" /\ Tail(StopCalls) = Done
  /\ Head(RestartCalls) = "cancel" /\ Tail(RestartCalls) = StartCalls
  /\ Head(StartCalls) = "setId" /\ Tail(StartCalls) = Scheduling
  /\ Head(Scheduling) = "schedule" /\ Tail(Scheduling) = Done
  /\ Scripts \subseteq Seq({"cancel", "setId", "schedule"})
  /\ StopCalls # Done /\ RestartCalls # Done /\ StartCalls # Done /\ Scheduling # Done
  /\ StopCalls # RestartCalls /\ StopCalls # StartCalls /\ StopCalls # Scheduling
  /\ RestartCalls # StartCalls /\ RestartCalls # Scheduling /\ StartCalls # Scheduling
<1>1. RestartCalls = <<"cancel", "setId", "schedule">>
  <2> DEFINE calls == {"cancel", "setId", "schedule"}
  <2>1. StopCalls \in Seq(calls) /\ Len(StopCalls) = 1 /\ StopCalls[1] = "cancel"
    BY DEF StopCalls
  <2>2. /\ StartCalls \in Seq(calls) /\ Len(StartCalls) = 2
        /\ StartCalls[1] = "setId" /\ StartCalls[2] = "schedule"
    BY DEF StartCalls
  <2>3. /\ RestartCalls \in Seq(calls) /\ Len(RestartCalls) = 3
        /\ RestartCalls[1] = "cancel" /\ RestartCalls[2] = "setId"
        /\ RestartCalls[3] = "schedule"
    <3>1. RestartCalls = StopCalls \o StartCalls
      BY DEF RestartCalls
    <3> HIDE DEF calls
    <3>2. /\ RestartCalls \in Seq(calls)
          /\ Len(RestartCalls) = Len(StopCalls) + Len(StartCalls)
          /\ \A i \in 1..(Len(StopCalls) + Len(StartCalls)) :
               RestartCalls[i] = IF i <= Len(StopCalls) THEN StopCalls[i]
                                 ELSE StartCalls[i - Len(StopCalls)]
      BY <2>1, <2>2, <3>1, ConcatProperties
    <3>3. \A i \in 1..3 : RestartCalls[i] = IF i <= 1 THEN StopCalls[i] ELSE StartCalls[i - 1]
      BY <2>1, <2>2, <3>2
    <3>4. RestartCalls[1] = StopCalls[1]
      BY <3>3
    <3>5. RestartCalls[2] = StartCalls[1]
      <4>1. RestartCalls[2] = StartCalls[2 - 1]
        BY <3>3
      <4> QED
        BY <4>1
    <3>6. RestartCalls[3] = StartCalls[2]
      <4>1. RestartCalls[3] = StartCalls[3 - 1]
        BY <3>3
      <4> QED
        BY <4>1
    <3> QED
      BY <2>1, <2>2, <3>2, <3>4, <3>5, <3>6
  <2> QED
    BY <2>3
<1> QED
  BY <1>1 DEF StopCalls, StartCalls, Scheduling, Done, Scripts

(* What the executor can be at.                                            *)
LEMMA ExecLemma ==
  ASSUME exec \in ExecStates
  PROVE  /\ exec.at \in {"idle", "run", "wait", "handle", "inside"}
         /\ exec.at = "idle" => exec = Idle
         /\ exec.at # "idle" => exec.sock \in Sockets
         /\ exec.at \in {"wait", "handle"} => exec.id \in Gens \cup {0}
BY DEF ExecStates, Idle

(* Nothing is scheduled at first.                                          *)
LEMMA InitLemma == Init => TimersInv
<1> SUFFICES ASSUME Init PROVE TimersInv
  OBVIOUS
<1>1. Init
  OBVIOUS
<1> USE <1>1 DEF Init
<1>2. exec.at = "idle"
  BY DEF Idle
<1>3. TypeOK
  BY DEF TypeOK, ExecStates
<1>4. ExecutorHolds
  BY <1>2 DEF ExecutorHolds, Done
<1>5. ScriptsAgree
  BY ScriptsLemma DEF ScriptsAgree, Scripts, Done
<1>6. Confined
  BY <1>2, ScriptsLemma DEF Confined, Done
<1>7. RunningIsArmed
  BY DEF RunningIsArmed
<1> QED
  BY <1>3, <1>4, <1>5, <1>6, <1>7 DEF TimersInv

-----------------------------------------------------------------------------
(* Each action preserves the invariant.                                    *)

(* A thread enters a socket.                                               *)
LEMMA EnterLemma ==
  ASSUME TimersInv, NEW s \in Sockets, ExecEnters(s) \/ OtherEnters(s)
  PROVE  TimersInv'
<1> USE DEF TimersInv
<1>1. /\ owner[s] = "free"
      /\ UNCHANGED <<gen, running, timeoutId, future, pending, elapsed, todo>>
      /\ \/ /\ exec = Idle /\ exec' = [at |-> "inside", sock |-> s]
            /\ owner' = [owner EXCEPT ![s] = "executor"]
         \/ /\ s \in Shared /\ exec' = exec
            /\ owner' = [owner EXCEPT ![s] = "other"]
  BY DEF ExecEnters, OtherEnters, java
<1>2. owner \in [Sockets -> {"free", "executor", "other"}] /\ exec \in ExecStates
  BY DEF TypeOK
<1>3. TypeOK'
  <2>1. exec' \in ExecStates
    BY <1>1, <1>2 DEF ExecStates
  <2>2. owner' \in [Sockets -> {"free", "executor", "other"}]
    BY <1>1, <1>2
  <2> QED
    BY <1>1, <2>1, <2>2 DEF TypeOK
<1>4. ExecutorHolds'
  BY <1>1, <1>2 DEF ExecutorHolds, Idle
<1>5. ScriptsAgree'
  BY <1>1 DEF ScriptsAgree
<1>6. Confined'
  BY <1>1, <1>2 DEF Confined, Idle
<1>7. RunningIsArmed'
  BY <1>1 DEF RunningIsArmed, Carries, Idle
<1> QED
  BY <1>3, <1>4, <1>5, <1>6, <1>7

(* A thread leaves a socket.                                               *)
LEMMA LeaveLemma ==
  ASSUME TimersInv, NEW s \in Sockets, Leave(s)
  PROVE  TimersInv'
<1> USE DEF TimersInv
<1>1. /\ owner[s] # "free" /\ todo[s] = Done
      /\ ~(exec.at = "handle" /\ exec.sock = s)
      /\ owner' = [owner EXCEPT ![s] = "free"]
      /\ exec' = IF owner[s] = "executor" THEN Idle ELSE exec
      /\ UNCHANGED <<gen, running, timeoutId, future, pending, elapsed, todo>>
  BY DEF Leave, InNative, java, Done
<1>2. owner \in [Sockets -> {"free", "executor", "other"}] /\ exec \in ExecStates
  BY DEF TypeOK
<1>3. TypeOK'
  BY <1>1, <1>2 DEF TypeOK, ExecStates
<1>4. owner[s] = "executor" => exec.at = "inside" /\ exec.sock = s
  BY <1>1 DEF ExecutorHolds
<1>5. ExecutorHolds'
  BY <1>1, <1>2, <1>4 DEF ExecutorHolds, Idle
<1>6. ScriptsAgree'
  BY <1>1 DEF ScriptsAgree
<1>7. Confined'
  BY <1>1, <1>2, <1>4 DEF Confined, Idle
<1>8. RunningIsArmed'
  BY <1>1, <1>4 DEF RunningIsArmed, Carries
<1> QED
  BY <1>3, <1>5, <1>6, <1>7, <1>8

(* dcsctp starts, restarts or stops its timer; only the executor does so   *)
(* with a timeout that is confined, and it is then inside the socket.      *)
LEMMA TimerLemma ==
  ASSUME TimersInv, NEW s \in Sockets,
         StartTimer(s) \/ RestartTimer(s) \/ StopTimer(s)
  PROVE  TimersInv'
<1> USE DEF TimersInv
<1>1. /\ owner[s] # "free" /\ todo[s] = Done
      /\ ~(exec.at = "handle" /\ exec.sock = s)
      /\ UNCHANGED <<timeoutId, future, pending, elapsed, owner, exec>>
  BY DEF StartTimer, RestartTimer, StopTimer, InNative, java, Done
<1>2. /\ gen \in [Sockets -> Gens \cup {0}] /\ running \in [Sockets -> BOOLEAN]
      /\ owner \in [Sockets -> {"free", "executor", "other"}]
      /\ todo \in [Sockets -> Seq({"cancel", "setId", "schedule"})]
  BY DEF TypeOK
<1>3. PICK calls \in {StartCalls, RestartCalls, StopCalls} :
        /\ todo' = [todo EXCEPT ![s] = calls]
        /\ calls = StartCalls => ~running[s]
        /\ calls = StopCalls =>
             running' = [running EXCEPT ![s] = FALSE] /\ UNCHANGED gen
        /\ calls # StopCalls =>
             /\ gen[s] < MaxGen /\ gen' = [gen EXCEPT ![s] = gen[s] + 1]
             /\ running' = [running EXCEPT ![s] = TRUE]
  BY ScriptsLemma DEF StartTimer, RestartTimer, StopTimer, Begin
<1>4. /\ todo'[s] = calls /\ running'[s] = (calls # StopCalls)
      /\ calls = StopCalls => gen'[s] = gen[s]
      /\ \A t \in Sockets \ {s} :
           todo'[t] = todo[t] /\ running'[t] = running[t] /\ gen'[t] = gen[t]
  <2>1. todo'[s] = calls /\ \A t \in Sockets \ {s} : todo'[t] = todo[t]
    BY <1>2, <1>3
  <2>2. \A t \in Sockets \ {s} : running'[t] = running[t] /\ gen'[t] = gen[t]
    BY <1>2, <1>3
  <2>3. CASE calls = StopCalls
    BY <1>2, <1>3, <2>1, <2>2, <2>3
  <2>4. CASE calls # StopCalls
    BY <1>2, <1>3, <2>1, <2>2, <2>4
  <2> QED
    BY <2>3, <2>4
<1>5. TypeOK'
  <2>1. todo' \in [Sockets -> Seq({"cancel", "setId", "schedule"})]
    <3>1. calls \in Seq({"cancel", "setId", "schedule"})
      BY ScriptsLemma DEF Scripts
    <3> QED
      BY <1>2, <1>3, <3>1
  <2>2. running' \in [Sockets -> BOOLEAN]
    BY <1>2, <1>3
  <2>3. gen' \in [Sockets -> Gens \cup {0}]
    <3>1. ASSUME NEW t \in Sockets PROVE gen'[t] \in Gens \cup {0}
      BY <1>2, <1>3, TimersAssumption DEF Gens
    <3>2. gen' = [t \in Sockets |-> gen'[t]]
      BY <1>2, <1>3
    <3> QED
      BY <3>1, <3>2
  <2> QED
    BY <1>1, <2>1, <2>2, <2>3 DEF TypeOK
<1>6. ExecutorHolds'
  <2>1. exec.at = "handle" => exec.sock \in Sockets
    BY ExecLemma DEF TypeOK
  <2> QED
    BY <1>1, <1>4, <2>1 DEF ExecutorHolds
<1>7. ScriptsAgree'
  <2> SUFFICES ASSUME NEW t \in Sockets
               PROVE  /\ todo'[t] \in Scripts
                      /\ running'[t] => gen'[t] # 0
                      /\ todo'[t] = StopCalls => ~running'[t]
                      /\ todo'[t] \in {RestartCalls, StartCalls, Scheduling} => running'[t]
                      /\ todo'[t] \in {Done, StopCalls, Scheduling} => timeoutId[t] = gen'[t]
                      /\ todo'[t] \in {Done, StopCalls} => future[t] = gen'[t]
    BY <1>1 DEF ScriptsAgree
  <2>1. CASE t # s
    BY <1>4, <2>1 DEF ScriptsAgree
  <2>2. CASE t = s
    <3>1. timeoutId[s] = gen[s] /\ future[s] = gen[s]
      BY <1>1 DEF ScriptsAgree
    <3>2. calls \in Scripts
      BY DEF Scripts
    <3>3. running'[s] => gen'[s] # 0
      BY <1>2, <1>3, <1>4, TimersAssumption DEF Gens
    <3> QED
      BY <1>4, <2>2, <3>1, <3>2, <3>3, ScriptsLemma
  <2> QED
    BY <2>1, <2>2
<1>8. Confined'
  <2> SUFFICES ASSUME NEW t \in Sockets \ Shared
               PROVE  /\ owner[t] # "other"
                      /\ pending[t] \subseteq {future[t]}
                      /\ ~running'[t] /\ todo'[t] = Done => pending[t] = {}
                      /\ todo'[t] \in {StartCalls, Scheduling} => pending[t] = {}
                      /\ exec.at \in {"run", "wait", "handle"} /\ exec.sock = t =>
                           gen'[t] \in elapsed[t] /\ pending[t] = {}
                      /\ exec.at \in {"wait", "handle"} /\ exec.sock = t => exec.id = gen'[t]
    BY <1>1 DEF Confined
  <2>1. CASE t # s
    BY <1>4, <2>1 DEF Confined
  <2>2. CASE t = s
    <3>1. owner[s] = "executor"
      BY <1>1, <1>2, <2>2 DEF Confined
    <3>2. exec.at = "inside" /\ exec.sock = s
      BY <1>1, <3>1 DEF ExecutorHolds
    <3>3. calls = StartCalls => pending[s] = {}
      BY <1>1, <1>3, <2>2 DEF Confined
    <3> QED
      BY <1>4, <2>2, <3>2, <3>3, ScriptsLemma DEF Confined
  <2> QED
    BY <2>1, <2>2
<1>9. RunningIsArmed'
  <2> SUFFICES ASSUME NEW t \in Sockets, running'[t], todo'[t] = Done
               PROVE  \/ gen'[t] \in pending[t]
                      \/ exec.at = "run" /\ exec.sock = t /\ timeoutId[t] = gen'[t]
                      \/ exec.at \in {"wait", "handle"} /\ exec.sock = t /\ exec.id = gen'[t]
    BY <1>1 DEF RunningIsArmed, Carries, Done
  <2>1. t # s
    <3>1. calls # Done
      BY ScriptsLemma
    <3> QED
      BY <1>4, <3>1
  <2>2. running[t] /\ todo[t] = Done /\ gen'[t] = gen[t]
    BY <1>4, <2>1
  <2> QED
    BY <2>2 DEF RunningIsArmed, Carries, Done
<1> QED
  BY <1>5, <1>6, <1>7, <1>8, <1>9

(* The next of the Java calls.                                             *)
LEMMA JavaStepLemma ==
  ASSUME TimersInv, NEW s \in Sockets, JavaStep(s)
  PROVE  TimersInv'
<1> USE DEF TimersInv
<1>1. /\ todo[s] # Done
      /\ todo' = [todo EXCEPT ![s] = Tail(todo[s])]
      /\ UNCHANGED <<gen, running, elapsed, owner, exec>>
      /\ \/ /\ Head(todo[s]) = "cancel"
            /\ pending' = [pending EXCEPT ![s] = pending[s] \ {future[s]}]
            /\ UNCHANGED <<timeoutId, future>>
         \/ /\ Head(todo[s]) = "setId"
            /\ timeoutId' = [timeoutId EXCEPT ![s] = gen[s]]
            /\ UNCHANGED <<future, pending>>
         \/ /\ Head(todo[s]) = "schedule"
            /\ future' = [future EXCEPT ![s] = gen[s]]
            /\ pending' = [pending EXCEPT ![s] = pending[s] \cup {gen[s]}]
            /\ UNCHANGED timeoutId
  BY DEF JavaStep, Cancel, SetId, Schedule, TakeStep, Done
<1>2. /\ gen \in [Sockets -> Gens \cup {0}] /\ future \in [Sockets -> Gens \cup {0}]
      /\ timeoutId \in [Sockets -> Gens \cup {0}]
      /\ pending \in [Sockets -> SUBSET Gens]
      /\ todo \in [Sockets -> Seq({"cancel", "setId", "schedule"})]
      /\ owner \in [Sockets -> {"free", "executor", "other"}]
  BY DEF TypeOK
<1>3. \A t \in Sockets \ {s} :
        /\ todo'[t] = todo[t] /\ timeoutId'[t] = timeoutId[t]
        /\ future'[t] = future[t] /\ pending'[t] = pending[t]
  BY <1>1, <1>2
<1>4. /\ todo'[s] \in Scripts
      /\ \/ /\ todo[s] = StopCalls /\ todo'[s] = Done /\ ~running[s]
            /\ pending'[s] = pending[s] \ {future[s]}
            /\ timeoutId'[s] = timeoutId[s] /\ future'[s] = future[s]
            /\ timeoutId[s] = gen[s] /\ future[s] = gen[s]
         \/ /\ todo[s] = RestartCalls /\ todo'[s] = StartCalls /\ running[s]
            /\ pending'[s] = pending[s] \ {future[s]}
            /\ timeoutId'[s] = timeoutId[s] /\ future'[s] = future[s]
         \/ /\ todo[s] = StartCalls /\ todo'[s] = Scheduling /\ running[s]
            /\ pending'[s] = pending[s] /\ future'[s] = future[s]
            /\ timeoutId'[s] = gen[s]
         \/ /\ todo[s] = Scheduling /\ todo'[s] = Done /\ running[s]
            /\ timeoutId'[s] = timeoutId[s] /\ timeoutId[s] = gen[s]
            /\ future'[s] = gen[s]
            /\ pending'[s] = pending[s] \cup {gen[s]}
  <2>1. todo'[s] = Tail(todo[s])
    BY <1>1, <1>2
  <2>2. CASE todo[s] = StopCalls
    BY <1>1, <1>2, <2>1, <2>2, ScriptsLemma DEF ScriptsAgree, Scripts
  <2>3. CASE todo[s] = RestartCalls
    BY <1>1, <1>2, <2>1, <2>3, ScriptsLemma DEF ScriptsAgree, Scripts
  <2>4. CASE todo[s] = StartCalls
    BY <1>1, <1>2, <2>1, <2>4, ScriptsLemma DEF ScriptsAgree, Scripts
  <2>5. CASE todo[s] = Scheduling
    BY <1>1, <1>2, <2>1, <2>5, ScriptsLemma DEF ScriptsAgree, Scripts
  <2> QED
    BY <1>1, <2>2, <2>3, <2>4, <2>5 DEF ScriptsAgree, Scripts
<1>5. running[s] => gen[s] \in Gens
  BY <1>2 DEF ScriptsAgree
<1>6. TypeOK'
  <2>1. todo' \in [Sockets -> Seq({"cancel", "setId", "schedule"})]
    <3>1. todo'[s] \in Seq({"cancel", "setId", "schedule"})
      BY <1>4, ScriptsLemma
    <3> QED
      BY <1>1, <1>2, <3>1
  <2>2. CASE Head(todo[s]) = "cancel"
    BY <1>1, <1>2, <2>1, <2>2 DEF TypeOK
  <2>3. CASE Head(todo[s]) = "setId"
    BY <1>1, <1>2, <2>1, <2>3 DEF TypeOK
  <2>4. CASE Head(todo[s]) = "schedule"
    <3>1. gen[s] \in Gens
      BY <1>1, <1>4, <1>5, <2>4, ScriptsLemma
    <3>2. /\ future' = [future EXCEPT ![s] = gen[s]] /\ UNCHANGED timeoutId
          /\ pending' = [pending EXCEPT ![s] = pending[s] \cup {gen[s]}]
      BY <1>1, <2>4
    <3>3. future' \in [Sockets -> Gens \cup {0}]
      BY <1>2, <3>1, <3>2
    <3>4. pending' \in [Sockets -> SUBSET Gens]
      BY <1>2, <3>1, <3>2
    <3> QED
      BY <1>1, <2>1, <3>2, <3>3, <3>4 DEF TypeOK
  <2> QED
    BY <1>1, <2>2, <2>3, <2>4
<1>7. owner[s] # "free" /\ ~(exec.at = "handle" /\ exec.sock = s)
  BY <1>1 DEF ExecutorHolds
<1>8. ExecutorHolds'
  <2>1. exec.at = "handle" => exec.sock \in Sockets
    BY ExecLemma DEF TypeOK
  <2> QED
    BY <1>1, <1>3, <1>7, <2>1 DEF ExecutorHolds
<1>9. ScriptsAgree'
  <2> SUFFICES ASSUME NEW t \in Sockets
               PROVE  /\ todo'[t] \in Scripts
                      /\ running[t] => gen[t] # 0
                      /\ todo'[t] = StopCalls => ~running[t]
                      /\ todo'[t] \in {RestartCalls, StartCalls, Scheduling} => running[t]
                      /\ todo'[t] \in {Done, StopCalls, Scheduling} => timeoutId'[t] = gen[t]
                      /\ todo'[t] \in {Done, StopCalls} => future'[t] = gen[t]
    BY <1>1 DEF ScriptsAgree
  <2>1. CASE t # s
    BY <1>3, <2>1 DEF ScriptsAgree
  <2>2. CASE t = s
    BY <1>4, <2>2, ScriptsLemma DEF ScriptsAgree
  <2> QED
    BY <2>1, <2>2
<1>10. Confined'
  <2> SUFFICES ASSUME NEW t \in Sockets \ Shared
               PROVE  /\ owner[t] # "other"
                      /\ pending'[t] \subseteq {future'[t]}
                      /\ ~running[t] /\ todo'[t] = Done => pending'[t] = {}
                      /\ todo'[t] \in {StartCalls, Scheduling} => pending'[t] = {}
                      /\ exec.at \in {"run", "wait", "handle"} /\ exec.sock = t =>
                           gen[t] \in elapsed[t] /\ pending'[t] = {}
                      /\ exec.at \in {"wait", "handle"} /\ exec.sock = t => exec.id = gen[t]
    BY <1>1 DEF Confined
  <2>1. CASE t # s
    BY <1>3, <2>1 DEF Confined
  <2>2. CASE t = s
    <3>1. owner[s] = "executor"
      BY <1>2, <1>7, <2>2 DEF Confined
    <3>2. exec.at = "inside" /\ exec.sock = s
      BY <1>7, <3>1 DEF ExecutorHolds
    <3>3. owner[s] # "other" /\ pending[s] \subseteq {future[s]}
      BY <2>2 DEF Confined
    <3>4. todo[s] \in {StartCalls, Scheduling} => pending[s] = {}
      BY <2>2 DEF Confined
    <3> QED
      BY <1>4, <2>2, <3>2, <3>3, <3>4, ScriptsLemma
  <2> QED
    BY <2>1, <2>2
<1>11. RunningIsArmed'
  <2> SUFFICES ASSUME NEW t \in Sockets, running[t], todo'[t] = Done
               PROVE  \/ gen[t] \in pending'[t]
                      \/ exec.at = "run" /\ exec.sock = t /\ timeoutId'[t] = gen[t]
                      \/ exec.at \in {"wait", "handle"} /\ exec.sock = t /\ exec.id = gen[t]
    BY <1>1 DEF RunningIsArmed, Carries, Done
  <2>1. CASE t # s
    BY <1>3, <2>1 DEF RunningIsArmed, Carries, Done
  <2>2. CASE t = s
    BY <1>4, <2>2, ScriptsLemma
  <2> QED
    BY <2>1, <2>2
<1> QED
  BY <1>6, <1>8, <1>9, <1>10, <1>11

(* A task's delay runs out.                                                *)
LEMMA ElapseLemma ==
  ASSUME TimersInv, NEW s \in Sockets, NEW g \in Gens, Elapse(s, g)
  PROVE  TimersInv'
<1> USE DEF TimersInv
<1>1. /\ elapsed' = [elapsed EXCEPT ![s] = elapsed[s] \cup {g}]
      /\ UNCHANGED <<gen, running, timeoutId, future, pending, todo, owner, exec>>
  BY DEF Elapse, java
<1>2. elapsed \in [Sockets -> SUBSET Gens]
  BY DEF TypeOK
<1>3. TypeOK'
  BY <1>1, <1>2 DEF TypeOK
<1>4. ExecutorHolds' /\ ScriptsAgree'
  BY <1>1 DEF ExecutorHolds, ScriptsAgree
<1>5. Confined'
  BY <1>1, <1>2 DEF Confined
<1>6. RunningIsArmed'
  BY <1>1 DEF RunningIsArmed, Carries
<1> QED
  BY <1>3, <1>4, <1>5, <1>6

(* The executor begins a task that is due.  It is in no socket then, so    *)
(* nothing is in the middle of a confined timeout, and the task that is    *)
(* begun is the one of its last start.                                     *)
LEMMA RunTaskLemma ==
  ASSUME TimersInv, NEW s \in Sockets, NEW g \in Gens, RunTask(s, g)
  PROVE  TimersInv'
<1> USE DEF TimersInv
<1>1. /\ exec = Idle /\ g \in pending[s] /\ g \in elapsed[s]
      /\ pending' = [pending EXCEPT ![s] = pending[s] \ {g}]
      /\ exec' = [at |-> "run", sock |-> s]
      /\ UNCHANGED <<gen, running, timeoutId, future, elapsed, todo, owner>>
  BY DEF RunTask
<1>2. /\ pending \in [Sockets -> SUBSET Gens]
      /\ owner \in [Sockets -> {"free", "executor", "other"}]
  BY DEF TypeOK
<1>3. exec.at = "idle" /\ exec'.at = "run" /\ exec'.sock = s
  BY <1>1 DEF Idle
<1>4. /\ pending'[s] = pending[s] \ {g}
      /\ \A t \in Sockets \ {s} : pending'[t] = pending[t]
  BY <1>1, <1>2
<1>5. TypeOK'
  BY <1>1, <1>2 DEF TypeOK, ExecStates
<1>6. ExecutorHolds'
  BY <1>1, <1>3 DEF ExecutorHolds
<1>7. ScriptsAgree'
  BY <1>1 DEF ScriptsAgree
<1>8. s \notin Shared =>
        /\ todo[s] = Done /\ g = gen[s] /\ future[s] = gen[s]
        /\ timeoutId[s] = gen[s] /\ pending'[s] = {}
  <2> SUFFICES ASSUME s \notin Shared
               PROVE  /\ todo[s] = Done /\ g = gen[s] /\ future[s] = gen[s]
                      /\ timeoutId[s] = gen[s] /\ pending'[s] = {}
    OBVIOUS
  <2>1. owner[s] = "free"
    BY <1>2, <1>3 DEF ExecutorHolds, Confined
  <2>2. todo[s] = Done
    BY <2>1 DEF ExecutorHolds
  <2>3. future[s] = gen[s] /\ timeoutId[s] = gen[s]
    BY <2>2 DEF ScriptsAgree
  <2>4. pending[s] \subseteq {future[s]}
    BY DEF Confined
  <2> QED
    BY <1>1, <1>4, <2>2, <2>3, <2>4
<1>9. Confined'
  <2> SUFFICES ASSUME NEW t \in Sockets \ Shared
               PROVE  /\ owner[t] # "other"
                      /\ pending'[t] \subseteq {future[t]}
                      /\ ~running[t] /\ todo[t] = Done => pending'[t] = {}
                      /\ todo[t] \in {StartCalls, Scheduling} => pending'[t] = {}
                      /\ t = s => gen[t] \in elapsed[t] /\ pending'[t] = {}
    BY <1>1, <1>3 DEF Confined
  <2>1. CASE t # s
    BY <1>4, <2>1 DEF Confined
  <2>2. CASE t = s
    BY <1>1, <1>8, <2>2 DEF Confined
  <2> QED
    BY <2>1, <2>2
<1>10. RunningIsArmed'
  <2> SUFFICES ASSUME NEW t \in Sockets, running[t], todo[t] = Done
               PROVE  gen[t] \in pending'[t] \/ (t = s /\ timeoutId[t] = gen[t])
    BY <1>1, <1>3 DEF RunningIsArmed, Carries, Done
  <2>1. gen[t] \in pending[t]
    BY <1>3 DEF RunningIsArmed, Carries, Done
  <2>2. timeoutId[t] = gen[t]
    BY DEF ScriptsAgree
  <2> QED
    BY <1>4, <2>1, <2>2
<1> QED
  BY <1>5, <1>6, <1>7, <1>9, <1>10
(* run() reads the identifier.                                             *)
LEMMA ReadIdLemma ==
  ASSUME TimersInv, ReadId
  PROVE  TimersInv'
<1> USE DEF TimersInv
<1> DEFINE s == exec.sock
<1>1. /\ exec.at = "run" /\ s \in Sockets
      /\ exec' = [at |-> "wait", sock |-> s, id |-> timeoutId[s]]
      /\ UNCHANGED <<gen, running, timeoutId, future, pending, elapsed, todo, owner>>
  BY ExecLemma DEF ReadId, java, TypeOK
<1>2. exec'.at = "wait" /\ exec'.sock = s /\ exec'.id = timeoutId[s]
  BY <1>1
<1> HIDE DEF s
<1>3. TypeOK'
  <2>1. timeoutId[s] \in Gens \cup {0}
    BY <1>1 DEF TypeOK
  <2>2. exec' \in ExecStates
    BY <1>1, <2>1 DEF ExecStates
  <2> QED
    BY <1>1, <2>2 DEF TypeOK
<1>4. ExecutorHolds'
  BY <1>1, <1>2 DEF ExecutorHolds
<1>5. ScriptsAgree'
  BY <1>1 DEF ScriptsAgree
<1>6. Confined'
  <2>1. s \notin Shared => timeoutId[s] = gen[s]
    <3>1. s \notin Shared => owner[s] = "free"
      BY <1>1 DEF ExecutorHolds, Confined, TypeOK
    <3> QED
      BY <1>1, <3>1 DEF ExecutorHolds, ScriptsAgree
  <2>2. \A t \in Sockets \ Shared :
          t = s => gen[t] \in elapsed[t] /\ pending[t] = {}
    BY <1>1 DEF Confined, s
  <2> QED
    BY <1>1, <1>2, <2>1, <2>2 DEF Confined
<1>7. RunningIsArmed'
  <2>1. \A t \in Sockets : running[t] /\ todo[t] = Done =>
          gen[t] \in pending[t] \/ (t = s /\ timeoutId[t] = gen[t])
    BY <1>1 DEF RunningIsArmed, Carries, Done, s
  <2> QED
    BY <1>1, <1>2, <2>1 DEF RunningIsArmed, Carries, Done
<1> QED
  BY <1>3, <1>4, <1>5, <1>6, <1>7

(* handleTimeout gets the monitor.                                         *)
LEMMA HandleTimeoutLemma ==
  ASSUME TimersInv, HandleTimeout
  PROVE  TimersInv'
<1> USE DEF TimersInv
<1> DEFINE s == exec.sock
<1>1. /\ exec.at = "wait" /\ s \in Sockets /\ exec.id \in Gens \cup {0}
      /\ owner[s] = "free" /\ exec \in ExecStates
      /\ owner' = [owner EXCEPT ![s] = "executor"]
      /\ exec' = [exec EXCEPT !.at = "handle"]
      /\ UNCHANGED <<gen, running, timeoutId, future, pending, elapsed, todo>>
  BY ExecLemma DEF HandleTimeout, java, TypeOK
<1>2. /\ exec' = [at |-> "handle", sock |-> s, id |-> exec.id]
      /\ exec'.at = "handle" /\ exec'.sock = s /\ exec'.id = exec.id
  BY <1>1 DEF ExecStates, Idle
<1> HIDE DEF s
<1>3. owner \in [Sockets -> {"free", "executor", "other"}]
  BY DEF TypeOK
<1>4. TypeOK'
  <2>1. exec' \in ExecStates
    BY <1>1, <1>2 DEF ExecStates
  <2>2. owner' \in [Sockets -> {"free", "executor", "other"}]
    BY <1>1, <1>3
  <2> QED
    BY <1>1, <2>1, <2>2 DEF TypeOK
<1>5. ExecutorHolds'
  BY <1>1, <1>2, <1>3 DEF ExecutorHolds
<1>6. ScriptsAgree'
  BY <1>1 DEF ScriptsAgree
<1>7. Confined'
  <2>1. \A t \in Sockets \ Shared :
          t = s => gen[t] \in elapsed[t] /\ pending[t] = {} /\ exec.id = gen[t]
    BY <1>1 DEF Confined, s
  <2>2. \A t \in Sockets \ Shared : owner'[t] # "other"
    BY <1>1, <1>3 DEF Confined
  <2> QED
    BY <1>1, <1>2, <2>1, <2>2 DEF Confined
<1>8. RunningIsArmed'
  <2>1. \A t \in Sockets : running[t] /\ todo[t] = Done =>
          gen[t] \in pending[t] \/ (t = s /\ exec.id = gen[t])
    BY <1>1 DEF RunningIsArmed, Carries, Done, s
  <2> QED
    BY <1>1, <1>2, <2>1 DEF RunningIsArmed, Carries, Done
<1> QED
  BY <1>4, <1>5, <1>6, <1>7, <1>8

(* The timer expires, and is started again or not.                         *)
LEMMA ExpireLemma ==
  ASSUME TimersInv, Expire
  PROVE  TimersInv'
<1> USE DEF TimersInv
<1> DEFINE s == exec.sock
<1>1. /\ exec.at = "handle" /\ s \in Sockets /\ todo[s] = Done
      /\ running[s] /\ exec.id = gen[s]
      /\ exec' = [at |-> "inside", sock |-> s]
      /\ UNCHANGED <<timeoutId, future, pending, elapsed, owner>>
      /\ \/ /\ gen[s] < MaxGen /\ gen' = [gen EXCEPT ![s] = gen[s] + 1]
            /\ running' = [running EXCEPT ![s] = TRUE]
            /\ todo' = [todo EXCEPT ![s] = StartCalls]
         \/ running' = [running EXCEPT ![s] = FALSE] /\ UNCHANGED <<gen, todo>>
  BY ExecLemma DEF Expire, Begin, Current, java, TypeOK, ExecutorHolds
<1>2. /\ gen \in [Sockets -> Gens \cup {0}] /\ running \in [Sockets -> BOOLEAN]
      /\ todo \in [Sockets -> Seq({"cancel", "setId", "schedule"})]
      /\ owner \in [Sockets -> {"free", "executor", "other"}]
  BY DEF TypeOK
<1>3. exec'.at = "inside" /\ exec'.sock = s
  BY <1>1
<1>4. /\ \/ running'[s] /\ gen'[s] = gen[s] + 1 /\ todo'[s] = StartCalls
         \/ ~running'[s] /\ gen'[s] = gen[s] /\ todo'[s] = Done
      /\ \A t \in Sockets \ {s} :
           running'[t] = running[t] /\ gen'[t] = gen[t] /\ todo'[t] = todo[t]
  BY <1>1, <1>2
<1>5. timeoutId[s] = gen[s] /\ future[s] = gen[s]
  BY <1>1 DEF ScriptsAgree
<1>6. owner[s] = "executor" /\ (s \notin Shared => pending[s] = {})
  BY <1>1 DEF ExecutorHolds, Confined
<1>7. /\ \A t \in Sockets : owner[t] = "executor" <=> t = s
      /\ \A t \in Sockets : running[t] /\ todo[t] = Done /\ t # s => gen[t] \in pending[t]
  BY <1>1 DEF ExecutorHolds, RunningIsArmed, Carries, Done
<1> HIDE DEF s
<1>8. TypeOK'
  <2>1. exec' \in ExecStates
    BY <1>1 DEF ExecStates
  <2>2. running' \in [Sockets -> BOOLEAN]
    BY <1>1, <1>2
  <2>3. gen' \in [Sockets -> Gens \cup {0}]
    BY <1>1, <1>2, TimersAssumption DEF Gens
  <2>4. todo' \in [Sockets -> Seq({"cancel", "setId", "schedule"})]
    <3>1. StartCalls \in Seq({"cancel", "setId", "schedule"})
      BY ScriptsLemma DEF Scripts
    <3> QED
      BY <1>1, <1>2, <3>1
  <2> QED
    BY <1>1, <2>1, <2>2, <2>3, <2>4 DEF TypeOK
<1>9. ExecutorHolds'
  <2>1. \A t \in Sockets : owner[t] = "free" => t # s /\ todo[t] = Done
    BY <1>6 DEF ExecutorHolds
  <2> QED
    BY <1>1, <1>3, <1>4, <1>7, <2>1 DEF ExecutorHolds
<1>10. ScriptsAgree'
  <2> SUFFICES ASSUME NEW t \in Sockets
               PROVE  /\ todo'[t] \in Scripts
                      /\ running'[t] => gen'[t] # 0
                      /\ todo'[t] = StopCalls => ~running'[t]
                      /\ todo'[t] \in {RestartCalls, StartCalls, Scheduling} => running'[t]
                      /\ todo'[t] \in {Done, StopCalls, Scheduling} => timeoutId[t] = gen'[t]
                      /\ todo'[t] \in {Done, StopCalls} => future[t] = gen'[t]
    BY <1>1 DEF ScriptsAgree
  <2>1. CASE t # s
    BY <1>4, <2>1 DEF ScriptsAgree
  <2>2. CASE t = s
    <3>1. gen[s] + 1 # 0
      <4>1. gen[s] \in Nat
        BY <1>1, <1>2, TimersAssumption DEF Gens
      <4> QED
        BY <4>1
    <3>2. StartCalls \in Scripts /\ Done \in Scripts
      BY DEF Scripts
    <3> QED
      BY <1>4, <1>5, <2>2, <3>1, <3>2, ScriptsLemma
  <2> QED
    BY <2>1, <2>2
<1>11. Confined'
  <2> SUFFICES ASSUME NEW t \in Sockets \ Shared
               PROVE  /\ owner[t] # "other"
                      /\ pending[t] \subseteq {future[t]}
                      /\ ~running'[t] /\ todo'[t] = Done => pending[t] = {}
                      /\ todo'[t] \in {StartCalls, Scheduling} => pending[t] = {}
    BY <1>1, <1>3 DEF Confined
  <2>1. CASE t # s
    BY <1>4, <2>1 DEF Confined
  <2>2. CASE t = s
    BY <1>6, <2>2 DEF Confined
  <2> QED
    BY <2>1, <2>2
<1>12. RunningIsArmed'
  <2>1. \A t \in Sockets : running'[t] /\ todo'[t] = Done => gen'[t] \in pending[t]
    BY <1>4, <1>7, ScriptsLemma
  <2> QED
    BY <1>1, <2>1 DEF RunningIsArmed, Done
<1> QED
  BY <1>8, <1>9, <1>10, <1>11, <1>12

(* The identifier is not current.                                          *)
LEMMA IgnoreLemma ==
  ASSUME TimersInv, Ignore
  PROVE  TimersInv'
<1> USE DEF TimersInv
<1> DEFINE s == exec.sock
<1>1. /\ exec.at = "handle" /\ s \in Sockets
      /\ ~(running[s] /\ exec.id = gen[s])
      /\ exec' = [at |-> "inside", sock |-> s]
      /\ UNCHANGED <<gen, running, timeoutId, future, pending, elapsed, todo, owner>>
  BY ExecLemma DEF Ignore, Current, java, TypeOK
<1>2. exec'.at = "inside" /\ exec'.sock = s
  BY <1>1
<1>3. /\ \A t \in Sockets : owner[t] = "executor" <=> t = s
      /\ \A t \in Sockets : running[t] /\ todo[t] = Done => gen[t] \in pending[t]
  BY <1>1 DEF ExecutorHolds, RunningIsArmed, Carries, Done
<1> HIDE DEF s
<1>4. TypeOK'
  BY <1>1 DEF TypeOK, ExecStates
<1>5. ExecutorHolds'
  BY <1>1, <1>2, <1>3 DEF ExecutorHolds
<1>6. ScriptsAgree'
  BY <1>1 DEF ScriptsAgree
<1>7. Confined'
  BY <1>1, <1>2 DEF Confined
<1>8. RunningIsArmed'
  BY <1>1, <1>3 DEF RunningIsArmed, Done
<1> QED
  BY <1>4, <1>5, <1>6, <1>7, <1>8

-----------------------------------------------------------------------------
(* The theorems.                                                           *)

(* Every step of the two threads, the clock and dcsctp's timers.           *)
LEMMA StepLemma == TimersInv /\ [Next]_vars => TimersInv'
<1> SUFFICES ASSUME TimersInv, [Next]_vars PROVE TimersInv'
  OBVIOUS
<1>1. CASE UNCHANGED vars
  <2>1. TypeOK'
    BY <1>1 DEF vars, TimersInv, TypeOK
  <2>2. ExecutorHolds' /\ ScriptsAgree'
    BY <1>1 DEF vars, TimersInv, ExecutorHolds, ScriptsAgree
  <2>3. Confined' /\ RunningIsArmed'
    BY <1>1 DEF vars, TimersInv, Confined, RunningIsArmed, Carries
  <2> QED
    BY <2>1, <2>2, <2>3 DEF TimersInv
<1>2. CASE ExecStep
  BY <1>2, ReadIdLemma, HandleTimeoutLemma, ExpireLemma, IgnoreLemma DEF ExecStep
<1>3. ASSUME NEW s \in Sockets, ExecEnters(s) \/ OtherEnters(s)
      PROVE  TimersInv'
  BY <1>3, EnterLemma
<1>4. ASSUME NEW s \in Sockets, Leave(s)
      PROVE  TimersInv'
  BY <1>4, LeaveLemma
<1>5. ASSUME NEW s \in Sockets, StartTimer(s) \/ RestartTimer(s) \/ StopTimer(s)
      PROVE  TimersInv'
  BY <1>5, TimerLemma
<1>6. ASSUME NEW s \in Sockets, JavaStep(s)
      PROVE  TimersInv'
  BY <1>6, JavaStepLemma
<1>7. ASSUME NEW s \in Sockets, NEW g \in Gens, Elapse(s, g) \/ RunTask(s, g)
      PROVE  TimersInv'
  BY <1>7, ElapseLemma, RunTaskLemma
<1> QED
  BY <1>1, <1>2, <1>3, <1>4, <1>5, <1>6, <1>7 DEF Next

(* The invariant holds in every reachable state.                           *)
THEOREM TimersInvariance == Spec => []TimersInv
<1> QED
  BY InitLemma, StepLemma, PTL DEF Spec

(* The variables keep their types.                                         *)
THEOREM TimersTypeCorrect == Spec => []TypeOK
<1>1. TimersInv => TypeOK
  BY DEF TimersInv
<1> QED
  BY <1>1, TimersInvariance, PTL

(* The timer of a socket that only the executor's thread calls expires     *)
(* when its own task's delay has run out (TestTimeout.run, 53-60).         *)
THEOREM ConfinedExpiresInTime == Spec => []ConfinedNeverEarly
<1>1. TimersInv => ConfinedNeverEarly
  <2> SUFFICES ASSUME TimersInv, exec.at = "handle", exec.sock \notin Shared
               PROVE  NoEarlyExpiry
    BY DEF ConfinedNeverEarly
  <2>1. exec.sock \in Sockets
    BY ExecLemma DEF TimersInv, TypeOK
  <2> QED
    BY <2>1 DEF TimersInv, Confined, NoEarlyExpiry, Current
<1> QED
  BY <1>1, TimersInvariance, PTL

(* Such a socket's timeout has one scheduled task at most.                 *)
THEOREM AtMostOneTask == Spec => []OneTask
<1>1. TimersInv => OneTask
  <2> SUFFICES ASSUME TimersInv, NEW s \in Sockets \ Shared
               PROVE  Cardinality(pending[s]) <= 1
    BY DEF OneTask
  <2>1. pending[s] = {} \/ pending[s] = {future[s]}
    BY DEF TimersInv, Confined
  <2>2. CASE pending[s] = {}
    <3>1. Cardinality(pending[s]) = 0
      BY <2>2, FS_EmptySet
    <3> QED
      BY <3>1
  <2>3. CASE pending[s] = {future[s]}
    <3>1. Cardinality(pending[s]) = 1
      BY <2>3, FS_Singleton
    <3> QED
      BY <3>1
  <2> QED
    BY <2>1, <2>2, <2>3
<1> QED
  BY <1>1, TimersInvariance, PTL

(* A running timer of any socket has its task scheduled, or the executor   *)
(* carries its identifier (WrappedTimeout and TestTimeout).                *)
THEOREM RunningStaysArmed == Spec => []RunningIsArmed
<1>1. TimersInv => RunningIsArmed
  BY DEF TimersInv
<1> QED
  BY <1>1, TimersInvariance, PTL
=============================================================================
