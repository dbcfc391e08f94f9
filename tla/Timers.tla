------------------------------- MODULE Timers -------------------------------
(***************************************************************************)
(* Timers between dcsctp and Java.  dcsctp starts, stops and restarts a    *)
(* timer through WrappedTimeout, always under the socket's monitor; the    *)
(* application's Timeout (TestTimeout) schedules a task on a one-thread    *)
(* executor that calls handleTimeout with the timer's identifier.  A task  *)
(* may fire while another thread is inside the socket.                     *)
(*                                                                         *)
(* dcsctp is external and modelled by the contract of Timeout.java: every  *)
(* start has a fresh identifier, here the timer's generation, and an       *)
(* identifier that is no longer current is ignored.  The timers of a       *)
(* socket are numbered the same way in every socket, so one timer a socket *)
(* stands for the corresponding timers of all of them.  Time is abstract:  *)
(* a scheduled task's delay runs out at some moment.                       *)
(***************************************************************************)
EXTENDS Naturals, FiniteSets, Sequences

CONSTANTS
  Sockets,
  Shared,  \* the sockets that another thread than the executor calls, too
  MaxGen   \* how often a timer is started (a bound)

ASSUME TimersAssumption == Shared \subseteq Sockets /\ MaxGen \in Nat

Gens == 1..MaxGen
Idle == [at |-> "idle"]

VARIABLES
  gen,        \* gen[s]: the generation of the timer's last start (dcsctp)
  running,    \* running[s]: the timer is running (dcsctp)
  timeoutId,  \* timeoutId[s]: the field of TestTimeout
  future,     \* future[s]: the task the field `future` stands for, or 0
  pending,    \* pending[s]: the tasks scheduled and neither begun nor cancelled
  elapsed,    \* elapsed[s]: the generations whose delay has run out
  todo,       \* todo[s]: what start(), stop() or restart() has left to do
  owner,      \* owner[s]: "free", or who holds the monitor of s
  exec        \* the executor thread

vars == <<gen, running, timeoutId, future, pending, elapsed, todo, owner, exec>>
java == <<timeoutId, future, pending>>

(* The executor: idle; in TestTimeout.run of a socket's timeout; waiting   *)
(* for the monitor with an identifier; inside handleTimeout, to trigger    *)
(* the timer; or inside any call of a socket.                              *)
ExecStates ==
  {Idle}
    \cup [at : {"run"}, sock : Sockets]
    \cup [at : {"wait", "handle"}, sock : Sockets, id : Gens \cup {0}]
    \cup [at : {"inside"}, sock : Sockets]

TypeOK ==
  /\ gen \in [Sockets -> Gens \cup {0}]
  /\ running \in [Sockets -> BOOLEAN]
  /\ timeoutId \in [Sockets -> Gens \cup {0}]
  /\ future \in [Sockets -> Gens \cup {0}]
  /\ pending \in [Sockets -> SUBSET Gens]
  /\ elapsed \in [Sockets -> SUBSET Gens]
  /\ todo \in [Sockets -> Seq({"cancel", "setId", "schedule"})]
  /\ owner \in [Sockets -> {"free", "executor", "other"}]
  /\ exec \in ExecStates

Init ==
  /\ gen = [s \in Sockets |-> 0]
  /\ running = [s \in Sockets |-> FALSE]
  /\ timeoutId = [s \in Sockets |-> 0]
  /\ future = [s \in Sockets |-> 0]
  /\ pending = [s \in Sockets |-> {}]
  /\ elapsed = [s \in Sockets |-> {}]
  /\ todo = [s \in Sockets |-> <<>>]
  /\ owner = [s \in Sockets |-> "free"]
  /\ exec = Idle

-----------------------------------------------------------------------------
(* Calls into a socket, and what dcsctp does with its timer inside them.   *)

(* The executor runs a task that calls the socket (receivePacket).         *)
ExecEnters(s) ==
  /\ exec = Idle
  /\ owner[s] = "free"
  /\ owner' = [owner EXCEPT ![s] = "executor"]
  /\ exec' = [at |-> "inside", sock |-> s]
  /\ UNCHANGED <<gen, running, java, elapsed, todo>>

OtherEnters(s) ==
  /\ s \in Shared
  /\ owner[s] = "free"
  /\ owner' = [owner EXCEPT ![s] = "other"]
  /\ UNCHANGED <<gen, running, java, elapsed, todo, exec>>

(* Nobody is in the middle of the timeout's methods, or about to trigger.  *)
InNative(s) ==
  /\ owner[s] # "free"
  /\ todo[s] = <<>>
  /\ ~(exec.at = "handle" /\ exec.sock = s)

(* Mutant: a monitor left with a value no thread looks for.                *)
LeaveIdle(s) ==
  /\ InNative(s)
  /\ owner' = [owner EXCEPT ![s] = "idle"]
  /\ exec' = IF owner[s] = "executor" THEN Idle ELSE exec
  /\ UNCHANGED <<gen, running, java, elapsed, todo>>

Leave(s) ==
  /\ InNative(s)
  /\ owner' = [owner EXCEPT ![s] = "free"]
  /\ exec' = IF owner[s] = "executor" THEN Idle ELSE exec
  /\ UNCHANGED <<gen, running, java, elapsed, todo>>

(* A new generation starts; the Java calls that follow are left to do.     *)
Begin(s, calls) ==
  /\ gen[s] < MaxGen
  /\ gen' = [gen EXCEPT ![s] = @ + 1]
  /\ running' = [running EXCEPT ![s] = TRUE]
  /\ todo' = [todo EXCEPT ![s] = calls]

(* Mutant: a start that forgets to schedule the task.                      *)
StartWithoutTask == <<"setId">>

StartCalls == <<"setId", "schedule">>
StopCalls  == <<"cancel">>

(* Mutants: a restart that does not stop, or starts before it stops.       *)
RestartWithoutStop == StartCalls
RestartStartingFirst == StartCalls \o StopCalls

(* Timeout.restart is stop() and then start().                             *)
RestartCalls == StopCalls \o StartCalls

StartTimer(s) ==
  /\ InNative(s) /\ ~running[s]
  /\ Begin(s, StartCalls)
  /\ UNCHANGED <<java, elapsed, owner, exec>>

RestartTimer(s) ==
  /\ InNative(s) /\ running[s]
  /\ Begin(s, RestartCalls)
  /\ UNCHANGED <<java, elapsed, owner, exec>>

StopTimer(s) ==
  /\ InNative(s) /\ running[s]
  /\ running' = [running EXCEPT ![s] = FALSE]
  /\ todo' = [todo EXCEPT ![s] = StopCalls]
  /\ UNCHANGED <<gen, java, elapsed, owner, exec>>

-----------------------------------------------------------------------------
(* TestTimeout's methods, one access of a field at a time.                 *)

TakeStep(s, call) ==
  /\ todo[s] # <<>> /\ Head(todo[s]) = call
  /\ todo' = [todo EXCEPT ![s] = Tail(@)]

(* future.cancel(false): no effect on a task that has begun.               *)
Cancel(s) ==
  /\ TakeStep(s, "cancel")
  /\ pending' = [pending EXCEPT ![s] = @ \ {future[s]}]
  /\ UNCHANGED <<gen, running, timeoutId, future, elapsed, owner, exec>>

SetId(s) ==
  /\ TakeStep(s, "setId")
  /\ timeoutId' = [timeoutId EXCEPT ![s] = gen[s]]
  /\ UNCHANGED <<gen, running, future, pending, elapsed, owner, exec>>

Schedule(s) ==
  /\ TakeStep(s, "schedule")
  /\ future' = [future EXCEPT ![s] = gen[s]]
  /\ pending' = [pending EXCEPT ![s] = @ \cup {gen[s]}]
  /\ UNCHANGED <<gen, running, timeoutId, elapsed, owner, exec>>

-----------------------------------------------------------------------------
(* A task's delay runs out, and the executor runs it.                      *)

Elapse(s, g) ==
  /\ g \in pending[s] \ elapsed[s]
  /\ elapsed' = [elapsed EXCEPT ![s] = @ \cup {g}]
  /\ UNCHANGED <<gen, running, java, todo, owner, exec>>

RunTask(s, g) ==
  /\ exec = Idle
  /\ g \in pending[s] \cap elapsed[s]
  /\ pending' = [pending EXCEPT ![s] = @ \ {g}]
  /\ exec' = [at |-> "run", sock |-> s]
  /\ UNCHANGED <<gen, running, timeoutId, future, elapsed, todo, owner>>

(* run() evaluates its arguments, then calls the synchronized method.      *)
ReadId ==
  /\ exec.at = "run"
  /\ exec' = [at |-> "wait", sock |-> exec.sock, id |-> timeoutId[exec.sock]]
  /\ UNCHANGED <<gen, running, java, elapsed, todo, owner>>

HandleTimeout ==
  /\ exec.at = "wait"
  /\ owner[exec.sock] = "free"
  /\ owner' = [owner EXCEPT ![exec.sock] = "executor"]
  /\ exec' = [exec EXCEPT !.at = "handle"]
  /\ UNCHANGED <<gen, running, java, elapsed, todo>>

Current(s, id) == running[s] /\ id = gen[s]

(* The identifier is current: the timer expires, and runs again or not.    *)
Expire ==
  LET s == exec.sock IN
  /\ exec.at = "handle"
  /\ Current(s, exec.id)
  /\ exec' = [at |-> "inside", sock |-> s]
  /\ \/ Begin(s, StartCalls)
     \/ running' = [running EXCEPT ![s] = FALSE] /\ UNCHANGED <<gen, todo>>
  /\ UNCHANGED <<java, elapsed, owner>>

Ignore ==
  /\ exec.at = "handle"
  /\ ~Current(exec.sock, exec.id)
  /\ exec' = [at |-> "inside", sock |-> exec.sock]
  /\ UNCHANGED <<gen, running, java, elapsed, todo, owner>>

-----------------------------------------------------------------------------
JavaStep(s) == Cancel(s) \/ SetId(s) \/ Schedule(s)
ExecStep == ReadId \/ HandleTimeout \/ Expire \/ Ignore

Next ==
  \/ ExecStep
  \/ \E s \in Sockets :
       \/ ExecEnters(s) \/ OtherEnters(s) \/ Leave(s)
       \/ StartTimer(s) \/ RestartTimer(s) \/ StopTimer(s)
       \/ JavaStep(s)
       \/ \E g \in Gens : Elapse(s, g) \/ RunTask(s, g)

Spec == Init /\ [][Next]_vars

(* Threads inside a socket finish and leave it; time passes; the executor  *)
(* works, and gets to a task that is due and to a contended monitor.       *)
Fairness ==
  /\ WF_vars(ReadId) /\ WF_vars(Expire \/ Ignore) /\ SF_vars(HandleTimeout)
  /\ \A s \in Sockets :
       /\ WF_vars(JavaStep(s))
       /\ SF_vars(Leave(s))
       /\ \A g \in Gens : WF_vars(Elapse(s, g)) /\ SF_vars(RunTask(s, g))

FairSpec == Spec /\ Fairness
-----------------------------------------------------------------------------
(* A timer that is about to expire has run for its whole delay: the        *)
(* identifier handleTimeout gets is one whose own task was due.            *)
NoEarlyExpiry ==
  exec.at = "handle" /\ Current(exec.sock, exec.id) =>
    exec.id \in elapsed[exec.sock]

(* Where only the executor thread calls a socket, that is so: no task of   *)
(* the socket's timeout can be running while it is restarted.              *)
ConfinedNeverEarly == exec.at = "handle" /\ exec.sock \notin Shared => NoEarlyExpiry

(* Nor is a task left behind that no later stop() can cancel: start, stop  *)
(* and restart keep at most one of its timeout scheduled.                  *)
OneTask == \A s \in Sockets \ Shared : Cardinality(pending[s]) <= 1

(* The executor is on its way to s with the identifier g.                  *)
Carries(s, g) ==
  \/ exec.at = "run" /\ exec.sock = s /\ timeoutId[s] = g
  \/ exec.at \in {"wait", "handle"} /\ exec.sock = s /\ exec.id = g

(* Whatever the two threads do, a running timer stays armed: its task is   *)
(* scheduled, or the executor carries its identifier.                      *)
RunningIsArmed ==
  \A s \in Sockets :
    running[s] /\ todo[s] = <<>> => gen[s] \in pending[s] \/ Carries(s, gen[s])

(* Every timer expires unless dcsctp stops or restarts it: as it is        *)
(* started at most MaxGen times, it does not run for ever.                 *)
Expires ==
  \A s \in Sockets : []<>~running[s]
=============================================================================
