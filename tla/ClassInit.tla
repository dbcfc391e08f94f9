------------------------------ MODULE ClassInit ------------------------------
(***************************************************************************)
(* How the library gets loaded: class initialisation (JLS 12.4.2) of       *)
(* DcSctp4j, whose static block loads the native library and registers the *)
(* log proxy, and of the classes whose static block only calls             *)
(* DcSctp4j.init() -- DcSctpSocketFactory and DcSctpOptions -- when        *)
(* several threads create their first object.  JNI_OnLoad, on the loading  *)
(* thread, looks up and so initialises those same classes while DcSctp4j   *)
(* is still being initialised.                                             *)
(*                                                                         *)
(* External: the JVM's initialisation procedure, JNIUtils.loadLibrary, and *)
(* SimpleJNI's table of classes, which initialises each class (FindClass)  *)
(* before it registers the class's native methods.                         *)
(***************************************************************************)
EXTENDS Naturals, Sequences, SequencesExt

CONSTANTS
  Threads,    \* the threads that create objects of the library
  NoThread,
  Loader,     \* the class DcSctp4j
  Users,      \* the classes with static { DcSctp4j.init(); } and a constructor
  FirstUses,  \* the classes of which threads create an object first
  Outcomes    \* what loading may do: "ok", "exception", "error"

ASSUME ClassesAssumption ==
  /\ Loader \notin Users
  /\ FirstUses \subseteq Users
ASSUME NoThreadAssumption == NoThread \notin Threads \cup Users \cup {Loader}
ASSUME OutcomesAssumption == Outcomes \subseteq {"ok", "exception", "error"}

Classes == Users \cup {Loader}

VARIABLES
  cls,       \* cls[c]: "new", "busy" (being initialised), "done" or "failed"
  by,        \* by[c]: the thread initialising a busy class
  running,   \* running[t]: the static blocks t is executing, innermost last
  goal,      \* goal[t]: the class t constructs an object of, or NoThread
  result,    \* result[t]: "none", or how the constructor of t ended
  library,   \* "absent", "onload" (in JNI_OnLoad), "loaded" or "refused"
  bound,     \* the classes whose native methods are registered
  proxy      \* a native LogProxy is installed

vars == <<cls, by, running, goal, result, library, bound, proxy>>

TypeOK ==
  /\ cls \in [Classes -> {"new", "busy", "done", "failed"}]
  /\ by \in [Classes -> Threads \cup {NoThread}]
  /\ running \in [Threads -> Seq(Classes)]
  /\ goal \in [Threads -> Users \cup {NoThread}]
  /\ result \in [Threads -> {"none", "object", "unlinked", "error"}]
  /\ library \in {"absent", "onload", "loaded", "refused"}
  /\ bound \subseteq Users
  /\ proxy \in BOOLEAN

Init ==
  /\ cls = [c \in Classes |-> "new"]
  /\ by = [c \in Classes |-> NoThread]
  /\ running = [t \in Threads |-> <<>>]
  /\ goal = [t \in Threads |-> NoThread]
  /\ result = [t \in Threads |-> "none"]
  /\ library = "absent"
  /\ bound = {}
  /\ proxy = FALSE

-----------------------------------------------------------------------------
(* Initialising a class.                                                   *)

Executing(t, c) == running[t] # <<>> /\ Last(running[t]) = c

(* Mutants: a class is used while another thread initialises it; a thread  *)
(* waits for its own initialisation.                                       *)
ReadyWithoutWaiting(t, c) == cls[c] \in {"busy", "done"}
ReadyWithoutRecursion(t, c) == cls[c] = "done"

(* t, which needs c next, may go on: c is initialised, or t itself is      *)
(* initialising it and the request is recursive.                           *)
Ready(t, c) == cls[c] = "done" \/ (cls[c] = "busy" /\ by[c] = t)

(* The class t needs in order to go on.                                    *)
Needs(t, c) ==
  \/ running[t] = <<>> /\ goal[t] = c /\ result[t] = "none"
  \/ \E u \in Users : Executing(t, u) /\ c = Loader
  \/ Executing(t, Loader) /\ library = "onload" /\ c \in Users \ bound

Initialise(t, c) ==
  /\ Needs(t, c)
  /\ cls[c] = "new"
  /\ cls' = [cls EXCEPT ![c] = "busy"]
  /\ by' = [by EXCEPT ![c] = t]
  /\ running' = [running EXCEPT ![t] = Append(@, c)]
  /\ UNCHANGED <<goal, result, library, bound, proxy>>

(* The innermost static block of t ends, normally or by throwing.          *)
Finish(t, end) ==
  LET c == Last(running[t]) IN
  /\ cls' = [cls EXCEPT ![c] = end]
  /\ by' = [by EXCEPT ![c] = NoThread]
  /\ running' = [running EXCEPT ![t] = Front(@)]

(* static { DcSctp4j.init(); }                                             *)
FinishUser(t) ==
  \E u \in Users :
    /\ Executing(t, u)
    /\ \/ Ready(t, Loader) /\ Finish(t, "done")
       \/ cls[Loader] = "failed" /\ Finish(t, "failed")
    /\ UNCHANGED <<goal, result, library, bound, proxy>>

-----------------------------------------------------------------------------
(* The static block of DcSctp4j.                                           *)

(* JNIUtils.loadLibrary finds the library and the JVM calls JNI_OnLoad ... *)
Load(t) ==
  /\ Executing(t, Loader)
  /\ library = "absent"
  /\ "ok" \in Outcomes \/ "error" \in Outcomes
  /\ library' = "onload"
  /\ UNCHANGED <<cls, by, running, goal, result, bound, proxy>>

(* ... or throws an Exception, which is caught: the class is initialised.  *)
LoadThrows(t) ==
  /\ Executing(t, Loader)
  /\ library = "absent"
  /\ "exception" \in Outcomes
  /\ library' = "refused"
  /\ Finish(t, "done")
  /\ UNCHANGED <<goal, result, bound, proxy>>

(* Mutant: the table of classes names the loading class, too.              *)
BindAnyClass(t, c) ==
  /\ Executing(t, Loader)
  /\ library = "onload"
  /\ c \in Classes \ bound
  /\ Ready(t, c)
  /\ bound' = bound \cup {c}
  /\ UNCHANGED <<cls, by, running, goal, result, library, proxy>>

(* java_classes::init: after a class is initialised its native methods are *)
(* registered.                                                             *)
Bind(t, c) ==
  /\ Executing(t, Loader)
  /\ library = "onload"
  /\ c \in Users \ bound
  /\ Ready(t, c)
  /\ bound' = bound \cup {c}
  /\ UNCHANGED <<cls, by, running, goal, result, library, proxy>>

(* enum_members::init, and JNI_OnLoad returns the version.                 *)
OnLoadReturns(t) ==
  /\ Executing(t, Loader)
  /\ library = "onload"
  /\ "ok" \in Outcomes
  /\ bound = Users
  /\ library' = "loaded"
  /\ UNCHANGED <<cls, by, running, goal, result, bound, proxy>>

(* Mutant: the handler catches errors too, and goes on.                    *)
OnLoadFailsQuietly(t) ==
  /\ Executing(t, Loader)
  /\ library = "onload"
  /\ "error" \in Outcomes
  /\ library' = "refused"
  /\ Finish(t, "done")
  /\ UNCHANGED <<goal, result, bound, proxy>>

(* Something in JNI_OnLoad throws: it raises the error in Java and returns *)
(* 0, so loading ends in an Error, which `catch (Exception e)` lets pass.  *)
OnLoadFails(t) ==
  /\ Executing(t, Loader)
  /\ library = "onload"
  /\ "error" \in Outcomes
  /\ library' = "refused"
  /\ Finish(t, "failed")
  /\ UNCHANGED <<goal, result, bound, proxy>>

(* LogProxy.register(): the native constructor refuses a second instance   *)
(* with a Throwable that is no Exception.                                  *)
RegisterProxy(t) ==
  /\ Executing(t, Loader)
  /\ library = "loaded"
  /\ Finish(t, IF proxy THEN "failed" ELSE "done")
  /\ proxy' = TRUE
  /\ UNCHANGED <<goal, result, library, bound>>

-----------------------------------------------------------------------------
(* A thread executes new DcSctpSocketFactory() or new DcSctpOptions().     *)
Start(t, c) ==
  /\ goal[t] = NoThread
  /\ c \in FirstUses
  /\ goal' = [goal EXCEPT ![t] = c]
  /\ UNCHANGED <<cls, by, running, result, library, bound, proxy>>

Ends(t, how) ==
  /\ result' = [result EXCEPT ![t] = how]
  /\ UNCHANGED <<cls, by, running, goal, library, bound, proxy>>

InConstructor(t) == running[t] = <<>> /\ goal[t] # NoThread /\ result[t] = "none"

(* construct() is native; DcSctp4j.CLEANER needs the class DcSctp4j.       *)
Construct(t) ==
  /\ InConstructor(t)
  /\ Ready(t, goal[t])
  /\ goal[t] \in bound
  /\ Ready(t, Loader)
  /\ Ends(t, "object")

(* construct() has no native code: UnsatisfiedLinkError.                   *)
Unlinked(t) ==
  /\ InConstructor(t)
  /\ Ready(t, goal[t])
  /\ goal[t] \notin bound
  /\ Ends(t, "unlinked")

(* The class, or DcSctp4j, could not be initialised.                       *)
Erroneous(t) ==
  /\ InConstructor(t)
  /\ \/ cls[goal[t]] = "failed"
     \/ Ready(t, goal[t]) /\ goal[t] \in bound /\ cls[Loader] = "failed"
  /\ Ends(t, "error")

ThreadStep(t) ==
  \/ \E c \in Classes : Initialise(t, c) \/ Bind(t, c)
  \/ FinishUser(t)
  \/ Load(t)
  \/ LoadThrows(t)
  \/ OnLoadReturns(t)
  \/ OnLoadFails(t)
  \/ RegisterProxy(t)
  \/ Construct(t)
  \/ Unlinked(t)
  \/ Erroneous(t)

Next == \E t \in Threads : ThreadStep(t) \/ \E c \in Users : Start(t, c)

(* Threads run; none of them has to begin.                                 *)
Spec == Init /\ [][Next]_vars
FairSpec == Spec /\ \A t \in Threads : WF_vars(ThreadStep(t))

-----------------------------------------------------------------------------
(* Whoever has an object of the library has all of it: every class bound,  *)
(* the library loaded and its log going to Java.                           *)
ObjectsMeanLoaded ==
  \A t \in Threads : result[t] = "object" =>
    library = "loaded" /\ bound = Users /\ proxy

(* DcSctp4j.init() has "forced the class to be loaded, and thus            *)
(* initialized": no constructor reaches a native method that is missing    *)
(* only because another thread is still loading the library.               *)
NeverTooEarly ==
  \A t \in Threads : result[t] = "unlinked" => library = "refused"

(* The threads agree on whether the library is there.                      *)
SameOutcome ==
  \A t, u \in Threads :
    result[t] # "none" /\ result[u] # "none" => result[t] = result[u]

(* Every constructor that was called ends.                                 *)
ConstructorsEnd ==
  \A t \in Threads : goal[t] # NoThread ~> result[t] # "none"
=============================================================================
