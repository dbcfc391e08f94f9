------------------------------- MODULE Logging -------------------------------
(***************************************************************************)
(* Log messages of dcsctp on their way to java.util.logging, composed with *)
(* ClassInit, which loads the library and registers the log proxy.  The    *)
(* proxy asks the Java logger once, severity by severity, for the broadest *)
(* severity it logs, and native code drops what is below that; what passes *)
(* is filtered again by the logger, whose level the application may change *)
(* at any time.                                                            *)
(*                                                                         *)
(* External: the logger, and WebRTC's LogMessage, which passes messages of *)
(* the registered severity and above to the proxy.                         *)
(***************************************************************************)
EXTENDS ClassInit

CONSTANT Levels  \* the levels the logger is given, as in java.util.logging

Off == 2147483647
ASSUME LevelsAssumption == Levels \subseteq 0..Off

(* LogProxy.LoggingSeverity.values(), and the `level` of each.             *)
Values == <<"LS_VERBOSE", "LS_INFO", "LS_WARNING", "LS_ERROR", "LS_NONE">>
LevelOf == [LS_VERBOSE |-> 500, LS_INFO |-> 800, LS_WARNING |-> 900,
            LS_ERROR |-> 1000, LS_NONE |-> Off]

VARIABLES
  level,    \* the level of the logger
  examined, \* how many severities getEffectiveLoggingSeverity has looked at
  broadest, \* its result so far
  minimum,  \* the least native severity that reaches the proxy
  logged,   \* the last native message's severity, and whether Java published it
  steadily, \* the severities the logger has logged ever since it was first asked
  once      \* those it has logged at some time while it was asked

logVars == <<level, examined, broadest, minimum, logged, steadily, once>>
allVars == <<vars, logVars>>

IsLoggable(l, s) == LevelOf[s] >= l /\ l # Off
Wanted(l) == {s \in DOMAIN LevelOf : IsLoggable(l, s)}

LogTypeOK ==
  /\ level \in Levels
  /\ examined \in 0..Len(Values)
  /\ broadest \in DOMAIN LevelOf
  /\ minimum \in 0..4
  /\ logged \in [severity : 0..3, published : BOOLEAN] \cup {<<>>}
  /\ steadily \subseteq once

LogInit ==
  /\ Init
  /\ level \in Levels
  /\ examined = 0 /\ broadest = "LS_NONE" /\ minimum = 4
  /\ logged = <<>>
  /\ steadily = Wanted(level) /\ once = Wanted(level)

-----------------------------------------------------------------------------
(* Mutant: the severities numbered from 1.                                 *)
ToNativeShifted == [LS_VERBOSE |-> 1, LS_INFO |-> 2, LS_WARNING |-> 3,
                    LS_ERROR |-> 4, LS_NONE |-> 5]

(* rtc::LoggingSeverity by number, and LoggingSeverity_members::map to it. *)
ToNative == [LS_VERBOSE |-> 0, LS_INFO |-> 1, LS_WARNING |-> 2,
             LS_ERROR |-> 3, LS_NONE |-> 4]

(* LoggingSeverity_members::map to Java.                                   *)
ToJava == <<"LS_VERBOSE", "LS_INFO", "LS_WARNING", "LS_ERROR", "LS_NONE">>

(* The application sets the level.                                         *)
SetLevel(l) ==
  /\ level' = l
  /\ steadily' = IF examined = 0 THEN Wanted(l) ELSE steadily \cap Wanted(l)
  /\ once' = IF examined = 0 THEN Wanted(l)
             ELSE IF proxy THEN once ELSE once \cup Wanted(l)
  /\ UNCHANGED <<vars, examined, broadest, minimum, logged>>

(* Mutant: the last loggable severity is taken.                            *)
BroaderInverted(s) == IsLoggable(level, s) /\ s # "LS_NONE"

(* Mutant: whether it is loggable is not asked.                            *)
BroaderUnasked(s) == LevelOf[s] < LevelOf[broadest]

Broader(s) == IsLoggable(level, s) /\ LevelOf[s] < LevelOf[broadest]

(* One turn of the loop of getEffectiveLoggingSeverity.                    *)
Examine(t) ==
  /\ Executing(t, Loader)
  /\ library = "loaded"
  /\ examined < Len(Values)
  /\ LET s == Values[examined + 1] IN broadest' = IF Broader(s) THEN s ELSE broadest
  /\ examined' = examined + 1
  /\ UNCHANGED <<vars, level, minimum, logged, steadily, once>>

(* A step of loading; registering the proxy needs the loop's result.       *)
LoadingStep(t) ==
  /\ ThreadStep(t)
  /\ IF proxy' = proxy THEN UNCHANGED minimum
     ELSE examined = Len(Values) /\ minimum' = ToNative[broadest]
  /\ UNCHANGED <<level, examined, broadest, logged, steadily, once>>

(* A thread with an object of the library is in native code, which logs a  *)
(* message of native severity n: LogProxy::OnLogMessage and onLogMessage.  *)
Log(t, n) ==
  /\ result[t] = "object"
  /\ logged' = [severity |-> n,
                published |-> n >= minimum /\ IsLoggable(level, ToJava[n + 1])]
  /\ UNCHANGED <<vars, level, examined, broadest, minimum, steadily, once>>

LogNext ==
  \/ \E t \in Threads :
       \/ LoadingStep(t)
       \/ Examine(t)
       \/ \E c \in Users : Start(t, c) /\ UNCHANGED logVars
       \/ \E n \in 0..3 : Log(t, n)
  \/ \E l \in Levels : SetLevel(l)

LogSpec == LogInit /\ [][LogNext]_allVars
LogFairSpec ==
  LogSpec /\ \A t \in Threads : WF_allVars(LoadingStep(t) \/ Examine(t))

-----------------------------------------------------------------------------
(* A message of a severity that the logger has been logging ever since the *)
(* proxy first asked is published, whatever happened to the level in       *)
(* between, before or during the questions.                                *)
SteadilyWantedArrives ==
  [][logged' # logged /\ ToJava[logged'.severity + 1] \in steadily
       => logged'.published]_allVars

(* A message is published only if the logger logs its severity now and did *)
(* at some time while the proxy asked: a level lowered later (LogProxy     *)
(* computes the severity once) brings no further native messages.          *)
PublishedWasWanted ==
  [][logged' # logged /\ logged'.published =>
       ToJava[logged'.severity + 1] \in once \cap Wanted(level)]_allVars
=============================================================================
