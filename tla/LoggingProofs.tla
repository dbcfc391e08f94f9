---------------------------- MODULE LoggingProofs ----------------------------
(* Proofs about Logging, for any threads, classes, outcomes and levels:    *)
(* the composition loads the library as ClassInit does, and the two        *)
(* filters publish what the logger has wanted all along, and nothing that  *)
(* it never wanted while it was asked.                                     *)
EXTENDS Logging, ClassInitProofs

Severities == {"LS_VERBOSE", "LS_INFO", "LS_WARNING", "LS_ERROR", "LS_NONE"}

(* The severities that have been examined.                                 *)
Seen == {Values[k] : k \in 1..examined}

-----------------------------------------------------------------------------
(* The inductive invariant.                                                *)

(* What the loop knows so far, and what the proxy has made of it.          *)
Asked ==
  /\ examined = 0 => broadest = "LS_NONE"
  /\ proxy => examined = 5 /\ minimum = ToNative[broadest]
  /\ broadest \in once \cup {"LS_NONE"}
  /\ \A s \in Seen \cap steadily : LevelOf[broadest] <= LevelOf[s]

(* What the logger has wanted, and wants.                                  *)
WantedSoFar ==
  /\ steadily \subseteq Wanted(level)
  /\ ~proxy => Wanted(level) \subseteq once
  /\ once \subseteq Severities
  /\ \A r \in once, s \in Severities : LevelOf[r] <= LevelOf[s] => s \in once

LogInv == LogTypeOK /\ Asked /\ WantedSoFar

-----------------------------------------------------------------------------
(* Lemmas.                                                                 *)

(* The tables.                                                             *)
LEMMA TablesLemma ==
  /\ DOMAIN LevelOf = Severities
  /\ LevelOf["LS_VERBOSE"] = 500 /\ LevelOf["LS_INFO"] = 800
  /\ LevelOf["LS_WARNING"] = 900 /\ LevelOf["LS_ERROR"] = 1000
  /\ LevelOf["LS_NONE"] = Off
  /\ ToNative["LS_VERBOSE"] = 0 /\ ToNative["LS_INFO"] = 1
  /\ ToNative["LS_WARNING"] = 2 /\ ToNative["LS_ERROR"] = 3
  /\ ToNative["LS_NONE"] = 4
  /\ Len(Values) = 5
  /\ Values[1] = "LS_VERBOSE" /\ Values[2] = "LS_INFO" /\ Values[3] = "LS_WARNING"
  /\ Values[4] = "LS_ERROR" /\ Values[5] = "LS_NONE"
  /\ ToJava = Values
BY DEF LevelOf, Severities, ToNative, Values, ToJava

(* Integer.MAX_VALUE is larger than the other levels.                      *)
LEMMA OffLemma == Off \in Nat /\ Off > 1000
BY SMT DEF Off

(* The severity that a message of native severity n has in Java, and which *)
(* minima let it pass.                                                     *)
LEMMA SeverityLemma ==
  ASSUME NEW n \in 0..3
  PROVE  /\ ToJava[n + 1] \in Severities \ {"LS_NONE"} /\ ToJava[n + 1] = Values[n + 1]
         /\ \A s \in Severities :
              n >= ToNative[s] <=> LevelOf[s] <= LevelOf[ToJava[n + 1]]
<1>1. CASE n = 0
  BY <1>1, TablesLemma, OffLemma DEF Severities
<1>2. CASE n = 1
  BY <1>2, TablesLemma, OffLemma DEF Severities
<1>3. CASE n = 2
  BY <1>3, TablesLemma, OffLemma DEF Severities
<1>4. CASE n = 3
  BY <1>4, TablesLemma, OffLemma DEF Severities
<1> QED
  BY <1>1, <1>2, <1>3, <1>4

(* The severities that a level lets pass are upward closed.                *)
LEMMA WantedLemma ==
  ASSUME NEW l
  PROVE  Wanted(l) = {s \in Severities : IsLoggable(l, s)}
BY TablesLemma DEF Wanted

LEMMA UpwardLemma ==
  ASSUME NEW l \in Int, NEW r \in Wanted(l), NEW s \in Severities, LevelOf[r] <= LevelOf[s]
  PROVE  s \in Wanted(l)
<1>1. r \in Severities /\ LevelOf[r] >= l /\ l # Off
  BY WantedLemma DEF IsLoggable
<1>2. LevelOf[r] \in Int /\ LevelOf[s] \in Int
  BY <1>1, TablesLemma, OffLemma DEF Severities
<1>3. LevelOf[s] >= l
  BY <1>1, <1>2
<1> QED
  BY <1>1, <1>3, WantedLemma DEF IsLoggable

-----------------------------------------------------------------------------
(* Loading.                                                                *)

(* A step of the composition is one of loading, or leaves it alone.        *)
LEMMA LoadsLemma == [LogNext]_allVars => [Next]_vars
<1> SUFFICES ASSUME [LogNext]_allVars PROVE [Next]_vars
  OBVIOUS
<1>1. CASE UNCHANGED allVars
  BY <1>1 DEF allVars
<1>2. ASSUME NEW t \in Threads, LoadingStep(t)
      PROVE  Next
  BY <1>2 DEF LoadingStep, Next
<1>3. ASSUME NEW t \in Threads, NEW c \in Users, Start(t, c)
      PROVE  Next
  BY <1>3 DEF Next
<1>4. ASSUME NEW t \in Threads, Examine(t) \/ \E n \in 0..3 : Log(t, n)
      PROVE  UNCHANGED vars
  BY <1>4 DEF Examine, Log
<1>5. ASSUME NEW l \in Levels, SetLevel(l)
      PROVE  UNCHANGED vars
  BY <1>5 DEF SetLevel
<1> QED
  BY <1>1, <1>2, <1>3, <1>4, <1>5 DEF LogNext

(* The library is loaded as ClassInit says, and its invariant holds.       *)
THEOREM LoadsAsClassInit == LogSpec => Spec /\ []LoadInv
<1>1. LogInit => Init
  BY DEF LogInit
<1>2. LogSpec => Spec
  BY <1>1, LoadsLemma, PTL DEF LogSpec, Spec
<1> QED
  BY <1>2, LoadInvariance, PTL

-----------------------------------------------------------------------------
(* Each step preserves the invariant.                                      *)

LEMMA LogInitLemma == LogInit => LogInv
<1> SUFFICES ASSUME LogInit PROVE LogInv
  OBVIOUS
<1>1. /\ level \in Levels /\ examined = 0 /\ broadest = "LS_NONE" /\ minimum = 4
      /\ logged = <<>> /\ proxy = FALSE
      /\ steadily = Wanted(level) /\ once = Wanted(level)
  BY DEF LogInit, Init
<1>2. LogTypeOK
  BY <1>1, TablesLemma DEF LogTypeOK, Severities
<1>3. Asked
  BY <1>1 DEF Asked, Seen
<1>4. WantedSoFar
  <2>1. level \in Int
    BY <1>1, LevelsAssumption, OffLemma
  <2> QED
    BY <1>1, <2>1, WantedLemma, UpwardLemma DEF WantedSoFar
<1> QED
  BY <1>2, <1>3, <1>4 DEF LogInv

(* The application sets the level.                                         *)
LEMMA SetLevelLemma ==
  ASSUME LogInv, LoadInv, NEW l \in Levels, SetLevel(l)
  PROVE  LogInv'
<1> USE DEF LogInv
<1>1. /\ level' = l /\ UNCHANGED <<examined, broadest, minimum, logged, proxy>>
      /\ examined = 0 => steadily' = Wanted(l) /\ once' = Wanted(l)
      /\ examined # 0 => steadily' = steadily \cap Wanted(l)
      /\ examined # 0 /\ proxy => once' = once
      /\ examined # 0 /\ ~proxy => once' = once \cup Wanted(l)
  BY DEF SetLevel, vars
<1>2. l \in Int /\ proxy \in BOOLEAN
  BY LevelsAssumption, OffLemma DEF LoadInv, TypeOK
<1>3. LogTypeOK'
  BY <1>1 DEF LogTypeOK, Asked, WantedSoFar
<1>4. Asked'
  BY <1>1 DEF Asked, Seen
<1>5. WantedSoFar'
  <2>1. steadily' \subseteq Wanted(l)
    BY <1>1
  <2>2. ~proxy => Wanted(l) \subseteq once'
    BY <1>1
  <2>3. once' \subseteq Severities
    BY <1>1, <1>2, WantedLemma DEF WantedSoFar
  <2>4. \A r \in once', s \in Severities : LevelOf[r] <= LevelOf[s] => s \in once'
    BY <1>1, <1>2, UpwardLemma DEF WantedSoFar
  <2> QED
    BY <1>1, <2>1, <2>2, <2>3, <2>4 DEF WantedSoFar
<1> QED
  BY <1>3, <1>4, <1>5

(* The proxy asks for one more severity.                                   *)
LEMMA ExamineLemma ==
  ASSUME LogInv, LoadInv, NEW t \in Threads, Examine(t)
  PROVE  LogInv'
<1> USE DEF LogInv
<1> DEFINE s == Values[examined + 1]
<1>1. /\ Executing(t, Loader) /\ examined < 5 /\ examined' = examined + 1
      /\ broadest' = IF Broader(s) THEN s ELSE broadest
      /\ UNCHANGED <<level, minimum, logged, steadily, once, proxy>>
  BY TablesLemma DEF Examine, vars
<1>2. ~proxy
  BY <1>1, ExecutingLemma DEF LoadInv, Loading
<1>3. examined \in 0..4 /\ s \in Severities
  BY <1>1, TablesLemma DEF LogTypeOK, Severities
<1>4. broadest \in Severities
  BY TablesLemma DEF LogTypeOK
<1>5. Seen' = Seen \cup {s}
  <2>1. 1..(examined + 1) = (1..examined) \cup {examined + 1}
    BY <1>3
  <2> QED
    BY <1>1, <2>1 DEF Seen
<1> HIDE DEF s
<1>6. LevelOf[s] \in Int /\ LevelOf[broadest] \in Int
      /\ \A r \in Severities : LevelOf[r] \in Int
  BY <1>3, <1>4, TablesLemma, OffLemma DEF Severities
<1>7. Broader(s) => s \in Wanted(level) /\ LevelOf[s] < LevelOf[broadest]
  BY <1>3, WantedLemma DEF Broader
<1>8. s \in Wanted(level) /\ ~Broader(s) => LevelOf[broadest] <= LevelOf[s]
  BY <1>6, WantedLemma DEF Broader
<1>9. LogTypeOK'
  BY <1>1, <1>3, TablesLemma DEF LogTypeOK
<1>10. Asked'
  <2>1. broadest' \in once \cup {"LS_NONE"}
    BY <1>1, <1>2, <1>7 DEF Asked, WantedSoFar
  <2>2. \A r \in Seen' \cap steadily : LevelOf[broadest'] <= LevelOf[r]
    <3> SUFFICES ASSUME NEW r \in Seen' \cap steadily
                 PROVE  LevelOf[broadest'] <= LevelOf[r]
      OBVIOUS
    <3>1. r \in Wanted(level) /\ r \in Severities
      BY WantedLemma DEF WantedSoFar
    <3>2. CASE r = s
      BY <1>1, <1>6, <1>8, <3>1, <3>2
    <3>3. CASE r # s
      <4>1. LevelOf[broadest] <= LevelOf[r]
        BY <1>5, <3>3 DEF Asked
      <4> QED
        BY <1>1, <1>6, <1>7, <3>1, <4>1
    <3> QED
      BY <3>2, <3>3
  <2> QED
    BY <1>1, <1>2, <1>3, <2>1, <2>2 DEF Asked
<1>11. WantedSoFar'
  BY <1>1 DEF WantedSoFar
<1> QED
  BY <1>9, <1>10, <1>11

(* A step of loading; the proxy is installed with the answer.              *)
LEMMA LoadingStepLemma ==
  ASSUME LogInv, LoadInv, LoadInv', NEW t \in Threads, LoadingStep(t)
  PROVE  LogInv'
<1> USE DEF LogInv
<1>1. /\ UNCHANGED <<level, examined, broadest, logged, steadily, once>>
      /\ proxy \in BOOLEAN /\ proxy' \in BOOLEAN
      /\ proxy' = proxy => UNCHANGED minimum
      /\ proxy' # proxy => examined = 5 /\ minimum' = ToNative[broadest]
  BY TablesLemma DEF LoadingStep, LoadInv, TypeOK
<1>2. proxy => proxy'
  <2>1. proxy /\ (\E c \in Classes : Initialise(t, c) \/ Bind(t, c)) => proxy'
    BY DEF Initialise, Bind
  <2>2. proxy /\ (FinishUser(t) \/ Load(t) \/ LoadThrows(t) \/ OnLoadReturns(t)
                  \/ OnLoadFails(t) \/ RegisterProxy(t)) => proxy'
    BY DEF FinishUser, Load, LoadThrows, OnLoadReturns, OnLoadFails, RegisterProxy
  <2>3. proxy /\ (Construct(t) \/ Unlinked(t) \/ Erroneous(t)) => proxy'
    BY DEF Construct, Unlinked, Erroneous, Ends
  <2> QED
    BY <2>1, <2>2, <2>3 DEF LoadingStep, ThreadStep
<1>3. LogTypeOK'
  <2>1. ToNative[broadest] \in 0..4
    BY TablesLemma DEF LogTypeOK, Severities
  <2> QED
    BY <1>1, <2>1 DEF LogTypeOK
<1>4. Asked'
  BY <1>1, <1>2 DEF Asked, Seen
<1>5. WantedSoFar'
  BY <1>1, <1>2 DEF WantedSoFar
<1> QED
  BY <1>3, <1>4, <1>5

(* Every step of the composition.                                          *)
LEMMA LogStepLemma ==
  LogInv /\ LoadInv /\ LoadInv' /\ [LogNext]_allVars => LogInv'
<1> SUFFICES ASSUME LogInv, LoadInv, LoadInv', [LogNext]_allVars PROVE LogInv'
  OBVIOUS
<1>1. ASSUME UNCHANGED <<level, examined, broadest, minimum, steadily, once, proxy>>,
             logged' \in [severity : 0..3, published : BOOLEAN] \cup {<<>>}
      PROVE  LogInv'
  BY <1>1 DEF LogInv, LogTypeOK, Asked, Seen, WantedSoFar
<1>2. CASE UNCHANGED allVars
  BY <1>1, <1>2 DEF allVars, vars, logVars, LogInv, LogTypeOK
<1>3. ASSUME NEW t \in Threads, NEW c \in Users, Start(t, c), UNCHANGED logVars
      PROVE  LogInv'
  BY <1>1, <1>3 DEF Start, logVars, LogInv, LogTypeOK
<1>4. ASSUME NEW t \in Threads, NEW n \in 0..3, Log(t, n)
      PROVE  LogInv'
  BY <1>1, <1>4 DEF Log, vars
<1> QED
  BY <1>2, <1>3, <1>4, SetLevelLemma, ExamineLemma, LoadingStepLemma DEF LogNext

-----------------------------------------------------------------------------
(* The theorems.                                                           *)

(* The variables keep their types.                                         *)
THEOREM LogTypeCorrect == LogSpec => []LogTypeOK
<1>1. LogInv => LogTypeOK
  BY DEF LogInv
<1> QED
  BY <1>1, LoadsAsClassInit, LogInitLemma, LogStepLemma, PTL DEF LogSpec

(* Both filters let a message pass.                                        *)
LEMMA FiltersLemma ==
  ASSUME LogInv, LoadInv, NEW t \in Threads, NEW n \in 0..3, Log(t, n)
  PROVE  LET s == ToJava[n + 1] IN
         /\ logged'.severity = n
         /\ s \in steadily => logged'.published
         /\ logged'.published => s \in once \cap Wanted(level)
<1> DEFINE s == ToJava[n + 1]
<1>1. /\ result[t] = "object"
      /\ logged'.severity = n
      /\ logged'.published = (n >= minimum /\ IsLoggable(level, s))
  BY DEF Log
<1>2. proxy
  BY <1>1 DEF LoadInv, ObjectsMeanLoaded
<1>3. examined = 5 /\ minimum = ToNative[broadest] /\ broadest \in Severities
  BY <1>2, TablesLemma DEF LogInv, Asked, LogTypeOK
<1>4. /\ s \in Severities \ {"LS_NONE"} /\ s = Values[n + 1]
      /\ n >= minimum <=> LevelOf[broadest] <= LevelOf[s]
  BY <1>3, SeverityLemma
<1>5. s \in Seen
  <2>1. n + 1 \in 1..examined
    BY <1>3
  <2> QED
    BY <1>4, <2>1 DEF Seen
<1>6. s \in Wanted(level) <=> IsLoggable(level, s)
  BY <1>4, WantedLemma
<1> HIDE DEF s
<1>7. s \in steadily => logged'.published
  BY <1>1, <1>4, <1>5, <1>6 DEF LogInv, Asked, WantedSoFar
<1>8. logged'.published => s \in once
  <2>1. LevelOf["LS_NONE"] <= LevelOf[s] => FALSE
    BY <1>4, TablesLemma, OffLemma DEF Severities
  <2> QED
    BY <1>1, <1>4, <2>1 DEF LogInv, Asked, WantedSoFar
<1> QED
  BY <1>1, <1>6, <1>7, <1>8 DEF s

(* Only a message changes what was logged last.                            *)
LEMMA LoggedLemma ==
  ASSUME [LogNext]_allVars, logged' # logged
  PROVE  \E t \in Threads, n \in 0..3 : Log(t, n)
BY DEF LogNext, LoadingStep, Examine, SetLevel, logVars, allVars

(* A message of a severity that the logger has been logging ever since it  *)
(* was first asked is published (LogProxy, log_proxy.cpp).                 *)
THEOREM SteadilyWantedIsPublished == LogSpec => SteadilyWantedArrives
<1>1. LogInv /\ LoadInv /\ [LogNext]_allVars =>
        [logged' # logged /\ ToJava[logged'.severity + 1] \in steadily
           => logged'.published]_allVars
  BY FiltersLemma, LoggedLemma
<1> QED
  BY <1>1, LoadsAsClassInit, LogInitLemma, LogStepLemma, PTL
  DEF LogSpec, SteadilyWantedArrives

(* Nothing is published that the logger does not want now, or did not want *)
(* at any time while it was asked.                                         *)
THEOREM OnlyWantedIsPublished == LogSpec => PublishedWasWanted
<1>1. LogInv /\ LoadInv /\ [LogNext]_allVars =>
        [logged' # logged /\ logged'.published =>
           ToJava[logged'.severity + 1] \in once \cap Wanted(level)]_allVars
  BY FiltersLemma, LoggedLemma
<1> QED
  BY <1>1, LoadsAsClassInit, LogInitLemma, LogStepLemma, PTL
  DEF LogSpec, PublishedWasWanted
=============================================================================
