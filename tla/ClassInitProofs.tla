--------------------------- MODULE ClassInitProofs ---------------------------
(* Proofs about ClassInit, for any threads, classes and outcomes: whoever  *)
(* has an object has all of the library, and threads that begin with the   *)
(* same class are never too early and agree on the outcome.                *)
EXTENDS ClassInit, TLAPS, SequenceTheorems

-----------------------------------------------------------------------------
(* The inductive invariant.                                                *)

(* The static blocks on the stacks are those of the busy classes: each of  *)
(* them on one stack, once.                                                *)
Stacks ==
  /\ \A t \in Threads : \A i \in 1..Len(running[t]) :
       cls[running[t][i]] = "busy" /\ by[running[t][i]] = t
  /\ \A t \in Threads : \A i, j \in 1..Len(running[t]) :
       running[t][i] = running[t][j] => i = j
  /\ \A c \in Classes : cls[c] = "busy" =>
       by[c] \in Threads /\ \E i \in 1..Len(running[by[c]]) : running[by[c]][i] = c

(* What the state of the library says of DcSctp4j's.                       *)
Loading ==
  /\ library = "absent" => bound = {}
  /\ library = "loaded" => bound = Users
  /\ proxy => library = "loaded" /\ cls[Loader] = "done"
  /\ cls[Loader] = "done" => proxy \/ (library = "refused" /\ bound = {})

LoadInv == TypeOK /\ Stacks /\ Loading /\ ObjectsMeanLoaded

(* Every thread begins with the class U: DcSctp4j is initialised within    *)
(* the initialisation of U, and U ends as DcSctp4j has.                    *)
Within(U) ==
  /\ \A t \in Threads :
       /\ goal[t] \in {NoThread, U}
       /\ running[t] # <<>> => running[t][1] = U /\ goal[t] = U /\ result[t] = "none"
  /\ cls[U] = "new" => cls[Loader] = "new"
  /\ cls[U] = "done" => cls[Loader] = "done"
  /\ cls[U] = "failed" => cls[Loader] = "failed"

(* What each result of a constructor tells.                                *)
Outcome ==
  \A t \in Threads :
    /\ result[t] = "unlinked" => library = "refused" /\ cls[Loader] = "done"
    /\ result[t] = "error" => cls[Loader] = "failed"

-----------------------------------------------------------------------------
(* Lemmas.                                                                 *)

(* The innermost static block, and the stack without it.                   *)
LEMMA PopLemma ==
  ASSUME NEW S, NEW s \in Seq(S), s # <<>>
  PROVE  /\ Last(s) \in S /\ Last(s) = s[Len(s)] /\ Len(s) \in Nat \ {0}
         /\ Front(s) \in Seq(S) /\ Len(Front(s)) = Len(s) - 1
         /\ \A i \in 1..(Len(s) - 1) : Front(s)[i] = s[i]
<1>1. Len(s) \in Nat \ {0} /\ \A i \in 1..Len(s) : s[i] \in S
  BY EmptySeq, LenProperties
<1>2. \A i \in 1..(Len(s) - 1) : s[i] \in S
  BY <1>1
<1>3. /\ SubSeq(s, 1, Len(s) - 1) \in Seq(S)
      /\ Len(SubSeq(s, 1, Len(s) - 1)) = IF 1 <= Len(s) - 1 THEN Len(s) - 1 - 1 + 1 ELSE 0
      /\ \A i \in 1..(Len(s) - 1 - 1 + 1) : SubSeq(s, 1, Len(s) - 1)[i] = s[1 + i - 1]
  BY <1>1, <1>2, SubSeqProperties
<1>4. Len(Front(s)) = Len(s) - 1
  <2>1. \A n \in Nat \ {0} : (IF 1 <= n - 1 THEN n - 1 - 1 + 1 ELSE 0) = n - 1
    OBVIOUS
  <2>2. (IF 1 <= Len(s) - 1 THEN Len(s) - 1 - 1 + 1 ELSE 0) = Len(s) - 1
    BY <1>1, <2>1
  <2>3. Front(s) = SubSeq(s, 1, Len(s) - 1)
    BY DEF Front
  <2> QED
    BY <1>3, <2>2, <2>3, Zenon
<1>5. \A i \in 1..(Len(s) - 1) : Front(s)[i] = s[i]
  BY <1>1, <1>3 DEF Front
<1> QED
  BY <1>1, <1>3, <1>4, <1>5 DEF Front, Last

(* A stack with one more static block.                                     *)
LEMMA PushLemma ==
  ASSUME NEW S, NEW s \in Seq(S), NEW c \in S
  PROVE  /\ Append(s, c) \in Seq(S) /\ Append(s, c) # <<>>
         /\ Len(s) \in Nat /\ Len(Append(s, c)) = Len(s) + 1
         /\ \A i \in 1..Len(s) : Append(s, c)[i] = s[i]
         /\ Append(s, c)[Len(s) + 1] = c
BY AppendProperties, LenProperties

(* An executing class is a busy one.                                       *)
LEMMA ExecutingLemma ==
  ASSUME TypeOK, Stacks, NEW t \in Threads, NEW c, Executing(t, c)
  PROVE  /\ c \in Classes /\ cls[c] = "busy" /\ by[c] = t
         /\ running[t] # <<>> /\ running[t] \in Seq(Classes)
         /\ Len(running[t]) \in Nat \ {0} /\ running[t][Len(running[t])] = c
<1>1. running[t] \in Seq(Classes) /\ running[t] # <<>> /\ Last(running[t]) = c
  BY DEF TypeOK, Executing
<1>2. /\ c \in Classes /\ Len(running[t]) \in Nat \ {0}
      /\ running[t][Len(running[t])] = c
  BY <1>1, PopLemma
<1>3. Len(running[t]) \in 1..Len(running[t])
  BY <1>2
<1> QED
  BY <1>1, <1>2, <1>3 DEF Stacks

(* A thread with no static block is initialising nothing.                  *)
LEMMA OutsideLemma ==
  ASSUME Stacks, NEW t \in Threads, running[t] = <<>>, NEW c \in Classes
  PROVE  ~(cls[c] = "busy" /\ by[c] = t) /\ (Ready(t, c) => cls[c] = "done")
<1>1. Len(running[t]) = 0
  BY EmptySeq
<1> QED
  BY <1>1 DEF Stacks, Ready

(* A static block begins.                                                  *)
LEMMA InitialiseLemma ==
  ASSUME TypeOK, Stacks, NEW t \in Threads, NEW c \in Classes, Initialise(t, c)
  PROVE  TypeOK' /\ Stacks'
<1>1. /\ cls \in [Classes -> {"new", "busy", "done", "failed"}]
      /\ by \in [Classes -> Threads \cup {NoThread}]
      /\ running \in [Threads -> Seq(Classes)]
  BY DEF TypeOK
<1>2. /\ cls[c] = "new"
      /\ cls' = [cls EXCEPT ![c] = "busy"]
      /\ by' = [by EXCEPT ![c] = t]
      /\ running' = [running EXCEPT ![t] = Append(running[t], c)]
      /\ UNCHANGED <<goal, result, library, bound, proxy>>
  BY DEF Initialise
<1> DEFINE n == Len(running[t])
<1>3. /\ Append(running[t], c) \in Seq(Classes)
      /\ n \in Nat /\ Len(Append(running[t], c)) = n + 1
      /\ \A i \in 1..n : Append(running[t], c)[i] = running[t][i]
      /\ Append(running[t], c)[n + 1] = c
  BY <1>1, PushLemma
<1>4. /\ running'[t] = Append(running[t], c)
      /\ \A u \in Threads \ {t} : running'[u] = running[u]
      /\ cls'[c] = "busy" /\ by'[c] = t
      /\ \A d \in Classes \ {c} : cls'[d] = cls[d] /\ by'[d] = by[d]
  BY <1>1, <1>2
<1>5. TypeOK'
  <2>1. running' \in [Threads -> Seq(Classes)]
    BY <1>1, <1>2, <1>3
  <2> QED
    BY <1>1, <1>2, <2>1 DEF TypeOK
<1>6. \A u \in Threads : \A i \in 1..Len(running[u]) :
        running[u][i] \in Classes \ {c}
  <2> TAKE u \in Threads
  <2> TAKE i \in 1..Len(running[u])
  <2>1. running[u][i] \in Classes
    BY <1>1, LenProperties
  <2>2. cls[running[u][i]] = "busy"
    BY DEF Stacks
  <2> QED
    BY <1>2, <2>1, <2>2
<1>7. ASSUME NEW u \in Threads, NEW i \in 1..Len(running'[u])
      PROVE  cls'[running'[u][i]] = "busy" /\ by'[running'[u][i]] = u
  <2>1. CASE u # t
    BY <1>4, <1>6, <1>7, <2>1 DEF Stacks
  <2>2. CASE u = t /\ i = n + 1
    BY <1>3, <1>4, <2>2
  <2>3. CASE u = t /\ i # n + 1
    <3>1. i \in 1..n /\ running'[u][i] = running[u][i]
      BY <1>3, <1>4, <1>7, <2>3
    <3> QED
      BY <1>4, <1>6, <2>3, <3>1 DEF Stacks
  <2> QED
    BY <2>1, <2>2, <2>3
<1>8. ASSUME NEW u \in Threads, NEW i \in 1..Len(running'[u]), NEW j \in 1..Len(running'[u]),
             running'[u][i] = running'[u][j]
      PROVE  i = j
  <2>1. CASE u # t
    BY <1>4, <1>8, <2>1 DEF Stacks
  <2>2. CASE u = t
    <3>1. i \in 1..(n + 1) /\ j \in 1..(n + 1)
      BY <1>3, <1>4, <2>2
    <3>2. \A k \in 1..n : running'[t][k] = running[t][k] /\ running[t][k] # c
      BY <1>3, <1>4, <1>6
    <3>3. running'[t][n + 1] = c
      BY <1>3, <1>4
    <3>4. CASE i = n + 1 \/ j = n + 1
      <4>1. CASE i = n + 1
        BY <1>8, <2>2, <3>1, <3>2, <3>3, <4>1
      <4>2. CASE j = n + 1
        BY <1>8, <2>2, <3>1, <3>2, <3>3, <4>2
      <4> QED
        BY <3>4, <4>1, <4>2
    <3>5. CASE i # n + 1 /\ j # n + 1
      <4>1. i \in 1..n /\ j \in 1..n
        BY <1>3, <3>1, <3>5
      <4> QED
        BY <1>8, <2>2, <3>2, <4>1 DEF Stacks
    <3> QED
      BY <3>4, <3>5
  <2> QED
    BY <2>1, <2>2
<1>9. ASSUME NEW d \in Classes, cls'[d] = "busy"
      PROVE  by'[d] \in Threads /\ \E i \in 1..Len(running'[by'[d]]) : running'[by'[d]][i] = d
  <2>1. CASE d = c
    <3>1. n + 1 \in 1..Len(running'[t])
      BY <1>3, <1>4
    <3> QED
      BY <1>3, <1>4, <2>1, <3>1
  <2>2. CASE d # c
    <3>1. by'[d] = by[d] /\ by[d] \in Threads
      BY <1>4, <1>9, <2>2 DEF Stacks
    <3>2. PICK i \in 1..Len(running[by[d]]) : running[by[d]][i] = d
      BY <1>4, <1>9, <2>2 DEF Stacks
    <3>3. i \in 1..Len(running'[by[d]]) /\ running'[by[d]][i] = d
      BY <1>3, <1>4, <3>1, <3>2
    <3> QED
      BY <3>1, <3>3
  <2> QED
    BY <2>1, <2>2
<1> QED
  BY <1>5, <1>7, <1>8, <1>9 DEF Stacks

(* A static block ends.                                                    *)
LEMMA FinishLemma ==
  ASSUME TypeOK, Stacks, NEW t \in Threads, NEW c, Executing(t, c),
         NEW end \in {"done", "failed"}, Finish(t, end)
  PROVE  /\ cls' \in [Classes -> {"new", "busy", "done", "failed"}]
         /\ by' \in [Classes -> Threads \cup {NoThread}]
         /\ running' \in [Threads -> Seq(Classes)]
         /\ c \in Classes /\ cls[c] = "busy" /\ cls' = [cls EXCEPT ![c] = end]
         /\ cls'[c] = end /\ \A d \in Classes \ {c} : cls'[d] = cls[d]
         /\ running' = [running EXCEPT ![t] = Front(running[t])]
         /\ Stacks'
<1>1. /\ cls \in [Classes -> {"new", "busy", "done", "failed"}]
      /\ by \in [Classes -> Threads \cup {NoThread}]
      /\ running \in [Threads -> Seq(Classes)]
  BY DEF TypeOK
<1>2. /\ c \in Classes /\ cls[c] = "busy" /\ by[c] = t /\ running[t] # <<>>
      /\ running[t][Len(running[t])] = c
  BY ExecutingLemma
<1>3. /\ cls' = [cls EXCEPT ![c] = end]
      /\ by' = [by EXCEPT ![c] = NoThread]
      /\ running' = [running EXCEPT ![t] = Front(running[t])]
  BY DEF Finish, Executing
<1> DEFINE n == Len(running[t])
<1>4. /\ Front(running[t]) \in Seq(Classes)
      /\ n \in Nat \ {0} /\ Len(Front(running[t])) = n - 1
      /\ \A i \in 1..(n - 1) : Front(running[t])[i] = running[t][i]
  <2>1. running[t] \in Seq(Classes) /\ running[t] # <<>>
    BY <1>1, <1>2
  <2> QED
    BY <2>1, PopLemma
<1>5. /\ running'[t] = Front(running[t])
      /\ \A u \in Threads \ {t} : running'[u] = running[u]
      /\ cls'[c] = end /\ \A d \in Classes \ {c} : cls'[d] = cls[d] /\ by'[d] = by[d]
  BY <1>1, <1>2, <1>3
<1>6. /\ cls' \in [Classes -> {"new", "busy", "done", "failed"}]
      /\ by' \in [Classes -> Threads \cup {NoThread}]
      /\ running' \in [Threads -> Seq(Classes)]
  <2>1. running' \in [Threads -> Seq(Classes)]
    BY <1>1, <1>3, <1>4
  <2> QED
    BY <1>1, <1>3, <2>1
<1>7. \A u \in Threads : \A i \in 1..Len(running'[u]) :
        /\ i \in 1..Len(running[u]) /\ running'[u][i] = running[u][i]
        /\ running[u][i] \in Classes \ {c}
  <2> SUFFICES ASSUME NEW u \in Threads, NEW i \in 1..Len(running'[u])
               PROVE  /\ i \in 1..Len(running[u]) /\ running'[u][i] = running[u][i]
                      /\ running[u][i] \in Classes \ {c}
    OBVIOUS
  <2>1. i \in 1..Len(running[u]) /\ running'[u][i] = running[u][i]
    BY <1>4, <1>5
  <2>2. running[u][i] \in Classes
    BY <1>1, <2>1, LenProperties
  <2>3. running[u][i] # c
    <3>1. CASE u # t
      BY <1>2, <2>1, <3>1 DEF Stacks
    <3>2. CASE u = t
      <4>1. i # n /\ n \in 1..n /\ i \in 1..n
        BY <1>4, <1>5, <3>2
      <4> QED
        BY <1>2, <3>2, <4>1 DEF Stacks
    <3> QED
      BY <3>1, <3>2
  <2> QED
    BY <2>1, <2>2, <2>3
<1>8. ASSUME NEW d \in Classes, cls'[d] = "busy"
      PROVE  by'[d] \in Threads /\ \E i \in 1..Len(running'[by'[d]]) : running'[by'[d]][i] = d
  <2>1. d # c /\ cls[d] = "busy" /\ by'[d] = by[d]
    BY <1>5, <1>8
  <2>2. by[d] \in Threads
    BY <2>1 DEF Stacks
  <2>3. PICK i \in 1..Len(running[by[d]]) : running[by[d]][i] = d
    BY <2>1 DEF Stacks
  <2>4. i \in 1..Len(running'[by[d]]) /\ running'[by[d]][i] = d
    <3>1. CASE by[d] # t
      BY <1>5, <2>2, <2>3, <3>1
    <3>2. CASE by[d] = t
      <4>1. i # n
        BY <1>2, <2>1, <2>3, <3>2
      <4>2. i \in 1..(n - 1)
        BY <1>4, <2>3, <3>2, <4>1
      <4> QED
        BY <1>4, <1>5, <2>3, <3>2, <4>2
    <3> QED
      BY <3>1, <3>2
  <2> QED
    BY <2>1, <2>2, <2>4
<1>9. Stacks'
  <2>1. \A u \in Threads : \A i \in 1..Len(running'[u]) :
          cls'[running'[u][i]] = "busy" /\ by'[running'[u][i]] = u
    BY <1>5, <1>7 DEF Stacks
  <2>2. \A u \in Threads : \A i, j \in 1..Len(running'[u]) :
          running'[u][i] = running'[u][j] => i = j
    BY <1>7 DEF Stacks
  <2> QED
    BY <1>8, <2>1, <2>2 DEF Stacks
<1> QED
  BY <1>2, <1>3, <1>5, <1>6, <1>9

-----------------------------------------------------------------------------
(* Each step preserves the invariant.                                      *)

(* Nothing is loaded at first.                                             *)
LEMMA InitLemma == Init => LoadInv
<1> SUFFICES ASSUME Init PROVE LoadInv
  OBVIOUS
<1>1. Init
  OBVIOUS
<1>2. TypeOK
  <2>1. <<>> \in Seq(Classes)
    BY EmptySeq
  <2>2. running \in [Threads -> Seq(Classes)]
    BY <1>1, <2>1 DEF Init
  <2>3. /\ cls \in [Classes -> {"new", "busy", "done", "failed"}]
        /\ by \in [Classes -> Threads \cup {NoThread}]
    BY <1>1 DEF Init
  <2>4. /\ goal \in [Threads -> Users \cup {NoThread}]
        /\ result \in [Threads -> {"none", "object", "unlinked", "error"}]
        /\ library \in {"absent", "onload", "loaded", "refused"}
        /\ bound \subseteq Users /\ proxy \in BOOLEAN
    BY <1>1 DEF Init
  <2> QED
    BY <2>2, <2>3, <2>4 DEF TypeOK
<1>3. Stacks
  <2>1. \A t \in Threads : Len(running[t]) = 0
    BY <1>1, EmptySeq DEF Init
  <2> QED
    BY <1>1, <2>1 DEF Init, Stacks
<1>4. Loading
  BY <1>1 DEF Init, Loading, Classes
<1>5. ObjectsMeanLoaded
  BY <1>1 DEF Init, ObjectsMeanLoaded
<1> QED
  BY <1>2, <1>3, <1>4, <1>5 DEF LoadInv

(* A static block of a user of DcSctp4j ends.                              *)
LEMMA FinishUserLemma ==
  ASSUME LoadInv, NEW t \in Threads, FinishUser(t)
  PROVE  LoadInv'
<1> USE DEF LoadInv
<1>1. PICK u \in Users, end \in {"done", "failed"} :
        /\ Executing(t, u) /\ Finish(t, end)
        /\ UNCHANGED <<goal, result, library, bound, proxy>>
  BY DEF FinishUser
<1>2. /\ cls' \in [Classes -> {"new", "busy", "done", "failed"}]
      /\ by' \in [Classes -> Threads \cup {NoThread}]
      /\ running' \in [Threads -> Seq(Classes)]
      /\ cls' = [cls EXCEPT ![u] = end] /\ Stacks'
  BY <1>1, FinishLemma
<1>3. cls'[Loader] = cls[Loader]
  BY <1>2, ClassesAssumption DEF TypeOK, Classes
<1>4. TypeOK'
  BY <1>1, <1>2 DEF TypeOK
<1>5. Loading' /\ ObjectsMeanLoaded'
  BY <1>1, <1>3 DEF Loading, ObjectsMeanLoaded
<1> QED
  BY <1>2, <1>4, <1>5

(* JNI_OnLoad begins, binds a class, or returns.                           *)
LEMMA OnLoadLemma ==
  ASSUME LoadInv, NEW t \in Threads,
         Load(t) \/ (\E c \in Classes : Bind(t, c)) \/ OnLoadReturns(t)
  PROVE  LoadInv'
<1> USE DEF LoadInv
<1>1. /\ Executing(t, Loader)
      /\ UNCHANGED <<cls, by, running, goal, result, proxy>>
      /\ \/ library = "absent" /\ library' = "onload" /\ UNCHANGED bound
         \/ /\ library = "onload" /\ UNCHANGED library
            /\ bound' \subseteq Users
         \/ /\ library = "onload" /\ library' = "loaded"
            /\ bound = Users /\ UNCHANGED bound
  BY DEF Load, Bind, OnLoadReturns, TypeOK
<1>2. cls[Loader] = "busy"
  BY <1>1, ExecutingLemma
<1>3. TypeOK'
  BY <1>1 DEF TypeOK
<1>4. Stacks'
  BY <1>1 DEF Stacks
<1>5. Loading'
  BY <1>1, <1>2 DEF Loading
<1>6. ObjectsMeanLoaded'
  BY <1>1 DEF ObjectsMeanLoaded
<1> QED
  BY <1>3, <1>4, <1>5, <1>6

(* The static block of DcSctp4j ends: the library was not found, or        *)
(* refused, or has its proxy.                                              *)
LEMMA LoaderLemma ==
  ASSUME LoadInv, NEW t \in Threads,
         LoadThrows(t) \/ OnLoadFails(t) \/ RegisterProxy(t)
  PROVE  LoadInv'
<1> USE DEF LoadInv
<1>1. PICK end \in {"done", "failed"} :
        /\ Executing(t, Loader) /\ Finish(t, end)
        /\ UNCHANGED <<goal, result, bound>>
        /\ \/ /\ library = "absent" /\ library' = "refused" /\ end = "done"
              /\ UNCHANGED proxy
           \/ /\ library = "onload" /\ library' = "refused" /\ end = "failed"
              /\ UNCHANGED proxy
           \/ library = "loaded" /\ UNCHANGED library /\ proxy' = TRUE /\ (~proxy => end = "done")
  BY DEF LoadThrows, OnLoadFails, RegisterProxy
<1>2. /\ cls' \in [Classes -> {"new", "busy", "done", "failed"}]
      /\ by' \in [Classes -> Threads \cup {NoThread}]
      /\ running' \in [Threads -> Seq(Classes)]
      /\ cls[Loader] = "busy" /\ cls'[Loader] = end /\ Stacks'
  BY <1>1, FinishLemma
<1>3. TypeOK'
  BY <1>1, <1>2 DEF TypeOK
<1>4. Loading'
  BY <1>1, <1>2 DEF Loading
<1>5. ObjectsMeanLoaded'
  BY <1>1 DEF ObjectsMeanLoaded
<1> QED
  BY <1>2, <1>3, <1>4, <1>5

(* A thread calls a constructor, or returns from it.                       *)
LEMMA ConstructorLemma ==
  ASSUME LoadInv, NEW t \in Threads,
         (\E c \in Users : Start(t, c)) \/ Construct(t) \/ Unlinked(t) \/ Erroneous(t)
  PROVE  LoadInv'
<1> USE DEF LoadInv
<1>1. /\ UNCHANGED <<cls, by, running, library, bound, proxy>>
      /\ \/ UNCHANGED result /\ \E c \in Users : goal' = [goal EXCEPT ![t] = c]
         \/ /\ UNCHANGED goal /\ result' = [result EXCEPT ![t] = "object"]
            /\ goal[t] \in bound /\ Ready(t, Loader) /\ running[t] = <<>>
         \/ /\ UNCHANGED goal
            /\ \E r \in {"unlinked", "error"} : result' = [result EXCEPT ![t] = r]
  BY DEF Start, Construct, Unlinked, Erroneous, Ends, InConstructor
<1>2. TypeOK'
  BY <1>1 DEF TypeOK
<1>3. Stacks'
  BY <1>1 DEF Stacks
<1>4. Loading'
  BY <1>1 DEF Loading
<1>5. ObjectsMeanLoaded'
  <2>1. result \in [Threads -> {"none", "object", "unlinked", "error"}]
    BY DEF TypeOK
  <2>2. CASE UNCHANGED result
    BY <1>1, <2>2 DEF ObjectsMeanLoaded
  <2>3. CASE \E r \in {"unlinked", "error"} : result' = [result EXCEPT ![t] = r]
    BY <1>1, <2>1, <2>3 DEF ObjectsMeanLoaded
  <2>4. CASE /\ result' = [result EXCEPT ![t] = "object"]
             /\ goal[t] \in bound /\ Ready(t, Loader) /\ running[t] = <<>>
    <3>1. cls[Loader] = "done"
      BY <2>4, OutsideLemma DEF Classes
    <3>2. library = "loaded" /\ bound = Users /\ proxy
      BY <2>4, <3>1 DEF Loading
    <3> QED
      BY <1>1, <2>1, <2>4, <3>2 DEF ObjectsMeanLoaded
  <2> QED
    BY <1>1, <2>2, <2>3, <2>4
<1> QED
  BY <1>2, <1>3, <1>4, <1>5

(* Every step of the threads.                                              *)
LEMMA StepLemma == LoadInv /\ [Next]_vars => LoadInv'
<1> SUFFICES ASSUME LoadInv, [Next]_vars PROVE LoadInv'
  OBVIOUS
<1>1. CASE UNCHANGED vars
  <2>1. TypeOK'
    BY <1>1 DEF LoadInv, TypeOK, vars
  <2>2. Stacks'
    BY <1>1 DEF LoadInv, Stacks, vars
  <2>3. Loading' /\ ObjectsMeanLoaded'
    BY <1>1 DEF LoadInv, Loading, ObjectsMeanLoaded, vars
  <2> QED
    BY <2>1, <2>2, <2>3 DEF LoadInv
<1>2. ASSUME NEW t \in Threads, NEW c \in Classes, Initialise(t, c)
      PROVE  LoadInv'
  <2>1. TypeOK' /\ Stacks'
    BY <1>2, InitialiseLemma DEF LoadInv
  <2>2. /\ cls[c] = "new" /\ cls' = [cls EXCEPT ![c] = "busy"]
        /\ UNCHANGED <<result, library, bound, proxy>>
    BY <1>2 DEF Initialise
  <2>3. cls'[Loader] = cls[Loader] \/ (cls[Loader] = "new" /\ cls'[Loader] = "busy")
    BY <2>2 DEF LoadInv, TypeOK, Classes
  <2>4. Loading' /\ ObjectsMeanLoaded'
    BY <2>2, <2>3 DEF LoadInv, Loading, ObjectsMeanLoaded
  <2> QED
    BY <2>1, <2>4 DEF LoadInv
<1>3. ASSUME NEW t \in Threads, ThreadStep(t)
      PROVE  LoadInv'
  BY <1>2, <1>3, FinishUserLemma, OnLoadLemma, LoaderLemma, ConstructorLemma DEF ThreadStep
<1>4. ASSUME NEW t \in Threads, NEW c \in Users, Start(t, c)
      PROVE  LoadInv'
  BY <1>4, ConstructorLemma
<1> QED
  BY <1>1, <1>3, <1>4 DEF Next

-----------------------------------------------------------------------------
(* The theorems.                                                           *)

(* The invariant holds in every reachable state.                           *)
THEOREM LoadInvariance == Spec => []LoadInv
<1> QED
  BY InitLemma, StepLemma, PTL DEF Spec

(* The variables keep their types.                                         *)
THEOREM ClassesTypeCorrect == Spec => []TypeOK
<1>1. LoadInv => TypeOK
  BY DEF LoadInv
<1> QED
  BY <1>1, LoadInvariance, PTL

(* Whoever has got an object has a loaded library whose classes are all    *)
(* bound and whose log goes to Java (DcSctp4j's static block, JNI_OnLoad), *)
(* whichever classes the threads begin with.                               *)
THEOREM ObjectsHaveLibrary == Spec => []ObjectsMeanLoaded
<1>1. LoadInv => ObjectsMeanLoaded
  BY DEF LoadInv
<1> QED
  BY <1>1, LoadInvariance, PTL

-----------------------------------------------------------------------------
(* Threads that begin with the same class.                                 *)

(* DcSctp4j's static block is executed above that of U, by the same thread.*)
LEMMA AboveLemma ==
  ASSUME LoadInv, NEW U \in Users, Within(U), cls[Loader] = "busy"
  PROVE  cls[U] = "busy" /\ \A t \in Threads : Executing(t, U) => by[Loader] # t
<1> USE DEF LoadInv
<1> DEFINE t == by[Loader]
<1>1. t \in Threads /\ \E i \in 1..Len(running[t]) : running[t][i] = Loader
  BY DEF Stacks, Classes
<1>2. PICK i \in 1..Len(running[t]) : running[t][i] = Loader
  BY <1>1
<1>3. running[t] \in Seq(Classes) /\ Len(running[t]) \in Nat
  BY <1>1, LenProperties DEF TypeOK
<1>4. running[t] # <<>>
  BY <1>2, EmptySeq
<1>5. running[t][1] = U /\ 1 \in 1..Len(running[t])
  BY <1>1, <1>2, <1>3, <1>4 DEF Within
<1>6. cls[U] = "busy"
  BY <1>1, <1>5 DEF Stacks
<1>7. ~Executing(t, U)
  <2> SUFFICES ASSUME Executing(t, U) PROVE FALSE
    OBVIOUS
  <2>1. running[t][Len(running[t])] = U /\ Len(running[t]) \in Nat \ {0}
    BY <1>1, ExecutingLemma
  <2>2. Len(running[t]) \in 1..Len(running[t])
    BY <2>1
  <2>3. Len(running[t]) = 1
    <3>1. \A k, l \in 1..Len(running[t]) : running[t][k] = running[t][l] => k = l
      BY <1>1 DEF Stacks
    <3>2. running[t][Len(running[t])] = running[t][1]
      BY <1>5, <2>1
    <3> QED
      BY <1>5, <2>2, <3>1, <3>2, Zenon
  <2>4. i = 1
    BY <1>2, <2>3
  <2>5. Loader # U
    BY ClassesAssumption
  <2> QED
    BY <1>2, <1>5, <2>4, <2>5
<1> QED
  BY <1>6, <1>7

(* A stack keeps its bottom when a static block ends.                      *)
LEMMA BottomLemma ==
  ASSUME TypeOK, NEW t \in Threads, running[t] # <<>>,
         running' = [running EXCEPT ![t] = Front(running[t])]
  PROVE  \A u \in Threads : running'[u] # <<>> =>
           running[u] # <<>> /\ running'[u][1] = running[u][1]
<1> SUFFICES ASSUME NEW u \in Threads, running'[u] # <<>>
             PROVE  running[u] # <<>> /\ running'[u][1] = running[u][1]
  OBVIOUS
<1>1. running \in [Threads -> Seq(Classes)]
  BY DEF TypeOK
<1>2. CASE u # t
  BY <1>1, <1>2
<1>3. CASE u = t
  <2>1. running'[t] = Front(running[t])
    BY <1>1
  <2>2. /\ Front(running[t]) \in Seq(Classes) /\ Len(running[t]) \in Nat \ {0}
        /\ Len(Front(running[t])) = Len(running[t]) - 1
        /\ \A i \in 1..(Len(running[t]) - 1) : Front(running[t])[i] = running[t][i]
    <3>1. running[t] \in Seq(Classes)
      BY <1>1
    <3> QED
      BY <3>1, PopLemma
  <2>3. Len(Front(running[t])) # 0
    BY <1>3, <2>1, <2>2, EmptySeq
  <2>4. 1 \in 1..(Len(running[t]) - 1)
    <3>1. Len(running[t]) - 1 # 0
      BY <2>2, <2>3
    <3>2. \A n \in Nat \ {0} : n - 1 # 0 => 1 \in 1..(n - 1)
      OBVIOUS
    <3> QED
      BY <2>2, <3>1, <3>2
  <2> QED
    BY <1>3, <2>1, <2>2, <2>4
<1> QED
  BY <1>2, <1>3

(* Each step keeps DcSctp4j's initialisation within that of U.             *)
LEMMA WithinLemma ==
  ASSUME NEW U \in Users, FirstUses = {U},
         LoadInv, Within(U), Outcome, NEW t \in Threads,
         ThreadStep(t) \/ \E c \in Users : Start(t, c)
  PROVE  Within(U)' /\ Outcome'
<1> USE DEF LoadInv
<1>1. /\ U # Loader /\ U \in Classes /\ Loader \in Classes
      /\ U # NoThread /\ Loader # NoThread
  BY ClassesAssumption, NoThreadAssumption DEF Classes
<1>2. /\ cls \in [Classes -> {"new", "busy", "done", "failed"}]
      /\ running \in [Threads -> Seq(Classes)]
      /\ goal \in [Threads -> Users \cup {NoThread}]
      /\ result \in [Threads -> {"none", "object", "unlinked", "error"}]
  BY DEF TypeOK
<1>3. ASSUME NEW c \in Classes, Initialise(t, c)
      PROVE  Within(U)' /\ Outcome'
  <2>1. /\ Needs(t, c) /\ cls[c] = "new"
        /\ cls' = [cls EXCEPT ![c] = "busy"]
        /\ running' = [running EXCEPT ![t] = Append(running[t], c)]
        /\ UNCHANGED <<goal, result, library, bound, proxy>>
    BY <1>3 DEF Initialise
  <2>2. cls'[c] = "busy" /\ \A d \in Classes \ {c} : cls'[d] = cls[d]
    BY <1>2, <2>1
  <2>3. running[t] = <<>> => c = U /\ goal[t] = U /\ result[t] = "none"
    <3> SUFFICES ASSUME running[t] = <<>> PROVE c = U /\ goal[t] = U /\ result[t] = "none"
      OBVIOUS
    <3>1. goal[t] = c /\ result[t] = "none"
      BY <2>1 DEF Needs, Executing
    <3>2. c # NoThread
      BY NoThreadAssumption DEF Classes
    <3> QED
      BY <3>1, <3>2 DEF Within
  <2>4. running[t] # <<>> => cls[U] = "busy"
    <3> SUFFICES ASSUME running[t] # <<>> PROVE cls[U] = "busy"
      OBVIOUS
    <3>1. running[t][1] = U
      BY DEF Within
    <3>2. 1 \in 1..Len(running[t])
      <4>1. Len(running[t]) \in Nat \ {0}
        BY <1>2, PopLemma
      <4> QED
        BY <4>1
    <3> QED
      BY <3>1, <3>2 DEF Stacks
  <2>5. \A u \in Threads : running'[u] # <<>> =>
          running'[u][1] = U /\ goal[u] = U /\ result[u] = "none"
    <3> SUFFICES ASSUME NEW u \in Threads, running'[u] # <<>>
                 PROVE  running'[u][1] = U /\ goal[u] = U /\ result[u] = "none"
      OBVIOUS
    <3>1. CASE u # t
      BY <1>2, <2>1, <3>1 DEF Within
    <3>2. CASE u = t
      <4>1. /\ running'[t] = Append(running[t], c) /\ Len(running[t]) \in Nat
            /\ \A i \in 1..Len(running[t]) : Append(running[t], c)[i] = running[t][i]
            /\ Append(running[t], c)[Len(running[t]) + 1] = c
        BY <1>2, <2>1, PushLemma
      <4>2. CASE running[t] = <<>>
        <5>1. Len(running[t]) = 0
          BY <4>2, EmptySeq
        <5> QED
          BY <2>3, <3>2, <4>1, <4>2, <5>1
      <4>3. CASE running[t] # <<>>
        <5>1. Len(running[t]) \in Nat \ {0}
          BY <1>2, <4>3, PopLemma
        <5>2. 1 \in 1..Len(running[t])
          BY <5>1
        <5> QED
          BY <3>2, <4>1, <4>3, <5>2 DEF Within
      <4> QED
        BY <4>2, <4>3
    <3> QED
      BY <3>1, <3>2
  <2>6. \/ cls'[Loader] = cls[Loader]
        \/ cls[Loader] = "new" /\ cls[U] = "busy" /\ cls'[U] = "busy"
    BY <1>1, <2>1, <2>2, <2>3, <2>4
  <2>7. cls'[U] = cls[U] \/ (cls[U] = "new" /\ cls'[U] = "busy")
    BY <1>1, <2>1, <2>2
  <2>8. Within(U)'
    BY <2>1, <2>5, <2>6, <2>7 DEF Within
  <2>9. Outcome'
    BY <2>1, <2>6 DEF Outcome
  <2> QED
    BY <2>8, <2>9
<1>4. CASE FinishUser(t)
  <2>1. PICK u \in Users, end \in {"done", "failed"} :
          /\ Executing(t, u) /\ Finish(t, end)
          /\ \/ end = "done" /\ Ready(t, Loader)
             \/ end = "failed" /\ cls[Loader] = "failed"
          /\ UNCHANGED <<goal, result, library, bound, proxy>>
    BY <1>4 DEF FinishUser
  <2>2. /\ cls'[u] = end /\ \A d \in Classes \ {u} : cls'[d] = cls[d]
        /\ running' = [running EXCEPT ![t] = Front(running[t])]
        /\ cls[u] = "busy"
    BY <2>1, FinishLemma
  <2>3. \A v \in Threads : running'[v] # <<>> =>
          running[v] # <<>> /\ running'[v][1] = running[v][1]
    BY <2>1, <2>2, BottomLemma DEF Executing
  <2>4. cls'[Loader] = cls[Loader]
    BY <1>1, <2>1, <2>2, ClassesAssumption
  <2>5. u = U => cls[Loader] = end
    BY <2>1, AboveLemma DEF Ready
  <2>6. cls'[U] = cls[U] \/ (cls'[U] = end /\ cls[Loader] = end)
    BY <1>1, <2>2, <2>5
  <2>7. Within(U)'
    BY <2>1, <2>3, <2>4, <2>6 DEF Within
  <2>8. Outcome'
    BY <2>1, <2>4 DEF Outcome
  <2> QED
    BY <2>7, <2>8
<1>5. CASE Load(t) \/ (\E c \in Classes : Bind(t, c)) \/ OnLoadReturns(t)
  <2>1. Executing(t, Loader) /\ UNCHANGED <<cls, running, goal, result>>
    BY <1>5 DEF Load, Bind, OnLoadReturns
  <2>2. cls[Loader] = "busy"
    BY <2>1, ExecutingLemma
  <2>3. Within(U)'
    BY <2>1 DEF Within
  <2>4. Outcome'
    BY <2>1, <2>2 DEF Outcome
  <2> QED
    BY <2>3, <2>4
<1>6. CASE LoadThrows(t) \/ OnLoadFails(t) \/ RegisterProxy(t)
  <2>1. PICK end \in {"done", "failed"} :
          Executing(t, Loader) /\ Finish(t, end) /\ UNCHANGED <<goal, result>>
    BY <1>6 DEF LoadThrows, OnLoadFails, RegisterProxy
  <2>2. /\ cls[Loader] = "busy" /\ cls'[U] = cls[U]
        /\ running' = [running EXCEPT ![t] = Front(running[t])]
    BY <1>1, <2>1, FinishLemma
  <2>3. \A v \in Threads : running'[v] # <<>> =>
          running[v] # <<>> /\ running'[v][1] = running[v][1]
    BY <2>1, <2>2, BottomLemma DEF Executing
  <2>4. cls'[U] = "busy"
    BY <2>2, AboveLemma
  <2>5. Within(U)'
    BY <2>1, <2>3, <2>4 DEF Within
  <2>6. Outcome'
    BY <2>1, <2>2 DEF Outcome
  <2> QED
    BY <2>5, <2>6
<1>7. ASSUME NEW c \in Users, Start(t, c)
      PROVE  Within(U)' /\ Outcome'
  <2>1. /\ goal' = [goal EXCEPT ![t] = U] /\ goal[t] = NoThread
        /\ UNCHANGED <<cls, running, result, library>>
    BY <1>7 DEF Start
  <2>2. goal'[t] = U /\ \A u \in Threads \ {t} : goal'[u] = goal[u]
    BY <1>2, <2>1
  <2>3. Within(U)'
    BY <2>1, <2>2 DEF Within
  <2>4. Outcome'
    BY <2>1 DEF Outcome
  <2> QED
    BY <2>3, <2>4
<1>8. CASE Construct(t) \/ Unlinked(t) \/ Erroneous(t)
  <2>1. PICK r \in {"object", "unlinked", "error"} :
          /\ running[t] = <<>> /\ goal[t] # NoThread
          /\ result' = [result EXCEPT ![t] = r]
          /\ r = "unlinked" => Ready(t, goal[t]) /\ goal[t] \notin bound
          /\ r = "error" => cls[goal[t]] = "failed" \/ cls[Loader] = "failed"
          /\ UNCHANGED <<cls, running, goal, library>>
    BY <1>8 DEF Construct, Unlinked, Erroneous, InConstructor, Ends
  <2>2. goal[t] = U
    BY <2>1 DEF Within
  <2>3. result'[t] = r /\ \A u \in Threads \ {t} : result'[u] = result[u]
    BY <1>2, <2>1
  <2>4. Within(U)'
    BY <2>1, <2>3 DEF Within
  <2>5. r = "unlinked" => library = "refused" /\ cls[Loader] = "done"
    <3> SUFFICES ASSUME r = "unlinked" PROVE library = "refused" /\ cls[Loader] = "done"
      OBVIOUS
    <3>1. cls[U] = "done"
      BY <1>1, <2>1, <2>2, OutsideLemma
    <3>2. cls[Loader] = "done" /\ bound # Users
      BY <2>1, <2>2, <3>1 DEF Within
    <3> QED
      BY <3>2 DEF Loading
  <2>6. r = "error" => cls[Loader] = "failed"
    BY <2>1, <2>2 DEF Within
  <2>7. Outcome'
    BY <2>1, <2>3, <2>5, <2>6 DEF Outcome
  <2> QED
    BY <2>4, <2>7
<1> QED
  BY <1>3, <1>4, <1>5, <1>6, <1>7, <1>8 DEF ThreadStep

(* When all threads begin with the same class, both hold in every state.   *)
LEMMA OneFirstClass ==
  ASSUME NEW U \in Users, FirstUses = {U}
  PROVE  Spec => [](LoadInv /\ Within(U) /\ Outcome)
<1>1. Init => Within(U) /\ Outcome
  BY DEF Init, Within, Outcome, Classes
<1>2. LoadInv /\ Within(U) /\ Outcome /\ [Next]_vars => Within(U)' /\ Outcome'
  <2> SUFFICES ASSUME LoadInv, Within(U), Outcome, [Next]_vars
               PROVE  Within(U)' /\ Outcome'
    OBVIOUS
  <2>1. CASE UNCHANGED vars
    BY <2>1 DEF vars, Within, Outcome
  <2>2. CASE Next
    <3>1. PICK t \in Threads : ThreadStep(t) \/ \E c \in Users : Start(t, c)
      BY <2>2 DEF Next
    <3> QED
      BY <3>1, WithinLemma
  <2> QED
    BY <2>1, <2>2
<1> QED
  BY <1>1, <1>2, InitLemma, StepLemma, PTL DEF Spec

(* Then no constructor reaches a native method before the library is       *)
(* loaded (DcSctp4j.init()) ...                                            *)
THEOREM OneClassNeverTooEarly ==
  ASSUME NEW U \in Users, FirstUses = {U}
  PROVE  Spec => []NeverTooEarly
<1>1. Outcome => NeverTooEarly
  BY DEF Outcome, NeverTooEarly
<1> QED
  BY <1>1, OneFirstClass, PTL

(* ... and all the threads learn the same about the library.               *)
THEOREM OneClassSameOutcome ==
  ASSUME NEW U \in Users, FirstUses = {U}
  PROVE  Spec => []SameOutcome
<1>1. LoadInv /\ Outcome => SameOutcome
  <2> SUFFICES ASSUME LoadInv, Outcome, NEW t \in Threads, NEW u \in Threads,
                      result[t] # "none", result[u] # "none"
               PROVE  result[t] = result[u]
    BY DEF SameOutcome
  <2>1. \A v \in {t, u} :
          \/ result[v] = "object" /\ library = "loaded" /\ cls[Loader] = "done"
          \/ result[v] = "unlinked" /\ library = "refused" /\ cls[Loader] = "done"
          \/ result[v] = "error" /\ cls[Loader] = "failed"
    BY DEF LoadInv, TypeOK, ObjectsMeanLoaded, Loading, Outcome
  <2> QED
    BY <2>1
<1> QED
  BY <1>1, OneFirstClass, PTL
=============================================================================
