-------------------------- MODULE StreamResetProofs --------------------------
(* Proofs about StreamReset, for any two ends, streams and numbers of      *)
(* requests: what was refused has no effect; and if at most one end resets *)
(* streams, what that end's application hears is true.                     *)
EXTENDS StreamReset, TLAPS, FiniteSetTheorems

(* At most one of the ends resets streams.                                 *)
OneSide == \A e \in Resetters : Peer(e) \notin Resetters

-----------------------------------------------------------------------------
(* The inductive invariant.                                                *)

(* An end is at most one request ahead of the answers to it.               *)
InStep ==
  \A e \in Ends :
    /\ Len(sent[e]) <= MaxRequests
    /\ outstanding[e] = 0 => Len(answers[Peer(e)]) = Len(sent[e])
    /\ outstanding[e] # 0 =>
         /\ outstanding[e] = Len(sent[e])
         /\ Len(answers[Peer(e)]) \in {Len(sent[e]) - 1, Len(sent[e])}

ResetsAreAnswered ==
  \A e \in Ends, s \in Streams : resets[e][s] <= Len(answers[e])

(* What is requested was accepted, which only resetters ask for.           *)
RequestsWereAccepted ==
  \A e \in Ends :
    /\ deferred[e] \subseteq accepted[e]
    /\ \A n \in DOMAIN sent[e] : sent[e][n] \subseteq accepted[e]
    /\ e \notin Resetters => accepted[e] = {}

(* Stream s was reset by the peer of e, which e has not heard of yet.      *)
Unheard(e, s) ==
  IF /\ outstanding[e] # 0
     /\ outstanding[e] <= Len(answers[Peer(e)])
     /\ answers[Peer(e)][outstanding[e]] = "performed"
     /\ s \in sent[e][outstanding[e]]
  THEN 1 ELSE 0

HeardOrUnheard ==
  \A e \in Resetters, s \in Streams :
    Performed(e, s) + Unheard(e, s) <= resets[Peer(e)][s]

ResetInv ==
  /\ TypeOK
  /\ InStep
  /\ ResetsAreAnswered
  /\ RequestsWereAccepted
  /\ RefusedHasNoEffect
  /\ OneSide => ReportedOnce /\ HeardOrUnheard

-----------------------------------------------------------------------------
(* Lemmas.                                                                 *)

(* There is another end, and one only.                                     *)
LEMMA PeerLemma ==
  ASSUME NEW e \in Ends
  PROVE  /\ Peer(e) \in Ends /\ Peer(e) # e
         /\ Peer(Peer(e)) = e
         /\ \A f \in Ends : f = e \/ f = Peer(e)
<1>1. \E p \in Ends : p # e
  <2> SUFFICES ASSUME \A p \in Ends : p = e PROVE FALSE
    OBVIOUS
  <2>1. Ends = {e}
    OBVIOUS
  <2> QED
    BY <2>1, EndsAssumption, FS_Singleton
<1>2. Peer(e) \in Ends /\ Peer(e) # e
  BY <1>1 DEF Peer
<1>3. Ends = {e, Peer(e)}
  <2> DEFINE pair == {e} \cup {Peer(e)}
  <2>1. IsFiniteSet({e}) /\ Cardinality({e}) = 1
    BY FS_Singleton
  <2>2. Cardinality(pair) = 2
    BY <1>2, <2>1, FS_AddElement
  <2>3. pair \in SUBSET Ends
    BY <1>2
  <2>4. Ends = pair
    BY <2>2, <2>3, EndsAssumption, FS_Subset
  <2> QED
    BY <2>4
<1>4. Peer(Peer(e)) \in Ends /\ Peer(Peer(e)) # Peer(e)
  BY <1>2 DEF Peer
<1> QED
  BY <1>2, <1>3, <1>4

(* What Increment does.                                                    *)
LEMMA IncrementLemma ==
  ASSUME NEW f \in [Streams -> Nat], NEW S
  PROVE  /\ Increment(f, S) \in [Streams -> Nat]
         /\ \A s \in Streams : Increment(f, S)[s] = IF s \in S THEN f[s] + 1 ELSE f[s]
BY DEF Increment

(* A callback is counted for the streams it is called with, and no other.  *)
LEMMA NotifyLemma ==
  ASSUME heard \in [Ends -> [Callbacks -> [Streams -> Nat]]],
         NEW e \in Ends, NEW event \in {"performed", "failed", "incoming"},
         NEW S, Notify(e, event, S)
  PROVE  /\ heard' \in [Ends -> [Callbacks -> [Streams -> Nat]]]
         /\ \A f \in Ends, c \in Callbacks, s \in Streams :
              heard'[f][c][s] = IF f = e /\ c = JavaCallback[event] /\ s \in S
                                THEN heard[f][c][s] + 1 ELSE heard[f][c][s]
<1> DEFINE c0 == JavaCallback[event]
<1>1. c0 \in Callbacks
  BY DEF JavaCallback, Callbacks
<1> DEFINE new == Increment(heard[e][c0], S)
<1>2. /\ new \in [Streams -> Nat]
      /\ \A s \in Streams : new[s] = IF s \in S THEN heard[e][c0][s] + 1 ELSE heard[e][c0][s]
  <2>1. heard[e][c0] \in [Streams -> Nat]
    BY <1>1
  <2> HIDE DEF c0
  <2> QED
    BY <2>1, IncrementLemma
<1>3. heard' = [heard EXCEPT ![e] = [heard[e] EXCEPT ![c0] = new]]
  BY DEF Notify
<1> HIDE DEF c0, new
<1>4. heard' \in [Ends -> [Callbacks -> [Streams -> Nat]]]
  BY <1>1, <1>2, <1>3
<1>5. \A f \in Ends, c \in Callbacks :
        heard'[f][c] = IF f = e /\ c = c0 THEN new ELSE heard[f][c]
  BY <1>1, <1>3
<1> QED
  BY <1>2, <1>4, <1>5 DEF c0

(* The ends start with nothing requested, answered or heard.               *)
LEMMA InitLemma == Init => ResetInv
<1> SUFFICES ASSUME Init PROVE ResetInv
  OBVIOUS
<1>1. Init
  OBVIOUS
<1> USE <1>1 DEF Init
<1>2. TypeOK
  BY MaxRequestsAssumption DEF TypeOK
<1>3. InStep
  BY PeerLemma, MaxRequestsAssumption DEF InStep
<1>4. ResetsAreAnswered
  BY DEF ResetsAreAnswered
<1>5. RequestsWereAccepted
  BY DEF RequestsWereAccepted
<1>6. ASSUME NEW e \in Resetters, NEW s \in Streams
      PROVE  /\ Performed(e, s) = 0 /\ Failed(e, s) = 0
             /\ Unheard(e, s) = 0
             /\ resets[Peer(e)][s] = 0
  <2>1. e \in Ends /\ Peer(e) \in Ends
    BY PeerLemma, EndsAssumption
  <2> QED
    BY <2>1 DEF Performed, Failed, Unheard, Callbacks
<1>7. RefusedHasNoEffect
  BY PeerLemma DEF RefusedHasNoEffect, Performed, Failed, Callbacks
<1>8. HeardOrUnheard
  BY <1>6 DEF HeardOrUnheard
<1>9. ReportedOnce
  <2>1. ASSUME NEW e \in Resetters, NEW s \in Streams
        PROVE  Requested(e, s) = 0 /\ Unanswered(e, s) = 0
    <3>1. e \in Ends
      BY EndsAssumption
    <3>2. {n \in DOMAIN sent[e] : s \in sent[e][n]} = {}
      BY <3>1
    <3> QED
      BY <3>1, <3>2, FS_EmptySet DEF Requested, Unanswered
  <2> QED
    BY <1>6, <2>1 DEF ReportedOnce
<1> QED
  BY <1>2, <1>3, <1>4, <1>5, <1>7, <1>8, <1>9 DEF ResetInv

-----------------------------------------------------------------------------
(* Each action preserves the invariant.                                    *)

(* The association changes its phase, or nothing changes.                  *)
LEMMA PhaseLemma ==
  ASSUME ResetInv,
         phase' \in [Ends -> {"new", "connected", "ended"}],
         UNCHANGED <<supported, accepted, deferred, sent, outstanding, answers, resets, heard>>
  PROVE  ResetInv'
BY DEF ResetInv, TypeOK, InStep, ResetsAreAnswered, RequestsWereAccepted,
       RefusedHasNoEffect, ReportedOnce, HeardOrUnheard, Performed, Failed,
       Unheard, Requested, Unanswered

(* resetStreams accepts exactly the streams it defers.                     *)
LEMMA ResetStreamsLemma ==
  ASSUME ResetInv, NEW e \in Ends, NEW S \in SUBSET Streams, ResetStreams(e, S)
  PROVE  ResetInv'
<1> USE DEF ResetInv
<1>1. UNCHANGED <<association, sent, outstanding, answers, resets, heard>>
  BY DEF ResetStreams
<1>2. ResetStreamsStatus[Verdict(e) + 1] = "kPerformed" <=> Verdict(e) = 1
  BY DEF ResetStreamsStatus, Verdict
<1>3. \/ /\ accepted' = [accepted EXCEPT ![e] = @ \cup S]
         /\ deferred' = [deferred EXCEPT ![e] = @ \cup S]
      \/ UNCHANGED <<accepted, deferred>>
  BY <1>2 DEF ResetStreams
<1>4. e \in Resetters
  BY DEF ResetStreams
<1>5. TypeOK'
  <2>1. accepted \in [Ends -> SUBSET Streams] /\ deferred \in [Ends -> SUBSET Streams]
    BY DEF TypeOK
  <2>2. accepted' \in [Ends -> SUBSET Streams]
    <3> HIDE DEF ResetInv
    <3> QED
      BY <1>3, <2>1
  <2>3. deferred' \in [Ends -> SUBSET Streams]
    <3> HIDE DEF ResetInv
    <3> QED
      BY <1>3, <2>1
  <2>4. TypeOK
    OBVIOUS
  <2> HIDE DEF ResetInv
  <2> QED
    BY <1>1, <2>2, <2>3, <2>4 DEF TypeOK, association
<1>6. InStep' /\ ResetsAreAnswered'
  BY <1>1 DEF InStep, ResetsAreAnswered
<1>7. RequestsWereAccepted'
  BY <1>1, <1>3, <1>4 DEF RequestsWereAccepted, TypeOK
<1>8. \A f \in Ends : accepted[f] \subseteq accepted'[f]
  <2>1. accepted \in [Ends -> SUBSET Streams]
    BY DEF TypeOK
  <2> HIDE DEF ResetInv
  <2> QED
    BY <1>3, <2>1
<1>9. RefusedHasNoEffect'
  BY <1>1, <1>8, PeerLemma DEF RefusedHasNoEffect, Performed, Failed
<1>10. OneSide => HeardOrUnheard'
  BY <1>1 DEF HeardOrUnheard, Performed, Unheard
<1>11. OneSide => ReportedOnce'
  BY <1>1 DEF ReportedOnce, Performed, Failed, Requested, Unanswered
<1> QED
  BY <1>5, <1>6, <1>7, <1>9, <1>10, <1>11

(* A request contains what was deferred; there is no other to be answered. *)
LEMMA SendRequestLemma ==
  ASSUME ResetInv, NEW e \in Ends, SendRequest(e)
  PROVE  ResetInv'
<1> USE DEF ResetInv
<1>1. /\ UNCHANGED <<association, accepted, answers, resets, heard>>
      /\ outstanding[e] = 0
      /\ Len(sent[e]) < MaxRequests
      /\ sent' = [sent EXCEPT ![e] = Append(@, deferred[e])]
      /\ outstanding' = [outstanding EXCEPT ![e] = Len(sent[e]) + 1]
      /\ deferred' = [deferred EXCEPT ![e] = {}]
  BY DEF SendRequest
<1>2. /\ sent \in [Ends -> Seq(SUBSET Streams)]
      /\ deferred \in [Ends -> SUBSET Streams]
      /\ answers \in [Ends -> Seq({"performed", "failed"})]
      /\ outstanding \in [Ends -> 0..MaxRequests]
  BY DEF TypeOK
<1>3. Len(sent[e]) \in Nat
  BY <1>2
<1>4. /\ sent'[e] \in Seq(SUBSET Streams)
      /\ Len(sent'[e]) = Len(sent[e]) + 1
      /\ DOMAIN sent'[e] = 1..(Len(sent[e]) + 1)
      /\ \A n \in DOMAIN sent[e] : sent'[e][n] = sent[e][n]
      /\ sent'[e][Len(sent[e]) + 1] = deferred[e]
      /\ \A f \in Ends \ {e} : sent'[f] = sent[f] /\ outstanding'[f] = outstanding[f]
      /\ outstanding'[e] = Len(sent[e]) + 1
  BY <1>1, <1>2
<1>5. TypeOK'
  <2>1. sent' \in [Ends -> Seq(SUBSET Streams)]
    BY <1>1, <1>2, <1>4
  <2>2. outstanding' \in [Ends -> 0..MaxRequests]
    BY <1>1, <1>2, <1>3, MaxRequestsAssumption
  <2>3. deferred' \in [Ends -> SUBSET Streams]
    BY <1>1, <1>2
  <2> QED
    BY <1>1, <2>1, <2>2, <2>3 DEF TypeOK, association
<1>6. InStep'
  <2> SUFFICES ASSUME NEW f \in Ends
               PROVE  /\ Len(sent'[f]) <= MaxRequests
                      /\ outstanding'[f] = 0 => Len(answers'[Peer(f)]) = Len(sent'[f])
                      /\ outstanding'[f] # 0 =>
                           /\ outstanding'[f] = Len(sent'[f])
                           /\ Len(answers'[Peer(f)]) \in {Len(sent'[f]) - 1, Len(sent'[f])}
    BY DEF InStep
  <2>1. CASE f = e
    BY <1>1, <1>3, <1>4, <2>1, MaxRequestsAssumption DEF InStep
  <2>2. CASE f # e
    BY <1>1, <1>4, <2>2 DEF InStep
  <2> QED
    BY <2>1, <2>2
<1>7. ResetsAreAnswered'
  BY <1>1 DEF ResetsAreAnswered
<1>8. RequestsWereAccepted'
  <2> SUFFICES ASSUME NEW f \in Ends
               PROVE  /\ deferred'[f] \subseteq accepted[f]
                      /\ \A n \in DOMAIN sent'[f] : sent'[f][n] \subseteq accepted[f]
                      /\ f \notin Resetters => accepted[f] = {}
    BY <1>1 DEF RequestsWereAccepted
  <2>1. CASE f = e
    <3>1. \A n \in DOMAIN sent'[e] : n \in DOMAIN sent[e] \/ n = Len(sent[e]) + 1
      BY <1>2, <1>3, <1>4
    <3> QED
      BY <1>1, <1>2, <1>4, <2>1, <3>1 DEF RequestsWereAccepted
  <2>2. CASE f # e
    BY <1>1, <1>2, <1>4, <2>2 DEF RequestsWereAccepted
  <2> QED
    BY <2>1, <2>2
<1>9. RefusedHasNoEffect'
  BY <1>1 DEF RefusedHasNoEffect, Performed, Failed
<1>10. OneSide => HeardOrUnheard'
  <2> SUFFICES ASSUME OneSide, NEW f \in Resetters, NEW s \in Streams
               PROVE  Performed(f, s)' + Unheard(f, s)' <= resets[Peer(f)][s]
    BY <1>1 DEF HeardOrUnheard
  <2>1. f \in Ends
    BY EndsAssumption
  <2>2. Performed(f, s)' = Performed(f, s) /\ Performed(f, s) + Unheard(f, s) <= resets[Peer(f)][s]
    BY <1>1 DEF HeardOrUnheard, Performed
  <2>3. CASE f = e
    <3>1. Len(answers[Peer(e)]) = Len(sent[e]) /\ Unheard(e, s) = 0
      BY <1>1 DEF InStep, Unheard
    <3>2. ~(outstanding'[e] <= Len(answers'[Peer(e)]))
      BY <1>1, <1>3, <1>4, <3>1
    <3>3. Unheard(e, s)' = 0
      BY <3>2 DEF Unheard
    <3> QED
      BY <2>2, <2>3, <3>1, <3>3
  <2>4. CASE f # e
    BY <1>1, <1>4, <2>1, <2>2, <2>4 DEF Unheard
  <2> QED
    BY <2>3, <2>4
<1>11. OneSide => ReportedOnce'
  <2> SUFFICES ASSUME OneSide, NEW f \in Resetters, NEW s \in Streams
               PROVE  Performed(f, s)' + Failed(f, s)' + Unanswered(f, s)' = Requested(f, s)'
    BY DEF ReportedOnce
  <2>1. f \in Ends
    BY EndsAssumption
  <2>2. Performed(f, s) + Failed(f, s) + Unanswered(f, s) = Requested(f, s)
    BY DEF ReportedOnce
  <2>3. /\ Performed(f, s) \in Nat /\ Performed(f, s)' = Performed(f, s)
        /\ Failed(f, s) \in Nat /\ Failed(f, s)' = Failed(f, s)
    BY <1>1, <2>1 DEF Performed, Failed, TypeOK, Callbacks
  <2>4. CASE f # e
    BY <1>1, <1>4, <2>1, <2>2, <2>3, <2>4 DEF Requested, Unanswered
  <2>5. CASE f = e
    <3> DEFINE old == {n \in DOMAIN sent[e] : s \in sent[e][n]}
               k   == Len(sent[e]) + 1
    <3>1. Unanswered(e, s) = 0
      BY <1>1 DEF Unanswered
    <3>2. Unanswered(e, s)' = IF s \in deferred[e] THEN 1 ELSE 0
      BY <1>3, <1>4 DEF Unanswered
    <3>3. DOMAIN sent[e] = 1..Len(sent[e])
      BY <1>2
    <3>4. {n \in DOMAIN sent'[e] : s \in sent'[e][n]}
            = IF s \in deferred[e] THEN old \cup {k} ELSE old
      <4>1. DOMAIN sent'[e] = DOMAIN sent[e] \cup {k}
        BY <1>3, <1>4, <3>3
      <4> QED
        BY <1>4, <4>1
    <3>5. IsFiniteSet(old) /\ k \notin old
      <4>1. IsFiniteSet(1..Len(sent[e]))
        BY <1>3, FS_Interval
      <4>2. old \in SUBSET (1..Len(sent[e]))
        BY <3>3
      <4>3. k \notin 1..Len(sent[e])
        BY <1>3
      <4> QED
        BY <4>1, <4>2, <4>3, FS_Subset
    <3>6. Requested(e, s)' = Requested(e, s) + (IF s \in deferred[e] THEN 1 ELSE 0)
      <4>1. Requested(e, s) = Cardinality(old) /\ Cardinality(old) \in Nat
        BY <3>5, FS_CardinalityType DEF Requested
      <4>2. Cardinality(old \cup {k}) = Cardinality(old) + 1
        BY <3>5, FS_AddElement
      <4>3. Requested(e, s)' = Cardinality({n \in DOMAIN sent'[e] : s \in sent'[e][n]})
        BY DEF Requested
      <4> DEFINE new == {n \in DOMAIN sent'[e] : s \in sent'[e][n]}
      <4>4. Requested(e, s)' = Cardinality(new) /\ new = IF s \in deferred[e] THEN old \cup {k} ELSE old
        BY <3>4, <4>3
      <4> HIDE DEF old, k, new
      <4>5. CASE s \in deferred[e]
        BY <4>1, <4>2, <4>4, <4>5
      <4>6. CASE s \notin deferred[e]
        BY <4>1, <4>4, <4>6
      <4> QED
        BY <4>5, <4>6
    <3> QED
      BY <2>2, <2>3, <2>5, <3>1, <3>2, <3>6
  <2> QED
    BY <2>4, <2>5
<1> QED
  BY <1>5, <1>6, <1>7, <1>8, <1>9, <1>10, <1>11

(* A request that is handled is the last one and was not answered yet; so  *)
(* it becomes unheard of with the reset that it causes.                    *)
LEMMA HandleRequestLemma ==
  ASSUME ResetInv, NEW e \in Ends, NEW n \in 1..MaxRequests,
         HandleRequest(e, n)
  PROVE  ResetInv'
<1> DEFINE p == Peer(e)
<1>p. p \in Ends /\ p # e /\ Peer(p) = e /\ \A f \in Ends : f = e \/ f = p
  BY PeerLemma
<1> HIDE DEF p
<1> USE DEF ResetInv
<1>1. /\ UNCHANGED <<association, accepted, deferred, sent, outstanding>>
      /\ n \in DOMAIN sent[p]
      /\ n = Len(answers[e]) + 1
  BY DEF HandleRequest, IsNext, p
<1>2. PICK verdict \in {"performed", "failed"} :
        /\ answers' = [answers EXCEPT ![e] = Append(@, verdict)]
        /\ \/ /\ verdict = "performed"
              /\ resets' = [resets EXCEPT ![e] = Increment(@, sent[p][n])]
              /\ Notify(e, "incoming", sent[p][n])
           \/ verdict = "failed" /\ UNCHANGED <<resets, heard>>
  BY DEF HandleRequest, p
<1>3. /\ sent \in [Ends -> Seq(SUBSET Streams)]
      /\ answers \in [Ends -> Seq({"performed", "failed"})]
      /\ outstanding \in [Ends -> 0..MaxRequests]
      /\ resets \in [Ends -> [Streams -> 0..MaxRequests]]
      /\ heard \in [Ends -> [Callbacks -> [Streams -> Nat]]]
  BY DEF TypeOK
<1>4. Len(sent[p]) \in Nat /\ Len(answers[e]) \in Nat /\ DOMAIN sent[p] = 1..Len(sent[p])
  BY <1>3, <1>p
<1>5. outstanding[p] = n /\ Len(sent[p]) = n /\ Len(sent[p]) <= MaxRequests
  <2>1. InStep
    OBVIOUS
  <2>2. /\ Len(sent[p]) <= MaxRequests
        /\ outstanding[p] = 0 => Len(answers[e]) = Len(sent[p])
        /\ outstanding[p] # 0 =>
             /\ outstanding[p] = Len(sent[p])
             /\ Len(answers[e]) \in {Len(sent[p]) - 1, Len(sent[p])}
    BY <1>p, <2>1 DEF InStep
  <2> HIDE DEF ResetInv
  <2>3. n \in 1..Len(sent[p])
    BY <1>1, <1>4
  <2> QED
    BY <1>1, <1>4, <2>2, <2>3
<1>6. /\ answers'[e] \in Seq({"performed", "failed"})
      /\ Len(answers'[e]) = n
      /\ answers'[e][n] = verdict
      /\ answers'[p] = answers[p]
  BY <1>1, <1>2, <1>3, <1>4, <1>p
<1>7. /\ resets' \in [Ends -> [Streams -> Nat]]
      /\ \A s \in Streams :
           /\ resets'[p][s] = resets[p][s]
           /\ resets'[e][s] = IF verdict = "performed" /\ s \in sent[p][n]
                              THEN resets[e][s] + 1 ELSE resets[e][s]
  <2>1. resets[e] \in [Streams -> Nat] /\ resets \in [Ends -> [Streams -> Nat]]
    BY <1>3
  <2> DEFINE new == Increment(resets[e], sent[p][n])
  <2>2. /\ new \in [Streams -> Nat]
        /\ \A s \in Streams :
             new[s] = IF s \in sent[p][n] THEN resets[e][s] + 1 ELSE resets[e][s]
    BY <2>1, IncrementLemma
  <2>3. CASE verdict = "performed"
    <3>1. resets' = [resets EXCEPT ![e] = new]
      BY <1>2, <2>3
    <3> HIDE DEF new
    <3> QED
      BY <1>p, <2>1, <2>2, <2>3, <3>1
  <2>4. CASE verdict = "failed"
    BY <1>2, <2>1, <2>4
  <2> QED
    BY <2>3, <2>4
<1>8. ResetsAreAnswered'
  <2> SUFFICES ASSUME NEW f \in Ends, NEW s \in Streams
               PROVE  resets'[f][s] <= Len(answers'[f])
    BY DEF ResetsAreAnswered
  <2>1. resets[f][s] <= Len(answers[f]) /\ resets[f][s] \in Nat
    BY <1>3 DEF ResetsAreAnswered
  <2>2. CASE f = e
    BY <1>1, <1>4, <1>6, <1>7, <2>1, <2>2
  <2>3. CASE f = p
    BY <1>6, <1>7, <2>1, <2>3
  <2> QED
    BY <1>p, <2>2, <2>3
<1>9. /\ heard' \in [Ends -> [Callbacks -> [Streams -> Nat]]]
      /\ \A f \in Ends, s \in Streams :
           /\ Failed(f, s)' = Failed(f, s)
           /\ ~(f = e /\ s \in sent[p][n]) => Performed(f, s)' = Performed(f, s)
  <2>1. CASE verdict = "failed"
    BY <1>2, <1>3, <2>1 DEF Performed, Failed
  <2>2. CASE verdict = "performed"
    <3>1. Notify(e, "incoming", sent[p][n])
      BY <1>2, <2>2
    <3>2. /\ heard' \in [Ends -> [Callbacks -> [Streams -> Nat]]]
          /\ \A f \in Ends, c \in Callbacks, s \in Streams :
               heard'[f][c][s] =
                 IF f = e /\ c = JavaCallback["incoming"] /\ s \in sent[p][n]
                 THEN heard[f][c][s] + 1 ELSE heard[f][c][s]
      <4> HIDE DEF ResetInv
      <4>1. heard \in [Ends -> [Callbacks -> [Streams -> Nat]]]
        BY <1>3
      <4> QED
        BY <3>1, <4>1, NotifyLemma
    <3>3. /\ {"OnStreamsResetPerformed", "OnStreamsResetFailed"} \subseteq Callbacks
          /\ JavaCallback["incoming"] # "OnStreamsResetFailed"
      BY DEF Callbacks, JavaCallback
    <3> HIDE DEF ResetInv
    <3> QED
      BY <3>2, <3>3 DEF Performed, Failed
  <2> QED
    BY <2>1, <2>2
<1>10. TypeOK'
  <2>1. answers' \in [Ends -> Seq({"performed", "failed"})]
    BY <1>2, <1>3, <1>6
  <2>2. resets' \in [Ends -> [Streams -> 0..MaxRequests]]
    <3>1. ASSUME NEW f \in Ends, NEW s \in Streams
          PROVE  resets'[f][s] \in 0..MaxRequests
      <4>1. CASE f = e
        BY <1>5, <1>6, <1>7, <1>8, <4>1, MaxRequestsAssumption DEF ResetsAreAnswered
      <4>2. CASE f = p
        BY <1>3, <1>7, <4>2
      <4> QED
        BY <1>p, <4>1, <4>2
    <3> QED
      BY <1>7, <3>1
  <2>3. TypeOK
    OBVIOUS
  <2> HIDE DEF ResetInv
  <2> QED
    BY <1>1, <1>9, <2>1, <2>2, <2>3 DEF TypeOK, association
<1>11. InStep'
  <2> SUFFICES ASSUME NEW f \in Ends
               PROVE  /\ Len(sent[f]) <= MaxRequests
                      /\ outstanding[f] = 0 => Len(answers'[Peer(f)]) = Len(sent[f])
                      /\ outstanding[f] # 0 =>
                           /\ outstanding[f] = Len(sent[f])
                           /\ Len(answers'[Peer(f)]) \in {Len(sent[f]) - 1, Len(sent[f])}
    BY <1>1 DEF InStep
  <2>1. CASE f = e
    BY <1>6, <2>1 DEF InStep, p
  <2>2. CASE f = p
    BY <1>4, <1>5, <1>6, <1>p, <2>2
  <2> QED
    BY <1>p, <2>1, <2>2
<1>12. RequestsWereAccepted'
  BY <1>1 DEF RequestsWereAccepted
<1>s. sent[p][n] \subseteq accepted[p]
  BY <1>1, <1>p DEF RequestsWereAccepted
<1>13. RefusedHasNoEffect'
  <2> SUFFICES ASSUME NEW f \in Ends, NEW s \in Streams
               PROVE  /\ resets'[f][s] > 0 => s \in accepted[Peer(f)]
                      /\ Failed(f, s)' > 0 => s \in accepted[f]
                      /\ Performed(f, s)' > 0 => s \in accepted[f] \cup accepted[Peer(f)]
    BY <1>1 DEF RefusedHasNoEffect
  <2>1. /\ resets[f][s] > 0 => s \in accepted[Peer(f)]
        /\ Failed(f, s) > 0 => s \in accepted[f]
        /\ Performed(f, s) > 0 => s \in accepted[f] \cup accepted[Peer(f)]
    BY DEF RefusedHasNoEffect
  <2>2. Failed(f, s)' = Failed(f, s)
    BY <1>9
  <2>3. CASE f = e /\ s \in sent[p][n]
    BY <1>s, <2>1, <2>2, <2>3 DEF p
  <2>4. CASE ~(f = e /\ s \in sent[p][n])
    <3>1. resets'[f][s] = resets[f][s]
      BY <1>7, <1>p, <2>4
    <3>2. Performed(f, s)' = Performed(f, s)
      BY <1>9, <2>4
    <3> QED
      BY <2>1, <2>2, <3>1, <3>2
  <2> QED
    BY <2>3, <2>4
<1>r. ASSUME OneSide, NEW f \in Resetters, NEW s \in Streams
      PROVE  Performed(f, s)' = Performed(f, s) /\ Failed(f, s)' = Failed(f, s)
  <2>1. f \in Ends
    BY EndsAssumption
  <2>2. e \in Resetters => sent[p][n] = {}
    BY <1>r, <1>1, <1>p DEF OneSide, RequestsWereAccepted, p
  <2> HIDE DEF ResetInv
  <2> QED
    BY <1>9, <2>1, <2>2
<1>14. OneSide => HeardOrUnheard'
  <2> SUFFICES ASSUME OneSide, NEW f \in Resetters, NEW s \in Streams
               PROVE  Performed(f, s)' + Unheard(f, s)' <= resets'[Peer(f)][s]
    BY DEF HeardOrUnheard
  <2>1. f \in Ends
    BY EndsAssumption
  <2>2. /\ Performed(f, s)' = Performed(f, s)
        /\ Performed(f, s) + Unheard(f, s) <= resets[Peer(f)][s]
    BY <1>r DEF HeardOrUnheard
  <2>3. CASE f = e
    BY <1>1, <1>6, <1>7, <2>2, <2>3 DEF Unheard, p
  <2>4. CASE f = p
    <3>1. Unheard(p, s) = 0
      BY <1>1, <1>4, <1>5, <1>p DEF Unheard
    <3>2. Unheard(p, s)' = IF verdict = "performed" /\ s \in sent[p][n] THEN 1 ELSE 0
      BY <1>1, <1>4, <1>5, <1>6, <1>p DEF Unheard
    <3>3. Performed(p, s) \in Nat /\ resets[e][s] \in Nat
      BY <1>3, <1>p DEF Performed, Callbacks
    <3> QED
      BY <1>7, <1>p, <2>2, <2>4, <3>1, <3>2, <3>3
  <2> QED
    BY <1>p, <2>1, <2>3, <2>4
<1>15. OneSide => ReportedOnce'
  <2>1. ASSUME OneSide, NEW f \in Resetters, NEW s \in Streams
        PROVE  /\ Performed(f, s)' = Performed(f, s) /\ Failed(f, s)' = Failed(f, s)
               /\ Requested(f, s)' = Requested(f, s)
               /\ Unanswered(f, s)' = Unanswered(f, s)
    BY <1>1, <1>r, <2>1 DEF Requested, Unanswered
  <2> QED
    BY <2>1 DEF ReportedOnce
<1> QED
  BY <1>8, <1>10, <1>11, <1>12, <1>13, <1>14, <1>15

(* The answer that is waited for is reported under its own name, once; no  *)
(* other request was made meanwhile.                                       *)
LEMMA HandleAnswerLemma ==
  ASSUME ResetInv, NEW e \in Ends, NEW n \in 1..MaxRequests,
         HandleAnswer(e, n)
  PROVE  ResetInv'
<1> DEFINE p == Peer(e)
<1>p. p \in Ends /\ p # e /\ Peer(p) = e /\ \A f \in Ends : f = e \/ f = p
  BY PeerLemma
<1> HIDE DEF p
<1> USE DEF ResetInv
<1>1. /\ UNCHANGED <<association, accepted, deferred, sent, answers, resets>>
      /\ n \in DOMAIN answers[p]
      /\ outstanding[e] = n
      /\ outstanding' = [outstanding EXCEPT ![e] = 0]
      /\ Notify(e, answers[p][n], sent[e][n])
  BY DEF HandleAnswer, IsExpected, p
<1>2. /\ sent \in [Ends -> Seq(SUBSET Streams)]
      /\ answers \in [Ends -> Seq({"performed", "failed"})]
      /\ outstanding \in [Ends -> 0..MaxRequests]
      /\ heard \in [Ends -> [Callbacks -> [Streams -> Nat]]]
  BY DEF TypeOK
<1>3. /\ answers[p][n] \in {"performed", "failed"}
      /\ Len(answers[p]) \in Nat /\ Len(sent[e]) \in Nat
      /\ DOMAIN answers[p] = 1..Len(answers[p]) /\ DOMAIN sent[e] = 1..Len(sent[e])
  BY <1>1, <1>2, <1>p
<1>4. n # 0 /\ outstanding'[e] = 0 /\ outstanding'[p] = outstanding[p]
  BY <1>1, <1>2, <1>p, MaxRequestsAssumption
<1>5. n = Len(sent[e]) /\ n = Len(answers[p])
  <2>1. InStep
    OBVIOUS
  <2>2. outstanding[e] # 0 =>
          /\ outstanding[e] = Len(sent[e])
          /\ Len(answers[p]) \in {Len(sent[e]) - 1, Len(sent[e])}
    BY <2>1 DEF InStep, p
  <2> HIDE DEF ResetInv
  <2>3. n \in 1..Len(answers[p])
    BY <1>1, <1>3
  <2> QED
    BY <1>1, <1>3, <1>4, <2>2, <2>3
<1>6. /\ heard' \in [Ends -> [Callbacks -> [Streams -> Nat]]]
      /\ \A f \in Ends, c \in Callbacks, s \in Streams :
           heard'[f][c][s] =
             IF f = e /\ c = JavaCallback[answers[p][n]] /\ s \in sent[e][n]
             THEN heard[f][c][s] + 1 ELSE heard[f][c][s]
  <2> HIDE DEF ResetInv
  <2>1. heard \in [Ends -> [Callbacks -> [Streams -> Nat]]]
    BY <1>2
  <2>2. answers[p][n] \in {"performed", "failed", "incoming"}
    BY <1>3
  <2>3. Notify(e, answers[p][n], sent[e][n])
    BY <1>1
  <2> QED
    BY <2>1, <2>2, <2>3, NotifyLemma
<1>7. TypeOK'
  <2>1. TypeOK
    OBVIOUS
  <2> HIDE DEF ResetInv
  <2>2. outstanding' \in [Ends -> 0..MaxRequests]
    <3>1. 0 \in 0..MaxRequests /\ outstanding \in [Ends -> 0..MaxRequests]
      BY <1>2, MaxRequestsAssumption
    <3>2. outstanding' = [outstanding EXCEPT ![e] = 0]
      BY <1>1
    <3> QED
      BY <3>1, <3>2
  <2> QED
    BY <1>1, <1>6, <2>1, <2>2 DEF TypeOK, association
<1>8. InStep'
  <2> SUFFICES ASSUME NEW f \in Ends
               PROVE  /\ Len(sent[f]) <= MaxRequests
                      /\ outstanding'[f] = 0 => Len(answers[Peer(f)]) = Len(sent[f])
                      /\ outstanding'[f] # 0 =>
                           /\ outstanding'[f] = Len(sent[f])
                           /\ Len(answers[Peer(f)]) \in {Len(sent[f]) - 1, Len(sent[f])}
    BY <1>1 DEF InStep
  <2>1. CASE f = e
    BY <1>4, <1>5, <2>1 DEF InStep, p
  <2>2. CASE f = p
    BY <1>4, <2>2 DEF InStep
  <2> QED
    BY <1>p, <2>1, <2>2
<1>9. ResetsAreAnswered'
  BY <1>1 DEF ResetsAreAnswered
<1>10. RequestsWereAccepted'
  BY <1>1 DEF RequestsWereAccepted
<1>11. sent[e][n] \subseteq accepted[e]
  BY <1>1, <1>3, <1>5 DEF RequestsWereAccepted
<1>12. RefusedHasNoEffect'
  <2> SUFFICES ASSUME NEW f \in Ends, NEW s \in Streams
               PROVE  /\ resets[f][s] > 0 => s \in accepted[Peer(f)]
                      /\ Failed(f, s)' > 0 => s \in accepted[f]
                      /\ Performed(f, s)' > 0 => s \in accepted[f] \cup accepted[Peer(f)]
    BY <1>1 DEF RefusedHasNoEffect
  <2>1. /\ resets[f][s] > 0 => s \in accepted[Peer(f)]
        /\ Failed(f, s) > 0 => s \in accepted[f]
        /\ Performed(f, s) > 0 => s \in accepted[f] \cup accepted[Peer(f)]
    BY DEF RefusedHasNoEffect
  <2>2. CASE f = e /\ s \in sent[e][n]
    BY <1>11, <2>1, <2>2
  <2>3. CASE ~(f = e /\ s \in sent[e][n])
    <3>1. Performed(f, s)' = Performed(f, s) /\ Failed(f, s)' = Failed(f, s)
      BY <1>6, <2>3 DEF Performed, Failed, Callbacks
    <3> QED
      BY <2>1, <3>1
  <2> QED
    BY <2>2, <2>3
<1>13. OneSide => HeardOrUnheard'
  <2> SUFFICES ASSUME OneSide, NEW f \in Resetters, NEW s \in Streams
               PROVE  Performed(f, s)' + Unheard(f, s)' <= resets[Peer(f)][s]
    BY <1>1 DEF HeardOrUnheard
  <2>1. f \in Ends
    BY EndsAssumption
  <2>2. Performed(f, s) + Unheard(f, s) <= resets[Peer(f)][s]
    BY DEF HeardOrUnheard
  <2>3. Performed(f, s) \in Nat
    BY <1>2, <2>1 DEF Performed, Callbacks
  <2>4. CASE f = e
    <3>1. Unheard(e, s)' = 0
      BY <1>4 DEF Unheard
    <3>2. Unheard(e, s) = IF answers[p][n] = "performed" /\ s \in sent[e][n] THEN 1 ELSE 0
      BY <1>1, <1>3, <1>4, <1>5 DEF Unheard, p
    <3>3. "OnStreamsResetPerformed" = JavaCallback[answers[p][n]]
            <=> answers[p][n] = "performed"
      BY <1>3 DEF JavaCallback
    <3>4. Performed(e, s)' = Performed(e, s) + Unheard(e, s)
      BY <1>6, <2>3, <2>4, <3>2, <3>3 DEF Performed, Callbacks
    <3> QED
      BY <2>2, <2>3, <2>4, <3>1, <3>2, <3>4
  <2>5. CASE f # e
    <3>1. Performed(f, s)' = Performed(f, s)
      BY <1>6, <2>1, <2>5 DEF Performed, Callbacks
    <3>2. Unheard(f, s)' = Unheard(f, s)
      BY <1>1, <1>4, <1>p, <2>1, <2>5 DEF Unheard
    <3> QED
      BY <2>2, <3>1, <3>2
  <2> QED
    BY <2>4, <2>5
<1>14. OneSide => ReportedOnce'
  <2> SUFFICES ASSUME OneSide, NEW f \in Resetters, NEW s \in Streams
               PROVE  Performed(f, s)' + Failed(f, s)' + Unanswered(f, s)' = Requested(f, s)
    BY <1>1 DEF ReportedOnce, Requested
  <2>1. f \in Ends
    BY EndsAssumption
  <2>2. Performed(f, s) + Failed(f, s) + Unanswered(f, s) = Requested(f, s)
    BY DEF ReportedOnce
  <2>3. Performed(f, s) \in Nat /\ Failed(f, s) \in Nat
    BY <1>2, <2>1 DEF Performed, Failed, Callbacks
  <2>4. CASE f = e
    <3>1. Unanswered(e, s)' = 0
      BY <1>4 DEF Unanswered
    <3>2. Unanswered(e, s) = IF s \in sent[e][n] THEN 1 ELSE 0
      BY <1>1, <1>4 DEF Unanswered
    <3>3. Performed(e, s)' + Failed(e, s)' =
            Performed(e, s) + Failed(e, s) + Unanswered(e, s)
      <4>1. CASE answers[p][n] = "performed"
        <5>1. JavaCallback[answers[p][n]] = "OnStreamsResetPerformed"
          BY <4>1 DEF JavaCallback
        <5> QED
          BY <1>6, <2>3, <2>4, <3>2, <5>1 DEF Performed, Failed, Callbacks
      <4>2. CASE answers[p][n] = "failed"
        <5>1. JavaCallback[answers[p][n]] = "OnStreamsResetFailed"
          BY <4>2 DEF JavaCallback
        <5> QED
          BY <1>6, <2>3, <2>4, <3>2, <5>1 DEF Performed, Failed, Callbacks
      <4> QED
        BY <1>3, <4>1, <4>2
    <3> QED
      BY <2>2, <2>3, <2>4, <3>1, <3>2, <3>3
  <2>5. CASE f # e
    <3>1. Performed(f, s)' = Performed(f, s) /\ Failed(f, s)' = Failed(f, s)
      BY <1>6, <2>1, <2>5 DEF Performed, Failed, Callbacks
    <3>2. Unanswered(f, s)' = Unanswered(f, s)
      BY <1>1, <1>4, <1>p, <2>1, <2>5 DEF Unanswered
    <3> QED
      BY <2>2, <3>1, <3>2
  <2> QED
    BY <2>4, <2>5
<1> QED
  BY <1>7, <1>8, <1>9, <1>10, <1>12, <1>13, <1>14

(* Every step preserves the invariant.                                     *)
LEMMA StepLemma == ResetInv /\ [Next]_vars => ResetInv'
<1> SUFFICES ASSUME ResetInv, [Next]_vars PROVE ResetInv'
  OBVIOUS
<1>1. ASSUME NEW e \in Ends, Connected(e) \/ End(e) PROVE ResetInv'
  <2>1. phase' \in [Ends -> {"new", "connected", "ended"}]
    BY <1>1 DEF Connected, End, ResetInv, TypeOK
  <2>2. UNCHANGED <<supported, accepted, deferred, sent, outstanding, answers, resets, heard>>
    BY <1>1 DEF Connected, End
  <2> QED
    BY <2>1, <2>2, PhaseLemma
<1>2. ASSUME NEW e \in Ends, NEW S \in SUBSET Streams, ResetStreams(e, S) PROVE ResetInv'
  BY <1>2, ResetStreamsLemma
<1>3. ASSUME NEW e \in Ends, SendRequest(e) PROVE ResetInv'
  BY <1>3, SendRequestLemma
<1>4. ASSUME NEW e \in Ends, NEW n \in 1..MaxRequests, HandleRequest(e, n) PROVE ResetInv'
  BY <1>4, HandleRequestLemma
<1>5. ASSUME NEW e \in Ends, NEW n \in 1..MaxRequests, HandleAnswer(e, n) PROVE ResetInv'
  BY <1>5, HandleAnswerLemma
<1>6. CASE UNCHANGED vars
  <2>1. phase' \in [Ends -> {"new", "connected", "ended"}]
    BY <1>6 DEF vars, association, ResetInv, TypeOK
  <2>2. UNCHANGED <<supported, accepted, deferred, sent, outstanding, answers, resets, heard>>
    BY <1>6 DEF vars, association
  <2> QED
    BY <2>1, <2>2, PhaseLemma
<1> QED
  BY <1>1, <1>2, <1>3, <1>4, <1>5, <1>6 DEF Next

-----------------------------------------------------------------------------
(* The theorems.                                                           *)

(* The invariant holds of every behaviour.                                 *)
THEOREM ResetInvariance == Spec => []ResetInv
<1>1. ResetInv /\ [Next]_vars => ResetInv'
  BY StepLemma
<1> QED
  BY InitLemma, <1>1, PTL DEF Spec

(* The variables keep their types; no stream is reset more often than      *)
(* there are requests.                                                     *)
THEOREM ResetTypeCorrect == Spec => []TypeOK
<1>1. ResetInv => TypeOK
  BY DEF ResetInv
<1> QED
  BY ResetInvariance, <1>1, PTL

(* What resetStreams has not accepted has no effect at either end, whether *)
(* one end resets streams or both.                                         *)
THEOREM RefusedResetsHaveNoEffect == Spec => []RefusedHasNoEffect
<1>1. ResetInv => RefusedHasNoEffect
  BY DEF ResetInv
<1> QED
  BY ResetInvariance, <1>1, PTL

(* While one end resets streams, each request is reported exactly once.    *)
THEOREM EachReportedOnce == ASSUME OneSide PROVE Spec => []ReportedOnce
<1>1. ResetInv => ReportedOnce
  BY DEF ResetInv
<1> QED
  BY ResetInvariance, <1>1, PTL

(* While one end resets streams, OnStreamsResetPerformed is true at that   *)
(* end: the peer has reset the stream at least as often.                   *)
THEOREM PerformedIsTrue == ASSUME OneSide PROVE Spec => []PerformedMeansReset
<1>1. ResetInv => PerformedMeansReset
  <2> SUFFICES ASSUME ResetInv, NEW e \in Resetters, NEW s \in Streams
               PROVE  Performed(e, s) <= resets[Peer(e)][s]
    BY DEF PerformedMeansReset
  <2>1. e \in Ends /\ Peer(e) \in Ends
    BY EndsAssumption, PeerLemma
  <2>2. Performed(e, s) \in Nat /\ resets[Peer(e)][s] \in 0..MaxRequests
    BY <2>1 DEF ResetInv, TypeOK, Performed, Callbacks
  <2>3. Unheard(e, s) \in {0, 1}
    BY DEF Unheard
  <2>4. Performed(e, s) + Unheard(e, s) <= resets[Peer(e)][s]
    BY DEF ResetInv, HeardOrUnheard
  <2> QED
    BY <2>2, <2>3, <2>4
<1> QED
  BY ResetInvariance, <1>1, PTL
=============================================================================
