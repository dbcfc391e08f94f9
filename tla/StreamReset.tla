----------------------------- MODULE StreamReset -----------------------------
(***************************************************************************)
(* Resetting streams between the two ends of an association, as the two    *)
(* applications hear of it: resetStreams is asynchronous, and its result   *)
(* arrives in the callbacks OnStreamsResetPerformed and                    *)
(* OnStreamsResetFailed if the status it returned was kPerformed; a reset  *)
(* by the peer has a callback of its own.  WrappedSocketCallbacks          *)
(* translates dcsctp's callbacks into Java's.                              *)
(*                                                                         *)
(* dcsctp is external: it has one outstanding request, and defers further  *)
(* streams until that is answered.  Requests and answers are numbered and  *)
(* retransmitted; the network may lose, repeat and reorder them, so what   *)
(* was once sent may be received at any later time, or not.  Each end is   *)
(* connected at some time, and closed or aborted at any time after that.   *)
(***************************************************************************)
EXTENDS Naturals, Sequences, FiniteSets

CONSTANTS
  Ends,       \* the two ends of the association
  Streams,
  Resetters,  \* the ends whose application resets streams
  MaxRequests \* how many requests an end makes (a bound)

ASSUME EndsAssumption ==
  IsFiniteSet(Ends) /\ Cardinality(Ends) = 2 /\ Resetters \subseteq Ends
ASSUME MaxRequestsAssumption == MaxRequests \in Nat

Peer(e) == CHOOSE p \in Ends : p # e

VARIABLES
  phase,       \* phase[e]: "new", "connected" or "ended"
  supported,   \* both ends support stream resetting
  accepted,    \* accepted[e]: streams for which resetStreams returned kPerformed
  deferred,    \* deferred[e]: streams to reset with the next request
  sent,        \* sent[e]: the sets of streams e requested to reset, in order
  outstanding, \* outstanding[e]: the number of the request to be answered, or 0
  answers,     \* answers[e]: how e answered the peer's requests, in order
  resets,      \* resets[e][s]: how often e has reset its incoming stream s
  heard        \* heard[e][c][s]: calls of the Java callback c for stream s

association == <<phase, supported>>
vars == <<association, accepted, deferred, sent, outstanding, answers, resets, heard>>

Callbacks ==
  {"OnStreamsResetPerformed", "OnStreamsResetFailed", "OnIncomingStreamsReset"}

TypeOK ==
  /\ phase \in [Ends -> {"new", "connected", "ended"}]
  /\ supported \in BOOLEAN
  /\ accepted \in [Ends -> SUBSET Streams]
  /\ deferred \in [Ends -> SUBSET Streams]
  /\ sent \in [Ends -> Seq(SUBSET Streams)]
  /\ outstanding \in [Ends -> 0..MaxRequests]
  /\ answers \in [Ends -> Seq({"performed", "failed"})]
  /\ resets \in [Ends -> [Streams -> 0..MaxRequests]]
  /\ heard \in [Ends -> [Callbacks -> [Streams -> Nat]]]

Init ==
  /\ phase = [e \in Ends |-> "new"]
  /\ supported \in BOOLEAN
  /\ accepted = [e \in Ends |-> {}]
  /\ deferred = [e \in Ends |-> {}]
  /\ sent = [e \in Ends |-> <<>>]
  /\ outstanding = [e \in Ends |-> 0]
  /\ answers = [e \in Ends |-> <<>>]
  /\ resets = [e \in Ends |-> [s \in Streams |-> 0]]
  /\ heard = [e \in Ends |-> [c \in Callbacks |-> [s \in Streams |-> 0]]]

-----------------------------------------------------------------------------
(* Mutant: failures reported with the callback for success.                *)
JavaCallbackOptimistic ==
  [performed |-> "OnStreamsResetPerformed",
   failed    |-> "OnStreamsResetPerformed",
   incoming  |-> "OnIncomingStreamsReset"]

(* The Java callback that each callback of WrappedSocketCallbacks calls.   *)
JavaCallback ==
  [performed |-> "OnStreamsResetPerformed",
   failed    |-> "OnStreamsResetFailed",
   incoming  |-> "OnStreamsResetPerformed"]

Increment(f, S) == [s \in Streams |-> IF s \in S THEN f[s] + 1 ELSE f[s]]

Notify(e, event, S) ==
  heard' = [heard EXCEPT ![e][JavaCallback[event]] = Increment(@, S)]

(* Mutant: two cases exchanged.                                            *)
ResetStreamsStatusExchanged == <<"kPerformed", "kNotConnected", "kNotSupported">>

(* ResetStreamsStatus_members::map, of what dcsctp numbers from 0.         *)
ResetStreamsStatus == <<"kNotConnected", "kPerformed", "kNotSupported">>

(* The number of the status dcsctp returns (external).                     *)
Verdict(e) == IF phase[e] # "connected" THEN 0 ELSE IF supported THEN 1 ELSE 2

(* The application calls resetStreams.                                     *)
ResetStreams(e, S) ==
  /\ e \in Resetters
  /\ Len(sent[e]) < MaxRequests
  /\ IF ResetStreamsStatus[Verdict(e) + 1] = "kPerformed"
     THEN accepted' = [accepted EXCEPT ![e] = @ \cup S]
     ELSE UNCHANGED accepted
  /\ IF Verdict(e) = 1
     THEN deferred' = [deferred EXCEPT ![e] = @ \cup S]
     ELSE UNCHANGED deferred
  /\ UNCHANGED <<association, sent, outstanding, answers, resets, heard>>

(* The handshake is over at e: OnConnected.                                *)
Connected(e) ==
  /\ phase[e] = "new"
  /\ phase' = [phase EXCEPT ![e] = "connected"]
  /\ UNCHANGED <<supported, accepted, deferred, sent, outstanding, answers, resets, heard>>

(* OnClosed or OnAborted.                                                  *)
End(e) ==
  /\ phase[e] = "connected"
  /\ phase' = [phase EXCEPT ![e] = "ended"]
  /\ UNCHANGED <<supported, accepted, deferred, sent, outstanding, answers, resets, heard>>

(* dcsctp makes one request for all streams that wait for it.              *)
SendRequest(e) ==
  /\ phase[e] = "connected"
  /\ deferred[e] # {}
  /\ outstanding[e] = 0
  /\ Len(sent[e]) < MaxRequests
  /\ sent' = [sent EXCEPT ![e] = Append(@, deferred[e])]
  /\ outstanding' = [outstanding EXCEPT ![e] = Len(sent[e]) + 1]
  /\ deferred' = [deferred EXCEPT ![e] = {}]
  /\ UNCHANGED <<association, accepted, answers, resets, heard>>

(* Mutant: a repeated request is carried out again.                        *)
IsNextAnyway(e, n) == n <= Len(answers[e]) + 1

(* Mutant: the first request is waited for under the number 0.             *)
IsNextFromZero(e, n) == n = Len(answers[e])

(* A repeated request only gets its answer again.                          *)
IsNext(e, n) == n = Len(answers[e]) + 1

(* A request arrives for the first time: e resets the streams and tells    *)
(* the application, or refuses.                                            *)
HandleRequest(e, n) ==
  /\ phase[e] = "connected"
  /\ n \in DOMAIN sent[Peer(e)]
  /\ IsNext(e, n)
  /\ \/ /\ answers' = [answers EXCEPT ![e] = Append(@, "performed")]
        /\ resets' = [resets EXCEPT ![e] = Increment(@, sent[Peer(e)][n])]
        /\ Notify(e, "incoming", sent[Peer(e)][n])
     \/ /\ answers' = [answers EXCEPT ![e] = Append(@, "failed")]
        /\ UNCHANGED <<resets, heard>>
  /\ UNCHANGED <<association, accepted, deferred, sent, outstanding>>

(* Mutant: any answer is taken for the one that is expected.               *)
IsExpectedAnyway(e, n) == outstanding[e] # 0

IsExpected(e, n) == outstanding[e] = n

(* The answer to the outstanding request arrives.                          *)
HandleAnswer(e, n) ==
  /\ phase[e] = "connected"
  /\ n \in DOMAIN answers[Peer(e)]
  /\ IsExpected(e, n)
  /\ outstanding' = [outstanding EXCEPT ![e] = 0]
  /\ Notify(e, answers[Peer(e)][n], sent[e][n])
  /\ UNCHANGED <<association, accepted, deferred, sent, answers, resets>>

Next ==
  \E e \in Ends :
    \/ Connected(e) \/ End(e)
    \/ \E S \in SUBSET Streams : ResetStreams(e, S)
    \/ SendRequest(e)
    \/ \E n \in 1..MaxRequests : HandleRequest(e, n) \/ HandleAnswer(e, n)

Spec == Init /\ [][Next]_vars

(* Handshakes end; retransmission gets requests and answers through.       *)
Fairness ==
  \A e \in Ends :
    /\ WF_vars(Connected(e))
    /\ WF_vars(SendRequest(e))
    /\ \A n \in 1..MaxRequests :
         WF_vars(HandleRequest(e, n)) /\ WF_vars(HandleAnswer(e, n))

FairSpec == Spec /\ Fairness

-----------------------------------------------------------------------------
Performed(e, s) == heard[e]["OnStreamsResetPerformed"][s]
Failed(e, s)    == heard[e]["OnStreamsResetFailed"][s]

Requested(e, s) == Cardinality({n \in DOMAIN sent[e] : s \in sent[e][n]})
Unanswered(e, s) ==
  IF outstanding[e] # 0 /\ s \in sent[e][outstanding[e]] THEN 1 ELSE 0

(* OnStreamsResetPerformed says that a request of this end's application   *)
(* has been performed: at an end that resets streams it is never called    *)
(* more often for a stream than the peer has reset it.  (An end that       *)
(* resets none is left out: each reset by its peer makes it hear the same  *)
(* callback, as wrapped_objects.cpp has it.)                               *)
PerformedMeansReset ==
  \A e \in Resetters, s \in Streams : Performed(e, s) <= resets[Peer(e)][s]

(* Each request is reported exactly once to the end that made it, as       *)
(* performed or as failed, in spite of repeated requests and answers.      *)
ReportedOnce ==
  \A e \in Resetters, s \in Streams :
    Performed(e, s) + Failed(e, s) + Unanswered(e, s) = Requested(e, s)

(* A resetStreams that returned kNotConnected or kNotSupported has no      *)
(* effect, now or later, at either end: the peer resets only streams for   *)
(* which it returned kPerformed, failures are reported only of such, and   *)
(* so is success, at the end that asked or, as wrapped_objects.cpp has it, *)
(* at its peer.                                                            *)
RefusedHasNoEffect ==
  \A e \in Ends, s \in Streams :
    /\ resets[e][s] > 0 => s \in accepted[Peer(e)]
    /\ Failed(e, s) > 0 => s \in accepted[e]
    /\ Performed(e, s) > 0 => s \in accepted[e] \cup accepted[Peer(e)]

AnyEnded == \E e \in Ends : phase[e] = "ended"

(* An application that was told kPerformed hears of each of the streams,   *)
(* and every request is answered, unless the association ends before.      *)
ResultsArrive ==
  \A e \in Resetters :
    /\ \A s \in Streams :
         s \in accepted[e] ~> Performed(e, s) + Failed(e, s) > 0 \/ AnyEnded
    /\ \A n \in 1..MaxRequests :
         outstanding[e] = n ~> outstanding[e] # n \/ AnyEnded
=============================================================================
