--------------------------- MODULE MessageChannel ---------------------------
(***************************************************************************)
(* What two applications may rely on when one of them sends messages to    *)
(* the other through dcsctp4j.                                             *)
(*                                                                         *)
(* Every message, whether sent alone or in a list, is judged by itself:    *)
(* it is refused, which its status tells, or it stays under way until it   *)
(* is delivered, as it is in `sent`, or lost.  Lost are only               *)
(* messages with a limit and those under way at the end.  Of the ordered   *)
(* messages of a stream none overtakes another.  Messages shows how        *)
(* copies, conversions and dcsctp's verdicts implement this contract.      *)
(***************************************************************************)
EXTENDS Naturals, Sequences

CONSTANTS
  Offers,    \* the messages: stream, contents and options
  Lasting,   \* those without a limit
  Statuses,  \* what send may return
  Success    \* the status of an accepted message

VARIABLES
  open,      \* the association has not come to its end
  sent,      \* the messages sent, in order
  told,      \* told[i]: the status of sent[i]
  underway,  \* the numbers of accepted messages not delivered or lost
  delivered  \* what was delivered, in order

vars == <<open, sent, told, underway, delivered>>

Init ==
  /\ open = TRUE
  /\ sent = <<>> /\ told = <<>> /\ underway = {} /\ delivered = <<>>

(* A message is sent and accepted, or refused.                             *)
Send(message, status) ==
  /\ open
  /\ sent' = Append(sent, message)
  /\ told' = Append(told, status)
  /\ underway' = underway \cup (IF status = Success THEN {Len(sent) + 1} ELSE {})
  /\ UNCHANGED <<open, delivered>>

(* i may not overtake j.                                                   *)
Follows(i, j) ==
  /\ j < i
  /\ sent[i].stream = sent[j].stream
  /\ ~sent[i].options.isUnordered /\ ~sent[j].options.isUnordered

Deliver(i) ==
  /\ open
  /\ \A j \in underway : ~Follows(i, j)
  /\ delivered' = Append(delivered,
       [number |-> i, stream |-> sent[i].stream, payload |-> sent[i].contents])
  /\ underway' = underway \ {i}
  /\ UNCHANGED <<open, sent, told>>

Lose(i) ==
  /\ open
  /\ sent[i] \notin Lasting
  /\ underway' = underway \ {i}
  /\ UNCHANGED <<open, sent, told, delivered>>

(* The association ends; what is under way will not arrive any more.       *)
End ==
  /\ open
  /\ open' = FALSE
  /\ UNCHANGED <<sent, told, underway, delivered>>

Next ==
  \/ \E message \in Offers, status \in Statuses : Send(message, status)
  \/ \E i \in underway : Deliver(i) \/ Lose(i)
  \/ End

Spec == Init /\ [][Next]_vars
=============================================================================
