------------------------------ MODULE Messages ------------------------------
(***************************************************************************)
(* Messages on their way from one application to another.  send() and      *)
(* sendMany() turn Java messages and options into C++ ones and dcsctp's    *)
(* verdicts into Java statuses and OnError callbacks; OnMessageReceived    *)
(* turns what arrives into Java again.  The calls are synchronized: while  *)
(* a call converts its messages, one by one, and dcsctp takes them, one by *)
(* one, nothing else happens to the socket, but another thread of the      *)
(* application may write into the byte arrays, between two conversions as  *)
(* well as later.                                                          *)
(*                                                                         *)
(* External: dcsctp refuses messages, keeps the others until they have     *)
(* arrived, in the order of sending if they are ordered, and may discard   *)
(* those with a limit.  The contents of an array stand for any one byte of *)
(* it, for each is copied at its own moment, and for the ppid.             *)
(***************************************************************************)
EXTENDS Integers, Sequences, FiniteSets

CONSTANTS
  Arrays,       \* the byte arrays of the sending application
  EmptyArrays,  \* those of length 0
  LargeArrays,  \* those longer than DcSctpOptions.max_message_size
  Contents,     \* what may be in an array
  Messages,     \* the messages it sends: arrays, and streams as Java shorts
  Options,      \* the SendOptions it passes to send
  ManyOptions,  \* the SendOptions it passes to sendMany
  Longs,        \* values of a java.lang.Long
  DurationWord, \* how many values a DurationMs has (2^32)
  SizeWord,     \* how many values a size_t has (2^64)
  Capacity,     \* how many messages fill the send buffer
  MaxMessages,  \* how many messages are sent (a bound)
  MaxBatch,     \* how many in a call of sendMany (a bound)
  None

MaxShort  == 32767
MaxUint16 == 65535
Shorts == (-MaxShort - 1)..MaxShort
Uint16 == 0..MaxUint16

ASSUME ArraysAssumption ==
  /\ EmptyArrays \cup LargeArrays \subseteq Arrays
  /\ Arrays \cap Contents = {}
ASSUME MessagesAssumption ==
  Messages \subseteq [stream : Shorts, array : Arrays]
ASSUME BoundsAssumption == {Capacity, MaxMessages, MaxBatch} \subseteq Nat
ASSUME NumbersAssumption ==
  Longs \subseteq Int /\ None \notin Longs /\ {DurationWord, SizeWord} \subseteq Nat \ {0}

VARIABLES
  bytes,     \* bytes[a]: the contents of array a
  state,     \* the SocketState; "over" when closed for good
  call,      \* the call that is converting its messages, or None
  sent,      \* what the application asked for, in order
  batch,     \* C++ messages of the current call that dcsctp has yet to take
  told,      \* told[i]: the SendStatus that the call returns for sent[i]
  errors,    \* the ErrorKinds OnError was called with, in order
  buffer,    \* C++ messages that have not arrived, with their numbers
  received,  \* what the other application got, in order
  discarded, \* the numbers of messages given up
  crashed    \* the process has ended in undefined behaviour

outbound == <<call, sent, batch, told, errors>>
inbound  == <<received, discarded>>
vars == <<bytes, state, outbound, buffer, inbound, crashed>>

SendOptions == [isUnordered : BOOLEAN, lifetime : Longs \cup {None},
                maxRetransmissions : Longs \cup {None}]
ASSUME OptionsAssumption == Options \cup ManyOptions \subseteq SendOptions

SendStatus ==
  {"kSuccess", "kErrorMessageEmpty", "kErrorMessageTooLarge",
   "kErrorResourceExhaustion", "kErrorShuttingDown"}

NativeOptions ==
  [unordered : BOOLEAN, lifetime : SUBSET Int, max_retransmissions : SUBSET Int]
Sizes == {"empty", "fitting", "large"}
NativeMessages == [stream : Uint16, size : Sizes, payload : Contents]

(* C++ messages with the options they are sent with.                       *)
Outgoing == [message : NativeMessages, options : NativeOptions]

(* The messages that may be sent, as they are when they are converted.     *)
Offers ==
  {[stream |-> m.stream, contents |-> c, options |-> o] :
     m \in Messages, c \in Contents, o \in Options \cup ManyOptions}

(* Calls of send, or of sendMany: the Java messages yet to be converted,   *)
(* the options, the vector vmessages, and of what offers it was made.      *)
Calls ==
  [many : BOOLEAN, messages : Seq(Messages), options : Options \cup ManyOptions,
   vmessages : Seq(NativeMessages), offers : Seq(Offers)]

TypeOK ==
  /\ bytes \in [Arrays -> Contents]
  /\ state \in {"kClosed", "kConnecting", "kConnected", "kShuttingDown", "over"}
  /\ call \in Calls \cup {None}
  /\ sent \in Seq(Offers)
  /\ batch \in Seq(Outgoing)
  /\ told \in Seq(SendStatus)
  /\ errors \in Seq({"kProtocolViolation", "kResourceExhaustion", "kWrongSequence"})
  /\ Len(told) + Len(batch) = Len(sent)
  /\ buffer \subseteq
       [number : DOMAIN told, message : NativeMessages, options : NativeOptions]
  /\ received \in Seq([number : DOMAIN told, stream : Shorts, payload : Contents])
  /\ discarded \subseteq DOMAIN told
  /\ crashed \in BOOLEAN

Init ==
  /\ \E c \in Contents : bytes = [a \in Arrays |-> c]
  /\ state = "kClosed"
  /\ call = None /\ sent = <<>> /\ batch = <<>> /\ told = <<>> /\ errors = <<>>
  /\ buffer = {} /\ received = <<>> /\ discarded = {}
  /\ crashed = FALSE

-----------------------------------------------------------------------------
(* Numbers, references and tables.                                         *)

(* Mutant: the bits are not reinterpreted.                                 *)
StreamIDSigned(short) == short

(* A jshort made a uint16_t ...                                            *)
StreamID(short) == short % 65536

(* ... and a uint16_t made a jshort.                                       *)
ToShort(n) == IF n > 32767 THEN n - 65536 ELSE n

(* What a payload is now: a Java array can change, a C++ vector does not.  *)
Read(payload) == IF payload \in Arrays THEN bytes[payload] ELSE payload

(* Mutant: the vector is a view of the Java array.                         *)
ViewOf(array) == array

(* vector<uint8_t>(aPayload.cbegin(), aPayload.cend())                     *)
CopyOf(array) == Read(array)

(* The number of kSuccess in dcsctp's SendStatus.                          *)
kSuccess == 0

(* Mutant: two cases exchanged.                                            *)
FromNativeStatusExchanged ==
  <<"kErrorMessageEmpty", "kSuccess", "kErrorMessageTooLarge",
    "kErrorResourceExhaustion", "kErrorShuttingDown">>

(* SendStatus.fromNativeStatus                                             *)
FromNativeStatus ==
  <<"kSuccess", "kErrorMessageEmpty", "kErrorMessageTooLarge",
    "kErrorResourceExhaustion", "kErrorShuttingDown">>

(* Mutant: the case of kNotConnected forgotten.                            *)
ErrorKindShifted ==
  <<"kNoError", "kTooManyRetries", "kParseFailed", "kWrongSequence",
    "kPeerReported", "kProtocolViolation", "kResourceExhaustion",
    "kUnsupportedOperation", "kNoError">>

(* ErrorKind_members::map                                                  *)
ErrorKind ==
  <<"kNoError", "kTooManyRetries", "kNotConnected", "kParseFailed",
    "kWrongSequence", "kPeerReported", "kProtocolViolation",
    "kResourceExhaustion", "kUnsupportedOperation">>

(* jlong as it is cast to an int32_t (DurationMs), and to a size_t.        *)
ToDuration(long) ==
  LET n == long % DurationWord IN IF 2 * n < DurationWord THEN n ELSE n - DurationWord
ToSize(long) == long % SizeWord

HasNoLimit(o) == o.lifetime = None /\ o.maxRetransmissions = None

Optional(long) == {long} \ {None}

(* Mutants: the flag, or the test for null, is the wrong way round.        *)
OptionsReordered(o) ==
  [unordered |-> ~o.isUnordered,
   lifetime |-> {ToDuration(n) : n \in Optional(o.lifetime)},
   max_retransmissions |-> {ToSize(n) : n \in Optional(o.maxRetransmissions)}]
OptionsInverted(o) ==
  [unordered |-> o.isUnordered,
   lifetime |-> {ToDuration(n) : n \in Optional(o.lifetime)},
   max_retransmissions |->
     IF o.maxRetransmissions = None THEN {ToSize(n) : n \in Longs} ELSE {}]

(* The SendOptions that send_ makes of its arguments.                      *)
OptionsOfSend(o) ==
  [unordered |-> o.isUnordered,
   lifetime |-> {ToDuration(n) : n \in Optional(o.lifetime)},
   max_retransmissions |-> {ToSize(n) : n \in Optional(o.maxRetransmissions)}]

(* longValue of a reference that was deleted with the temporary it         *)
(* belonged to: any number, if the process survives it.                    *)
Stale(long) == IF long = None THEN {None} ELSE Longs

(* convertSendOptions keeps the references `lifetime` and                  *)
(* `maxRetransmissions`, not the objects that own them.                    *)
ConvertSendOptions(o) ==
  {OptionsOfSend(p) :
     p \in [isUnordered : {o.isUnordered}, lifetime : Stale(o.lifetime),
            maxRetransmissions : Stale(o.maxRetransmissions)]}

-----------------------------------------------------------------------------
(* The sending application.                                                *)

(* It writes something else into an array that it may have sent (the       *)
(* contents of arrays that are never accepted do not matter).              *)
Overwrite(a, c) ==
  /\ a \notin EmptyArrays \cup LargeArrays
  /\ bytes' = [bytes EXCEPT ![a] = c]
  /\ UNCHANGED <<state, outbound, buffer, inbound, crashed>>

SizeOf(array) ==
  CASE array \in EmptyArrays -> "empty"
    [] array \in LargeArrays \ EmptyArrays -> "large"
    [] OTHER -> "fitting"

(* A call begins.                                                          *)
Begin(many, messages, o) ==
  /\ state # "over"
  /\ Len(sent) + Len(messages) <= MaxMessages
  /\ call' = [many |-> many, messages |-> messages, options |-> o,
              vmessages |-> <<>>, offers |-> <<>>]
  /\ UNCHANGED <<bytes, state, sent, batch, told, errors, buffer, inbound, crashed>>

(* send(message, options)                                                  *)
Send(message, o) == Begin(FALSE, <<message>>, o)

(* sendMany(messages, options)                                             *)
SendMany(messages, o) == Begin(TRUE, messages, o)

(* What the application sends with message, as its array is now.           *)
Offer(message, o) ==
  [stream |-> message.stream, contents |-> bytes[message.array], options |-> o]

(* DcSctpMessage(StreamID(streamID), PPID(ppid), vPayload)                 *)
ConvertDcSctpMessage(message) ==
  [stream |-> StreamID(message.stream), size |-> SizeOf(message.array),
   payload |-> CopyOf(message.array)]

(* Mutant: the message is inserted before those converted so far.          *)
ConvertReversed ==
  /\ call # None /\ call.messages # <<>>
  /\ LET message == Head(call.messages) IN
       call' = [call EXCEPT
         !.messages  = Tail(call.messages),
         !.vmessages = <<ConvertDcSctpMessage(message)>> \o call.vmessages,
         !.offers    = Append(call.offers, Offer(message, call.options))]
  /\ UNCHANGED <<bytes, state, sent, batch, told, errors, buffer, inbound, crashed>>

(* The next message of the call becomes a C++ message.                     *)
Convert ==
  /\ call # None /\ call.messages # <<>>
  /\ LET message == Head(call.messages) IN
       call' = [call EXCEPT
         !.messages  = Tail(call.messages),
         !.vmessages = Append(call.vmessages, ConvertDcSctpMessage(message)),
         !.offers    = Append(call.offers, Offer(message, call.options))]
  /\ UNCHANGED <<bytes, state, sent, batch, told, errors, buffer, inbound, crashed>>

(* All are converted, the options are next; then dcsctp's Send or SendMany *)
(* is called.  A call of longValue on a deleted reference may crash.       *)
Submit ==
  /\ call # None /\ call.messages = <<>>
  /\ crashed' \in {FALSE, call.many /\ ~HasNoLimit(call.options)}
  /\ IF crashed'
     THEN UNCHANGED <<call, sent, batch>>
     ELSE \E options \in (IF call.many THEN ConvertSendOptions(call.options)
                          ELSE {OptionsOfSend(call.options)}) :
            /\ call' = None
            /\ sent' = sent \o call.offers
            /\ batch' = [i \in DOMAIN call.vmessages |->
                           [message |-> call.vmessages[i], options |-> options]]
  /\ UNCHANGED <<bytes, state, told, errors, buffer, inbound>>

(* dcsctp's verdict on a message (external).                               *)
Verdict(m) ==
  CASE m.message.size = "empty" -> 1
    [] m.message.size = "large" -> 2
    [] m.message.size = "fitting" /\ state = "kShuttingDown" -> 4
    [] OTHER -> IF Cardinality(buffer) >= Capacity THEN 3 ELSE kSuccess

(* The number of the ErrorKind that goes with it (external).               *)
ErrorOf(verdict) == <<6, 6, 7, 4>>[verdict]

(* Of the current call, dcsctp takes the next message or refuses it, and   *)
(* calls OnError; the call returns its verdict as a status.                *)
Take ==
  /\ batch # <<>>
  /\ batch' = Tail(batch)
  /\ LET verdict == Verdict(Head(batch)) IN
     /\ told' = Append(told, FromNativeStatus[verdict + 1])
     /\ IF verdict = kSuccess
        THEN /\ buffer' = buffer \cup
                  {[number |-> Len(told) + 1, message |-> Head(batch).message,
                    options |-> Head(batch).options]}
             /\ UNCHANGED errors
        ELSE /\ errors' = Append(errors, ErrorKind[ErrorOf(verdict) + 1])
             /\ UNCHANGED buffer
  /\ UNCHANGED <<bytes, state, call, sent, inbound, crashed>>

-----------------------------------------------------------------------------
(* The association (dcsctp's part is external).                            *)

MoveTo(s) ==
  /\ state' = s
  /\ UNCHANGED <<bytes, outbound, buffer, inbound, crashed>>

(* connect()                                                               *)
Connect == state = "kClosed" /\ MoveTo("kConnecting")

(* The handshake has succeeded: OnConnected.                               *)
Established == state = "kConnecting" /\ MoveTo("kConnected")

(* shutdown(): at once if there is no association.                         *)
Shutdown ==
  \/ state = "kConnected" /\ MoveTo("kShuttingDown")
  \/ state \in {"kClosed", "kConnecting"} /\ MoveTo("over")

(* Everything buffered has been sent: OnClosed.                            *)
ShutdownComplete == state = "kShuttingDown" /\ buffer = {} /\ MoveTo("over")

(* close(), or the association is lost: OnAborted.                         *)
Close == state \in {"kConnecting", "kConnected", "kShuttingDown"} /\ MoveTo("over")

Ordered(m) == ~m.options.unordered
Limits(m)  == m.options.lifetime \cup m.options.max_retransmissions

(* m arrives in full and its turn has come: OnMessageReceived.             *)
Deliver(m) ==
  /\ state \in {"kConnected", "kShuttingDown"}
  /\ Ordered(m) =>
       \A b \in buffer : b.number < m.number =>
         ~(Ordered(b) /\ b.message.stream = m.message.stream)
  /\ received' = Append(received,
       [number |-> m.number, stream |-> ToShort(m.message.stream),
        payload |-> Read(m.message.payload)])
  /\ buffer' = buffer \ {m}
  /\ UNCHANGED <<bytes, state, outbound, discarded, crashed>>

(* The lifetime of m has run out, or its retransmissions have.             *)
Discard(m) ==
  /\ state \in {"kConnected", "kShuttingDown"}
  /\ Limits(m) # {}
  /\ discarded' = discarded \cup {m.number}
  /\ buffer' = buffer \ {m}
  /\ UNCHANGED <<bytes, state, outbound, received, crashed>>

(* What happens to the socket when no call is in progress.                 *)
Idle == call = None /\ batch = <<>>
SocketStep ==
  \/ \E m \in Messages, o \in Options : Send(m, o)
  \/ \E n \in 0..MaxBatch : \E ms \in [1..n -> Messages], o \in ManyOptions :
       SendMany(ms, o)
  \/ Connect \/ Established \/ Shutdown \/ ShutdownComplete \/ Close
  \/ \E m \in buffer : Deliver(m) \/ Discard(m)

Next ==
  /\ ~crashed
  /\ \/ \E a \in Arrays, c \in Contents : Overwrite(a, c)
     \/ Convert \/ Submit \/ Take
     \/ Idle /\ SocketStep

Spec == Init /\ [][Next]_vars

(* Calls come to their end, so does the handshake, and retransmission gets *)
(* messages through: what arrives gets the monitor of the socket some time *)
(* between the application's calls.                                        *)
FairSpec ==
  /\ Spec
  /\ WF_vars(~crashed /\ (Convert \/ Submit \/ Take))
  /\ SF_vars(~crashed /\ Idle /\ Established)
  /\ SF_vars(~crashed /\ Idle /\ \E m \in buffer : Deliver(m))

-----------------------------------------------------------------------------
Buffered  == {m.number : m \in buffer}
Delivered == {received[k].number : k \in DOMAIN received}
Accepted  == {i \in DOMAIN told : told[i] = "kSuccess"}
Refused   == DOMAIN told \ Accepted
Unlimited(i) == HasNoLimit(sent[i].options)

(* kSuccess means "the message was enqueued successfully", any other       *)
(* status that it was not; of sendMany each at its place in the list.  A   *)
(* message has one fate: it is buffered, given up, or delivered, once.     *)
StatusTellsFate ==
  /\ Accepted = Buffered \cup Delivered \cup discarded
  /\ Buffered \cap Delivered = {} /\ Buffered \cap discarded = {}
  /\ Delivered \cap discarded = {}
  /\ \A k, l \in DOMAIN received : received[k].number = received[l].number => k = l

Because == [kErrorMessageEmpty |-> "kProtocolViolation",
            kErrorMessageTooLarge |-> "kProtocolViolation",
            kErrorResourceExhaustion |-> "kResourceExhaustion",
            kErrorShuttingDown |-> "kWrongSequence"]

(* OnError tells, in order, why messages were refused, once each, and      *)
(* agrees with the statuses that send and sendMany return.                 *)
ErrorsMatchStatuses ==
  \E refusal \in [DOMAIN errors -> Refused] :
    /\ \A k, l \in DOMAIN errors : k < l => refusal[k] < refusal[l]
    /\ \A i \in Refused : \E k \in DOMAIN errors : refusal[k] = i
    /\ \A k \in DOMAIN errors : errors[k] = Because[told[refusal[k]]]

(* What arrives is what was in the array when the call converted it, on    *)
(* the stream it was sent on, whatever the sender has written since: into  *)
(* arrays it sent, or will send once more, or has in the same batch.       *)
DeliveredAsSent ==
  \A k \in DOMAIN received :
    LET original == sent[received[k].number] IN
    /\ received[k].stream = original.stream
    /\ received[k].payload = original.contents

(* An ordered message that may not be discarded arrives before the ordered *)
(* messages sent after it on its stream, by send or by sendMany.           *)
OrderedInOrder ==
  \A k \in DOMAIN received :
    LET i == received[k].number IN
    \A j \in 1..(i - 1) :
      /\ j \in Accepted /\ Unlimited(j)
      /\ ~sent[i].options.isUnordered /\ ~sent[j].options.isUnordered
      /\ sent[i].stream = sent[j].stream
      => \E l \in 1..(k - 1) : received[l].number = j

(* A message accepted without a limit arrives unless the association ends. *)
UnlimitedArrive ==
  \A i \in 1..MaxMessages :
    i \in Accepted /\ Unlimited(i) /\ state \in {"kConnecting", "kConnected", "kShuttingDown"}
      ~> i \in Delivered \/ state = "over"

(* dcsctp gets the options that the application gave; sendMany "has        *)
(* identical semantics to Send".                                           *)
OptionsAsGiven ==
  /\ ~crashed
  /\ \A m \in buffer : m.options = OptionsOfSend(sent[m.number].options)

-----------------------------------------------------------------------------
(* In the channel a message is sent when dcsctp takes it.                  *)
Channel == INSTANCE MessageChannel WITH
  Offers    <- Offers,
  Lasting   <- {offer \in Offers : HasNoLimit(offer.options)},
  Statuses  <- SendStatus,
  Success   <- "kSuccess",
  open      <- state # "over",
  sent      <- SubSeq(sent, 1, Len(told)),
  told      <- told,
  underway  <- Buffered,
  delivered <- received

(* The binding keeps the contract: sendMany is one send after another, of  *)
(* what was in each array when the call came to convert it.  A write from  *)
(* another thread may come between two conversions, and then one message   *)
(* of the batch is older than the next; no later write is seen, nor any    *)
(* conversion.                                                             *)
ImplementsChannel == Channel!Spec
=============================================================================
