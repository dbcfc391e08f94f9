--------------------------- MODULE MessagesProofs ---------------------------
EXTENDS Messages, TLAPS, SequenceTheorems

(* Of the options o, dcsctp is told at least the order and the absence of  *)
(* limits.                                                                 *)
Kept(o, options) ==
  /\ options.unordered = o.isUnordered
  /\ o.lifetime = None => options.lifetime = {}
  /\ o.maxRetransmissions = None => options.max_retransmissions = {}

(* A C++ message, and one with its options, made of what was offered.      *)
Resembles(message, offer) ==
  message.stream = StreamID(offer.stream) /\ message.payload = offer.contents
Faithful(m, offer) ==
  Resembles(m.message, offer) /\ Kept(offer.options, m.options)

(* While a call converts its messages dcsctp has none left to take.        *)
CallIsFaithful ==
  call # None =>
    /\ batch = <<>>
    /\ Len(call.vmessages) = Len(call.offers)
    /\ \A k \in DOMAIN call.offers :
         /\ Resembles(call.vmessages[k], call.offers[k])
         /\ call.offers[k].options = call.options
BatchIsFaithful  ==
  \A k \in DOMAIN batch : Faithful(batch[k], sent[Len(told) + k])
BufferIsFaithful == \A m \in buffer : Faithful(m, sent[m.number])

NumbersAreUnique == \A m, b \in buffer : m.number = b.number => m = b

GivenUpHadLimits == \A i \in discarded : ~Unlimited(i)

CallsKeepOpen == ~Idle => state # "over"

MessagesInv ==
  /\ TypeOK
  /\ BatchIsFaithful
  /\ CallIsFaithful
  /\ BufferIsFaithful
  /\ NumbersAreUnique
  /\ GivenUpHadLimits
  /\ StatusTellsFate
  /\ DeliveredAsSent
  /\ OrderedInOrder
  /\ ErrorsMatchStatuses
  /\ CallsKeepOpen

-----------------------------------------------------------------------------
(* Lemmas about conversions.                                               *)

LEMMA OffersLemma ==
  /\ Offers \subseteq [stream : Shorts, contents : Contents, options : SendOptions]
  /\ \A m \in Messages, c \in Contents, o \in Options \cup ManyOptions :
       [stream |-> m.stream, contents |-> c, options |-> o] \in Offers
BY MessagesAssumption, OptionsAssumption DEF Offers

(* What is in an interval.                                                 *)
LEMMA IntervalLemma ==
  ASSUME NEW low \in Int, NEW high \in Int, NEW n
  PROVE  n \in low .. high <=> n \in Int /\ low <= n /\ n <= high
OBVIOUS

(* The remainder of a small number, also of a negative one.                *)
LEMMA ModLemma ==
  ASSUME NEW size \in Nat \ {0}, NEW n \in Int, -size <= n, n < size
  PROVE  n % size = IF n >= 0 THEN n ELSE n + size
<1>1. n >= 0 => n % size = n
  OBVIOUS
<1>2. n < 0 => n % size = n + size
  OBVIOUS
<1> QED
  BY <1>1, <1>2

(* A stream's number is another one in C++ and the same again in Java.     *)
LEMMA StreamLemma ==
  ASSUME NEW short \in Shorts
  PROVE  StreamID(short) \in Uint16 /\ ToShort(StreamID(short)) = short
<1>1. MaxShort = 32767 /\ MaxUint16 = 65535
  BY DEF MaxShort, MaxUint16
<1>2. short \in Int /\ -32768 <= short /\ short <= 32767
  <2>1. MaxShort \in Int /\ -MaxShort - 1 \in Int
    BY <1>1
  <2>2. short \in Int /\ -MaxShort - 1 <= short /\ short <= MaxShort
    BY <2>1, IntervalLemma DEF Shorts
  <2> QED
    BY <1>1, <2>2
<1>3. StreamID(short) = IF short >= 0 THEN short ELSE short + 65536
  BY <1>2, ModLemma DEF StreamID
<1>4. /\ StreamID(short) \in Int
      /\ 0 <= StreamID(short) /\ StreamID(short) <= 65535
  BY <1>2, <1>3
<1>5. StreamID(short) \in Uint16
  <2>1. MaxUint16 \in Int /\ StreamID(short) <= MaxUint16
    BY <1>1, <1>4
  <2> QED
    BY <1>4, <2>1, IntervalLemma DEF Uint16
<1> QED
  BY <1>2, <1>3, <1>5 DEF ToShort

LEMMA SendOptionsLemma ==
  ASSUME NEW o \in SendOptions
  PROVE  OptionsOfSend(o) \in NativeOptions /\ Kept(o, OptionsOfSend(o))
<1>1. \A n \in Longs : ToDuration(n) \in Int /\ ToSize(n) \in Int
  <2> SUFFICES ASSUME NEW n \in Int, NEW size \in Nat \ {0}
               PROVE  n % size \in Int
    BY NumbersAssumption DEF ToDuration, ToSize
  <2> QED
    OBVIOUS
<1>2. \A long \in Longs \cup {None} :
        /\ {ToDuration(n) : n \in Optional(long)} \in SUBSET Int
        /\ {ToSize(n) : n \in Optional(long)} \in SUBSET Int
        /\ long = None => Optional(long) = {}
  BY <1>1 DEF Optional
<1> HIDE DEF ToDuration, ToSize
<1> QED
  BY <1>2 DEF SendOptions, OptionsOfSend, NativeOptions, Kept

LEMMA ManyOptionsLemma ==
  ASSUME NEW o \in SendOptions, NEW options \in ConvertSendOptions(o)
  PROVE  options \in NativeOptions /\ Kept(o, options)
<1>1. PICK p \in [isUnordered : {o.isUnordered}, lifetime : Stale(o.lifetime),
                  maxRetransmissions : Stale(o.maxRetransmissions)] :
        options = OptionsOfSend(p)
  BY DEF ConvertSendOptions
<1>2. \A long \in Longs \cup {None} :
        /\ Stale(long) \subseteq Longs \cup {None}
        /\ long = None => Stale(long) = {None}
  BY DEF Stale
<1>3. o.lifetime \in Longs \cup {None} /\ o.maxRetransmissions \in Longs \cup {None}
  BY DEF SendOptions
<1>4. /\ p \in SendOptions /\ p.isUnordered = o.isUnordered
      /\ o.lifetime = None => p.lifetime = None
      /\ o.maxRetransmissions = None => p.maxRetransmissions = None
  BY <1>2, <1>3 DEF SendOptions
<1>5. options \in NativeOptions /\ Kept(p, options)
  BY <1>1, <1>4, SendOptionsLemma
<1> QED
  BY <1>4, <1>5 DEF Kept

LEMMA ConvertLemma ==
  ASSUME TypeOK, NEW m \in Messages, NEW o \in Options \cup ManyOptions
  PROVE  /\ ConvertDcSctpMessage(m) \in NativeMessages
         /\ Offer(m, o) \in Offers /\ Offer(m, o).options = o
         /\ Resembles(ConvertDcSctpMessage(m), Offer(m, o))
<1>1. m.stream \in Shorts /\ m.array \in Arrays
  BY MessagesAssumption
<1>2. CopyOf(m.array) = bytes[m.array] /\ bytes[m.array] \in Contents
  BY <1>1 DEF TypeOK, CopyOf, Read
<1>3. SizeOf(m.array) \in Sizes
  BY DEF SizeOf, Sizes
<1>4. StreamID(m.stream) \in Uint16
  BY <1>1, StreamLemma
<1>5. Offer(m, o) \in Offers
  BY <1>2, OffersLemma DEF Offer
<1> QED
  BY <1>2, <1>3, <1>4, <1>5 DEF ConvertDcSctpMessage, NativeMessages, Offer, Resembles

(* A status tells whether dcsctp accepts a message, and OnError says why   *)
(* not.                                                                    *)
LEMMA VerdictLemma ==
  ASSUME NEW m \in Outgoing
  PROVE  LET verdict == Verdict(m)
             status  == FromNativeStatus[verdict + 1]
         IN /\ status \in SendStatus
            /\ verdict = kSuccess <=> status = "kSuccess"
            /\ verdict # kSuccess =>
                 /\ ErrorKind[ErrorOf(verdict) + 1] = Because[status]
                 /\ Because[status] \in
                      {"kProtocolViolation", "kResourceExhaustion", "kWrongSequence"}
<1>1. Verdict(m) \in {0, 1, 2, 3, 4}
  <2>1. m.message.size \in {"empty", "large", "fitting"}
    BY DEF Outgoing, NativeMessages, Sizes
  <2> QED
    BY <2>1 DEF Verdict, kSuccess
<1>2. \A v \in {0, 1, 2, 3, 4} :
        /\ FromNativeStatus[v + 1] \in SendStatus
        /\ v = 0 <=> FromNativeStatus[v + 1] = "kSuccess"
  BY DEF FromNativeStatus, SendStatus
<1>3. \A v \in {1, 2, 3, 4} :
        /\ ErrorKind[ErrorOf(v) + 1] = Because[FromNativeStatus[v + 1]]
        /\ ErrorKind[ErrorOf(v) + 1] \in
             {"kProtocolViolation", "kResourceExhaustion", "kWrongSequence"}
  BY DEF FromNativeStatus, ErrorKind, ErrorOf, Because
<1> QED
  BY <1>1, <1>2, <1>3 DEF kSuccess

-----------------------------------------------------------------------------
(* Every step preserves the invariant.                                     *)

(* The numbers of the messages that dcsctp has accepted.                   *)
LEMMA JudgedLemma ==
  ASSUME TypeOK
  PROVE  /\ discarded \subseteq DOMAIN told
         /\ \A m \in buffer : m.number \in DOMAIN told
         /\ \A k \in DOMAIN received : received[k].number \in DOMAIN told
<1>1. discarded \subseteq DOMAIN told
  BY DEF TypeOK
<1>2. \A m \in buffer : m.number \in DOMAIN told
  BY DEF TypeOK
<1>3. ASSUME NEW k \in DOMAIN received PROVE received[k].number \in DOMAIN told
  <2> DEFINE Records == [number : DOMAIN told, stream : Shorts, payload : Contents]
  <2>1. received \in Seq(Records)
    BY DEF TypeOK
  <2>2. received[k] \in Records
    <3> HIDE DEF Records
    <3> QED
      BY <2>1
  <2> QED
    BY <2>2
<1> QED
  BY <1>1, <1>2, <1>3

(* What is true of the messages that dcsctp has judged stays true while    *)
(* their fates do, whatever the application submits.                       *)
JudgedInv ==
  /\ BufferIsFaithful
  /\ NumbersAreUnique
  /\ GivenUpHadLimits
  /\ StatusTellsFate
  /\ DeliveredAsSent
  /\ OrderedInOrder
  /\ ErrorsMatchStatuses

LEMMA JudgedStay ==
  ASSUME TypeOK, JudgedInv, UNCHANGED <<told, errors, buffer, inbound>>,
         \A i \in DOMAIN told : sent'[i] = sent[i]
  PROVE  JudgedInv'
<1>1. UNCHANGED <<told, errors, buffer, received, discarded>>
  BY DEF inbound
<1>2. UNCHANGED <<Buffered, Delivered, Accepted, Refused>>
  BY <1>1 DEF Buffered, Delivered, Accepted, Refused
<1>3. \A i \in DOMAIN told : Unlimited(i)' = Unlimited(i)
  BY DEF Unlimited, HasNoLimit
<1>4. /\ discarded \subseteq DOMAIN told
      /\ \A m \in buffer : m.number \in DOMAIN told
      /\ \A k \in DOMAIN received : received[k].number \in DOMAIN told
  BY JudgedLemma
<1>5. BufferIsFaithful'
  BY <1>1, <1>4 DEF JudgedInv, BufferIsFaithful
<1>6. NumbersAreUnique'
  BY <1>1 DEF JudgedInv, NumbersAreUnique
<1>7. GivenUpHadLimits'
  BY <1>1, <1>3, <1>4 DEF JudgedInv, GivenUpHadLimits
<1>8. StatusTellsFate'
  BY <1>1, <1>2 DEF JudgedInv, StatusTellsFate
<1>9. DeliveredAsSent'
  BY <1>1, <1>4 DEF JudgedInv, DeliveredAsSent
<1>10. OrderedInOrder'
  <2> SUFFICES ASSUME NEW k \in DOMAIN received, NEW i, i = received[k].number,
                      NEW j \in 1 .. (i - 1),
                      j \in Accepted, Unlimited(j)',
                      ~sent'[i].options.isUnordered, ~sent'[j].options.isUnordered,
                      sent'[i].stream = sent'[j].stream
               PROVE  \E l \in 1 .. (k - 1) : received[l].number = j
    BY <1>1, <1>2 DEF OrderedInOrder
  <2>1. i \in DOMAIN told /\ j \in DOMAIN told
    BY <1>4 DEF Accepted
  <2>2. /\ Unlimited(j)
        /\ ~sent[i].options.isUnordered /\ ~sent[j].options.isUnordered
        /\ sent[i].stream = sent[j].stream
    BY <1>3, <2>1
  <2> QED
    BY <2>2 DEF JudgedInv, OrderedInOrder
<1>11. ErrorsMatchStatuses'
  BY <1>1, <1>2 DEF JudgedInv, ErrorsMatchStatuses
<1> QED
  BY <1>5, <1>6, <1>7, <1>8, <1>9, <1>10, <1>11 DEF JudgedInv

(* An array is overwritten.                                                *)
LEMMA OverwriteInv ==
  ASSUME MessagesInv, NEW a \in Arrays, NEW c \in Contents, Overwrite(a, c)
  PROVE  MessagesInv'
<1>1. /\ bytes' = [bytes EXCEPT ![a] = c]
      /\ UNCHANGED <<state, call, sent, batch, told, errors, buffer, inbound, crashed>>
      /\ UNCHANGED <<received, discarded>>
  BY DEF Overwrite, outbound, inbound
<1>2. TypeOK'
  BY <1>1 DEF MessagesInv, TypeOK
<1>3. JudgedInv'
  BY <1>1, JudgedStay DEF MessagesInv, JudgedInv
<1>4. BatchIsFaithful' /\ CallIsFaithful' /\ CallsKeepOpen'
  BY <1>1 DEF MessagesInv, BatchIsFaithful, CallIsFaithful, CallsKeepOpen, Idle
<1> QED
  BY <1>2, <1>3, <1>4 DEF MessagesInv, JudgedInv

(* A call begins.                                                          *)
LEMMA BeginInv ==
  ASSUME MessagesInv, Idle, NEW many \in BOOLEAN, NEW ms \in Seq(Messages),
         NEW o \in Options \cup ManyOptions, Begin(many, ms, o)
  PROVE  MessagesInv'
<1>1. /\ state # "over"
      /\ call' = [many |-> many, messages |-> ms, options |-> o,
                  vmessages |-> <<>>, offers |-> <<>>]
      /\ UNCHANGED <<bytes, state, sent, batch, told, errors, buffer, inbound, crashed>>
      /\ UNCHANGED <<received, discarded>>
  BY DEF Begin, inbound
<1>2. call' \in Calls
  <2>1. \A S : <<>> \in Seq(S)
    OBVIOUS
  <2> QED
    BY <1>1, <2>1 DEF Calls
<1>3. TypeOK'
  BY <1>1, <1>2 DEF MessagesInv, TypeOK
<1>4. JudgedInv'
  BY <1>1, JudgedStay DEF MessagesInv, JudgedInv
<1>5. BatchIsFaithful' /\ CallsKeepOpen'
  BY <1>1 DEF MessagesInv, BatchIsFaithful, CallsKeepOpen
<1>6. CallIsFaithful'
  <2>1. call'.vmessages = <<>> /\ call'.offers = <<>> /\ batch' = <<>>
    BY <1>1 DEF Idle
  <2> QED
    BY <2>1 DEF CallIsFaithful
<1> QED
  BY <1>3, <1>4, <1>5, <1>6 DEF MessagesInv, JudgedInv

(* The call that is in progress.                                           *)
LEMMA CallLemma ==
  ASSUME TypeOK, call # None
  PROVE  /\ call \in Calls
         /\ call.many \in BOOLEAN
         /\ call.messages \in Seq(Messages)
         /\ call.options \in Options \cup ManyOptions
         /\ call.vmessages \in Seq(NativeMessages)
         /\ call.offers \in Seq(Offers)
<1>1. call \in Calls
  BY DEF TypeOK
<1> QED
  BY <1>1 DEF Calls

(* The next message of the call is converted.                              *)
LEMMA ConvertInv ==
  ASSUME MessagesInv, Convert
  PROVE  MessagesInv'
<1> DEFINE m == Head(call.messages)
           v == ConvertDcSctpMessage(m)
           f == Offer(m, call.options)
           n == Len(call.offers)
<1>1. /\ call # None /\ call.messages # <<>>
      /\ call' = [call EXCEPT !.messages  = Tail(call.messages),
                              !.vmessages = Append(call.vmessages, v),
                              !.offers    = Append(call.offers, f)]
      /\ UNCHANGED <<bytes, state, sent, batch, told, errors, buffer, inbound, crashed>>
      /\ UNCHANGED <<received, discarded>>
  BY DEF Convert, inbound
<1>2. /\ call \in Calls
      /\ call.messages \in Seq(Messages)
      /\ call.options \in Options \cup ManyOptions
      /\ call.vmessages \in Seq(NativeMessages)
      /\ call.offers \in Seq(Offers)
  BY <1>1, CallLemma DEF MessagesInv
<1>3. m \in Messages /\ Tail(call.messages) \in Seq(Messages)
  BY <1>1, <1>2
<1>4. /\ v \in NativeMessages /\ f \in Offers
      /\ f.options = call.options /\ Resembles(v, f)
  BY <1>2, <1>3, ConvertLemma DEF MessagesInv
<1>5. /\ batch = <<>>
      /\ Len(call.vmessages) = n
      /\ \A k \in DOMAIN call.offers :
           /\ Resembles(call.vmessages[k], call.offers[k])
           /\ call.offers[k].options = call.options
  BY <1>1 DEF MessagesInv, CallIsFaithful
<1> HIDE DEF m, v, f
<1>6. /\ Append(call.vmessages, v) \in Seq(NativeMessages)
      /\ Append(call.offers, f) \in Seq(Offers)
  BY <1>2, <1>4
<1>7. /\ call' \in Calls
      /\ call'.options = call.options
      /\ call'.vmessages = Append(call.vmessages, v)
      /\ call'.offers = Append(call.offers, f)
  BY <1>1, <1>2, <1>3, <1>6 DEF Calls
<1>8. TypeOK'
  BY <1>1, <1>7 DEF MessagesInv, TypeOK
<1>9. JudgedInv'
  BY <1>1, JudgedStay DEF MessagesInv, JudgedInv
<1>10. BatchIsFaithful' /\ CallsKeepOpen'
  BY <1>1 DEF MessagesInv, BatchIsFaithful, CallsKeepOpen, Idle
<1>11. CallIsFaithful'
  <2>1. /\ Len(call'.vmessages) = n + 1 /\ Len(call'.offers) = n + 1
        /\ n \in Nat /\ DOMAIN call'.offers = 1 .. n + 1 /\ DOMAIN call.offers = 1 .. n
    BY <1>2, <1>4, <1>5, <1>7
  <2>2. /\ call'.vmessages[n + 1] = v /\ call'.offers[n + 1] = f
        /\ \A k \in 1 .. n : /\ call'.vmessages[k] = call.vmessages[k]
                             /\ call'.offers[k] = call.offers[k]
    BY <1>2, <1>4, <1>5, <1>7
  <2>3. ASSUME NEW k \in DOMAIN call'.offers
        PROVE  /\ Resembles(call'.vmessages[k], call'.offers[k])
               /\ call'.offers[k].options = call'.options
    <3>1. CASE k = n + 1
      BY <1>4, <1>7, <2>2, <3>1
    <3>2. CASE k # n + 1
      <4>1. k \in 1 .. n
        BY <2>1, <3>2
      <4> QED
        BY <1>5, <1>7, <2>1, <2>2, <4>1
    <3> QED
      BY <3>1, <3>2
  <2> QED
    BY <1>1, <1>5, <2>1, <2>3 DEF CallIsFaithful
<1> QED
  BY <1>8, <1>9, <1>10, <1>11 DEF MessagesInv, JudgedInv

(* All are converted, and dcsctp may take them.                            *)
LEMMA SubmitInv ==
  ASSUME MessagesInv, Submit
  PROVE  MessagesInv'
<1> DEFINE offers == call.offers
           n == Len(offers)
           m(options, k) == [message |-> call.vmessages[k], options |-> options]
<1>1. /\ call # None
      /\ crashed' \in BOOLEAN
      /\ UNCHANGED <<bytes, state, told, errors, buffer, inbound, received, discarded>>
  BY DEF Submit, inbound
<1>2. CASE UNCHANGED <<call, sent, batch>>
  <2>1. TypeOK'
    BY <1>1, <1>2 DEF MessagesInv, TypeOK
  <2>2. JudgedInv'
    BY <1>1, <1>2, JudgedStay DEF MessagesInv, JudgedInv
  <2>3. BatchIsFaithful' /\ CallIsFaithful' /\ CallsKeepOpen'
    BY <1>1, <1>2 DEF MessagesInv, BatchIsFaithful, CallIsFaithful, CallsKeepOpen, Idle
  <2> QED
    BY <2>1, <2>2, <2>3 DEF MessagesInv, JudgedInv
<1>3. ASSUME NEW options,
             \/ call.many /\ options \in ConvertSendOptions(call.options)
             \/ options = OptionsOfSend(call.options),
             call' = None, sent' = sent \o offers,
             batch' = [k \in DOMAIN call.vmessages |-> m(options, k)]
      PROVE  MessagesInv'
  <2>1. /\ call.options \in SendOptions
        /\ call.vmessages \in Seq(NativeMessages) /\ offers \in Seq(Offers)
    BY <1>1, CallLemma, OptionsAssumption DEF MessagesInv
  <2>2. options \in NativeOptions /\ Kept(call.options, options)
    BY <1>3, <2>1, SendOptionsLemma, ManyOptionsLemma
  <2>3. /\ batch = <<>>
        /\ Len(call.vmessages) = n
        /\ \A k \in DOMAIN offers : /\ Resembles(call.vmessages[k], offers[k])
                                   /\ offers[k].options = call.options
    BY <1>1 DEF MessagesInv, CallIsFaithful
  <2>4. n \in Nat /\ DOMAIN offers = 1 .. n /\ DOMAIN call.vmessages = 1 .. n
    BY <2>1, <2>3
  <2>5. \A k \in 1 .. n : m(options, k) \in Outgoing /\ Faithful(m(options, k), offers[k])
    BY <2>1, <2>2, <2>3, <2>4 DEF Outgoing, Faithful
  <2>6. /\ batch' \in Seq(Outgoing) /\ Len(batch') = n /\ DOMAIN batch' = 1 .. n
        /\ \A k \in 1 .. n : Faithful(batch'[k], offers[k])
    <3>1. batch' = [k \in 1 .. n |-> m(options, k)]
      BY <1>3, <2>4
    <3>2. \A k \in 1 .. n : batch'[k] = m(options, k)
      BY <3>1
    <3> HIDE DEF m
    <3>3. batch' \in [1 .. n -> Outgoing]
      BY <2>5, <3>1
    <3> QED
      BY <2>4, <2>5, <3>2, <3>3
  <2>7. /\ Len(told) = Len(sent) /\ sent \in Seq(Offers) /\ told \in Seq(SendStatus)
        /\ Len(told) \in Nat
    BY <2>3 DEF MessagesInv, TypeOK
  <2> HIDE DEF offers, m, n
  <2>8. /\ sent' \in Seq(Offers)
        /\ Len(sent') = Len(sent) + n
        /\ \A i \in 1 .. Len(sent) : sent'[i] = sent[i]
        /\ \A i \in 1 .. n : sent'[Len(sent) + i] = offers[i]
    <3>1. sent \o offers \in Seq(Offers) /\ Len(sent \o offers) = Len(sent) + n
      BY <2>1, <2>7, ConcatProperties DEF n
    <3>2. \A i \in 1 .. Len(sent) + n :
            (sent \o offers)[i] = IF i <= Len(sent) THEN sent[i] ELSE offers[i - Len(sent)]
      BY <2>1, <2>7, ConcatProperties DEF n
    <3> QED
      BY <1>3, <2>4, <2>7, <3>1, <3>2
  <2>9. TypeOK'
    <3>1. Len(told') + Len(batch') = Len(sent')
      BY <1>1, <2>6, <2>7, <2>8
    <3>2. call' \in Calls \cup {None}
      BY <1>3
    <3> QED
      BY <1>1, <2>6, <2>8, <3>1, <3>2 DEF MessagesInv, TypeOK
  <2>10. JudgedInv'
    <3>1. DOMAIN told = 1 .. Len(sent)
      BY <2>7
    <3> QED
      BY <1>1, <2>8, <3>1, JudgedStay DEF MessagesInv, JudgedInv
  <2>11. BatchIsFaithful'
    <3> SUFFICES ASSUME NEW k \in DOMAIN batch'
                 PROVE  Faithful(batch'[k], sent'[Len(told') + k])
      BY DEF BatchIsFaithful
    <3>1. k \in 1 .. n /\ sent'[Len(told') + k] = offers[k]
      BY <1>1, <2>6, <2>7, <2>8
    <3> QED
      BY <2>6, <3>1
  <2>12. CallIsFaithful' /\ CallsKeepOpen'
    BY <1>1, <1>3 DEF MessagesInv, CallIsFaithful, CallsKeepOpen, Idle
  <2> QED
    BY <2>9, <2>10, <2>11, <2>12 DEF MessagesInv, JudgedInv
<1> QED
  BY <1>2, <1>3 DEF Submit

(* The association moves to another state.                                 *)
LEMMA MoveToInv ==
  ASSUME MessagesInv,
         NEW s \in {"kClosed", "kConnecting", "kConnected", "kShuttingDown", "over"},
         Idle, MoveTo(s)
  PROVE  MessagesInv'
<1>1. /\ state' = s
      /\ UNCHANGED <<bytes, call, sent, batch, told, errors, buffer, received,
                     discarded, inbound, crashed>>
  BY DEF MoveTo, outbound, inbound
<1>2. TypeOK'
  BY <1>1 DEF MessagesInv, TypeOK
<1>3. JudgedInv'
  BY <1>1, JudgedStay DEF MessagesInv, JudgedInv
<1>4. BatchIsFaithful' /\ CallIsFaithful' /\ CallsKeepOpen'
  BY <1>1 DEF MessagesInv, BatchIsFaithful, CallIsFaithful, CallsKeepOpen, Idle
<1> QED
  BY <1>2, <1>3, <1>4 DEF MessagesInv, JudgedInv

(* What is in a sequence over S is in one over a larger set.               *)
LEMMA WidenLemma ==
  ASSUME NEW S, NEW T, S \subseteq T, NEW s \in Seq(S)
  PROVE  s \in Seq(T)
OBVIOUS

(* dcsctp takes the next message of a call.                                *)
LEMMA TakeLemma ==
  ASSUME MessagesInv, Take
  PROVE  LET n       == Len(told) + 1
             message == Head(batch)
             verdict == Verdict(message)
             status  == FromNativeStatus[verdict + 1]
         IN /\ n \in Nat /\ n <= Len(sent)
            /\ DOMAIN told = 1 .. n - 1 /\ DOMAIN told' = 1 .. n
            /\ told' = Append(told, status)
            /\ told' \in Seq(SendStatus) /\ Len(told') = n
            /\ told'[n] = status
            /\ \A i \in DOMAIN told : told'[i] = told[i]
            /\ message \in Outgoing /\ Faithful(message, sent[n])
            /\ batch' \in Seq(Outgoing) /\ Len(batch') = Len(batch) - 1
            /\ \A k \in DOMAIN batch' : /\ k + 1 \in DOMAIN batch
                                        /\ batch'[k] = batch[k + 1]
<1> DEFINE n == Len(told) + 1
           status == FromNativeStatus[Verdict(Head(batch)) + 1]
<1>1. batch # <<>> /\ batch' = Tail(batch) /\ told' = Append(told, status)
  BY DEF Take
<1>2. /\ batch \in Seq(Outgoing) /\ told \in Seq(SendStatus)
      /\ sent \in Seq(Offers)
      /\ Len(told) + Len(batch) = Len(sent)
  BY DEF MessagesInv, TypeOK
<1>3. /\ Len(batch) \in Nat /\ Len(batch) >= 1
      /\ Head(batch) = batch[1] /\ Head(batch) \in Outgoing
  BY <1>1, <1>2
<1>4. status \in SendStatus
  BY <1>3, VerdictLemma
<1> HIDE DEF status
<1>5. /\ n \in Nat /\ n <= Len(sent) /\ DOMAIN told = 1 .. n - 1
  BY <1>2, <1>3
<1>6. /\ DOMAIN told' = 1 .. n
      /\ told' \in Seq(SendStatus) /\ Len(told') = n
      /\ told'[n] = status
      /\ \A i \in DOMAIN told : told'[i] = told[i]
  BY <1>1, <1>2, <1>4
<1>7. Faithful(Head(batch), sent[n])
  BY <1>2, <1>3 DEF MessagesInv, BatchIsFaithful
<1>8. /\ batch' \in Seq(Outgoing) /\ Len(batch') = Len(batch) - 1
      /\ \A k \in DOMAIN batch' : k + 1 \in DOMAIN batch /\ batch'[k] = batch[k + 1]
  BY <1>1, <1>2, <1>3
<1> QED
  BY <1>1, <1>3, <1>5, <1>6, <1>7, <1>8 DEF status

(* Taken or refused, the message with number n has one fate, and the       *)
(* fates of the others do not change.                                      *)
LEMMA TakeFates ==
  ASSUME MessagesInv, Take
  PROVE  LET n       == Len(told) + 1
             message == Head(batch)
             status  == FromNativeStatus[Verdict(message) + 1]
         IN /\ UNCHANGED <<bytes, state, call, sent, received, discarded, crashed, Delivered>>
            /\ \/ /\ status = "kSuccess"
                  /\ buffer' = buffer \cup
                       {[number |-> n, message |-> message.message,
                         options |-> message.options]}
                  /\ UNCHANGED <<errors, Refused>>
                  /\ Accepted' = Accepted \cup {n} /\ Buffered' = Buffered \cup {n}
               \/ /\ status # "kSuccess"
                  /\ errors' = Append(errors, Because[status])
                  /\ Because[status] \in
                       {"kProtocolViolation", "kResourceExhaustion", "kWrongSequence"}
                  /\ UNCHANGED <<buffer, Accepted, Buffered>>
                  /\ Refused' = Refused \cup {n}
<1> DEFINE n == Len(told) + 1
           message == Head(batch)
           verdict == Verdict(message)
           status  == FromNativeStatus[verdict + 1]
           new == [number |-> n, message |-> message.message,
                   options |-> message.options]
<1>1. /\ n \in Nat
      /\ DOMAIN told = 1 .. n - 1 /\ DOMAIN told' = 1 .. n
      /\ told'[n] = status
      /\ \A i \in DOMAIN told : told'[i] = told[i]
      /\ message \in Outgoing
  BY TakeLemma
<1>2. /\ verdict = kSuccess <=> status = "kSuccess"
      /\ verdict # kSuccess =>
           /\ ErrorKind[ErrorOf(verdict) + 1] = Because[status]
           /\ Because[status] \in
                {"kProtocolViolation", "kResourceExhaustion", "kWrongSequence"}
  BY <1>1, VerdictLemma
<1>3. /\ UNCHANGED <<bytes, state, call, sent, received, discarded, crashed>>
      /\ IF verdict = kSuccess
         THEN buffer' = buffer \cup {new} /\ UNCHANGED errors
         ELSE /\ errors' = Append(errors, ErrorKind[ErrorOf(verdict) + 1])
              /\ UNCHANGED buffer
  BY DEF Take, inbound
<1> HIDE DEF message, verdict, status
<1>4. UNCHANGED Delivered
  BY <1>3 DEF Delivered
<1>5. n \in DOMAIN told' /\ n \notin DOMAIN told /\ DOMAIN told' = DOMAIN told \cup {n}
  BY <1>1
<1>6. CASE verdict = kSuccess
  <2>1. status = "kSuccess"
    BY <1>2, <1>6
  <2>2. Accepted' = Accepted \cup {n}
    BY <1>1, <1>5, <2>1 DEF Accepted
  <2>3. Refused' = Refused
    BY <1>5, <2>2 DEF Refused
  <2>4. buffer' = buffer \cup {new} /\ new.number = n
    BY <1>3, <1>6
  <2>5. Buffered' = Buffered \cup {n}
    BY <2>4 DEF Buffered
  <2> QED
    BY <1>3, <1>4, <1>6, <2>1, <2>2, <2>3, <2>4, <2>5 DEF message, verdict, status
<1>7. CASE verdict # kSuccess
  <2>1. status # "kSuccess"
    BY <1>2, <1>7
  <2>2. Accepted' = Accepted
    BY <1>1, <1>5, <2>1 DEF Accepted
  <2>3. Refused' = Refused \cup {n}
    <3>1. n \notin Accepted
      BY <1>5 DEF Accepted
    <3> QED
      BY <1>5, <2>2, <3>1 DEF Refused
  <2>4. UNCHANGED <<buffer, Buffered>>
    BY <1>3, <1>7 DEF Buffered
  <2> QED
    BY <1>2, <1>3, <1>4, <1>7, <2>1, <2>2, <2>3, <2>4 DEF message, verdict, status
<1> QED
  BY <1>6, <1>7

LEMMA TakeType ==
  ASSUME MessagesInv, Take
  PROVE  TypeOK'
<1> DEFINE n == Len(told) + 1
           new == [number |-> n, message |-> Head(batch).message,
                   options |-> Head(batch).options]
           Kinds == {"kProtocolViolation", "kResourceExhaustion", "kWrongSequence"}
           Judged(D) ==
             [number : D, message : NativeMessages, options : NativeOptions]
           Records(D) == [number : D, stream : Shorts, payload : Contents]
<1>1. /\ n \in Nat /\ n <= Len(sent)
      /\ DOMAIN told = 1 .. n - 1 /\ DOMAIN told' = 1 .. n
      /\ told' \in Seq(SendStatus) /\ Len(told') = n
      /\ Head(batch) \in Outgoing
      /\ batch' \in Seq(Outgoing) /\ Len(batch') = Len(batch) - 1
  BY TakeLemma
<1>2. /\ UNCHANGED <<bytes, state, call, sent, received, discarded, crashed>>
      /\ buffer' \subseteq buffer \cup {new}
      /\ \/ UNCHANGED errors
         \/ \E kind \in Kinds : errors' = Append(errors, kind)
  BY TakeFates
<1>3. /\ bytes' \in [Arrays -> Contents]
      /\ state' \in {"kClosed", "kConnecting", "kConnected", "kShuttingDown", "over"}
      /\ sent' \in Seq(Offers)
      /\ crashed' \in BOOLEAN /\ call' \in Calls \cup {None}
  BY <1>2 DEF MessagesInv, TypeOK
<1>4. errors' \in Seq(Kinds)
  <2>1. errors \in Seq(Kinds)
    BY DEF MessagesInv, TypeOK
  <2> QED
    BY <1>2, <2>1
<1>5. Len(told') + Len(batch') = Len(sent')
  <2>1. /\ Len(told) + Len(batch) = Len(sent)
        /\ Len(told) \in Nat /\ Len(batch) \in Nat
    BY DEF MessagesInv, TypeOK
  <2>2. Len(told') = Len(told) + 1 /\ Len(batch') = Len(batch) - 1
    BY <1>1
  <2>3. sent' = sent
    BY <1>2
  <2> QED
    BY <2>1, <2>2, <2>3
<1>6. DOMAIN told \subseteq DOMAIN told' /\ n \in DOMAIN told'
  BY <1>1
<1>7. buffer' \subseteq Judged(DOMAIN told')
  <2>1. buffer \subseteq Judged(DOMAIN told)
    BY DEF MessagesInv, TypeOK
  <2>2. new \in Judged(DOMAIN told')
    BY <1>1, <1>6 DEF Outgoing
  <2> HIDE DEF new
  <2> QED
    BY <1>2, <1>6, <2>1, <2>2
<1>8. received' \in Seq(Records(DOMAIN told'))
  <2>1. received \in Seq(Records(DOMAIN told))
    BY DEF MessagesInv, TypeOK
  <2>2. Records(DOMAIN told) \subseteq Records(DOMAIN told')
    BY <1>6
  <2> HIDE DEF Records
  <2> QED
    BY <1>2, <2>1, <2>2, WidenLemma
<1>9. discarded' \subseteq DOMAIN told'
  <2>1. discarded \subseteq DOMAIN told
    BY DEF MessagesInv, TypeOK
  <2> QED
    BY <1>2, <1>6, <2>1
<1> QED
  BY <1>1, <1>3, <1>4, <1>5, <1>7, <1>8, <1>9 DEF TypeOK

LEMMA TakeInv ==
  ASSUME MessagesInv, Take
  PROVE  MessagesInv'
<1> DEFINE n == Len(told) + 1
           message == Head(batch)
           status == FromNativeStatus[Verdict(message) + 1]
           new == [number |-> n, message |-> message.message,
                   options |-> message.options]
<1>1. /\ n \in Nat /\ n <= Len(sent)
      /\ DOMAIN told = 1 .. n - 1 /\ DOMAIN told' = 1 .. n
      /\ told'[n] = status
      /\ \A i \in DOMAIN told : told'[i] = told[i]
      /\ message \in Outgoing /\ Faithful(message, sent[n])
      /\ Len(told') = n
      /\ \A k \in DOMAIN batch' : k + 1 \in DOMAIN batch /\ batch'[k] = batch[k + 1]
      /\ batch' \in Seq(Outgoing)
  BY TakeLemma
<1>2. /\ UNCHANGED <<bytes, state, call, sent, received, discarded, crashed, Delivered>>
      /\ \/ /\ status = "kSuccess"
            /\ buffer' = buffer \cup {new}
            /\ UNCHANGED <<errors, Refused>>
            /\ Accepted' = Accepted \cup {n} /\ Buffered' = Buffered \cup {n}
         \/ /\ status # "kSuccess"
            /\ errors' = Append(errors, Because[status])
            /\ Because[status] \in
                 {"kProtocolViolation", "kResourceExhaustion", "kWrongSequence"}
            /\ UNCHANGED <<buffer, Accepted, Buffered>>
            /\ Refused' = Refused \cup {n}
  BY TakeFates
<1> HIDE DEF message, status
<1>3. n \notin DOMAIN told
  BY <1>1
<1>4. /\ Accepted \subseteq DOMAIN told /\ Refused \subseteq DOMAIN told
      /\ discarded \subseteq DOMAIN told
      /\ \A m \in buffer : m.number \in DOMAIN told
      /\ \A k \in DOMAIN received : received[k].number \in DOMAIN told
  BY JudgedLemma DEF MessagesInv, Accepted, Refused
<1>5. TypeOK'
  BY TakeType
<1>6. BatchIsFaithful'
  <2> SUFFICES ASSUME NEW k \in DOMAIN batch'
               PROVE  Faithful(batch'[k], sent'[Len(told') + k])
    BY DEF BatchIsFaithful
  <2>1. k + 1 \in DOMAIN batch /\ batch'[k] = batch[k + 1] /\ k \in Nat
    BY <1>1
  <2>2. Faithful(batch[k + 1], sent[Len(told) + (k + 1)])
    BY <2>1 DEF MessagesInv, BatchIsFaithful
  <2>3. Len(told') + k = Len(told) + (k + 1)
    BY <1>1, <2>1
  <2> QED
    BY <1>2, <2>1, <2>2, <2>3
<1>7. BufferIsFaithful'
  <2>1. new.number = n /\ (Faithful(message, sent[n]) => Faithful(new, sent[n]))
    BY DEF Faithful
  <2> HIDE DEF new
  <2>2. buffer' \subseteq buffer \cup {new}
    BY <1>2
  <2> QED
    BY <1>1, <1>2, <2>1, <2>2 DEF MessagesInv, BufferIsFaithful
<1>8. NumbersAreUnique'
  <2>1. new.number = n
    OBVIOUS
  <2> HIDE DEF new
  <2>2. buffer' \subseteq buffer \cup {new}
    BY <1>2
  <2> QED
    BY <1>3, <1>4, <2>1, <2>2 DEF MessagesInv, NumbersAreUnique
<1>9. GivenUpHadLimits'
  BY <1>2 DEF MessagesInv, GivenUpHadLimits, Unlimited
<1>10. StatusTellsFate'
  <2>1. n \notin Delivered \cup discarded
    BY <1>3, <1>4 DEF Delivered
  <2>2. CASE status = "kSuccess"
    BY <1>2, <2>1, <2>2 DEF MessagesInv, StatusTellsFate
  <2>3. CASE status # "kSuccess"
    BY <1>2, <2>3 DEF MessagesInv, StatusTellsFate
  <2> QED
    BY <2>2, <2>3
<1>11. DeliveredAsSent'
  BY <1>2 DEF MessagesInv, DeliveredAsSent
<1>12. OrderedInOrder'
  <2> SUFFICES ASSUME NEW k \in DOMAIN received, NEW i, i = received[k].number,
                      NEW j \in 1 .. (i - 1),
                      j \in Accepted', Unlimited(j),
                      ~sent[i].options.isUnordered, ~sent[j].options.isUnordered,
                      sent[i].stream = sent[j].stream
               PROVE  \E l \in 1 .. (k - 1) : received[l].number = j
    BY <1>2 DEF OrderedInOrder, Unlimited
  <2>1. i \in 1 .. n - 1
    BY <1>1, <1>4
  <2>2. j # n
    BY <1>1, <2>1
  <2>3. j \in Accepted
    BY <1>2, <2>2
  <2> QED
    BY <2>3 DEF MessagesInv, OrderedInOrder
<1>13. ErrorsMatchStatuses'
  <2>1. PICK refusal \in [DOMAIN errors -> Refused] :
          /\ \A k, l \in DOMAIN errors : k < l => refusal[k] < refusal[l]
          /\ \A i \in Refused : \E k \in DOMAIN errors : refusal[k] = i
          /\ \A k \in DOMAIN errors : errors[k] = Because[told[refusal[k]]]
    BY DEF MessagesInv, ErrorsMatchStatuses
  <2>2. \A i \in Refused : told'[i] = told[i] /\ i < n
    BY <1>1, <1>4
  <2>3. CASE status = "kSuccess"
    <3>1. UNCHANGED <<errors, Refused>>
      BY <1>2, <2>3
    <3>2. \A k \in DOMAIN errors : errors[k] = Because[told'[refusal[k]]]
      BY <2>1, <2>2
    <3> QED
      BY <2>1, <3>1, <3>2 DEF ErrorsMatchStatuses
  <2>4. CASE status # "kSuccess"
    <3> DEFINE e == Len(errors) + 1
               longer == [k \in DOMAIN errors' |-> IF k = e THEN n ELSE refusal[k]]
    <3>1. /\ e \in Nat /\ e \notin DOMAIN errors
          /\ \A k \in DOMAIN errors : k \in Nat /\ k < e
          /\ DOMAIN errors' = DOMAIN errors \cup {e}
          /\ errors'[e] = Because[status]
          /\ \A k \in DOMAIN errors : errors'[k] = errors[k]
      <4> DEFINE Kinds == {"kProtocolViolation", "kResourceExhaustion", "kWrongSequence"}
      <4>1. errors \in Seq(Kinds)
        BY DEF MessagesInv, TypeOK
      <4>2. errors' = Append(errors, Because[status]) /\ Because[status] \in Kinds
        BY <1>2, <2>4
      <4> HIDE DEF Kinds
      <4> QED
        BY <4>1, <4>2
    <3>2. Refused' = Refused \cup {n}
      BY <1>2, <2>4
    <3>3. /\ longer \in [DOMAIN errors' -> Refused']
          /\ longer[e] = n
          /\ \A k \in DOMAIN errors : longer[k] = refusal[k] /\ refusal[k] \in Refused
      <4> HIDE DEF e
      <4> QED
        BY <3>1, <3>2
    <3> HIDE DEF e, longer
    <3>4. ASSUME NEW k \in DOMAIN errors', NEW l \in DOMAIN errors', k < l
          PROVE  longer[k] < longer[l]
      <4>1. k \in DOMAIN errors
        <5>1. CASE k = e
          <6>1. l # e
            BY <3>1, <3>4, <5>1
          <6> QED
            BY <3>1, <3>4, <5>1, <6>1
        <5> QED
          BY <3>1, <5>1
      <4>2. CASE l = e
        BY <2>2, <3>3, <4>1, <4>2
      <4>3. CASE l # e
        BY <2>1, <3>1, <3>3, <3>4, <4>1, <4>3
      <4> QED
        BY <4>2, <4>3
    <3>5. ASSUME NEW i \in Refused'
          PROVE  \E k \in DOMAIN errors' : longer[k] = i
      <4>1. CASE i = n
        BY <3>1, <3>3, <4>1
      <4>2. CASE i # n
        BY <2>1, <3>1, <3>2, <3>3, <4>2
      <4> QED
        BY <4>1, <4>2
    <3>6. ASSUME NEW k \in DOMAIN errors'
          PROVE  errors'[k] = Because[told'[longer[k]]]
      <4>1. CASE k = e
        BY <1>1, <3>1, <3>3, <4>1
      <4>2. CASE k # e
        BY <2>1, <2>2, <3>1, <3>3, <4>2
      <4> QED
        BY <4>1, <4>2
    <3> QED
      BY <3>3, <3>4, <3>5, <3>6 DEF ErrorsMatchStatuses
  <2> QED
    BY <2>3, <2>4
<1>14. CallIsFaithful' /\ CallsKeepOpen'
  <2>1. call = None /\ state # "over"
    BY DEF MessagesInv, CallIsFaithful, CallsKeepOpen, Idle, Take
  <2> QED
    BY <1>2, <2>1 DEF CallIsFaithful, CallsKeepOpen
<1> QED
  BY <1>5, <1>6, <1>7, <1>8, <1>9, <1>10, <1>11, <1>12, <1>13, <1>14 DEF MessagesInv

(* A message m in dcsctp's hands, and what leaving them changes.           *)
LEMMA LeaveLemma ==
  ASSUME MessagesInv, NEW m \in buffer, buffer' = buffer \ {m}, UNCHANGED told
  PROVE  /\ m.number \in DOMAIN told /\ m.number \in Buffered
         /\ Faithful(m, sent[m.number])
         /\ Buffered' = Buffered \ {m.number}
         /\ UNCHANGED <<Accepted, Refused>>
<1>1. m.number \in DOMAIN told
  BY JudgedLemma DEF MessagesInv
<1>2. Buffered' = Buffered \ {m.number}
  BY DEF MessagesInv, NumbersAreUnique, Buffered
<1>3. m.number \in Buffered
  BY DEF Buffered
<1>4. UNCHANGED <<Accepted, Refused>>
  BY DEF Accepted, Refused
<1> QED
  BY <1>1, <1>2, <1>3, <1>4 DEF MessagesInv, BufferIsFaithful

(* Without refusals OnError is not called.                                 *)
LEMMA NoNewErrors ==
  ASSUME MessagesInv, UNCHANGED <<told, errors>>
  PROVE  ErrorsMatchStatuses'
BY DEF MessagesInv, ErrorsMatchStatuses, Refused, Accepted

(* A message is turned into Java as it was when it was converted.          *)
LEMMA ArrivalLemma ==
  ASSUME MessagesInv, NEW m \in buffer
  PROVE  LET original == sent[m.number] IN
         /\ original \in Offers
         /\ ToShort(m.message.stream) = original.stream /\ original.stream \in Shorts
         /\ Read(m.message.payload) = original.contents
         /\ original.contents \in Contents
<1> DEFINE original == sent[m.number]
<1>1. m.number \in DOMAIN told /\ Faithful(m, original)
  BY JudgedLemma DEF MessagesInv, BufferIsFaithful
<1>2. original \in Offers
  BY <1>1 DEF MessagesInv, TypeOK
<1>3. original.stream \in Shorts /\ original.contents \in Contents
  BY <1>2, OffersLemma
<1>4. ToShort(m.message.stream) = original.stream
  BY <1>1, <1>3, StreamLemma DEF Faithful, Resembles
<1>5. Read(m.message.payload) = original.contents
  BY <1>1, <1>3, ArraysAssumption DEF Faithful, Resembles, Read
<1> QED
  BY <1>2, <1>3, <1>4, <1>5

LEMMA DeliverInv ==
  ASSUME MessagesInv, NEW m \in buffer, Deliver(m)
  PROVE  MessagesInv'
<1> DEFINE i == m.number
           record == [number |-> i, stream |-> ToShort(m.message.stream),
                      payload |-> Read(m.message.payload)]
           r == Len(received)
           Records == [number : DOMAIN told, stream : Shorts, payload : Contents]
<1>1. /\ received' = Append(received, record)
      /\ buffer' = buffer \ {m}
      /\ UNCHANGED <<bytes, state, call, sent, batch, told, errors, discarded, crashed>>
  BY DEF Deliver, outbound
<1>2. /\ i \in DOMAIN told /\ i \in Buffered
      /\ Faithful(m, sent[i])
      /\ Buffered' = Buffered \ {i}
      /\ UNCHANGED <<Accepted, Refused>>
  BY <1>1, LeaveLemma
<1>3. i \in Nat
  <2>1. told \in Seq(SendStatus)
    BY DEF MessagesInv, TypeOK
  <2> QED
    BY <1>2, <2>1
<1>4. /\ record.number = i
      /\ record.stream = sent[i].stream /\ record.stream \in Shorts
      /\ record.payload = sent[i].contents /\ record.payload \in Contents
  BY ArrivalLemma
<1>5. record \in Records
  BY <1>2, <1>4
<1> HIDE DEF record
<1>6. /\ received \in Seq(Records) /\ r \in Nat
      /\ received' \in Seq(Records)
      /\ DOMAIN received = 1 .. r /\ DOMAIN received' = 1 .. r + 1
      /\ received'[r + 1] = record
      /\ \A k \in 1 .. r : received'[k] = received[k]
  <2>1. received \in Seq(Records)
    BY DEF MessagesInv, TypeOK
  <2> HIDE DEF Records
  <2> QED
    BY <1>1, <1>5, <2>1
<1>7. Delivered' = Delivered \cup {i}
  BY <1>4, <1>6 DEF Delivered
<1> HIDE DEF i, r
<1>8. TypeOK'
  BY <1>1, <1>6 DEF MessagesInv, TypeOK
<1>9. BatchIsFaithful' /\ CallIsFaithful' /\ CallsKeepOpen'
  BY <1>1 DEF MessagesInv, BatchIsFaithful, CallIsFaithful, CallsKeepOpen, Idle
<1>10. BufferIsFaithful' /\ NumbersAreUnique'
  BY <1>1 DEF MessagesInv, BufferIsFaithful, NumbersAreUnique
<1>11. GivenUpHadLimits'
  BY <1>1 DEF MessagesInv, GivenUpHadLimits, Unlimited
<1>12. StatusTellsFate'
  <2>1. i \notin Delivered /\ i \notin discarded
    BY <1>2 DEF MessagesInv, StatusTellsFate
  <2>2. \A k \in 1 .. r : received[k].number # i
    BY <1>6, <2>1 DEF Delivered
  <2>3. \A k, l \in DOMAIN received' : received'[k].number = received'[l].number => k = l
    <3>1. \A k, l \in 1 .. r : received[k].number = received[l].number => k = l
      BY <1>6 DEF MessagesInv, StatusTellsFate
    <3>2. \A k \in DOMAIN received' : k \in 1 .. r \/ k = r + 1
      BY <1>6
    <3> QED
      BY <1>4, <1>6, <2>2, <3>1, <3>2
  <2> QED
    BY <1>1, <1>2, <1>7, <2>1, <2>3 DEF MessagesInv, StatusTellsFate
<1>13. DeliveredAsSent'
  <2> SUFFICES ASSUME NEW k \in DOMAIN received'
               PROVE  /\ received'[k].stream = sent[received'[k].number].stream
                      /\ received'[k].payload = sent[received'[k].number].contents
    BY <1>1 DEF DeliveredAsSent
  <2>1. CASE k \in 1 .. r
    BY <1>6, <2>1 DEF MessagesInv, DeliveredAsSent
  <2>2. CASE k = r + 1
    BY <1>4, <1>6, <2>2
  <2> QED
    BY <1>6, <2>1, <2>2
<1>14. OrderedInOrder'
  <2> SUFFICES ASSUME NEW k \in DOMAIN received', NEW n, n = received'[k].number,
                      NEW j \in 1 .. (n - 1),
                      j \in Accepted, Unlimited(j),
                      ~sent[n].options.isUnordered, ~sent[j].options.isUnordered,
                      sent[n].stream = sent[j].stream
               PROVE  \E l \in 1 .. (k - 1) : received'[l].number = j
    BY <1>1, <1>2 DEF OrderedInOrder, Unlimited
  <2>1. CASE k \in 1 .. r
    <3>1. \E l \in 1 .. (k - 1) : received[l].number = j
      BY <1>6, <2>1 DEF MessagesInv, OrderedInOrder
    <3> QED
      BY <1>6, <2>1, <3>1
  <2>2. CASE k = r + 1
    <3>1. n = i
      BY <1>4, <1>6, <2>2
    <3>2. j \in Delivered \/ j \in Buffered
      BY DEF MessagesInv, StatusTellsFate, GivenUpHadLimits
    <3>3. CASE j \in Buffered
      <4>1. PICK b \in buffer : b.number = j
        BY <3>3 DEF Buffered
      <4>2. Faithful(b, sent[j])
        BY <4>1 DEF MessagesInv, BufferIsFaithful
      <4>3. Ordered(b) /\ Ordered(m) /\ b.message.stream = m.message.stream
        BY <1>2, <3>1, <4>2 DEF Faithful, Resembles, Kept, Ordered
      <4>4. b.number < m.number
        BY <1>3, <3>1, <4>1 DEF i
      <4> QED
        BY <4>3, <4>4 DEF Deliver
    <3>4. CASE j \in Delivered
      <4>1. PICK l \in 1 .. r : received[l].number = j
        BY <1>6, <3>4 DEF Delivered
      <4> QED
        BY <1>6, <2>2, <4>1
    <3> QED
      BY <3>2, <3>3, <3>4
  <2> QED
    BY <1>6, <2>1, <2>2
<1>15. ErrorsMatchStatuses'
  BY <1>1, NoNewErrors
<1> QED
  BY <1>8, <1>9, <1>10, <1>11, <1>12, <1>13, <1>14, <1>15 DEF MessagesInv

LEMMA DiscardInv ==
  ASSUME MessagesInv, NEW m \in buffer, Discard(m)
  PROVE  MessagesInv'
<1> DEFINE i == m.number
<1>1. /\ discarded' = discarded \cup {i}
      /\ buffer' = buffer \ {m}
      /\ UNCHANGED <<bytes, state, call, sent, batch, told, errors, received, crashed>>
  BY DEF Discard, outbound
<1>2. /\ i \in DOMAIN told /\ i \in Buffered
      /\ Faithful(m, sent[i])
      /\ Buffered' = Buffered \ {i}
      /\ UNCHANGED <<Accepted, Refused>>
  BY <1>1, LeaveLemma
<1> HIDE DEF i
<1>3. UNCHANGED Delivered
  BY <1>1 DEF Delivered
<1>4. TypeOK'
  BY <1>1, <1>2 DEF MessagesInv, TypeOK
<1>5. BatchIsFaithful' /\ CallIsFaithful' /\ CallsKeepOpen'
  BY <1>1 DEF MessagesInv, BatchIsFaithful, CallIsFaithful, CallsKeepOpen, Idle
<1>6. BufferIsFaithful' /\ NumbersAreUnique'
  BY <1>1 DEF MessagesInv, BufferIsFaithful, NumbersAreUnique
<1>7. GivenUpHadLimits'
  <2>1. ~Unlimited(i)
    BY <1>2 DEF Discard, Limits, Faithful, Kept, Unlimited, HasNoLimit
  <2> QED
    BY <1>1, <2>1 DEF MessagesInv, GivenUpHadLimits, Unlimited
<1>8. StatusTellsFate'
  BY <1>1, <1>2, <1>3 DEF MessagesInv, StatusTellsFate
<1>9. DeliveredAsSent'
  BY <1>1 DEF MessagesInv, DeliveredAsSent
<1>10. OrderedInOrder'
  BY <1>1, <1>2 DEF MessagesInv, OrderedInOrder, Unlimited
<1>11. ErrorsMatchStatuses'
  BY <1>1, NoNewErrors
<1> QED
  BY <1>4, <1>5, <1>6, <1>7, <1>8, <1>9, <1>10, <1>11 DEF MessagesInv

LEMMA InitInv == Init => MessagesInv
<1> SUFFICES ASSUME Init PROVE MessagesInv
  OBVIOUS
<1>1. PICK c \in Contents : bytes = [a \in Arrays |-> c]
  BY DEF Init
<1>2. /\ state = "kClosed"
      /\ call = None /\ sent = <<>> /\ batch = <<>> /\ told = <<>> /\ errors = <<>>
      /\ buffer = {} /\ received = <<>> /\ discarded = {}
      /\ crashed = FALSE
  BY DEF Init
<1>3. TypeOK
  <2>1. \A S : <<>> \in Seq(S)
    OBVIOUS
  <2>2. Len(told) + Len(batch) = Len(sent)
    BY <1>2
  <2>3. bytes \in [Arrays -> Contents]
    BY <1>1
  <2> QED
    BY <1>2, <2>1, <2>2, <2>3, Zenon DEF TypeOK
<1>4. Accepted = {} /\ Refused = {} /\ Buffered = {} /\ Delivered = {}
  BY <1>2 DEF Accepted, Refused, Buffered, Delivered
<1>5. StatusTellsFate
  BY <1>2, <1>4 DEF StatusTellsFate
<1>6. ErrorsMatchStatuses
  <2>1. [k \in {} |-> 0] \in [DOMAIN errors -> Refused]
    BY <1>2, <1>4
  <2> QED
    BY <1>2, <1>4, <2>1 DEF ErrorsMatchStatuses
<1>7. /\ BatchIsFaithful /\ CallIsFaithful /\ BufferIsFaithful /\ NumbersAreUnique
      /\ GivenUpHadLimits /\ DeliveredAsSent /\ OrderedInOrder /\ CallsKeepOpen
  BY <1>2 DEF BatchIsFaithful, CallIsFaithful, BufferIsFaithful, NumbersAreUnique,
              GivenUpHadLimits, DeliveredAsSent, OrderedInOrder, CallsKeepOpen
<1> QED
  BY <1>3, <1>5, <1>6, <1>7 DEF MessagesInv

LEMMA NextInv == MessagesInv /\ [Next]_vars => MessagesInv'
<1> SUFFICES ASSUME MessagesInv, [Next]_vars PROVE MessagesInv'
  OBVIOUS
<1>1. ASSUME NEW a \in Arrays, NEW c \in Contents, Overwrite(a, c)
      PROVE  MessagesInv'
  BY <1>1, OverwriteInv
<1>2. CASE Convert \/ Submit \/ Take
  BY <1>2, ConvertInv, SubmitInv, TakeInv
<1>3. ASSUME Idle, SocketStep PROVE MessagesInv'
  <2>1. ASSUME NEW m \in Messages, NEW o \in Options, Send(m, o)
        PROVE  MessagesInv'
    <3>1. <<m>> \in Seq(Messages)
      OBVIOUS
    <3> QED
      BY <1>3, <2>1, <3>1, BeginInv DEF Send
  <2>2. ASSUME NEW n \in 0 .. MaxBatch, NEW ms \in [1 .. n -> Messages],
               NEW o \in ManyOptions, SendMany(ms, o)
        PROVE  MessagesInv'
    <3>1. n \in Nat
      BY BoundsAssumption
    <3>2. ms \in Seq(Messages)
      BY <3>1
    <3> QED
      BY <1>3, <2>2, <3>2, BeginInv DEF SendMany
  <2>3. CASE Connect
    BY <1>3, <2>3, MoveToInv DEF Connect
  <2>4. CASE Established
    BY <1>3, <2>4, MoveToInv DEF Established
  <2>5. CASE Shutdown
    BY <1>3, <2>5, MoveToInv DEF Shutdown
  <2>6. CASE ShutdownComplete
    BY <1>3, <2>6, MoveToInv DEF ShutdownComplete
  <2>7. CASE Close
    BY <1>3, <2>7, MoveToInv DEF Close
  <2>8. ASSUME NEW m \in buffer, Deliver(m) PROVE MessagesInv'
    BY <2>8, DeliverInv
  <2>9. ASSUME NEW m \in buffer, Discard(m) PROVE MessagesInv'
    BY <2>9, DiscardInv
  <2> QED
    BY <1>3, <2>1, <2>2, <2>3, <2>4, <2>5, <2>6, <2>7, <2>8, <2>9 DEF SocketStep
<1>4. CASE UNCHANGED vars
  <2>1. UNCHANGED <<bytes, state, call, sent, batch, told, errors, buffer, received,
                    discarded, inbound, crashed>>
    BY <1>4 DEF vars, outbound, inbound
  <2>2. TypeOK'
    BY <2>1 DEF MessagesInv, TypeOK
  <2>3. JudgedInv'
    BY <2>1, JudgedStay DEF MessagesInv, JudgedInv
  <2>4. BatchIsFaithful' /\ CallIsFaithful' /\ CallsKeepOpen'
    BY <2>1 DEF MessagesInv, BatchIsFaithful, CallIsFaithful, CallsKeepOpen, Idle
  <2> QED
    BY <2>2, <2>3, <2>4 DEF MessagesInv, JudgedInv
<1> QED
  BY <1>1, <1>2, <1>3, <1>4 DEF Next

LEMMA MessagesInvariance == Spec => []MessagesInv
BY InitInv, NextInv, PTL DEF Spec

-----------------------------------------------------------------------------
(* The theorems: for any arrays, messages and options, any capacity of the *)
(* send buffer and any number of messages and sizes of batches.            *)

(* Messages and statuses are what the conversions say they are.            *)
THEOREM MessagesTypeCorrect == Spec => []TypeOK
<1>1. MessagesInv => TypeOK
  BY DEF MessagesInv
<1> QED
  BY <1>1, MessagesInvariance, PTL

(* kSuccess, returned by send or at its place in the result of sendMany,   *)
(* says that the message was enqueued; it has one fate.                    *)
THEOREM StatusesTellFates == Spec => []StatusTellsFate
<1>1. MessagesInv => StatusTellsFate
  BY DEF MessagesInv
<1> QED
  BY <1>1, MessagesInvariance, PTL

(* OnError tells, in order and once each, why messages were refused.       *)
THEOREM ErrorsTellRefusals == Spec => []ErrorsMatchStatuses
<1>1. MessagesInv => ErrorsMatchStatuses
  BY DEF MessagesInv
<1> QED
  BY <1>1, MessagesInvariance, PTL

(* What arrives is what was in the array when the call converted it, on    *)
(* the stream it was sent on.                                              *)
THEOREM ArrivesAsSent == Spec => []DeliveredAsSent
<1>1. MessagesInv => DeliveredAsSent
  BY DEF MessagesInv
<1> QED
  BY <1>1, MessagesInvariance, PTL

(* Ordered messages arrive in order unless they may be discarded.          *)
THEOREM ArrivesInOrder == Spec => []OrderedInOrder
<1>1. MessagesInv => OrderedInOrder
  BY DEF MessagesInv
<1> QED
  BY <1>1, MessagesInvariance, PTL

-----------------------------------------------------------------------------
(* Messages implements MessageChannel.                                     *)

(* What the channel calls open and sent.                                   *)
Open  == state # "over"
Taken == SubSeq(sent, 1, Len(told))

(* The first n elements of s.                                              *)
LEMMA PrefixLemma ==
  ASSUME NEW S, NEW s \in Seq(S), NEW n \in Nat, n <= Len(s)
  PROVE  /\ SubSeq(s, 1, n) \in Seq(S) /\ Len(SubSeq(s, 1, n)) = n
         /\ \A i \in 1 .. n : SubSeq(s, 1, n)[i] = s[i]
<1>1. \A i \in 1 .. n : s[i] \in S
  OBVIOUS
<1>2. /\ SubSeq(s, 1, n) \in Seq(S) /\ Len(SubSeq(s, 1, n)) = n
      /\ \A i \in 1 .. n : SubSeq(s, 1, n)[i] = s[1 + i - 1]
  BY <1>1, SubSeqProperties
<1> QED
  BY <1>2

LEMMA TakenLemma ==
  ASSUME TypeOK
  PROVE  /\ Taken \in Seq(Offers) /\ Len(Taken) = Len(told)
         /\ DOMAIN told = 1 .. Len(told)
         /\ \A i \in DOMAIN told : Taken[i] = sent[i]
<1>1. /\ sent \in Seq(Offers) /\ told \in Seq(SendStatus)
      /\ batch \in Seq(Outgoing)
      /\ Len(told) + Len(batch) = Len(sent)
  BY DEF TypeOK
<1>2. Len(told) \in Nat /\ Len(told) <= Len(sent) /\ DOMAIN told = 1 .. Len(told)
  BY <1>1
<1> QED
  BY <1>1, <1>2, PrefixLemma DEF Taken

(* The same in the next state.                                             *)
LEMMA TakenNextLemma ==
  ASSUME TypeOK'
  PROVE  /\ Taken' \in Seq(Offers) /\ Len(Taken') = Len(told')
         /\ DOMAIN told' = 1 .. Len(told')
         /\ \A i \in DOMAIN told' : Taken'[i] = sent'[i]
<1>1. /\ sent' \in Seq(Offers) /\ told' \in Seq(SendStatus)
      /\ batch' \in Seq(Outgoing)
      /\ Len(told') + Len(batch') = Len(sent')
  BY DEF TypeOK
<1>2. Len(told') \in Nat /\ Len(told') <= Len(sent') /\ DOMAIN told' = 1 .. Len(told')
  BY <1>1
<1> QED
  BY <1>1, <1>2, PrefixLemma DEF Taken

(* The channel sees nothing of a step in which dcsctp takes no message,    *)
(* none leaves it, and the association does not end.                       *)
LEMMA ChannelStutters ==
  ASSUME TypeOK, TypeOK', UNCHANGED <<told, buffer, received, Open>>,
         \A i \in DOMAIN told : sent'[i] = sent[i]
  PROVE  UNCHANGED Channel!vars
<1>1. Taken' = Taken
  <2>1. /\ Taken \in Seq(Offers) /\ Len(Taken) = Len(told)
        /\ \A i \in DOMAIN told : Taken[i] = sent[i]
    BY TakenLemma
  <2>2. /\ Taken' \in Seq(Offers) /\ Len(Taken') = Len(told)
        /\ DOMAIN told = 1 .. Len(told)
        /\ \A i \in DOMAIN told : Taken'[i] = sent'[i]
    BY TakenNextLemma
  <2> QED
    BY <2>1, <2>2, SeqEqual
<1>2. Buffered' = Buffered
  BY DEF Buffered
<1> QED
  BY <1>1, <1>2 DEF Channel!vars, Taken, Open

LEMMA ChannelInit == Init => Channel!Init
<1> SUFFICES ASSUME Init PROVE Channel!Init
  OBVIOUS
<1>1. /\ state = "kClosed" /\ sent = <<>> /\ told = <<>> /\ buffer = {}
      /\ received = <<>>
  BY DEF Init
<1>2. SubSeq(sent, 1, Len(told)) = <<>>
  BY <1>1, SubSeqEmpty
<1>3. Buffered = {}
  BY <1>1 DEF Buffered
<1> QED
  BY <1>1, <1>2, <1>3 DEF Channel!Init

(* The next message of a call is sent in the channel.                      *)
LEMMA TakeSends ==
  ASSUME MessagesInv, MessagesInv', Take
  PROVE  Channel!Next
<1> DEFINE n == Len(told) + 1
           status == FromNativeStatus[Verdict(Head(batch)) + 1]
<1>1. /\ n \in Nat /\ n <= Len(sent)
      /\ DOMAIN told = 1 .. n - 1 /\ DOMAIN told' = 1 .. n
      /\ told' = Append(told, status) /\ Len(told') = n
      /\ told' \in Seq(SendStatus) /\ told'[n] = status
  BY TakeLemma
<1>2. UNCHANGED <<state, sent, received>>
  BY TakeFates
<1>3. Buffered' = Buffered \cup (IF status = "kSuccess" THEN {n} ELSE {})
  BY TakeFates
<1> HIDE DEF status
<1>4. status \in SendStatus
  BY <1>1
<1>5. sent[n] \in Offers
  BY <1>1 DEF MessagesInv, TypeOK
<1>6. state # "over"
  BY DEF MessagesInv, CallsKeepOpen, Idle, Take
<1>7. /\ Taken \in Seq(Offers) /\ Len(Taken) = n - 1
      /\ Taken' = Append(Taken, sent[n])
  <2>1. /\ Taken \in Seq(Offers) /\ Len(Taken) = n - 1
        /\ \A i \in 1 .. n - 1 : Taken[i] = sent[i]
    BY <1>1, TakenLemma DEF MessagesInv
  <2>2. /\ Taken' \in Seq(Offers) /\ Len(Taken') = n
        /\ \A i \in 1 .. n : Taken'[i] = sent[i]
    BY <1>1, <1>2, TakenNextLemma DEF MessagesInv
  <2>3. /\ Append(Taken, sent[n]) \in Seq(Offers)
        /\ Len(Append(Taken, sent[n])) = n
        /\ \A i \in 1 .. n : Append(Taken, sent[n])[i] = sent[i]
    BY <1>1, <1>5, <2>1
  <2> QED
    BY <2>1, <2>2, <2>3, SeqEqual
<1>8. Channel!Send(sent[n], status)
  BY <1>1, <1>2, <1>3, <1>6, <1>7 DEF Channel!Send, Taken
<1> QED
  BY <1>4, <1>5, <1>8 DEF Channel!Next

LEMMA DeliverDelivers ==
  ASSUME MessagesInv, MessagesInv', NEW m \in buffer, Deliver(m)
  PROVE  Channel!Next
<1> DEFINE i == m.number
<1>1. /\ received' = Append(received,
           [number |-> i, stream |-> ToShort(m.message.stream),
            payload |-> Read(m.message.payload)])
      /\ buffer' = buffer \ {m}
      /\ UNCHANGED <<state, sent, told>>
      /\ state # "over"
  BY DEF Deliver, outbound
<1>2. /\ i \in DOMAIN told /\ i \in Buffered
      /\ Faithful(m, sent[i])
      /\ Buffered' = Buffered \ {i}
  BY <1>1, LeaveLemma
<1>3. \A j \in DOMAIN told : Taken[j] = sent[j]
  BY TakenLemma DEF MessagesInv
<1>4. received' = Append(received,
        [number |-> i, stream |-> Taken[i].stream, payload |-> Taken[i].contents])
  BY <1>1, <1>2, <1>3, ArrivalLemma
<1>5. ASSUME NEW j \in Buffered PROVE ~Channel!Follows(i, j)
  <2>1. PICK b \in buffer : b.number = j
    BY <1>5 DEF Buffered
  <2>2. Faithful(b, sent[j]) /\ j \in DOMAIN told
    BY <2>1, JudgedLemma DEF MessagesInv, BufferIsFaithful
  <2> SUFFICES ASSUME Channel!Follows(i, j) PROVE FALSE
    OBVIOUS
  <2>3. /\ j < i
        /\ Taken[i].stream = Taken[j].stream
        /\ ~Taken[i].options.isUnordered /\ ~Taken[j].options.isUnordered
    BY DEF Channel!Follows, Taken
  <2>4. Ordered(b) /\ Ordered(m) /\ b.message.stream = m.message.stream
    BY <1>2, <1>3, <2>2, <2>3 DEF Faithful, Resembles, Kept, Ordered
  <2> QED
    BY <2>1, <2>3, <2>4 DEF Deliver
<1>6. Taken' = Taken
  BY <1>1 DEF Taken
<1>7. Channel!Deliver(i)
  BY <1>1, <1>2, <1>4, <1>5, <1>6 DEF Channel!Deliver, Taken
<1> QED
  BY <1>2, <1>7 DEF Channel!Next

LEMMA DiscardLoses ==
  ASSUME MessagesInv, MessagesInv', NEW m \in buffer, Discard(m)
  PROVE  Channel!Next
<1> DEFINE i == m.number
<1>1. /\ buffer' = buffer \ {m}
      /\ UNCHANGED <<state, sent, told, received>>
      /\ state # "over"
  BY DEF Discard, outbound
<1>2. /\ i \in DOMAIN told /\ i \in Buffered
      /\ Faithful(m, sent[i])
      /\ Buffered' = Buffered \ {i}
  BY <1>1, LeaveLemma
<1>3. Taken[i] = sent[i]
  BY <1>2, TakenLemma DEF MessagesInv
<1>4. ~HasNoLimit(sent[i].options)
  BY <1>2 DEF Discard, Limits, Faithful, Kept, HasNoLimit
<1>5. Channel!Lose(i)
  BY <1>1, <1>2, <1>3, <1>4 DEF Channel!Lose, Taken
<1> QED
  BY <1>2, <1>5 DEF Channel!Next

(* The end of the association is that of the channel; the channel does not *)
(* see other changes of its state.                                         *)
LEMMA MoveToEnds ==
  ASSUME MessagesInv, MessagesInv', state # "over",
         NEW s \in {"kClosed", "kConnecting", "kConnected", "kShuttingDown", "over"},
         MoveTo(s)
  PROVE  Channel!Next \/ UNCHANGED Channel!vars
<1>1. state' = s /\ UNCHANGED <<sent, told, buffer, received>>
  BY DEF MoveTo, outbound, inbound
<1>2. CASE s = "over"
  <2>1. Buffered' = Buffered
    BY <1>1 DEF Buffered
  <2>2. Channel!End
    BY <1>1, <1>2, <2>1 DEF Channel!End
  <2> QED
    BY <2>2 DEF Channel!Next
<1>3. CASE s # "over"
  <2>1. UNCHANGED Open
    BY <1>1, <1>3 DEF Open
  <2> QED
    BY <1>1, <2>1, ChannelStutters DEF MessagesInv
<1> QED
  BY <1>2, <1>3

(* What a call does before dcsctp takes messages is not seen in the        *)
(* channel.                                                                *)
LEMMA CallStutters ==
  ASSUME MessagesInv, MessagesInv', UNCHANGED <<state, buffer, inbound>>,
         UNCHANGED told, UNCHANGED sent \/ \E s \in Seq(Offers) : sent' = sent \o s
  PROVE  UNCHANGED Channel!vars
<1>1. /\ sent \in Seq(Offers) /\ Len(told) \in Nat /\ Len(told) <= Len(sent)
      /\ DOMAIN told = 1 .. Len(told)
  <2>1. /\ sent \in Seq(Offers) /\ told \in Seq(SendStatus)
        /\ batch \in Seq(Outgoing)
        /\ Len(told) + Len(batch) = Len(sent)
    BY DEF MessagesInv, TypeOK
  <2> QED
    BY <2>1
<1>2. \A i \in DOMAIN told : sent'[i] = sent[i]
  <2>1. ASSUME NEW s \in Seq(Offers), sent' = sent \o s
        PROVE  \A i \in 1 .. Len(told) : sent'[i] = sent[i]
    BY <1>1, <2>1, ConcatProperties
  <2> QED
    BY <1>1, <2>1
<1>3. UNCHANGED <<Open, buffer, received>>
  BY DEF Open, inbound
<1> QED
  BY <1>2, <1>3, ChannelStutters DEF MessagesInv

LEMMA ChannelNext ==
  MessagesInv /\ MessagesInv' /\ [Next]_vars => [Channel!Next]_(Channel!vars)
<1> SUFFICES ASSUME MessagesInv, MessagesInv', [Next]_vars
             PROVE  Channel!Next \/ UNCHANGED Channel!vars
  OBVIOUS
<1>1. ASSUME NEW a \in Arrays, NEW c \in Contents, Overwrite(a, c)
      PROVE  UNCHANGED Channel!vars
  BY <1>1, CallStutters DEF Overwrite, outbound
<1>2. CASE Convert
  BY <1>2, CallStutters DEF Convert
<1>3. CASE Submit
  <2>1. call.offers \in Seq(Offers)
    BY <1>3, CallLemma DEF Submit, MessagesInv
  <2>2. /\ UNCHANGED <<state, told, buffer, inbound>>
        /\ UNCHANGED sent \/ sent' = sent \o call.offers
    BY <1>3 DEF Submit
  <2> QED
    BY <2>1, <2>2, CallStutters
<1>4. CASE Take
  BY <1>4, TakeSends
<1>5. ASSUME Idle, SocketStep
      PROVE  Channel!Next \/ UNCHANGED Channel!vars
  <2>1. ASSUME NEW many, NEW ms, NEW o, Begin(many, ms, o)
        PROVE  UNCHANGED Channel!vars
    BY <2>1, CallStutters DEF Begin
  <2>2. ASSUME NEW m \in Messages, NEW o \in Options, Send(m, o)
        PROVE  UNCHANGED Channel!vars
    BY <2>1, <2>2 DEF Send
  <2>3. ASSUME NEW n \in 0 .. MaxBatch, NEW ms \in [1 .. n -> Messages],
               NEW o \in ManyOptions, SendMany(ms, o)
        PROVE  UNCHANGED Channel!vars
    BY <2>1, <2>3 DEF SendMany
  <2>4. CASE Connect
    BY <1>5, <2>4, MoveToEnds DEF Connect
  <2>5. CASE Established
    BY <1>5, <2>5, MoveToEnds DEF Established
  <2>6. CASE Shutdown
    BY <1>5, <2>6, MoveToEnds DEF Shutdown
  <2>7. CASE ShutdownComplete
    BY <1>5, <2>7, MoveToEnds DEF ShutdownComplete
  <2>8. CASE Close
    BY <1>5, <2>8, MoveToEnds DEF Close
  <2>9. ASSUME NEW m \in buffer, Deliver(m) PROVE Channel!Next
    BY <2>9, DeliverDelivers
  <2>10. ASSUME NEW m \in buffer, Discard(m) PROVE Channel!Next
    BY <2>10, DiscardLoses
  <2> QED
    BY <1>5, <2>2, <2>3, <2>4, <2>5, <2>6, <2>7, <2>8, <2>9, <2>10 DEF SocketStep
<1>6. CASE UNCHANGED vars
  BY <1>6, CallStutters DEF vars, outbound
<1> QED
  BY <1>1, <1>2, <1>3, <1>4, <1>5, <1>6 DEF Next

(* The binding keeps the contract of the channel: sendMany is one send     *)
(* after another, of what was in each array at the moment within the call  *)
(* in which it was converted; writes after that moment, also those to the  *)
(* arrays of a batch of which only some are converted, are not seen.       *)
THEOREM KeepsTheContract == Spec => ImplementsChannel
BY ChannelInit, ChannelNext, MessagesInvariance, PTL
   DEF Spec, ImplementsChannel, Channel!Spec
=============================================================================
