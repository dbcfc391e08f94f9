------------------------ MODULE SocketOptionsProofs ------------------------
(* Proofs about SocketOptions, for any objects, addresses and values, and  *)
(* any two sockets: structs have one owner each, and Java reads back what  *)
(* was set and negotiated.                                                 *)
EXTENDS SocketOptions, TLAPS, FiniteSetTheorems

(* The structs are modelled as functions, None (a nullptr) is not one.     *)
NoneIsNoStruct == \A S, struct : None # [x \in S |-> struct[x]]

(* The kind of option f when that of the other option is k.                *)
Kind(k, f) == IF f = "other" THEN k ELSE "plain"

(* What Java reads of struct m when the other option is of kind k.         *)
View(k, m) == [f \in Fields |-> FromNative(Kind(k, f), m[f])]

(* Struct m shows `view`, where its types have room for it.                *)
Shows(k, m, view) ==
  /\ DOMAIN view = Fields
  /\ \A f \in Fields : Fits(Kind(k, f), view[f]) => View(k, m)[f] = view[f]

NativeOptions(k) ==
  [incoming : Uint16, outgoing : Uint16, other : {ToNative(k, v) : v \in Values(k)}]

-----------------------------------------------------------------------------
(* The inductive invariant.                                                *)

Shapes ==
  /\ mem = [p \in Ptrs |-> mem[p]]
  /\ shown = [j \in Objects |-> shown[j]]
  /\ source = [j \in Objects |-> source[j]]
  /\ given = [s \in Sockets |-> given[s]]

(* OneOwner, owner by owner.                                               *)
Ownership ==
  /\ \A j \in Objects : object[j] # None =>
       mem[object[j].ptr] # None /\ object[j].ptr \notin lost
  /\ \A s \in Sockets : socket[s] # None =>
       mem[socket[s]] # None /\ socket[s] \notin lost
  /\ \A i, j \in Objects :
       object[i] # None /\ object[j] # None /\ object[i].ptr = object[j].ptr => i = j
  /\ \A s, t \in Sockets :
       socket[s] # None /\ socket[s] = socket[t] => s = t
  /\ \A j \in Objects, s \in Sockets :
       object[j] # None /\ socket[s] # None => object[j].ptr # socket[s]
  /\ \A p \in lost : mem[p] # None
  /\ \A p \in Ptrs : mem[p] # None /\ p \notin lost =>
       \/ \E j \in Objects : object[j] # None /\ object[j].ptr = p
       \/ \E s \in Sockets : socket[s] = p

(* What was negotiated follows from what was given; metrics show it.       *)
Negotiation ==
  /\ \A s \in Sockets : agreed[s] # None =>
       /\ given[s] # None /\ given[Peer(s)] # None
       /\ agreed[s].incoming = Smaller(given[s]["incoming"], given[Peer(s)]["outgoing"])
       /\ agreed[s].outgoing = Smaller(given[s]["outgoing"], given[Peer(s)]["incoming"])
       /\ agreed[s].peer \in {0, 1}
  /\ \A j \in Objects : IsA(j, "Metrics") =>
       /\ source[j] \in Sockets
       /\ agreed[source[j]] # None
       /\ mem[object[j].ptr] = agreed[source[j]]

(* ReadsBack, and what the setters of an object rely on.                   *)
ObjectsShow ==
  \A j \in Objects : IsA(j, "DcSctpOptions") =>
    mem[object[j].ptr] # None /\ Shows(kind, mem[object[j].ptr], shown[j])

(* OptionsOfCreation.                                                      *)
SocketsShow ==
  \A s \in Sockets : socket[s] # None =>
    mem[socket[s]] # None /\ given[s] = View(kind, mem[socket[s]])

OptionsInv ==
  /\ Shapes
  /\ TypeOK
  /\ Ownership
  /\ ObjectsShow
  /\ SocketsShow
  /\ Negotiation

-----------------------------------------------------------------------------
(* Lemmas.                                                                 *)

(* Each socket has another one for a peer.                                 *)
LEMMA PeerLemma ==
  ASSUME NEW s \in Sockets
  PROVE  Peer(s) \in Sockets /\ Peer(s) # s
<1>1. \E r \in Sockets : r # s
  <2> SUFFICES ASSUME \A r \in Sockets : r = s PROVE FALSE
    OBVIOUS
  <2>1. Sockets = {s}
    OBVIOUS
  <2> QED
    BY <2>1, SocketsAssumption, FS_Singleton
<1> QED
  BY <1>1 DEF Peer

(* What is in Uint16.                                                      *)
LEMMA Uint16Lemma == \A n : n \in Uint16 <=> n \in Nat /\ n <= 65535
<1>1. MaxUint16 = 65535
  BY DEF MaxUint16
<1>2. MaxUint16 \in Nat
  BY <1>1
<1>3. \A n : n \in Uint16 <=> n \in Nat /\ n <= MaxUint16
  BY <1>2 DEF Uint16
<1> QED
  BY <1>1, <1>3

(* A signed number is found again in its unsigned form.                    *)
LEMMA SignedLemma ==
  ASSUME NEW size \in Nat \ {0}, NEW v, IsSigned(v, size)
  PROVE  Signed(v % size, size) = v
<1>1. v \in Int /\ -size <= 2 * v /\ 2 * v < size
  BY DEF IsSigned
<1>2. CASE v >= 0
  <2>1. v % size = v
    BY <1>1, <1>2
  <2> QED
    BY <1>1, <1>2, <2>1 DEF Signed
<1>3. CASE v < 0
  <2>1. v % size = v + size
    BY <1>1, <1>3
  <2> QED
    BY <1>1, <1>3, <2>1 DEF Signed
<1> QED
  BY <1>1, <1>2, <1>3

(* An optional made of a Java object gives the object back.                *)
LEMMA OptionalLemma ==
  /\ FromOptional({}) = None
  /\ \A n : FromOptional({n}) = n
BY DEF FromOptional

(* The getters undo what the setters do, if the native type has room.      *)
LEMMA RoundTripLemma ==
  ASSUME NEW k \in Kinds, NEW v \in Values(k), Fits(k, v)
  PROVE  FromNative(k, ToNative(k, v)) = v
<1>1. CASE k = "plain"
  BY <1>1 DEF ToNative, FromNative
<1>2. CASE k = "short"
  <2>1. 65536 \in Nat \ {0}
    OBVIOUS
  <2>2. Signed(v % 65536, 65536) = v
    BY <1>2, <2>1, SignedLemma, ValuesAssumption
  <2> QED
    BY <1>2, <2>2 DEF ToNative, FromNative, ToUint16, ToShort
<1>3. CASE k = "size"
  <2>1. Signed(v % Word, Word) = v
    BY <1>3, SignedLemma, ValuesAssumption, NumbersAssumption
  <2> QED
    BY <1>3, <2>1 DEF ToNative, FromNative, ToSize, ToLong
<1>4. CASE k = "optional"
  <2>1. FromNative(k, ToNative(k, v)) = FromOptional({v} \ {None})
    BY <1>4 DEF ToNative, FromNative, ToOptional
  <2>2. {v} \ {None} = IF v = None THEN {} ELSE {v}
    OBVIOUS
  <2> QED
    BY <2>1, <2>2, OptionalLemma
<1>5. ASSUME NEW n, IsSigned(n, DurationWord) PROVE ToDuration(n) = n
  BY <1>5, SignedLemma, NumbersAssumption DEF ToDuration
<1>6. CASE k = "duration"
  <2>1. ToDuration(v) = v
    BY <1>5, <1>6 DEF Fits
  <2> QED
    BY <1>6, <2>1 DEF ToNative, FromNative
<1>7. CASE k = "optionalDuration"
  <2>1. FromNative(k, ToNative(k, v)) = FromOptional({ToDuration(n) : n \in {v} \ {None}})
    BY <1>7 DEF ToNative, FromNative, ToOptional
  <2>2. CASE v = None
    <3>1. {ToDuration(n) : n \in {v} \ {None}} = {}
      BY <2>2
    <3> QED
      BY <2>1, <2>2, <3>1, OptionalLemma
  <2>3. CASE v # None
    <3>1. ToDuration(v) = v
      BY <1>5, <1>7, <2>3 DEF Fits
    <3>2. {ToDuration(n) : n \in {v} \ {None}} = {ToDuration(v)}
      BY <2>3
    <3> QED
      BY <2>1, <3>1, <3>2, OptionalLemma
  <2> QED
    BY <2>2, <2>3
<1> QED
  BY <1>1, <1>2, <1>3, <1>4, <1>6, <1>7 DEF Kinds

(* Numbers of streams are not converted.                                   *)
LEMMA PlainLemma ==
  ASSUME NEW v PROVE ToNative("plain", v) = v /\ FromNative("plain", v) = v
BY DEF ToNative, FromNative

(* The fields of an options struct.                                        *)
LEMMA FieldsLemma ==
  /\ Fields = {"incoming", "outgoing", "other"}
  /\ KindOf("incoming") = "plain" /\ KindOf("outgoing") = "plain" /\ KindOf("other") = kind
BY DEF Fields, Streams, KindOf

(* At first there are no objects, no sockets and no structs.               *)
LEMMA InitLemma == Init => OptionsInv
<1> SUFFICES ASSUME Init PROVE OptionsInv
  OBVIOUS
<1>1. Init
  OBVIOUS
<1> USE <1>1 DEF Init
<1>2. Shapes
  BY DEF Shapes
<1>3. TypeOK
  BY DEF TypeOK, IsA
<1>4. Ownership
  BY DEF Ownership
<1>5. ObjectsShow /\ SocketsShow
  BY DEF ObjectsShow, SocketsShow, IsA
<1>6. Negotiation
  BY DEF Negotiation, IsA
<1> QED
  BY <1>2, <1>3, <1>4, <1>5, <1>6 DEF OptionsInv

-----------------------------------------------------------------------------
(* The type invariant with the definitions that mention the state expanded. *)

LEMMA TypeLemma ==
  TypeOK <=>
    /\ kind \in Kinds
    /\ lost \subseteq Ptrs
    /\ object \in [Objects -> [class : Classes, ptr : Ptrs] \cup {None}]
    /\ socket \in [Sockets -> Ptrs \cup {None}]
    /\ agreed \in [Sockets -> [incoming : Uint16, outgoing : Uint16, peer : 0..3] \cup {None}]
    /\ \A j \in Objects : IsA(j, "DcSctpOptions") => mem[object[j].ptr] \in NativeOptions(kind)
    /\ \A s \in Sockets : socket[s] # None => mem[socket[s]] \in NativeOptions(kind)
BY DEF TypeOK, NativeOptions, OtherNative

-----------------------------------------------------------------------------
(* Each action preserves the invariant.                                    *)

(* A new struct, the object that gets it, and the one that is lost.        *)
LEMMA WrapLemma ==
  ASSUME NoneIsNoStruct, OptionsInv,
         NEW j \in Objects, NEW class \in Classes, NEW struct, NEW view, NEW s,
         Wrap(j, class, struct, view, s),
         struct # None,
         class = "DcSctpOptions" =>
           struct \in NativeOptions(kind) /\ Shows(kind, struct, view),
         class = "Metrics" => s \in Sockets /\ agreed[s] # None /\ struct = agreed[s]
  PROVE  OptionsInv'
<1> USE DEF OptionsInv
<1>1. PICK p \in Ptrs :
        /\ object[j] = None
        /\ mem[p] = None
        /\ mem' = [mem EXCEPT ![p] = struct]
        /\ \/ /\ object' = [object EXCEPT ![j] = [class |-> class, ptr |-> p]]
              /\ shown' = [shown EXCEPT ![j] = view]
              /\ source' = [source EXCEPT ![j] = s]
              /\ UNCHANGED lost
           \/ lost' = lost \cup {p} /\ UNCHANGED <<object, shown, source>>
        /\ UNCHANGED <<kind, socket, given, agreed>>
  BY DEF Wrap, Allocate, Lose
<1>2. /\ mem = [q \in Ptrs |-> mem[q]]
      /\ shown = [i \in Objects |-> shown[i]]
      /\ source = [i \in Objects |-> source[i]]
  BY DEF Shapes
<1>3. /\ lost \subseteq Ptrs
      /\ object \in [Objects -> [class : Classes, ptr : Ptrs] \cup {None}]
      /\ socket \in [Sockets -> Ptrs \cup {None}]
  BY DEF TypeOK
<1>4. \A q \in Ptrs : mem'[q] = IF q = p THEN struct ELSE mem[q]
  BY <1>1, <1>2
<1>5. /\ \A i \in Objects : object[i] # None => object[i].ptr \in Ptrs \ {p}
      /\ \A t \in Sockets : socket[t] # None => socket[t] \in Ptrs \ {p}
      /\ p \notin lost
  BY <1>1, <1>3 DEF Ownership
<1>6. Shapes'
  BY <1>1, <1>2 DEF Shapes
<1>7. CASE object' = [object EXCEPT ![j] = [class |-> class, ptr |-> p]]
           /\ shown' = [shown EXCEPT ![j] = view]
           /\ source' = [source EXCEPT ![j] = s]
           /\ UNCHANGED lost
  <2>1. /\ object'[j] = [class |-> class, ptr |-> p]
        /\ object'[j] # None /\ object'[j].class = class /\ object'[j].ptr = p
        /\ shown'[j] = view /\ source'[j] = s
        /\ \A i \in Objects \ {j} :
             object'[i] = object[i] /\ shown'[i] = shown[i] /\ source'[i] = source[i]
    BY <1>2, <1>3, <1>7 DEF NoneIsNoStruct
  <2>2. TypeOK'
    <3>1. object' \in [Objects -> [class : Classes, ptr : Ptrs] \cup {None}]
      BY <1>3, <1>7
    <3>2. \A i \in Objects : IsA(i, "DcSctpOptions")' => mem'[object'[i].ptr] \in NativeOptions(kind)
      BY <1>1, <1>4, <1>5, <2>1, TypeLemma DEF IsA
    <3>3. \A t \in Sockets : socket'[t] # None => mem'[socket'[t]] \in NativeOptions(kind)
      BY <1>1, <1>4, <1>5, TypeLemma
    <3> QED
      BY <1>1, <1>7, <3>1, <3>2, <3>3 DEF TypeOK, NativeOptions, OtherNative
  <2>3. Ownership'
    <3>1. \A i \in Objects : object'[i] # None => mem'[object'[i].ptr] # None /\ object'[i].ptr \notin lost
      BY <1>4, <1>5, <2>1 DEF Ownership
    <3>2. \A t \in Sockets : socket[t] # None => mem'[socket[t]] # None /\ socket[t] \notin lost
      BY <1>4, <1>5 DEF Ownership
    <3>3. \A i, k \in Objects :
            object'[i] # None /\ object'[k] # None /\ object'[i].ptr = object'[k].ptr => i = k
      BY <1>5, <2>1 DEF Ownership
    <3>4. \A i \in Objects, t \in Sockets :
            object'[i] # None /\ socket[t] # None => object'[i].ptr # socket[t]
      BY <1>5, <2>1 DEF Ownership
    <3>5. \A q \in lost : mem'[q] # None
      BY <1>3, <1>4, <1>5 DEF Ownership
    <3>6. \A q \in Ptrs : mem'[q] # None /\ q \notin lost =>
            \/ \E i \in Objects : object'[i] # None /\ object'[i].ptr = q
            \/ \E t \in Sockets : socket[t] = q
      BY <1>1, <1>4, <2>1 DEF Ownership
    <3> QED
      BY <1>1, <1>7, <3>1, <3>2, <3>3, <3>4, <3>5, <3>6 DEF Ownership
  <2>4. ObjectsShow'
    <3>1. \A i \in Objects : IsA(i, "DcSctpOptions")' =>
            mem'[object'[i].ptr] # None /\ Shows(kind, mem'[object'[i].ptr], shown'[i])
      BY <1>4, <1>5, <2>1 DEF ObjectsShow, IsA
    <3> QED
      BY <1>1, <3>1 DEF ObjectsShow
  <2>5. SocketsShow'
    <3>1. \A t \in Sockets : socket[t] # None =>
            mem'[socket[t]] # None /\ given[t] = View(kind, mem'[socket[t]])
      BY <1>4, <1>5 DEF SocketsShow
    <3> QED
      BY <1>1, <3>1 DEF SocketsShow
  <2>6. Negotiation'
    <3>1. \A i \in Objects : IsA(i, "Metrics")' =>
            /\ source'[i] \in Sockets /\ agreed[source'[i]] # None
            /\ mem'[object'[i].ptr] = agreed[source'[i]]
      BY <1>4, <1>5, <2>1 DEF Negotiation, IsA
    <3> QED
      BY <1>1, <3>1 DEF Negotiation
  <2> QED
    BY <1>6, <2>2, <2>3, <2>4, <2>5, <2>6
<1>8. CASE lost' = lost \cup {p} /\ UNCHANGED <<object, shown, source>>
  <2>1. /\ \A i \in Objects : object[i] # None => mem'[object[i].ptr] = mem[object[i].ptr]
        /\ \A t \in Sockets : socket[t] # None => mem'[socket[t]] = mem[socket[t]]
    BY <1>4, <1>5
  <2>2. TypeOK'
    BY <1>1, <1>3, <1>8, <2>1 DEF TypeOK, IsA, OtherNative
  <2>3. Ownership'
    <3>1. \A q \in lost' : mem'[q] # None
      BY <1>3, <1>4, <1>5, <1>8 DEF Ownership
    <3>2. \A q \in Ptrs : mem'[q] # None /\ q \notin lost' => mem[q] # None /\ q \notin lost
      BY <1>4, <1>8
    <3> QED
      BY <1>1, <1>5, <1>8, <2>1, <3>1, <3>2 DEF Ownership
  <2>4. ObjectsShow' /\ SocketsShow'
    BY <1>1, <1>8, <2>1 DEF ObjectsShow, SocketsShow, IsA
  <2>5. Negotiation'
    BY <1>1, <1>8, <2>1 DEF Negotiation, IsA
  <2> QED
    BY <1>6, <2>2, <2>3, <2>4, <2>5
<1> QED
  BY <1>1, <1>7, <1>8

(* new DcSctpOptions(): the default values are converted and read back.    *)
LEMMA NewOptionsLemma ==
  ASSUME NoneIsNoStruct, OptionsInv, NEW j \in Objects, NewOptions(j)
  PROVE  OptionsInv'
<1> DEFINE struct == [f \in Fields |-> ToNative(KindOf(f), Default[f])]
<1>1. kind \in Kinds
  BY DEF OptionsInv, TypeOK
<1>2. Wrap(j, "DcSctpOptions", struct, Default, None)
  BY DEF NewOptions
<1>3. struct # None
  BY DEF NoneIsNoStruct
<1>4. Default["incoming"] = MaxUint16 /\ Default["outgoing"] = MaxUint16 /\ Default["other"] = DefaultOf[kind]
  BY DEF Default
<1>5. /\ struct["incoming"] = MaxUint16 /\ struct["outgoing"] = MaxUint16
      /\ struct["other"] = ToNative(kind, DefaultOf[kind])
  BY <1>4, FieldsLemma, PlainLemma
<1>6. struct \in NativeOptions(kind)
  <2>1. MaxUint16 \in Uint16
    BY Uint16Lemma DEF MaxUint16
  <2>2. ToNative(kind, DefaultOf[kind]) \in {ToNative(kind, v) : v \in Values(kind)}
    BY DEF Values
  <2>3. struct = [incoming |-> MaxUint16, outgoing |-> MaxUint16, other |-> ToNative(kind, DefaultOf[kind])]
    BY <1>5 DEF Fields, Streams
  <2> HIDE DEF struct
  <2> QED
    BY <2>1, <2>2, <2>3 DEF NativeOptions
<1>7. Shows(kind, struct, Default)
  <2>1. Fits(kind, DefaultOf[kind]) =>
          FromNative(kind, ToNative(kind, DefaultOf[kind])) = DefaultOf[kind]
    BY <1>1, RoundTripLemma DEF Values
  <2>2. DOMAIN Default = Fields
    BY DEF Default, Fields, Streams
  <2> HIDE DEF struct
  <2>3. ASSUME NEW f \in Fields, Fits(Kind(kind, f), Default[f])
        PROVE  FromNative(Kind(kind, f), struct[f]) = Default[f]
    <3>1. CASE f = "other"
      BY <1>4, <1>5, <2>1, <2>3, <3>1 DEF Kind
    <3>2. CASE f \in Streams
      BY <1>4, <1>5, <3>2, PlainLemma DEF Kind, Streams
    <3> QED
      BY <3>1, <3>2 DEF Fields
  <2> QED
    BY <2>2, <2>3 DEF Shows, View
<1> HIDE DEF struct
<1> QED
  BY <1>2, <1>3, <1>6, <1>7, WrapLemma DEF Classes

(* options(): a copy of what the socket was created with.                  *)
LEMMA GetOptionsLemma ==
  ASSUME NoneIsNoStruct, OptionsInv, NEW j \in Objects, NEW s \in Sockets, GetOptions(s, j)
  PROVE  OptionsInv'
<1>1. socket[s] # None /\ Wrap(j, "DcSctpOptions", mem[socket[s]], given[s], None)
  BY DEF GetOptions
<1>2. /\ mem[socket[s]] # None
      /\ mem[socket[s]] \in NativeOptions(kind)
      /\ given[s] = View(kind, mem[socket[s]])
  BY <1>1, TypeLemma DEF OptionsInv, SocketsShow
<1>3. Shows(kind, mem[socket[s]], given[s])
  BY <1>2 DEF Shows, View
<1> QED
  BY <1>1, <1>2, <1>3, WrapLemma DEF Classes

(* getMetrics(): a copy of what was negotiated.                            *)
LEMMA GetMetricsLemma ==
  ASSUME NoneIsNoStruct, OptionsInv, NEW j \in Objects, NEW s \in Sockets, GetMetrics(s, j)
  PROVE  OptionsInv'
<1>1. agreed[s] # None /\ Wrap(j, "Metrics", agreed[s], None, s)
  BY DEF GetMetrics
<1> QED
  BY <1>1, WrapLemma DEF Classes

(* create(): the socket's copy is a new struct.                            *)
LEMMA CreateLemma ==
  ASSUME NoneIsNoStruct, OptionsInv, NEW j \in Objects, NEW s \in Sockets, Create(s, j)
  PROVE  OptionsInv'
<1> USE DEF OptionsInv
<1> DEFINE struct == mem[object[j].ptr]
<1>1. PICK p \in Ptrs :
        /\ IsA(j, "DcSctpOptions")
        /\ given[s] = None
        /\ mem[p] = None
        /\ mem' = [mem EXCEPT ![p] = struct]
        /\ \/ /\ socket' = [socket EXCEPT ![s] = p]
              /\ given' = [given EXCEPT ![s] = View(kind, struct)]
              /\ UNCHANGED lost
           \/ lost' = lost \cup {p} /\ UNCHANGED <<socket, given>>
        /\ UNCHANGED <<kind, object, shown, source, agreed>>
  BY DEF Create, Allocate, Lose, Getters, View, Kind, KindOf
<1>2. /\ mem = [q \in Ptrs |-> mem[q]]
      /\ given = [t \in Sockets |-> given[t]]
  BY DEF Shapes
<1>3. /\ lost \subseteq Ptrs
      /\ object \in [Objects -> [class : Classes, ptr : Ptrs] \cup {None}]
      /\ socket \in [Sockets -> Ptrs \cup {None}]
  BY DEF TypeOK
<1>4. struct # None /\ struct \in NativeOptions(kind)
  BY <1>1, TypeLemma DEF ObjectsShow
<1> HIDE DEF struct
<1>5. \A q \in Ptrs : mem'[q] = IF q = p THEN struct ELSE mem[q]
  BY <1>1, <1>2
<1>6. /\ \A i \in Objects : object[i] # None => object[i].ptr \in Ptrs \ {p}
      /\ \A t \in Sockets : socket[t] # None => socket[t] \in Ptrs \ {p}
      /\ p \notin lost
  BY <1>1, <1>3 DEF Ownership
<1>7. Shapes'
  BY <1>1, <1>2 DEF Shapes
<1>8. \A i \in Objects : object[i] # None => mem'[object[i].ptr] = mem[object[i].ptr]
  BY <1>5, <1>6
<1>9. ObjectsShow'
  BY <1>1, <1>8 DEF ObjectsShow, IsA
<1>10. CASE lost' = lost \cup {p} /\ UNCHANGED <<socket, given>>
  <2>1. \A t \in Sockets : socket[t] # None => mem'[socket[t]] = mem[socket[t]]
    BY <1>5, <1>6
  <2>2. TypeOK'
    BY <1>1, <1>3, <1>8, <1>10, <2>1 DEF TypeOK, IsA, OtherNative
  <2>3. Ownership'
    <3>1. \A q \in lost' : mem'[q] # None
      BY <1>3, <1>4, <1>5, <1>6, <1>10 DEF Ownership
    <3>2. \A q \in Ptrs : mem'[q] # None /\ q \notin lost' => mem[q] # None /\ q \notin lost
      BY <1>5, <1>10
    <3> QED
      BY <1>1, <1>6, <1>8, <1>10, <2>1, <3>1, <3>2 DEF Ownership
  <2>4. SocketsShow'
    BY <1>1, <1>10, <2>1 DEF SocketsShow
  <2>5. Negotiation'
    BY <1>1, <1>8, <1>10 DEF Negotiation, IsA
  <2> QED
    BY <1>7, <1>9, <2>2, <2>3, <2>4, <2>5
<1>11. CASE /\ socket' = [socket EXCEPT ![s] = p]
            /\ given' = [given EXCEPT ![s] = View(kind, struct)]
            /\ UNCHANGED lost
  <2>1. /\ socket'[s] = p /\ given'[s] = View(kind, struct)
        /\ \A t \in Sockets \ {s} : socket'[t] = socket[t] /\ given'[t] = given[t]
    BY <1>2, <1>3, <1>11
  <2>2. socket[s] = None
    <3>1. \A m : View(kind, m) # None
      BY DEF View, NoneIsNoStruct
    <3> QED
      BY <1>1, <3>1 DEF SocketsShow
  <2>3. TypeOK'
    <3>1. socket' \in [Sockets -> Ptrs \cup {None}]
      BY <1>3, <1>11
    <3>2. \A t \in Sockets : socket'[t] # None => mem'[socket'[t]] \in NativeOptions(kind)
      BY <1>4, <1>5, <1>6, <2>1, TypeLemma
    <3>3. \A i \in Objects : IsA(i, "DcSctpOptions") => mem'[object[i].ptr] \in NativeOptions(kind)
      BY <1>8, TypeLemma DEF IsA
    <3> QED
      BY <1>1, <1>11, <3>1, <3>2, <3>3 DEF TypeOK, NativeOptions, OtherNative, IsA
  <2>4. Ownership'
    <3>1. \A i \in Objects : object[i] # None => mem'[object[i].ptr] # None /\ object[i].ptr \notin lost
      BY <1>8 DEF Ownership
    <3>2. \A t \in Sockets : socket'[t] # None => mem'[socket'[t]] # None /\ socket'[t] \notin lost
      BY <1>4, <1>5, <1>6, <2>1 DEF Ownership
    <3>3. \A t, u \in Sockets : socket'[t] # None /\ socket'[t] = socket'[u] => t = u
      BY <1>6, <2>1, NoneAssumption DEF Ownership
    <3>4. \A i \in Objects, t \in Sockets :
            object[i] # None /\ socket'[t] # None => object[i].ptr # socket'[t]
      BY <1>6, <2>1 DEF Ownership
    <3>5. \A q \in lost : mem'[q] # None
      BY <1>3, <1>5, <1>6 DEF Ownership
    <3>6. \A q \in Ptrs : mem'[q] # None /\ q \notin lost =>
            \/ \E i \in Objects : object[i] # None /\ object[i].ptr = q
            \/ \E t \in Sockets : socket'[t] = q
      BY <1>5, <2>1, <2>2, NoneAssumption DEF Ownership
    <3> QED
      BY <1>1, <1>11, <3>1, <3>2, <3>3, <3>4, <3>5, <3>6 DEF Ownership
  <2>5. SocketsShow'
    <3>1. \A t \in Sockets : socket'[t] # None =>
            mem'[socket'[t]] # None /\ given'[t] = View(kind, mem'[socket'[t]])
      BY <1>4, <1>5, <1>6, <2>1 DEF SocketsShow
    <3> QED
      BY <1>1, <3>1 DEF SocketsShow
  <2>6. Negotiation'
    <3>1. \A t \in Sockets : agreed[t] # None =>
            given'[t] = given[t] /\ given'[Peer(t)] = given[Peer(t)]
      BY <1>1, <2>1, PeerLemma DEF Negotiation
    <3> QED
      BY <1>1, <1>8, <3>1 DEF Negotiation, IsA
  <2> QED
    BY <1>7, <1>9, <2>3, <2>4, <2>5, <2>6
<1> QED
  BY <1>1, <1>10, <1>11

(* A setter changes one field of the object's own struct.                  *)
LEMMA SetOptionLemma ==
  ASSUME NoneIsNoStruct, OptionsInv, NEW j \in Objects, NEW f, NEW v, SetOption(j, f, v),
         (f \in Streams /\ v \in Counts) \/ (f = "other" /\ v \in OtherValues[kind])
  PROVE  OptionsInv'
<1> USE DEF OptionsInv
<1> DEFINE p == object[j].ptr
           struct == [mem[p] EXCEPT ![f] = ToNative(KindOf(f), v)]
           view   == [shown[j] EXCEPT ![f] = v]
<1>1. /\ IsA(j, "DcSctpOptions")
      /\ Accepted(f, v)
      /\ mem' = [mem EXCEPT ![p] = struct]
      /\ shown' = [shown EXCEPT ![j] = view]
      /\ UNCHANGED <<kind, lost, object, source, socket, given, agreed>>
  BY DEF SetOption
<1>2. /\ mem = [q \in Ptrs |-> mem[q]]
      /\ shown = [i \in Objects |-> shown[i]]
  BY DEF Shapes
<1>3. /\ kind \in Kinds
      /\ lost \subseteq Ptrs
      /\ object \in [Objects -> [class : Classes, ptr : Ptrs] \cup {None}]
      /\ socket \in [Sockets -> Ptrs \cup {None}]
  BY DEF TypeOK
<1>4. mem[p] # None /\ mem[p] \in NativeOptions(kind) /\ Shows(kind, mem[p], shown[j])
  BY <1>1, TypeLemma DEF ObjectsShow
<1>5. struct # None
  BY DEF NoneIsNoStruct
<1>6. struct \in NativeOptions(kind)
  <2>1. CASE f \in Streams /\ v \in Counts
    <3>1. v \in Uint16
      <4>1. v \in Int /\ v >= 0 /\ v <= 65535
        BY <1>1, <2>1, NumbersAssumption DEF Accepted, MaxUint16
      <4> QED
        BY <4>1, Uint16Lemma
    <3>2. ToNative(KindOf(f), v) = v
      BY <2>1, FieldsLemma, PlainLemma DEF Streams
    <3> QED
      BY <1>4, <2>1, <3>1, <3>2 DEF NativeOptions, Streams
  <2>2. CASE f = "other" /\ v \in OtherValues[kind]
    <3>1. ToNative(KindOf(f), v) \in {ToNative(kind, w) : w \in Values(kind)}
      BY <2>2, FieldsLemma DEF Values
    <3> QED
      BY <1>4, <2>2, <3>1 DEF NativeOptions
  <2> QED
    BY <2>1, <2>2
<1>7. Shows(kind, struct, view)
  <2>1. f \in Fields /\ (Fits(KindOf(f), v) => FromNative(KindOf(f), ToNative(KindOf(f), v)) = v)
    <3>1. CASE f \in Streams
      BY <3>1, FieldsLemma, PlainLemma DEF Streams
    <3>2. CASE f = "other" /\ v \in OtherValues[kind]
      BY <1>3, <3>2, FieldsLemma, RoundTripLemma DEF Values
    <3> QED
      BY <3>1, <3>2
  <2>2. /\ struct[f] = ToNative(KindOf(f), v)
        /\ \A g \in Fields \ {f} : struct[g] = mem[p][g]
    BY <1>4, <2>1, FieldsLemma DEF NativeOptions
  <2>3. /\ DOMAIN view = Fields
        /\ \A g \in Fields : view[g] = IF g = f THEN v ELSE shown[j][g]
    BY <1>4, <2>1 DEF Shows
  <2>4. \A g \in Fields \ {f} : Fits(Kind(kind, g), shown[j][g]) =>
          shown[j][g] = FromNative(Kind(kind, g), struct[g])
    BY <1>4, <2>2 DEF Shows, View
  <2>5. Fits(Kind(kind, f), v) => v = FromNative(Kind(kind, f), struct[f])
    BY <2>1, <2>2 DEF KindOf, Kind
  <2> HIDE DEF struct, view
  <2> QED
    BY <2>3, <2>4, <2>5 DEF Shows, View
<1> HIDE DEF struct, view
<1>8. p \in Ptrs
  BY <1>1, <1>3 DEF IsA
<1>9. /\ \A q \in Ptrs : mem'[q] = IF q = p THEN struct ELSE mem[q]
      /\ \A i \in Objects : shown'[i] = IF i = j THEN view ELSE shown[i]
  BY <1>1, <1>2, <1>8
<1>10. /\ \A i \in Objects \ {j} : object[i] # None => object[i].ptr \in Ptrs \ {p}
       /\ \A t \in Sockets : socket[t] # None => socket[t] \in Ptrs \ {p}
       /\ p \notin lost
  BY <1>1, <1>3 DEF Ownership, IsA
<1>11. \A q \in Ptrs : mem'[q] = None <=> mem[q] = None
  BY <1>4, <1>5, <1>9
<1>12. Shapes'
  BY <1>1, <1>2 DEF Shapes
<1>13. TypeOK'
  <2>1. \A i \in Objects : IsA(i, "DcSctpOptions") => mem'[object[i].ptr] \in NativeOptions(kind)
    BY <1>6, <1>8, <1>9, <1>10, TypeLemma DEF IsA
  <2>2. \A t \in Sockets : socket[t] # None => mem'[socket[t]] \in NativeOptions(kind)
    BY <1>9, <1>10, TypeLemma
  <2> QED
    BY <1>1, <2>1, <2>2 DEF TypeOK, NativeOptions, OtherNative, IsA
<1>14. Ownership'
  BY <1>1, <1>3, <1>11 DEF Ownership
<1>15. ObjectsShow'
  <2>1. \A i \in Objects : IsA(i, "DcSctpOptions") =>
          mem'[object[i].ptr] # None /\ Shows(kind, mem'[object[i].ptr], shown'[i])
    BY <1>5, <1>7, <1>8, <1>9, <1>10 DEF ObjectsShow, IsA
  <2> QED
    BY <1>1, <2>1 DEF ObjectsShow, IsA
<1>16. SocketsShow'
  <2>1. \A t \in Sockets : socket[t] # None => mem'[socket[t]] = mem[socket[t]]
    BY <1>9, <1>10
  <2> QED
    BY <1>1, <2>1 DEF SocketsShow
<1>17. Negotiation'
  <2>1. \A i \in Objects : IsA(i, "Metrics") => mem'[object[i].ptr] = mem[object[i].ptr]
    BY <1>1, <1>9, <1>10 DEF IsA
  <2> QED
    BY <1>1, <2>1 DEF Negotiation, IsA
<1> QED
  BY <1>12, <1>13, <1>14, <1>15, <1>16, <1>17

(* A cleaning action deletes the struct of its own object.                 *)
LEMMA DestructLemma ==
  ASSUME OptionsInv, NEW j \in Objects, Destruct(j)
  PROVE  OptionsInv'
<1> USE DEF OptionsInv
<1> DEFINE p == object[j].ptr
<1>1. /\ object[j] # None
      /\ mem' = [mem EXCEPT ![p] = None]
      /\ object' = [object EXCEPT ![j] = None]
      /\ shown' = [shown EXCEPT ![j] = None]
      /\ source' = [source EXCEPT ![j] = None]
      /\ UNCHANGED <<kind, lost, socket, given, agreed>>
  BY DEF Destruct
<1>2. /\ mem = [q \in Ptrs |-> mem[q]]
      /\ shown = [i \in Objects |-> shown[i]]
      /\ source = [i \in Objects |-> source[i]]
  BY DEF Shapes
<1>3. /\ lost \subseteq Ptrs
      /\ object \in [Objects -> [class : Classes, ptr : Ptrs] \cup {None}]
      /\ socket \in [Sockets -> Ptrs \cup {None}]
  BY DEF TypeOK
<1>4. \A q \in Ptrs : mem'[q] = IF q = p THEN None ELSE mem[q]
  BY <1>1, <1>2
<1>5. /\ object'[j] = None
      /\ \A i \in Objects \ {j} :
           object'[i] = object[i] /\ shown'[i] = shown[i] /\ source'[i] = source[i]
  BY <1>1, <1>2, <1>3
<1>6. /\ \A i \in Objects \ {j} : object[i] # None => object[i].ptr \in Ptrs \ {p}
      /\ \A t \in Sockets : socket[t] # None => socket[t] \in Ptrs \ {p}
      /\ p \notin lost
  BY <1>1, <1>3 DEF Ownership
<1>7. /\ \A i \in Objects : object'[i] # None =>
           i # j /\ object'[i] = object[i] /\ mem'[object[i].ptr] = mem[object[i].ptr]
      /\ \A t \in Sockets : socket[t] # None => mem'[socket[t]] = mem[socket[t]]
  BY <1>4, <1>5, <1>6
<1>8. Shapes'
  BY <1>1, <1>2 DEF Shapes
<1>9. TypeOK'
  <2>1. object' \in [Objects -> [class : Classes, ptr : Ptrs] \cup {None}]
    BY <1>1, <1>3
  <2>2. /\ \A i \in Objects : IsA(i, "DcSctpOptions")' => mem'[object'[i].ptr] \in NativeOptions(kind)
        /\ \A t \in Sockets : socket[t] # None => mem'[socket[t]] \in NativeOptions(kind)
    BY <1>7, TypeLemma DEF IsA
  <2> QED
    BY <1>1, <2>1, <2>2 DEF TypeOK, NativeOptions, OtherNative
<1>10. Ownership'
  <2>1. \A q \in lost : mem'[q] # None
    BY <1>3, <1>4, <1>6 DEF Ownership
  <2>2. \A q \in Ptrs : mem'[q] # None /\ q \notin lost =>
          \/ \E i \in Objects : object'[i] # None /\ object'[i].ptr = q
          \/ \E t \in Sockets : socket[t] = q
    BY <1>4, <1>5 DEF Ownership
  <2> QED
    BY <1>1, <1>7, <2>1, <2>2 DEF Ownership
<1>11. ObjectsShow'
  BY <1>1, <1>5, <1>7 DEF ObjectsShow, IsA
<1>12. SocketsShow'
  BY <1>1, <1>7 DEF SocketsShow
<1>13. Negotiation'
  BY <1>1, <1>5, <1>7 DEF Negotiation, IsA
<1> QED
  BY <1>8, <1>9, <1>10, <1>11, <1>12, <1>13

(* A socket that is destroyed deletes its own options.                     *)
LEMMA DestroySocketLemma ==
  ASSUME OptionsInv, NEW s \in Sockets, DestroySocket(s)
  PROVE  OptionsInv'
<1> USE DEF OptionsInv
<1> DEFINE p == socket[s]
<1>1. /\ p # None
      /\ mem' = [mem EXCEPT ![p] = None]
      /\ socket' = [socket EXCEPT ![s] = None]
      /\ UNCHANGED <<kind, lost, object, agreed, shown, source, given>>
  BY DEF DestroySocket, history
<1>2. mem = [q \in Ptrs |-> mem[q]]
  BY DEF Shapes
<1>3. /\ lost \subseteq Ptrs
      /\ object \in [Objects -> [class : Classes, ptr : Ptrs] \cup {None}]
      /\ socket \in [Sockets -> Ptrs \cup {None}]
  BY DEF TypeOK
<1>4. \A q \in Ptrs : mem'[q] = IF q = p THEN None ELSE mem[q]
  BY <1>1, <1>2
<1>5. /\ socket'[s] = None
      /\ \A t \in Sockets \ {s} : socket'[t] = socket[t]
  BY <1>1, <1>3
<1>6. /\ \A i \in Objects : object[i] # None => object[i].ptr \in Ptrs \ {p}
      /\ \A t \in Sockets \ {s} : socket[t] # None => socket[t] \in Ptrs \ {p}
      /\ p \notin lost
  BY <1>1, <1>3 DEF Ownership
<1>7. /\ \A i \in Objects : object[i] # None => mem'[object[i].ptr] = mem[object[i].ptr]
      /\ \A t \in Sockets : socket'[t] # None =>
           socket'[t] = socket[t] /\ mem'[socket[t]] = mem[socket[t]]
  BY <1>4, <1>5, <1>6
<1>8. Shapes'
  BY <1>1, <1>2 DEF Shapes
<1>9. TypeOK'
  <2>1. socket' \in [Sockets -> Ptrs \cup {None}]
    BY <1>1, <1>3
  <2>2. /\ \A i \in Objects : IsA(i, "DcSctpOptions") => mem'[object[i].ptr] \in NativeOptions(kind)
        /\ \A t \in Sockets : socket'[t] # None => mem'[socket'[t]] \in NativeOptions(kind)
    BY <1>7, TypeLemma DEF IsA
  <2> QED
    BY <1>1, <2>1, <2>2 DEF TypeOK, NativeOptions, OtherNative, IsA
<1>10. Ownership'
  <2>1. \A q \in lost : mem'[q] # None
    BY <1>3, <1>4, <1>6 DEF Ownership
  <2>2. \A q \in Ptrs : mem'[q] # None /\ q \notin lost =>
          \/ \E i \in Objects : object[i] # None /\ object[i].ptr = q
          \/ \E t \in Sockets : socket'[t] = q
    BY <1>4, <1>5 DEF Ownership
  <2> QED
    BY <1>1, <1>7, <2>1, <2>2 DEF Ownership
<1>11. ObjectsShow'
  BY <1>1, <1>7 DEF ObjectsShow, IsA
<1>12. SocketsShow'
  BY <1>1, <1>7 DEF SocketsShow
<1>13. Negotiation'
  BY <1>1, <1>7 DEF Negotiation, IsA
<1> QED
  BY <1>8, <1>9, <1>10, <1>11, <1>12, <1>13

(* The sockets agree on the smaller numbers of what both were given.       *)
LEMMA ConnectLemma ==
  ASSUME NoneIsNoStruct, OptionsInv, NEW initiator \in Sockets, Connect(initiator)
  PROVE  OptionsInv'
<1> USE DEF OptionsInv
<1> DEFINE mine(s)   == mem[socket[s]]
           result(s) == [incoming |-> Smaller(mine(s)["incoming"], mine(Peer(s))["outgoing"]),
                         outgoing |-> Smaller(mine(s)["outgoing"], mine(Peer(s))["incoming"]),
                         peer |-> IF s = initiator THEN 1 ELSE 0]
<1>1. /\ \A s \in Sockets : socket[s] # None /\ agreed[s] = None
      /\ agreed' = [s \in Sockets |-> result(s)]
      /\ UNCHANGED <<kind, mem, lost, object, socket, shown, source, given>>
  BY DEF Connect, history
<1>2. ASSUME NEW s \in Sockets
      PROVE  /\ given[s] # None
             /\ \A f \in Streams : mine(s)[f] = given[s][f] /\ given[s][f] \in Uint16
  <2>1. mine(s) \in NativeOptions(kind) /\ given[s] = View(kind, mine(s))
    BY <1>1, TypeLemma DEF SocketsShow
  <2>2. given[s] # None
    BY <2>1 DEF View, NoneIsNoStruct
  <2>3. \A f \in Streams : given[s][f] = mine(s)[f]
    BY <2>1, FieldsLemma, PlainLemma DEF View, Kind, Streams
  <2>4. \A f \in Streams : mine(s)[f] \in Uint16
    BY <2>1 DEF NativeOptions, Streams
  <2> QED
    BY <2>2, <2>3, <2>4
<1>3. ASSUME NEW s \in Sockets
      PROVE  /\ result(s) \in [incoming : Uint16, outgoing : Uint16, peer : 0..3]
             /\ result(s).incoming = Smaller(given[s]["incoming"], given[Peer(s)]["outgoing"])
             /\ result(s).outgoing = Smaller(given[s]["outgoing"], given[Peer(s)]["incoming"])
             /\ result(s).peer \in {0, 1}
  <2> HIDE DEF mine
  <2>1. Peer(s) \in Sockets
    BY PeerLemma
  <2>2. /\ \A f \in Streams : mine(s)[f] = given[s][f] /\ given[s][f] \in Uint16
        /\ \A f \in Streams : mine(Peer(s))[f] = given[Peer(s)][f] /\ given[Peer(s)][f] \in Uint16
    BY <1>2, <2>1
  <2>3. \A m, n \in Uint16 : Smaller(m, n) \in Uint16
    BY DEF Smaller
  <2> QED
    BY <2>2, <2>3 DEF Streams
<1> HIDE DEF mine, result
<1>4. \A s \in Sockets : agreed'[s] = result(s)
  BY <1>1
<1>5. agreed' \in [Sockets -> [incoming : Uint16, outgoing : Uint16, peer : 0..3] \cup {None}]
  BY <1>1, <1>3
<1>6. Shapes' /\ Ownership' /\ ObjectsShow' /\ SocketsShow'
  <2>1. Shapes'
    BY <1>1 DEF Shapes
  <2>2. Ownership'
    BY <1>1 DEF Ownership
  <2>3. ObjectsShow' /\ SocketsShow'
    BY <1>1 DEF ObjectsShow, SocketsShow, IsA
  <2> QED
    BY <2>1, <2>2, <2>3
<1>7. TypeOK'
  BY <1>1, <1>5 DEF TypeOK, OtherNative, IsA
<1>8. Negotiation'
  <2>1. \A j \in Objects : ~IsA(j, "Metrics")
    BY <1>1 DEF Negotiation
  <2>2. \A s \in Sockets : given[s] # None /\ given[Peer(s)] # None
    BY <1>2, PeerLemma
  <2> QED
    BY <1>1, <1>3, <1>4, <2>1, <2>2 DEF Negotiation, IsA
<1> QED
  BY <1>6, <1>7, <1>8

(* Every step preserves the invariant.                                     *)
LEMMA StepLemma == NoneIsNoStruct /\ OptionsInv /\ [Next]_vars => OptionsInv'
<1> SUFFICES ASSUME NoneIsNoStruct, OptionsInv, [Next]_vars PROVE OptionsInv'
  OBVIOUS
<1>1. ASSUME NEW s \in Sockets, Connect(s) \/ DestroySocket(s) PROVE OptionsInv'
  BY <1>1, ConnectLemma, DestroySocketLemma
<1>2. ASSUME NEW j \in Objects, NewOptions(j) \/ Destruct(j) PROVE OptionsInv'
  BY <1>2, NewOptionsLemma, DestructLemma
<1>3. ASSUME NEW j \in Objects, NEW f \in Streams, NEW n \in Counts, SetOption(j, f, n)
      PROVE  OptionsInv'
  BY <1>3, SetOptionLemma
<1>4. ASSUME NEW j \in Objects, NEW v \in OtherValues[kind], SetOption(j, "other", v)
      PROVE  OptionsInv'
  BY <1>4, SetOptionLemma
<1>5. ASSUME NEW j \in Objects, NEW s \in Sockets,
             Create(s, j) \/ GetOptions(s, j) \/ GetMetrics(s, j)
      PROVE  OptionsInv'
  BY <1>5, CreateLemma, GetOptionsLemma, GetMetricsLemma
<1>6. CASE UNCHANGED vars
  <2>1. UNCHANGED <<kind, mem, lost, object, socket, agreed, shown, source, given>>
    BY <1>6 DEF vars, history
  <2>2. Shapes'
    BY <2>1 DEF OptionsInv, Shapes
  <2>3. TypeOK'
    BY <2>1 DEF OptionsInv, TypeOK, OtherNative, IsA
  <2>4. Ownership'
    BY <2>1 DEF OptionsInv, Ownership
  <2>5. ObjectsShow' /\ SocketsShow'
    BY <2>1 DEF OptionsInv, ObjectsShow, SocketsShow, IsA
  <2>6. Negotiation'
    BY <2>1 DEF OptionsInv, Negotiation, IsA
  <2> QED
    BY <2>2, <2>3, <2>4, <2>5, <2>6 DEF OptionsInv
<1> QED
  BY <1>1, <1>2, <1>3, <1>4, <1>5, <1>6 DEF Next

-----------------------------------------------------------------------------
(* The theorems.                                                           *)

(* The invariant holds of every behaviour.                                 *)
THEOREM OptionsInvariance == ASSUME NoneIsNoStruct PROVE Spec => []OptionsInv
<1>1. OptionsInv /\ [Next]_vars => OptionsInv'
  BY StepLemma
<1> QED
  BY InitLemma, <1>1, PTL DEF Spec

(* The variables keep their types; the numbers of streams that native code *)
(* holds fit a uint16_t.                                                   *)
THEOREM OptionsTypeCorrect == ASSUME NoneIsNoStruct PROVE Spec => []TypeOK
<1>1. OptionsInv => TypeOK
  BY DEF OptionsInv
<1> QED
  BY OptionsInvariance, <1>1, PTL

(* An address in use belongs to one Java object or one socket, or is lost  *)
(* with a constructor that failed: cleaning actions delete nothing twice.  *)
THEOREM StructsHaveOneOwner == ASSUME NoneIsNoStruct PROVE Spec => []OneOwner
<1>1. OptionsInv => OneOwner
  <2> SUFFICES ASSUME OptionsInv, NEW p \in Ptrs
               PROVE  Cardinality(Owners(p)) = IF mem[p] = None \/ p \in lost THEN 0 ELSE 1
    BY DEF OneOwner
  <2>1. Ownership
    BY DEF OptionsInv
  <2>2. CASE mem[p] = None \/ p \in lost
    <3>1. Owners(p) = {}
      BY <2>1, <2>2, NoneAssumption DEF Owners, Ownership
    <3> QED
      BY <2>2, <3>1, FS_EmptySet
  <2>3. CASE ~(mem[p] = None \/ p \in lost)
    <3>1. PICK o \in Owners(p) : TRUE
      BY <2>1, <2>3 DEF Owners, Ownership
    <3>2. \A q \in Owners(p) : q = o
      BY <2>1, <3>1, NoneAssumption DEF Owners, Ownership
    <3>3. Owners(p) = {o}
      BY <3>1, <3>2
    <3> QED
      BY <2>3, <3>3, FS_Singleton
  <2> QED
    BY <2>2, <2>3
<1> QED
  BY OptionsInvariance, <1>1, PTL

(* A socket's options stay those it was created with.                      *)
THEOREM OptionsStayThoseOfCreation ==
  ASSUME NoneIsNoStruct PROVE Spec => []OptionsOfCreation
<1>1. OptionsInv => OptionsOfCreation
  BY DEF OptionsInv, SocketsShow, OptionsOfCreation, Getters, View, Kind, KindOf
<1> QED
  BY OptionsInvariance, <1>1, PTL

(* Getters return what setters were given, or what an object was made of,  *)
(* of every value that the native type can hold.                           *)
THEOREM GettersReadBack == ASSUME NoneIsNoStruct PROVE Spec => []ReadsBack
<1>1. OptionsInv => ReadsBack
  BY DEF OptionsInv, ObjectsShow, ReadsBack, Shows, Getters, View, Kind, KindOf
<1> QED
  BY OptionsInvariance, <1>1, PTL

(* Metrics tell the numbers of streams that follow from the options given  *)
(* to both sockets, up to the largest short.                               *)
THEOREM MetricsAreTrue == ASSUME NoneIsNoStruct PROVE Spec => []MetricsOfNegotiation
<1>1. OptionsInv => MetricsOfNegotiation
  <2> SUFFICES ASSUME OptionsInv, NEW j \in Objects, IsA(j, "Metrics")
               PROVE  LET s == source[j] IN
                      /\ Incoming(s) <= MaxShort => Negotiated(j, "incoming") = Incoming(s)
                      /\ Outgoing(s) <= MaxShort => Negotiated(j, "outgoing") = Outgoing(s)
                      /\ PeerImplementation(j) \in {"kUnknown", "kDcsctp"}
    BY DEF MetricsOfNegotiation
  <2> DEFINE m == mem[object[j].ptr]
             s == source[j]
  <2>1. /\ s \in Sockets
        /\ m = agreed[s]
        /\ m.incoming = Incoming(s)
        /\ m.outgoing = Outgoing(s)
        /\ m.peer \in {0, 1}
    BY DEF OptionsInv, Negotiation, Incoming, Outgoing
  <2>2. m.incoming \in Uint16 /\ m.outgoing \in Uint16
    BY <2>1 DEF OptionsInv, Negotiation, TypeOK
  <2>3. \A n \in Uint16 : n <= MaxShort => ToShort(n) = n
    <3> SUFFICES ASSUME NEW n \in Uint16, n <= MaxShort PROVE Signed(n, 65536) = n
      BY DEF ToShort
    <3>1. n \in Nat /\ 2 * n < 65536
      BY Uint16Lemma DEF MaxShort
    <3> QED
      BY <3>1 DEF Signed
  <2>4. PeerImplementation(j) \in {"kUnknown", "kDcsctp"}
    BY <2>1 DEF PeerImplementation, SctpImplementation
  <2> QED
    BY <2>1, <2>2, <2>3, <2>4 DEF Negotiated
<1> QED
  BY OptionsInvariance, <1>1, PTL
=============================================================================
