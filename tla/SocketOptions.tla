---------------------------- MODULE SocketOptions ----------------------------
(***************************************************************************)
(* The C++ structs that Java objects stand for.  A DcSctpOptions or a      *)
(* Metrics object owns a struct of its own, deleted by the object's        *)
(* cleaning action; a socket has its copy of the options it was created    *)
(* with, and hands out further copies.  Two sockets negotiate how many     *)
(* streams they use, and Java reads the result from a Metrics object.      *)
(*                                                                         *)
(* The announced maximum numbers of streams are the options that are       *)
(* checked and negotiated; one more option of any kind stands for the      *)
(* others, which are independent of one another.  A Java constructor may   *)
(* fail (OutOfMemoryError) after its struct was handed over to it.         *)
(*                                                                         *)
(* External: the allocator, which may hand out any free address again, the *)
(* collector, dcsctp's negotiation (the smaller of two announcements), and *)
(* its type of durations, DurationMs: an int32_t, where Java has a long.   *)
(***************************************************************************)
EXTENDS Integers, FiniteSets

CONSTANTS
  Sockets,     \* two sockets that connect to one another
  Objects,     \* Java objects of the classes DcSctpOptions and Metrics
  Ptrs,        \* addresses of structs (a bound)
  Counts,      \* the numbers of streams the application tries to set
  OtherValues, \* OtherValues[k]: the Java values it sets options of kind k to
  DefaultOf,   \* DefaultOf[k]: the Java value of an option of kind k at first
  Word,        \* 2^64, the number of values of a size_t and of a jlong
  DurationWord,\* 2^32, the number of values of a DurationMs
  MaxFailures, \* how many constructors fail (a bound)
  None         \* no struct, no object, no address; null

(* int and bool; uint16_t; size_t, as wide as Java's long; optional<int>;  *)
(* DurationMs and optional<DurationMs>, narrower than Java's long.         *)
Kinds == {"plain", "short", "size", "optional", "duration", "optionalDuration"}

ASSUME SocketsAssumption ==
  IsFiniteSet(Sockets) /\ Cardinality(Sockets) = 2 /\ Objects \cap Sockets = {}
ASSUME NumbersAssumption ==
  /\ Counts \subseteq Int /\ MaxFailures \in Nat
  /\ {Word, DurationWord} \subseteq Nat \ {0}
ASSUME NoneAssumption == None \notin Ptrs

Values(k) == OtherValues[k] \cup {DefaultOf[k]}
IsSigned(n, size) == n \in Int /\ -size <= 2 * n /\ 2 * n < size

(* The values are those of the Java types: jshort, and jlong for size_t    *)
(* and durations.                                                          *)
ASSUME ValuesAssumption ==
  /\ DOMAIN OtherValues = Kinds /\ DOMAIN DefaultOf = Kinds
  /\ \A v \in Values("short") : IsSigned(v, 65536)
  /\ \A v \in Values("size") \cup Values("duration") : IsSigned(v, Word)
  /\ \A v \in Values("optionalDuration") \ {None} : IsSigned(v, Word)

Peer(s) == CHOOSE r \in Sockets : r # s

Streams == {"incoming", "outgoing"}
Fields  == Streams \cup {"other"}
MaxShort  == 32767
MaxUint16 == 65535
Uint16  == 0..MaxUint16
Classes == {"DcSctpOptions", "Metrics"}

VARIABLES
  kind,   \* the kind of the option "other"
  mem,    \* mem[p]: the struct at address p, or None
  lost,   \* the addresses of structs whose Java constructor failed
  object, \* object[j]: the class and the `ptr` of a Java object, or None
  shown,  \* shown[j]: what options j were last set to, or were made of
  source, \* source[j]: the socket whose metrics j has
  socket, \* socket[s]: where the socket keeps its options, or None
  given,  \* given[s]: what the options s was created with showed then
  agreed  \* agreed[s]: the negotiated numbers of streams, or None

history == <<shown, source, given>>
vars == <<kind, mem, lost, object, socket, agreed, history>>

-----------------------------------------------------------------------------
(* Java values and native ones.                                            *)

Signed(n, size) == IF 2 * n >= size THEN n - size ELSE n

(* A jshort made a uint16_t, and back.                                     *)
ToUint16(short) == short % 65536
ToShort(n) == Signed(n, 65536)

(* A jlong made a size_t, and back.                                        *)
ToSize(long) == long % Word
ToLong(n) == Signed(n, Word)

(* A jlong made a DurationMs: the bits that an int32_t has no room for are *)
(* lost.  The way back, to the wider type, keeps the number.               *)
ToDuration(long) == Signed(long % DurationWord, DurationWord)

(* Mutant: null taken for 0.                                               *)
ToOptionalNumber(boxed) == IF boxed = None THEN {0} ELSE {boxed}

(* An Integer or Long made an optional, and back.                          *)
ToOptional(boxed) == {boxed} \ {None}

FromOptional(optional) ==
  IF optional = {} THEN None ELSE CHOOSE n \in optional : TRUE

(* What a setter makes of its argument, and a getter of what is stored.    *)
ToNative(k, v) ==
  CASE k = "plain"    -> v
    [] k = "short"    -> ToUint16(v)
    [] k = "size"     -> ToSize(v)
    [] k = "optional" -> ToOptional(v)
    [] k = "duration" -> ToDuration(v)
    [] k = "optionalDuration" -> {ToDuration(n) : n \in ToOptional(v)}

FromNative(k, n) ==
  CASE k = "short" -> ToShort(n)
    [] k = "size"  -> ToLong(n)
    [] k \in {"optional", "optionalDuration"} -> FromOptional(n)
    [] k \in {"plain", "duration"} -> n

(* The Java values that the native type of kind k can hold.                *)
Fits(k, v) ==
  /\ k = "duration" => IsSigned(v, DurationWord)
  /\ k = "optionalDuration" => v = None \/ IsSigned(v, DurationWord)

KindOf(f) == IF f = "other" THEN kind ELSE "plain"

(* What the getters return of the struct at address p.                     *)
Getters(p) == [f \in Fields |-> FromNative(KindOf(f), mem[p][f])]

-----------------------------------------------------------------------------
IsA(j, class) == object[j] # None /\ object[j].class = class

OtherNative == {ToNative(kind, v) : v \in Values(kind)}

TypeOK ==
  /\ kind \in Kinds
  /\ lost \subseteq Ptrs
  /\ object \in [Objects -> [class : Classes, ptr : Ptrs] \cup {None}]
  /\ socket \in [Sockets -> Ptrs \cup {None}]
  /\ agreed \in [Sockets -> [incoming : Uint16, outgoing : Uint16, peer : 0..3] \cup {None}]
  /\ LET Options == [incoming : Uint16, outgoing : Uint16, other : OtherNative] IN
     /\ \A j \in Objects : IsA(j, "DcSctpOptions") => mem[object[j].ptr] \in Options
     /\ \A s \in Sockets : socket[s] # None => mem[socket[s]] \in Options

Init ==
  /\ kind \in Kinds
  /\ mem = [p \in Ptrs |-> None]
  /\ lost = {}
  /\ object = [j \in Objects |-> None]
  /\ shown = [j \in Objects |-> None]
  /\ source = [j \in Objects |-> None]
  /\ socket = [s \in Sockets |-> None]
  /\ given = [s \in Sockets |-> None]
  /\ agreed = [s \in Sockets |-> None]

(* A struct is copied to a new address.                                    *)
Allocate(p, struct) ==
  /\ mem[p] = None
  /\ mem' = [mem EXCEPT ![p] = struct]

(* The Java constructor that was given the address p fails.                *)
Lose(p) ==
  /\ Cardinality(lost) < MaxFailures
  /\ lost' = lost \cup {p}

(* A struct is copied to a new address, which a Java object gets, if its   *)
(* constructor succeeds; the object is expected to show `view`.            *)
Wrap(j, class, struct, view, s) ==
  \E p \in Ptrs :
    /\ object[j] = None
    /\ Allocate(p, struct)
    /\ \/ /\ object' = [object EXCEPT ![j] = [class |-> class, ptr |-> p]]
          /\ shown' = [shown EXCEPT ![j] = view]
          /\ source' = [source EXCEPT ![j] = s]
          /\ UNCHANGED lost
       \/ Lose(p) /\ UNCHANGED <<object, shown, source>>
    /\ UNCHANGED <<kind, socket, given, agreed>>

-----------------------------------------------------------------------------
(* DcSctpOptions.                                                          *)

Default == [incoming |-> MaxUint16, outgoing |-> MaxUint16, other |-> DefaultOf[kind]]

(* new DcSctpOptions()                                                     *)
NewOptions(j) ==
  Wrap(j, "DcSctpOptions", [f \in Fields |-> ToNative(KindOf(f), Default[f])], Default, None)

(* Mutant: the range taken to be one larger.                               *)
AcceptedOffByOne(f, v) == f \in Streams => v >= 0 /\ v <= 65536

(* The Java methods and the native ones behind them, which are public,     *)
(* too, refuse the same numbers of streams with an exception.              *)
Accepted(f, v) == f \in Streams => v >= 0 /\ v <= MaxUint16

(* setAnnouncedMaximumIncomingStreams and every other setter               *)
SetOption(j, f, v) ==
  /\ IsA(j, "DcSctpOptions")
  /\ Accepted(f, v)
  /\ mem' = [mem EXCEPT ![object[j].ptr][f] = ToNative(KindOf(f), v)]
  /\ shown' = [shown EXCEPT ![j][f] = v]
  /\ UNCHANGED <<kind, lost, object, source, socket, given, agreed>>

-----------------------------------------------------------------------------
(* Sockets.                                                                *)

(* Mutant: the socket keeps the address of the application's options.      *)
CreateByReference(s, j) ==
  /\ IsA(j, "DcSctpOptions")
  /\ given[s] = None
  /\ socket' = [socket EXCEPT ![s] = object[j].ptr]
  /\ given' = [given EXCEPT ![s] = Getters(object[j].ptr)]
  /\ UNCHANGED <<kind, mem, lost, object, shown, source, agreed>>

(* create_ passes *options, of which the socket makes a copy.  If the      *)
(* constructor of NativeSctpSocket fails, create() may be tried again.     *)
Create(s, j) ==
  /\ IsA(j, "DcSctpOptions")
  /\ given[s] = None
  /\ \E p \in Ptrs :
       /\ Allocate(p, mem[object[j].ptr])
       /\ \/ /\ socket' = [socket EXCEPT ![s] = p]
             /\ given' = [given EXCEPT ![s] = Getters(object[j].ptr)]
             /\ UNCHANGED lost
          \/ Lose(p) /\ UNCHANGED <<socket, given>>
  /\ UNCHANGED <<kind, object, shown, source, agreed>>

(* Mutant: the new object gets the address of the socket's own options.    *)
GetOptionsByReference(s, j) ==
  /\ socket[s] # None
  /\ object[j] = None
  /\ object' = [object EXCEPT ![j] = [class |-> "DcSctpOptions", ptr |-> socket[s]]]
  /\ shown' = [shown EXCEPT ![j] = given[s]]
  /\ UNCHANGED <<kind, mem, lost, source, socket, given, agreed>>

(* options()                                                               *)
GetOptions(s, j) ==
  /\ socket[s] # None
  /\ Wrap(j, "DcSctpOptions", mem[socket[s]], given[s], None)

Smaller(m, n) == IF m < n THEN m ELSE n

(* The sockets connect, each with what it and its peer announced; the one  *)
(* that gets the state cookie recognises this implementation (1) in it.    *)
Connect(initiator) ==
  /\ \A s \in Sockets : socket[s] # None /\ agreed[s] = None
  /\ agreed' = [s \in Sockets |->
       LET mine == mem[socket[s]]  theirs == mem[socket[Peer(s)]] IN
       [incoming |-> Smaller(mine["incoming"], theirs["outgoing"]),
        outgoing |-> Smaller(mine["outgoing"], theirs["incoming"]),
        peer |-> IF s = initiator THEN 1 ELSE 0]]
  /\ UNCHANGED <<kind, mem, lost, object, socket, history>>

(* getMetrics(), null unless the socket is connected.                      *)
GetMetrics(s, j) ==
  /\ socket[s] # None
  /\ agreed[s] # None
  /\ Wrap(j, "Metrics", agreed[s], None, s)

(* SctpImplementation_members::map                                         *)
SctpImplementation == <<"kUnknown", "kDcsctp", "kUsrSctp", "kOther">>

(* Mutant: the getter of the outgoing streams made from the other.         *)
NegotiatedCopied(j, f) == ToShort(mem[object[j].ptr]["incoming"])

(* getNegotiatedMaximumIncomingStreams and ...OutgoingStreams: a uint16_t  *)
(* returned as a jshort.                                                   *)
Negotiated(j, f) == ToShort(mem[object[j].ptr][f])

(* getPeerImplementation                                                   *)
PeerImplementation(j) == SctpImplementation[mem[object[j].ptr].peer + 1]

-----------------------------------------------------------------------------
(* Cleaning actions.                                                       *)

(* A DcSctpOptions or Metrics object is collected, its struct deleted.     *)
Destruct(j) ==
  /\ object[j] # None
  /\ mem' = [mem EXCEPT ![object[j].ptr] = None]
  /\ object' = [object EXCEPT ![j] = None]
  /\ shown' = [shown EXCEPT ![j] = None]
  /\ source' = [source EXCEPT ![j] = None]
  /\ UNCHANGED <<kind, lost, socket, given, agreed>>

(* The socket object is collected and the socket destroyed.                *)
DestroySocket(s) ==
  /\ socket[s] # None
  /\ mem' = [mem EXCEPT ![socket[s]] = None]
  /\ socket' = [socket EXCEPT ![s] = None]
  /\ UNCHANGED <<kind, lost, object, agreed, history>>

Next ==
  \/ \E s \in Sockets : Connect(s) \/ DestroySocket(s)
  \/ \E j \in Objects :
       \/ NewOptions(j) \/ Destruct(j)
       \/ \E f \in Streams, n \in Counts : SetOption(j, f, n)
       \/ \E v \in OtherValues[kind] : SetOption(j, "other", v)
       \/ \E s \in Sockets : Create(s, j) \/ GetOptions(s, j) \/ GetMetrics(s, j)

Spec == Init /\ [][Next]_vars

-----------------------------------------------------------------------------
Owners(p) ==
  {j \in Objects : object[j] # None /\ object[j].ptr = p}
    \cup {s \in Sockets : socket[s] = p}

(* Structs are not shared, no `ptr` dangles, and a struct is leaked only   *)
(* by a constructor that failed after the address was released to it: an   *)
(* address in use belongs to one Java object or one socket, or is lost.    *)
OneOwner ==
  \A p \in Ptrs :
    Cardinality(Owners(p)) = IF mem[p] = None \/ p \in lost THEN 0 ELSE 1

(* options() returns "the options it was created with": nothing done to    *)
(* the object given to create(), or to one that options() returned, or the *)
(* collection of either, changes what the getters then returned.           *)
OptionsOfCreation ==
  \A s \in Sockets : socket[s] # None =>
    mem[socket[s]] # None /\ Getters(socket[s]) = given[s]

(* The getters of an options object return what its setters were last      *)
(* given, or what the socket it came from was created with, negative and   *)
(* null, too, if the native type has room for it.  A longer duration is    *)
(* not read back: the setter has kept its lower 32 bits.                   *)
ReadsBack ==
  \A j \in Objects : IsA(j, "DcSctpOptions") =>
    /\ mem[object[j].ptr] # None
    /\ \A f \in Fields : Fits(KindOf(f), shown[j][f]) =>
         Getters(object[j].ptr)[f] = shown[j][f]

(* The number of streams that s may receive on, and send on, by what both  *)
(* applications had set.                                                   *)
Incoming(s) == Smaller(given[s]["incoming"], given[Peer(s)]["outgoing"])
Outgoing(s) == Smaller(given[s]["outgoing"], given[Peer(s)]["incoming"])

(* Metrics of a connection, that has ended, too, tell the numbers of       *)
(* streams that follow from what both applications had set, as long as a   *)
(* short can; and take the peer for nothing else than dcsctp.              *)
MetricsOfNegotiation ==
  \A j \in Objects : IsA(j, "Metrics") =>
    LET s == source[j] IN
    /\ Incoming(s) <= MaxShort => Negotiated(j, "incoming") = Incoming(s)
    /\ Outgoing(s) <= MaxShort => Negotiated(j, "outgoing") = Outgoing(s)
    /\ PeerImplementation(j) \in {"kUnknown", "kDcsctp"}

(* Metrics tell "the number of negotiated incoming and outgoing streams",  *)
(* whatever it is.                                                         *)
MetricsAsDocumented ==
  \A j \in Objects : IsA(j, "Metrics") =>
    /\ Negotiated(j, "incoming") = Incoming(source[j])
    /\ Negotiated(j, "outgoing") = Outgoing(source[j])
=============================================================================
