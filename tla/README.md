# dcsctp4j in TLA+

A verification development kept beside dcsctp4j, the Java binding of WebRTC's
user-space SCTP implementation `dcsctp`. The binding itself is small: Java classes that
hold a C++ pointer, C++ classes that hold Java references, and conversions between the
two. What is hard about it is everything the two runtimes do at the same time: threads
that call a native object that is not thread safe, callbacks into Java in the middle
of such calls, a garbage collector and a cleaner thread that destroy C++ objects,
class initialisation that runs in the middle of class initialisation, timers that fire
while somebody else resets them, values converted while their owners go on changing them.
Those are the subjects of the models. dcsctp is not part
of the repository; it appears only through the interface that the binding uses.

Paths below are relative to the repository; `J/` stands for
`src/main/java/org/jitsi/dcsctp4j/` and `N/` for `src/main/native/`.

## Inventory

| Component | Code | State | Operations |
|---|---|---|---|
| Sockets: lifetime, monitors, callbacks | `J/DcSctpSocketFactory.java`, `J/DcSctpSocketCallbacks.java`, `N/dcsctp4j.cpp`, `N/native_sctp_socket.cpp`, `N/wrapped_objects.*` | the C++ `NativeSctpSocket` behind `ptr`; the fields `callbacks` and `packetObserver`; weak references in C++ to those two and a global one to every `Timeout`; the socket's monitor; the registration with the cleaner | `create`, 16 synchronized methods, the callbacks made inside them, `destruct` on the cleaner thread |
| Loading | `J/DcSctp4j.java`, static blocks of `DcSctpSocketFactory` and `DcSctpOptions`, `JNI_OnLoad` in `N/dcsctp4j.cpp`, `LogProxy.register` | initialisation state of the classes, registered native methods, the log proxy | first use of a class by any thread, `JNI_OnLoad`, failures |
| Timers | `J/Timeout.java`, `WrappedTimeout` in `N/wrapped_objects.cpp`, `handleTimeout`, `TestTimeout` and the executor in `DcSctp4jTest.java` | dcsctp's timer and its generation; the Java timeout's identifier and scheduled task | start, stop, restart, a task that comes due, `handleTimeout` |
| Stream reset notifications | `resetStreams` and the three callbacks on resets in `N/wrapped_objects.cpp` | the phase of the association; accepted and outstanding requests; what the applications were told | request, answer, notification, begin and end of the association |
| Options and metrics | `J/DcSctpOptions.java`, `J/Metrics.java`, `N/mapped_objects.cpp`, `options_`, `getMetrics_` | C++ structs, each behind the `ptr` of a Java object, inside a socket, or lost with a failed constructor | construct, set, copy into a socket, copy out, read, destruct |
| Messages, send options, statuses | `J/DcSctpMessage.java`, `J/SendOptions.java`, `J/SendStatus.java`, `send`, `sendMany` and their conversions in `N/native_sctp_socket.cpp`, `OnMessageReceived` and `OnError` in `N/wrapped_objects.cpp` | the application's byte arrays; the messages that a call has converted so far; C++ copies of messages in dcsctp's send buffer; the statuses and errors reported | send one or many, convert the next message, overwrite an array, connect, shut down, close, deliver, discard |
| Enumerations | `N/enum_members.*`, the Java enums | constant tables | look-up |
| Log messages | `J/LogProxy.java`, `N/log_proxy.cpp` | the logger's level; the severities examined so far; the minimum severity of the one proxy | change the level, examine a severity, register, log |
| JNI helpers, interfaces | `N/extra_classes.h`, `J/PacketObserver.java`, ... | none | accessors |
| Build scripts | `CMakeLists.txt`, `pom.xml`, `resources/` | - | - |

How they interact: the application calls a socket's Java method, which takes the socket's
monitor and enters C++ with the pointer; dcsctp calls back, through a weak reference, into
the application, which may call sockets again (`J/DcSctpSocketCallbacks.java` says from
which callbacks); dcsctp asks for timeouts in the callback `createTimeout`, keeps a global
reference to each, and starts and stops them inside any call; the application's executor
calls `handleTimeout`. When the Java socket is unreachable the cleaner thread - one for
all classes, `DcSctp4j.CLEANER` - runs `destruct`. All of it rests on the classes being
initialised and bound, which the first use of any of them brings about.

What makes each component correct:

* Sockets: no native code of a socket runs before its construction, during or after its
  destruction; one thread at a time; every Java object that native code calls still
  exists; threads do not block one another for ever; what is dropped gets destroyed.
* Loading: an object of the library implies a completely loaded library; all threads agree
  whether it is loaded; every constructor ends.
* Timers: an identifier is reported after its own delay and not before; a running timer
  expires; no forgotten task is left over.
* Stream resets: what a callback says has happened has happened; each request is reported
  once, in spite of retransmissions, and eventually.
* Options: a struct has exactly one owner; a socket's options are those it was created
  with; Java reads back what it set, if the native type has room for it, and what was negotiated,
  if a short has.
* Messages: a status tells what becomes of its message, in a batch, too; what arrives is
  what was in the array when the call converted it, in order where asked for, and eventually.
* Log messages: what the logger has wanted all along reaches it; nothing else does that it
  never wanted.

## Modules

| Module | What it is |
|---|---|
| `SocketOwnership` | abstract: the contract of a native socket - one user at a time, between construction and destruction, the last user frees it |
| `NativeSocket` | monitors, call stacks with callbacks, reachability, collection, cleaner |
| `MCNativeSocket` | the instances of `NativeSocket` for TLC |
| `NativeSocketProofs` | its inductive invariant and the safety theorems; calls in an order of the sockets do not deadlock |
| `NativeSocketRefinement` | the proof that `NativeSocket` implements `SocketOwnership` |
| `ClassInit`, `ClassInitProofs` | class initialisation and `JNI_OnLoad` |
| `Logging`, `LoggingProofs` | composes `ClassInit` with the log proxy, the logger and its level |
| `Timers`, `TimersProofs` | dcsctp's timer, Java timeouts, an executor thread and another one |
| `StreamReset`, `StreamResetProofs` | two ends of an association, resets and their notifications |
| `SocketOptions`, `MCSocketOptions`, `SocketOptionsProofs` | ownership and copies of options and metrics, conversions of their fields, negotiation |
| `MessageChannel` | abstract: what two applications may rely on - messages judged one by one, delivered as they were sent, in order |
| `Messages`, `MCMessages`, `MessagesProofs` | messages between two applications, send options, statuses, errors; shown to implement `MessageChannel` |

Definitions whose comment begins with "Mutant" are the variants of a definition, with a
plausible mistake in them, that show that a property can fail; no specification uses them.

### NativeSocket

| Model | Code |
|---|---|
| `stack[t]` | the nested library calls of a thread. A frame is at `wait` (blocked on `synchronized`), `native`, `on` (an `On...` callback, which may call the library), `query` (a callback, an observer's or a timeout's method, which may not), `create` or `createQuery` (inside `create_`, which holds no monitor) |
| `owner[s]` | the monitor of the Java `NativeSctpSocket` |
| `native[s]` | the C++ object: `building` from `create_` on, `live` when the Java wrapper exists, `deleting` while the destructor runs |
| `alive`, `appRefs`, `linked`, `Reachable` | the Java heap: the socket, its callbacks, its observer, a `Timeout` standing for all of the socket's, and the application's `SocketWrapper` ("box"), which the callbacks and timeouts of the test refer to and which refers back to the socket once `wrapper.socket = ...` was executed (`Link`) |
| `globals` | `WrappedTimeout`'s `global_java_ref` |
| `registered`, `queued` | `CLEANER.register(this, () -> destruct(ptr))` and actions that wait for the cleaner thread |
| `aborted` | `getObj` met a cleared weak reference: its exception would have to cross dcsctp, which is compiled without exceptions |

`CreateCall`, `CreateQuery`, `CreateQueryReturn`, `CreateReturn` are `create` with the
callbacks of dcsctp's constructor. `Call`, `Enter`, `Return` are any synchronized method:
the methods differ in what dcsctp does inside, which is any sequence of `Notify` and
`Query` with `CallbackReturn`. `Forget`, `Link`, `Unlink` are the application; `Collect`
the collector; `CleanerBegin` and `CleanerEnd` the destructor, which stops timers and so
calls Java, without the monitor.

The JVM's part is external: re-entrant monitors, `this` and the arguments of a native
call being reachable during the call, a collector that takes any unreachable object at
any time, and the cleaner's single thread.

### ClassInit

The JVM's initialisation procedure (Java Language Specification, 12.4.2) for `DcSctp4j` and the
classes whose static block calls `DcSctp4j.init()`: `cls`, `by`, `running`.
`JNI_OnLoad` runs on the thread that executes the static block of `DcSctp4j`; it looks up
and so initialises each class and then registers its native methods (`Bind`). A request by
the thread that is already initialising a class is recursive and goes on (`Ready`); any
other thread waits.

### Logging

`Logging` EXTENDS `ClassInit`: `LoadingStep` is any of its steps, and the one that installs
the proxy also needs the result of `getEffectiveLoggingSeverity`, whose loop asks the Java
logger severity by severity (`Examine`; `examined` and `broadest` are its local variables).
`SetLevel`, the application's, may come between any two of its questions. `Log` is a
message of dcsctp: native code drops what is below `minimum`, the Java logger filters the
rest by the level it has then. Only threads that have an object of the library are in
native code. `steadily` and `once` are history variables: the severities the logger has
wanted all the time since it was first asked, and those it wanted at some time while it was
asked.

### Timers

One timer a socket stands for the timer of the same number in every socket: dcsctp
identifies the start of a timer by its number and its generation. `StartTimer`, `RestartTimer`,
`StopTimer` are what dcsctp does under the monitor; the Java methods they call take several
steps (`Cancel`, `SetId`, `Schedule`), which is where the executor's thread can come in
between. `RunTask`, `ReadId`, `HandleTimeout` are `TestTimeout.run`: the field
`timeoutId` is read before the monitor is taken. `Expire` and `Ignore` are dcsctp's decision
whether the identifier is current.

### StreamReset

`sent` and `answers` hold all requests and answers of an end in order; since any of them may
be received at any time, once or several times, they are the network as well. `JavaCallback` is the
table of which Java method `WrappedSocketCallbacks` calls for which callback of dcsctp.
`phase` is each end's view of the association and `supported` whether resets were negotiated;
they decide the status of `resetStreams`, a number that `ResetStreamsStatus` turns into a
Java constant. `accepted` collects the streams for which the application was told `kPerformed`.

`PerformedMeansReset` and `ReportedOnce` are about the ends that reset streams (`Resetters`). They say nothing of
an end that resets none, and that end is told too much: when its peer resets a stream, it hears `OnStreamsResetPerformed`,
because `JavaCallback` sends two of dcsctp's callbacks to that method. `reset_both_sides` shows where that
contradicts the documentation. `RefusedHasNoEffect` quantifies over both ends.

### SocketOptions

`mem` is the C++ heap, `object[j]` the Java objects with their `ptr`, `socket[s]` where a
socket keeps its copy. An address is reused as soon as it is free. `Wrap` is what
`new DcSctpOptions()`, `options()` and `getMetrics()` have in common: a struct is released to
a Java constructor, which may fail (`Lose`), and then nobody deletes it.

The two announced numbers of streams are checked and negotiated. All other options are
stored by their setter and returned by their getter, independently of one another, so one
option named "other", whose `kind` is chosen in `Init`, stands for each of them; `ToNative` and
`FromNative` are the conversions by kind, with their widths: `Word` is the number of values of a `size_t`
and of Java's `long`, `DurationWord` that of a `DurationMs`, which is an `int32_t` in dcsctp. The setters of durations
narrow their `jlong` to it, and what does not fit (`Fits`) is read back as another duration; `ReadsBack` therefore
speaks of values that fit. `Negotiated` is the `jshort` that Java gets: `MetricsOfNegotiation` compares it as it
is, for the numbers a short can hold, and `MetricsAsDocumented` for all.
The heap and these conversions are in one module since what a getter returns depends on both.
`shown`, `source` and `given` are history variables: what the application expects to read.

### Messages

`send` and `sendMany` hold the monitor of their socket from beginning to end, so from `Begin`, while the call
converts its messages (`call`) and dcsctp takes them (`batch`), nothing else happens to the socket: the
other steps (`SocketStep`) wait until the socket is `Idle`, packets that arrive included. What does run in between
is another thread of the application, which writes into arrays that it is sending or has sent (`Overwrite`),
during the call and long after it.

`Convert` makes the next message of the call a C++ message, as the loop of `sendMany_` does; `Submit` makes
the options after the last one and hands all of it to dcsctp. `Overwrite` may come between any two of these steps, so
the messages of one batch may show an array at different moments. `Take` lets dcsctp
judge a message (`Verdict`, external: too large, empty, no room, shutting down), converts the verdict
to the status that the call will return for it, and calls `OnError` if it is refused. `buffer` holds
the C++ messages with their copies of the payload, their options, and the number that each has in the
order of sending; `Read` would find a changed array if a message only referred to it. `Deliver`
respects the order of ordered messages of a stream; `Discard` gives up messages with a limit.

The bytes of one array are not copied at one moment, either. The contents of an array in the model stand for any
one byte of it; that the bytes of a message are from the same moment is not claimed, and is not true of an array
that is written while it is converted.

`sent`, what the application asked for with the contents that each array had when its message was converted (`Offer`),
and `told`, `errors`, `received` and `discarded` are histories that the properties compare. `StatusTellsFate`
says more than that statuses are right: an accepted message has one fate at any time - it is buffered, given up,
or delivered, once.

`MessageChannel` is the contract. There is no batch in it, and no conversion: a message is
sent, with a status, and then delivered or lost. `ImplementsChannel` maps the C++ buffer to the messages under way and
lets a message be sent in the channel when dcsctp takes it, with the contents its array had
at the moment of its conversion, which lies within the call. That sendMany is one send after another ("identical
semantics to Send"), that writes after the conversion of a message are not seen in it, that streams survive two
conversions, and that C++ options keep the order and lose no guarantee, are what makes that a refinement.

`OptionsOfSend` and `ConvertSendOptions` are the two ways to the C++ `SendOptions`: `send_` reads
the boxed numbers while it holds them, `sendMany_` after their local references were
deleted, which is undefined: any number, or the end of the process (`Stale`, `crashed`). Both narrow a lifetime to
a `DurationMs` (`ToDuration`) and make an unsigned `size_t` of a number of retransmissions (`ToSize`).

A message's ppid is treated as its payload is, and is part of it. An association is not set up again after
its end. Lifecycle identifiers and their events are left out.

## Runs

| Run | Question | Result |
|---|---|---|
| `native_lifetime` | two sockets, callbacks that call their own socket and the other one in one direction only, two threads, every kind of object but the observer droppable | `NoUseAfterFree`, `OneThreadInside`, `ReferencesResolve`, `LinkedSocketStays`, `NoWaitCycle`, the inductive invariant `IInv`, the refinement `ImplementsOwnership` and, under fairness, `Reclaimed` hold |
| `native_crosscalls` | callbacks that call any socket | `NoWaitCycle` fails (finding) |
| `loading` | three threads that all begin with the factory; loading succeeds, throws or ends in an error; the logger's level changes at any time | `ObjectsMeanLoaded`, `NeverTooEarly`, `SameOutcome`, `SteadilyWantedArrives`, `PublishedWasWanted` and, under fairness, `ConstructorsEnd` hold |
| `init_early` | two threads that begin with different classes | `NeverTooEarly` fails (finding) |
| `init_deadlock` | the same, under fairness | `ConstructorsEnd` fails (finding) |
| `timers` | two sockets on one executor, one of them called by another thread, too | `ConfinedNeverEarly`, `OneTask`, `RunningIsArmed` and, under fairness, `Expires` hold |
| `reset_one_side` | only one end resets streams, before, during and after the association | `PerformedMeansReset`, `ReportedOnce` (for that end), `RefusedHasNoEffect` (for both) and, under fairness, `ResultsArrive` hold |
| `reset_both_sides` | both ends do | `PerformedMeansReset` fails (finding) |
| `options` | two sockets, two Java objects, counts inside and on both sides of the range, other options of every kind, durations that fit and that do not, a failing constructor | `OneOwner`, `OptionsOfCreation`, `ReadsBack`, `MetricsOfNegotiation` hold |
| `options_metrics` | two sockets with default options | `MetricsAsDocumented` fails (finding) |
| `messages` | empty, fitting and large messages, alone and in batches, unordered and limited ones, while arrays are overwritten, between the conversions of a batch, too, and the association ends | `StatusTellsFate`, `ErrorsMatchStatuses`, `DeliveredAsSent`, `OrderedInOrder`, the refinement `ImplementsChannel` and, under fairness, `UnlimitedArrive` hold |
| `messages_many` | `sendMany` with a lifetime | `OptionsAsGiven` fails (finding) |

One passing run of each module also checks its type invariant, `TypeOK` (`LogTypeOK` for what `Logging` adds).

### Bounds

* `MaxDepth` (calls nested on a thread): a call from a callback, of the same socket or the other one, needs two frames. The theorems hold for any depth.
* `Forgettable` (kinds of object the application may drop): all but the observer, which is passed, held and reached
  in the same way as the callbacks; the theorems are for any kinds.
* Two threads are what a race and a circle of two monitors take; a third thread makes
  `loading` have two waiting threads at once.
* `MaxGen` (starts of a timer): three make a restarted timer restart again while the first
  task is still on its way.
* `MaxRequests`: with three, a repeated first answer can arrive while the third request is
  outstanding and a second one lies between them.
* `Levels`: 500 makes every severity loggable, 1000 only errors, 900 lies between, and
  `Off` makes none loggable; 800 would only be another level in between.
* `Ptrs`: three addresses are fewer than two sockets and two objects could own, so they are used again and again;
  with `MaxFailures` one of them may be lost. `Counts` are
  -1, 65536 and 32767, the largest that a short can tell; the values of other options are those at which the conversions
  differ (negative ones, null, and of durations one that fits and one that does not). `Word` is 16 in place of 2^64,
  `DurationWord` 8 in place of 2^32; the theorems are for any widths.
* `Capacity`, `MaxMessages`, `MaxBatch`: a batch of two meets a buffer that has room for
  one, and a third message makes the order of batches and single messages matter. Streams are
  the smallest and the largest short, arrays one of each size, options none, or unordered with a limit; the theorems
  are for any options, ordered ones with a limit included.
* Symmetry is used for threads in `native_crosscalls` and for addresses, objects and sockets in
  `options`, in runs without liveness only.

### Fairness

* `NativeSocket`: the collector eventually collects a socket that stays unreachable, and
  the cleaner thread eventually takes and finishes an action. Nothing is assumed of the
  application's threads. (A JVM is free not to collect while memory is plentiful; the
  property says that nothing but the collector stands in the way.)
* `ClassInit`, `Logging`: a thread that can go on with loading does. No thread needs to begin or to
  log, and nobody needs to set a level.
* `Timers`: calls finish and release the monitor; delays run out; the executor gets to a
  task that is due and to a monitor that is free again and again - a ScheduledExecutorService
  keeps its queue in order of time, so a task cannot be overtaken for ever. dcsctp
  need not start anything.
* `StreamReset`: handshakes end, and dcsctp retransmits requests and answers until they
  arrive. The application need not reset anything.
* `Messages`: a call goes on with its conversions and dcsctp with the messages it was given (weak fairness). The handshake and the
  arrival of some message are strongly fair, since they are possible only between two calls of the application, which
  may go on calling for ever, with empty lists for instance: the thread that receives packets gets the socket's monitor
  some time, and dcsctp retransmits until a message arrives. The application need not send or close anything.

Where a run may stop (everything dropped and deleted, all constructors done, no requests left
within the bound) its configuration says so; the timers' run also checks for deadlock.

## Proofs

`NativeSocketProofs` proves for any set of sockets and threads, any depth of nesting, any
relation `MayCall` and any `Forgettable`:

* `TypeCorrect`: `Spec => []TypeOK`
* `Invariance`: `Spec => []IInv`
* `CallsFindLiveSocket`, `MutualExclusion`, `WeakReferencesResolve`, `LinkedSocketsStay`:
  `Spec => []NoUseAfterFree`, and so on for the other three safety properties.

The assumptions are those of `NativeSocket`: neither `NoThread` nor the cleaner thread is one of the
application's threads, `MayCall` relates sockets, `Forgettable` are kinds, and `MaxDepth`
is a natural number.

None of the properties is inductive. That a waiting thread finds a live socket follows from
the heap: its frame keeps the Java socket reachable, what is reachable has not been
collected (`HeapIsSound`), the Java socket exists only while the native one is live, and a
queued cleaning action means it is gone (`WrapperInsideNativeLife`). That two threads are not
inside follows from `MonitorsMatchFrames` (the owner of a monitor is the thread with a
frame beyond `wait`), which a return preserves only because frames below the innermost one
are in `On...` callbacks (`CallsNestInNotifications`). Threads inside `create` hold no
monitor, and `CreationIsExclusive` says they are alone. References resolve because native code
runs only inside a frame, whose Java socket holds the callbacks and the observer, or
inside `create`, whose arguments they are; the timeout is held by the global reference that
the same invariant keeps until the destructor ends. `IInv` is the conjunction; the proof shows
that `Init` implies it and, action by action and conjunct by conjunct, that `Next` preserves
it, with lemmas about stacks (what pushing, moving and popping a frame does to `Occupies`)
and about reachability.

`NativeSocketProofs` also proves `OrderedCallsDoNotDeadlock`: if `CallsFollow(R)`, that is, `R` is a
transitive and well-founded relation on the sockets and callbacks only call their own socket or
one that follows it in `R`, then `Spec => []NoWaitCycle`. The invariant is that the sockets on a
stack are in that order (`OrderedStacks`). Of the threads of a supposed circle take one whose innermost
socket is minimal; the owner of that monitor is beyond it and waits for a smaller one.
`native_lifetime` is an instance, and `native_crosscalls` shows that something must be assumed.

`NativeSocketRefinement` proves `Spec => ImplementsOwnership`: with `Life` and `User` as the mapping,
`CreateReturn` is `Open`, `Enter` of a free monitor and `CleanerBegin` are `Take`, an
outermost `Return` is `Leave`, `CleanerEnd` is `Free`, and all else stutters. That the
cleaner finds the socket without a user is where mutual exclusion and reachability meet.

`ClassInitProofs` (any threads, classes, first uses, outcomes): `ClassesTypeCorrect` and
`ObjectsHaveLibrary` (`ObjectsMeanLoaded`), whichever classes threads begin with. The invariant
`LoadInv` says that the classes being initialised are the blocks on the stacks, each once, and
what is bound and registered at each point of the static block of `DcSctp4j`. With the
hypothesis `FirstUses = {U}`: `OneClassNeverTooEarly` and `OneClassSameOutcome`, since then
`DcSctp4j` is initialised only inside the initialisation of `U` (`Within`), which ends as it has
(`Outcome`). The runs `init_early` and `init_deadlock` show that the hypothesis is needed.

`LoggingProofs`: `LoadsAsClassInit` carries `Spec` and `LoadInv` of `ClassInit` over to the
composition; `LogTypeCorrect`; `SteadilyWantedIsPublished` and `OnlyWantedIsPublished` prove the
two action properties for any set of levels. The invariant `Asked` relates the loop's
result to the severities examined and to the history, `WantedSoFar` the history to the level. That
the broadest severity lets through everything above it rests on severities being numbered in
the order of their levels.

`TimersProofs` (any sockets, any `Shared`, any number of starts): `TimersTypeCorrect`,
`ConfinedExpiresInTime` (`ConfinedNeverEarly`), `AtMostOneTask` (`OneTask`) and `RunningStaysArmed`
(`RunningIsArmed`). For a socket that only the executor calls, `Confined` says that whenever the
executor is elsewhere the monitor is free and no Java call is left to do, so the future, the
identifier and the generation agree, and a task that begins is that of the last start. For
shared sockets `ScriptsAgree` says what the rest of a Java call will make of them.

`StreamResetProofs`: whichever ends reset streams, `ResetTypeCorrect` and `RefusedResetsHaveNoEffect`
(`RefusedHasNoEffect`); with the hypothesis `OneSide` that at most one end does, `EachReportedOnce` (`ReportedOnce`) and
`PerformedIsTrue` (`PerformedMeansReset`), for that end. The invariant says that an end is at most one
request ahead of the answers (`InStep`), that only accepted streams are requested (`RequestsWereAccepted`), and that
what was heard as performed, with an answer that has not arrived yet, does not exceed the peer's resets (`HeardOrUnheard`).

`SocketOptionsProofs`: `OptionsTypeCorrect`, `StructsHaveOneOwner` (`OneOwner`),
`OptionsStayThoseOfCreation` (`OptionsOfCreation`), `GettersReadBack` (`ReadsBack`), `MetricsAreTrue`
(`MetricsOfNegotiation`). The only hypothesis, `NoneIsNoStruct`, says that the value that stands for
"no struct" is not a struct. `Ownership` states `OneOwner` owner by owner, without cardinalities; a step
writes to one address, which has no other owner, so what others read stays. Lemmas show that each conversion of
a number and back returns it, for any width, if the number fits it (`RoundTripLemma`): of durations
and of negotiated numbers of streams the theorems say no more than that.

`MessagesProofs` (any arrays, contents, messages and options, any capacity of the send buffer, any number
of messages and sizes of batches): `MessagesTypeCorrect`, `StatusesTellFates` (`StatusTellsFate`),
`ErrorsTellRefusals` (`ErrorsMatchStatuses`), `ArrivesAsSent` (`DeliveredAsSent`), `ArrivesInOrder`
(`OrderedInOrder`) and `KeepsTheContract` (`ImplementsChannel`). The assumptions are those of `Messages`: streams
are Java shorts, arrays are not contents, the `Longs` are integers and `None` is none of them, widths are positive, bounds are natural numbers. The
properties need one another: that messages arrive in order rests on their having one fate
each (a message that was accepted earlier and has not been delivered is still buffered, where it holds back the later one, or
was given up), that rests on numbers in the buffer being unique (`NumbersAreUnique`), and both on what dcsctp
was told of a message (`Faithful`): its stream's number, the contents its array had at the moment of its conversion,
its order and the absence of limits (`CallIsFaithful` for the messages converted so far, `BatchIsFaithful` for those that dcsctp
is about to take, `BufferIsFaithful`).
`GivenUpHadLimits` says that only messages with a limit are given up. `Faithful` does not say that limits
arrive as they are, which is false (`messages_many`). Lemmas show that each conversion keeps its promise for all values:
shorts and `uint16_t` (`StreamLemma`), the two kinds of options, and verdicts, statuses and kinds of errors (`VerdictLemma`).
For the refinement, `Take` is `Send`, `Deliver` and `Discard` are `Deliver` and `Lose`, the end of the
association is `End`, and everything else stutters, the beginning of a call and its conversions included.

All invariants, action properties and refinements that passing runs check are proved, with the hypotheses named
above. Only model-checked are the liveness properties (`Reclaimed`, `ConstructorsEnd`, `Expires`, `ResultsArrive`,
`UnlimitedArrive`), which are beyond the prover, and the violations.

## Findings

* **Cross calls can deadlock** (`native_crosscalls`). Callbacks run with the socket's monitor
  held. Two threads, each in a callback of one socket and calling the other, wait for one
  another. The callbacks' documentation allows calls "into this library", not only into the
  same socket.
* **Loading races** (`init_early`, `init_deadlock`). When one thread first uses
  `DcSctpSocketFactory` and another one `DcSctpOptions`, the second may see a class that
  is initialised and not yet bound (an `UnsatisfiedLinkError`), or both may wait for one
  another's class for ever. With one common first class neither can happen
  (`loading`).
* **Resets by the peer are reported as one's own** (`reset_both_sides`).
  `WrappedSocketCallbacks::OnIncomingStreamsReset` calls the Java method `OnStreamsResetPerformed`, so an end also
  hears of streams that it never asked to reset.
* **`sendMany` reads deleted references** (`messages_many`). `convertSendOptions` stores the local
  references to the boxed lifetime and number of retransmissions, but the C++ objects that own them are
  temporaries, which delete them. `send` passes the same values as arguments and is correct.
* **Negotiated numbers of streams read negative** (`options_metrics`). They are `uint16_t` and returned as `short`: 65535, the default,
  reads as -1, and so does whatever is above 32767 as some negative number.

Seen in reading and modelling, with no run:

* `TestTimeout.run` reads `timeoutId` after it began and before it has the monitor. A restart in
  between makes it report the new identifier, at once: of a socket that other threads call,
  too, a timer may expire early (`NoEarlyExpiry` holds for confined sockets only). Only the test's implementation is
  concerned, but it is the only one in the repository, and an application will start from it.
* A duration of more than 2^31 - 1 ms is narrowed by its setter, and by `send`, without an exception, and reads back as
  another one. The application is told nothing of the range; no document promises otherwise, so `ReadsBack` states it.
* Line 92 of `DcSctp4jTest.java` gives the client's wrapper to the server's callbacks, so the
  server's timeouts are handed to the client's socket.
* The handler in the static block of `DcSctp4j` catches `Exception`, and a failing `JNI_OnLoad` ends
  in an `Error`, which is not logged.
* `N/log_proxy.cpp`, line 67, never deletes the local reference to the thread's number: a native
  call holds one for each message it logs until it returns.

## Not modelled, and why

* What dcsctp does between callbacks, and its counters: not in the repository.
* Application callbacks that throw: the exception would have to cross code compiled without exceptions,
  and the outcome is undefined there.
* An application's `Timeout.stop()` that blocks the cleaner thread: the models assume that
  callbacks return.
* A copy of the options made while another thread sets them field by field: no document promises
  an order, so every outcome in which each field has one of its values would be right.
* Failing allocations in C++, which end the process, and those of local references in JNI.
* `offset + length` in `receivePacket` and the like, which can wrap around: one expression on two arguments.
* Buffered-amount thresholds, stream priorities, lifecycle events: handed through without a decision.
* The tables of `SocketState`, `DelayPrecision` and `SendPacketStatus`: one-to-one, and nothing modelled
  depends on them.
* The formatting of log records; JNI helper classes and build scripts: no behaviour of their own.

## Plan

1. Done: the models of all components with state, the proofs of all their safety properties, and two
   refinements: `NativeSocket` of `SocketOwnership`, `Messages` of `MessageChannel`.
2. Left: timers of several identifiers in a socket; several associations of one socket, with messages,
   resets and metrics across a restart; callbacks that throw, once the repository says what they should do.
