# Formal models of arcal

TLA+ models of arcal, an implementation of the OMS Critical Abstraction Layer
(CAL) over DDS, and of lacal, its WebSocket bridge. Each module is a
translation of C++ sources; TLC checks small instances of it, and TLAPS proves
most of the invariants for every value of the constants. Paths in this file
and in the modules' comments are those of the repository.

Files: one specification per component (`DdsReader.tla`, which implements
`AbstractReader.tla`; `AsbConnection.tla`; `CalConfig.tla` over `Uuid.tla`;
`LacalServer.tla`; `OwpServer.tla` and `Protocol.tla`, together in `OwpText.tla`; `MessageCodec.tla` over
`CdrCodec.tla`, `JsonCodec.tla` and `Accessors.tla`; `Demos.tla`, which composes
`AmtiDemo.tla` and `SmtiDemo.tla` with `Demo.tla` on `DdsBus.tla`), one `MC*.tla`
per specification with a `.cfg` per run, and one `*_proofs.tla` per specification
with theorems (`Protocol_proofs.tla` proves about `OwpText`). `SetInduction.tla` is
the induction principle they use. `PROJECT.json` lists the runs, maps every definition to the lines it translates, and records for each
property a plausible mistake in the code (a mutant) that the property catches.

    tlc -workers 2 -config MCDdsReader.cfg MCDdsReader
    tlapm DdsReader_proofs.tla

## The system

An application links the CAL library and talks to a DDS domain; lacal is a
separate process that listens to the same domain and serves WebSocket clients.

    application threads            background thread (one per reader)
       |  read, addListener ...          |  take, dispatch
       v                                 v
    DdsReader ----- owns ----- DdsReaderCore ---- DDS domain ---- DdsWriter
       ^                                                            ^
       |  participant()                                             |
    AsbConnection -- monitor thread (status)             application threads

    DDS domain ---> TopicMonitor (thread) ---> Client sessions <--- io thread
                                               (stateMutex, post)     ^
                                                                      |
                                                            WebSocket clients

| Component | State | Operations | Interaction |
| --- | --- | --- | --- |
| DDS reader (`src/dds/DdsReader.h`, `DdsReaderCore.cpp`) | listener list under `mu_`, callback under `cbMutex`, `closed_` twice, the DDS cache | add/removeListener, read, readNoWait, close, destructor; loop of the background thread | two mutexes taken by both kinds of threads, condition variables, callbacks into listeners |
| Service bus connection (`src/dds/DdsAbstractServiceBusConnection.cpp`) | status and listeners under `statusMutex_`, `running_`, `shutdownRequested_`, participant | add/removeStatusListener, getStatus, shutdown, destructor; monitorLoop | callbacks outside the lock, condition variable, join |
| lacal sessions (`lacal/src/ClientSession.cpp`) | `open`, `initialized`, subscriptions under `stateMutex`, `writeQueue_` | HTTP upgrade, INIT, XSUB, XUNSUB, SUB, UNSUB, writes | the io thread runs handlers; the monitor thread reads subscriptions and posts lines |
| lacal topic monitor (`lacal/src/TopicMonitor.cpp`) | readers and conditions per topic | discovery, reader creation, drain, deliver | waitset; calls into every session |
| lacal server (`lacal/src/Server.cpp`) | acceptor, signal set, `running` | accept, SIGINT/SIGTERM, teardown | owns monitor, registry and io context |
| DDS writer, QoS (`DdsWriter*.{h,cpp}`, `QosMapper.h`, `CalQos.h`) | a DDS writer | write, close | the readers of the topic |
| Accessors, generated (`tools/schema_compiler/compiler.py`) | slots, choice ordinals, variants | setters, enable, clear, choose, reset, copy | filled by applications, read and written by the codecs |
| Codecs (`externalizer/cdr`, `externalizer/json`, generated handlers) | a registry of handlers | encode, decode | called by writers and by dispatch |
| CAL configuration, UUID (`src/config/CalConfig.cpp`, `src/UUID.cpp`) | environment, a file | resolveCalIdentity, createVersion3UUID, fromString | called by the connection's constructor |
| Lists, RAII helpers (`include/uci`) | vectors, owned pointers | push, resize; release in destructors | used by generated code and applications |
| Schema compiler (`tools/schema_compiler/compiler.py`) | type graph | subset selection, code generation | produces accessors and codecs at build time |
| Demos (`examples/*/main.cpp`) | command and activity state | command/status exchange | users of the public API |

What makes the system hard is where its threads meet: a listener list copied
and then called; two mutexes taken in both orders; subscriptions copied under
a lock and used after it; lines that pass two queues; a condition variable
with a timeout; objects destroyed while a thread of theirs may still run.
`PROJECT.json` ("hazards") lists each place with its line and the property
that covers it, or why none does.

For each component, what makes it correct:

- *Reader*: no listener runs in the background once the callback is cleared;
  the callback agrees with the list; nothing is used after its destruction;
  samples are handed on in order; calls return.
- *Connection*: one thread closes; the participant outlives the monitor
  thread; a status listener hears of every change once; shutdown does not wait
  for the monitor's timeout.
- *Sessions*: an id on the wire stands for one subscription, announced before
  use; samples keep their order; one write at a time; what a client asked for
  arrives.
- *Discovery and server*: every topic gets a reader; the server stops.
- *Codecs and accessors*: decode inverts encode, into a new accessor and into a
  used one; what is cut, ambiguous or incomplete is refused; copy leaves nothing
  of the target behind; a subset has every handler its messages look up.
- *Demos, writers and QoS*: a service obeys only a client that knows its
  activity; a client succeeds only when the service has done its part; nothing
  either needs is overwritten in a history of one; what is created is released.
- *Other pure code*: names and UUIDs correspond; a match is what the pattern
  means.

## DdsReader

`DdsReader` models `DdsReader<MsgType>` and the `DdsReaderCore` it owns. Threads
are the application's (`Apps`) and the core's background thread (`Bg`). A step
ends where the code releases a lock, waits for one, or calls a listener.

| Model | Code |
| --- | --- |
| `mu`, `cbMutex` | holder of `mu_` and of `Impl::cbMutex` |
| `listeners`, `snap` | `listeners_` and dispatchOne's copy, as counts per listener |
| `callback`, `closed`, `coreClosed`, `phase` | `Impl::callback` set, `closed_`, `Impl::closed`, how far the destructor has come |
| `cache`, `Publish`, `KeepLast` | the DDS cache with a KeepLast history (external) |
| `AddListener`, `SetCallback` | addListener: the list, then setBackgroundCallback |
| `RemoveListener`, `ClearCallback` | removeListener, which holds `mu_` while it waits for `cbMutex` |
| `Poll` .. `PollReturn` | read and readNoWait, with dispatchOne shared with the background |
| `Close*`, `Dtor*` | close, then the destructor in the order the language runs it |
| `Bg*` | `Impl::loop`: sleep, wait, take, re-check under `cbMutex`, dispatch |

A sample is a number and what dispatchOne finds in it: a good payload, a wrong
type tag, or one that makes `cdrDeserialize` throw (an exception nobody catches
on the background thread ends the process: `Throw`).

Run `reader` (two threads, two listeners, three calls, two samples, history
depth 2, polls capped at 1 or uncapped; every tag) checks
`QuietWithoutCallback`, `SafeTeardown`, `CallbackTracksListeners`, `InOrderPerThread`,
`CallsReturn` and `Implements`. Three calls are enough for an add, a concurrent remove or
poll, and a close or destroy; two samples for an order and for an overflow of
a batch. `CallsReturn` says that a call which starts returns unless the lock
cycle of removeListener is met: that cycle is the only way to hang.

`AbstractReader` is what a reader promises without its locks, callbacks and
destructor: samples arrive into a limited history; a thread takes all of it and
keeps a prefix (`numberOfMessages` may leave some of it out, and what is left
out is lost, as in `Impl::take`); it shows listeners the sample in front, if it
is good; it is done with it, or lets go of all. `Implements` maps `cache` to
`pending` and `raw` to `held`: no sample is in two hands, none is shown out of
turn, none that failed to decode is shown.

Runs that TLC refutes, each against a sentence of the documentation:

- `reader_remove`: `DdsReaderCore.h:43-44` promises that passing nullptr puts
  the thread to sleep; removeListener of the last listener holds `mu_` while it
  waits for `cbMutex`, and a dispatch in progress holds `cbMutex` while it
  waits for `mu_`. Both threads stop.
- `reader_scope`: README.md:619, "Listener added and removed mid-stream
  receives only in-scope messages"; dispatchOne calls from a copy, so with two
  listeners one is called after its removal returned. `ScopedListener` destroys
  it at that point.

README.md:446-447 also says that read returns how often handleMessage was called;
it returns the number of samples taken, dropped ones included (`Taken` and the
wrong tags of `DispatchSample`).

Fairness: every thread that can take a step does, and a thread that keeps
asking for a mutex obtains it. Samples and calls are bounded, so the
background thread is not kept busy for ever; on an endless stream the same
argument needs the mutexes to be fair, which the code does not ensure and the
model does not claim.

## AsbConnection

`AsbConnection` models the connection's status, its listeners, the monitor
thread, `shutdown` and the destructor. The state is kept as the history of
changes (`changes`), so that a listener can be said to be told of a *change*;
`told` and `since` are history variables. `statusMutex_` sections are one step
each. The monitor's wait is five: lock, evaluate the predicate, start to sleep
(which releases the mutex), wake or time out, test.

| Model | Code |
| --- | --- |
| `Enter`, `TellNext` | transitionState: the part under the lock, then each call |
| `AddStatusListener`, `Greet` | registration with a copy of the status, then the call |
| `Shutdown`, `Fail`, `ClearRunning`, `NotifyAll`, `Join`, `CloseParticipant` | shutdown, one step per atomic access, lock, notification and join |
| `Destroy` | the destructor, which runs the same steps from `ClearRunning` on |
| `Mon*`, `Timeout` | monitorLoop |
| `ParticipantLost` | the application closes the participant it got from participant() (external) |

The owner destroys the connection when no call on it is in progress; re-entrant
calls from listeners are not modelled. The constructor's INITIALIZING cannot be
observed: it equals the initial value, so transitionState returns early.

Run `asb` (two threads, two listeners, three calls) checks `SingleJoiner`,
`MonitorEndsFirst`, `NoLostWakeup`, `ToldEachChangeOnce` and, with no fairness on
`Timeout`, `PromptShutdown`: shutdown and the destructor return however long
the two seconds are (`PLAN.md:43-45`). Three calls allow two registrations and
a shutdown, two shutdowns and a destruction, or a shutdown racing a
registration and a removal; the monitor adds its own transitions.
`ClearRunning` and the monitor's lock steps are strongly fair, because the
monitor takes the mutex again at each timeout.

Run `asb_greet` is refuted: README.md:602 (CAL-016366) says a listener is
called immediately on registration with the current state, but the call is
made outside the lock. A shutdown in between tells the listener FAILED first,
and the registration call then says NORMAL, which is what the listener is left
with.

## OwpServer

`OwpServer` models lacal from the socket to the delivery of a sample: sessions,
registry and `TopicMonitor::deliver`. The io thread runs one handler at a time
(`IoIdle`); the monitor thread copies a client's subscriptions under
`stateMutex` and works from the copy. A line goes through the executor's queue
(`posted`), `writeQueue_` (`queue`) and the socket (`wire`).

| Model | Code |
| --- | --- |
| `Accept`, `Upgrade`, `Disconnect` | doAccept, readHttpRequest, acceptWebSocket, failed or closed reads |
| `InitAccepted`, `EndSession`, `Refuse` | handleInit, commands that end the session, commands refused |
| `XSub`, `XUnsub`, `Sub`, `Unsub`, `Reply` | the handlers; the +OK after `stateMutex` is released |
| `RunPosted`, `WriteDone`, `WriteFails` | sendLine's posted handler and writeNext |
| `TakeSample` .. `RemoveClosed` | a decoded sample, deliver for each client, ensureConcreteSubscription, removeClosed |

Topics, message names and the ids clients choose are model values; a pattern
is the set of `<<topic, name>>` it matches; `xsub.<n>` is the number n. JSON
and field syntax reduce to accepted or refused.

Run `owp` (one client with one stream-id and one subscription-id, one topic with
two messages, three commands, two samples) checks `IdMapsBack`, `IdsNeverReused`,
`SampleOrder`, `InfoFirst`, `OneWrite` and `Delivered`. Clients share nothing but
the registry, so a second one only multiplies the states; three commands are
INIT and a pair such as XSUB and XUNSUB, two samples give an order and a second
use of an id. A command or a sample comes when the client has at most
`MaxBacklog` = 1 lines unwritten, which still lets a reply, an XSUBINFO and a MSG
queue up behind each other; run `owp_xunsub` has no such limit (3). `Delivered`
assumes that handlers that are ready are run, that a started write completes,
and that the monitor thread goes on with a delivery: nothing is assumed of
clients.

`Protocol` has the functions of `Protocol.cpp` on texts, and the text of the keys
of `concreteSubs`; a character stands for all that the code treats alike. `Turn` is
one turn of the loop of globMatch and `Read` one character of the scan of
splitFields; `OwpText` puts them next to the sessions. The patterns of the `owp` instance are what its `GlobMatch` says of two globs. What
the functions return depends on no state, so the run looks at them at its start:
`WildcardsMatch` compares the backtracking loop of globMatch with the definition
of a match, for all patterns of up to three characters on all texts of up to
four (one star can be gone back to twice, and two stars can follow each other or
stand around a letter); `StreamsApart` has the line of an XUNSUB cut into the same fields by
firstField and splitFields, for all lines of up to five characters, and its
stream select its own keys only, stream-ids that begin alike included. A text
with a `*` of its own is outside `WildcardsMatch`: globMatch takes it for a
character first. Topic and message names have none.

Refuted:

- `owp_xunsub`: lacal/README.md:180-181, XUNSUB removes the stream's concrete
  subscriptions; deliver works from a copy and recreates one for a stream that
  is gone, with a new XSUBINFO.

lacal/README.md:175-178 has ids map back to a topic and message name. `owp` checks
`IdMapsBack` for clients whose ids differ from the generated ones; a client's own
`SUB xsub.1` collides with a generated id (`SubIds = {1}` shows it).

## CalConfig and Uuid

`CalConfig` models the identity a connection is given when it is made: the
environment of the process is fixed (`env`), an application holds connections
(`conns`), and calls that throw are remembered (`refused`). `Uuid` models the
name-based UUIDs of the fallback identity bit by bit: an octet is the set of its
bits that are 1, so that the exclusive or, the rotation by one and the version
and variant bits are set operations.

| Model | Code |
| --- | --- |
| `Get`, `Destroy` | uci_getAbstractServiceBusConnection, uci_destroyAbstractServiceBusConnection; a failure throws before the participant exists |
| `resolveCalIdentity`, `selectSystem`, `makeFallbackIdentity` | the functions of those names |
| `Enter`, `Parse`, `ParseServices`, `ParseNamed` | parseServices, parseNamedUUIDs: one table (`found`) over the system and its subsystems; an exception at the first bad or repeated entry makes it `Thrown`, and nothing is read after it |
| `SystemLevel`, `AddSubsystem`, `AllLevels`, `Configured` | resolveCalIdentity from line 156 on; the names of subsystems are a table of the same kind |
| `MixedIn`, `Stamp` | simpleNameHash: the loop, then version and variant |

Of a document only what the code looks at is kept: names, UUIDs (model values),
what is in the place of an array, and whether an entry is an object with the
fields it needs (`Malformed` otherwise). JSON syntax and the text form of UUIDs
are abstracted.

`ConfiguredModeIsStrict` compares the code, which walks the arrays and fails at
the first error, with what README.md:363-378 says a configuration means, stated
over the positions of its entries: a connection exists exactly for a service
listed once in the selected system, when nothing there is malformed or repeated.
Run `config` has two connections and documents with up to two systems, up to two
subsystems, and entries that are repeated within an array, between a system and
a subsystem and between two subsystems, malformed, or not an array: each kind of
error the code can meet, at each level. `NamesTellApart` says that the fallback
hash keeps every bit of a name in all but the two octets that are stamped.

Run `config_names` is refuted: README.md:601 (CAL-016015) says that CAL clients of
one address space get distinct UUIDs. The version number overwrites four bits of
octet 6, which in names of up to 22 characters is reached by the seventh
character alone, so `radar-1` and `radar-9` get the same service UUID.

README.md:604 (CAL-005202) also has a single instance per service and bus; the
entry point makes a new connection on every call, as `Get` does.

## LacalServer

`LacalServer` models runServer and `TopicMonitor`: discovery, the drain, and how a
delivery holds on to the sessions of clients. What a delivery sends to a client
is the subject of `OwpServer`; here it posts one line, or none, to each.

| Model | Code |
| --- | --- |
| `main` | the line of runServer the main thread is at |
| `accepting`, `signalWait`, `sessions` | the asynchronous operations that keep io.run from returning |
| `open` | the clients whose flag `open` is set: a session of a client no longer open may still have an operation outstanding |
| `batch`, `held`, `todo`, `posting` | the samples drainReader took, deliver's snapshot, those of it not yet visited, and the client whose `open` sendLine has found set, until it posts |
| `alive` | the monitor's DDS entities, the registry, the externalizer, and the io context |
| `Construct`, `Start`, `Listen` | constructor, start, createAcceptor; each failure throws to the catch of line 137 |
| `OnSignal`, `OnAccept`, `OnAcceptAborted`, `Closes`, `SessionEnds`, `RunReturns` | handlers of the io context and the return of io.run |
| `Leave` .. `ResetExternalizer` | the end of the try block: acceptor and io context (`Leave`), then ~TopicMonitor with its stop and its join, ~ClientRegistry, jsonExt.reset |
| `Test`, `Wait`, `WaitFails`, `AllServed` | TopicMonitor::run |
| `PollBuiltin`, `DrainReader`, `DropSample` | pollBuiltin with ensureReader, drainReader, a sample publishDecoded cannot use |
| `Snapshot`, `Skip`, `TestOpen`, `Post`, `Delivered` | ClientRegistry::snapshot, deliver's loop over it with the two halves of sendLine, and its end |
| `Crash` | what a post to the destroyed io context, or the end of a session that belongs to it, may do |
| `Connect`, `Signal`, `Publish`, `Arrive` | clients, the operating system and the bus (external) |

A read condition is triggered while its reader holds a sample; a reader has the
default history, one sample, because `OpaquePayload` has no key (`Depth`). Fewer
than 64 conditions are assumed, so one wait reports all.

Run `lacal_server` (two topics of arcal, two clients, batches of two publications;
three publications overflow a batch, or announce a topic again after its reader
could not be created) checks the following. A publication of another type is left
out of the instance: it takes a place in a batch, as one of a topic already read does.

- `MonitorUsesLiveParts`: on every way out, the entities, the registry and the
  externalizer exist as long as the monitor thread runs. The io context does not:
  runServer declares it after the monitor, so it is destroyed before the join. What
  holds of it is that no session is open once it is gone, because io.run returns only
  when the last session has ended, and every end clears `open`; so a delivery that
  begins later takes hold of no session, and one in progress finds none open.
- `Bridged`: an announced topic gets a reader, unless it could not be created
  (`failed`), or the monitor is stopped or has met a wait error.
- `Drained`: what waits in a reader is taken, under arrivals without end.
- `ExitsWhenAlone`: after a signal the process exits, if its clients leave. They
  have to: the handler closes only the acceptor.

Fairness: both threads go on while they can (`WF` of `MainStep` and of `MonitorStep`).
Nothing is assumed of clients, signals, publications or samples. The process may
end (`CHECK_DEADLOCK FALSE`).

A race remains, which the model has and no property excludes. A delivery may have
found a session open, or hold it in its snapshot, when that session ends, io.run
returns and the io context goes. Its post, and the destruction of the sessions it holds,
then come after the io context they refer to: undefined behaviour, modelled as either
nothing more (`Post` without effect, `Delivered`) or the end of the process (`Crash`).

## MessageCodec, CdrCodec, JsonCodec and Accessors

The schema compiler turns a schema into accessor classes and into the handlers
the externalizers drive. The models take the schema as a constant and define
what the generated code does on it: `Accessors` the classes, `CdrCodec` and
`JsonCodec` the handlers with the primitives below them. In `MessageCodec` an
application fills one accessor (`obj`) call by call, and another one (`peer`) takes
its content over again and again, by CDR, JSON or copy.

| Model | Code |
| --- | --- |
| `slot`, `ord`, `alt` of an accessor | the private members of ACCESSOR_IMPL_H_TEMPLATE: fields, choiceOrdinal_, a member per variant |
| `New`, `Calls`, `Copied`, `Room` | construction, setters and lists, copy, the maximum of BoundedListImpl |
| `CollectRequired`, `Registered` | the subset of types, and the handlers register_all enters |
| `WriteNumber` .. `ReadUuid` | CdrPrimitives.h: padding, big endian, bounds checks |
| `Encode*`, `Decode*` | CDR_CPP_TEMPLATE: base class, choice, fields |
| `Document`, `From*` | JSON_CPP_TEMPLATE on the parsed document |
| `ReadCdr`, `ReadCutCdr` | CdrExternalizer::write and read, and read of a message that was cut short |
| `ReadJson`, `ReadNoJson`, `ReadEditedJson` | JsonExternalizer::write and read, of a text that does not parse, and of a document with members missing or variants added |

A CDR message is its octets. An accessor keeps what an absent optional or an
unchosen variant last held, and a thrown read leaves what was read before it; both
stay in `peer` for the next read. Scalars of a new accessor are not initialised
(`Junk`).

Run `codec` checks, in every state these calls reach:

- `CdrFaithful`: what is read into a new accessor, as `DdsReader` does, shows what
  was written.
- `CdrKeepsOnlyTheAbsent`: read does not reset its target. It may leave optionals
  and choices that the message has not got, and nothing else.
- `CutRefused`: no proper prefix of a message is accepted.
- `JsonReplaces`: what JsonExternalizer wrote replaces any content, floats to six
  digits ("%g"). A value of an enumeration without a name is written "invalid" and
  refused; a float that is not a number is written "nan", which does not parse
  (`ReadNoJson`).
- `AcceptedAsWritten`: an edited document is refused, or is what the accessor
  read from it would write.
- `CopyShowsTheSame`: copy into a used accessor.

Bounds: four message types with a base class, a UUID, a choice between a scalar and
a class, an enumeration, a bounded list (maximum 2, so that a third item is
refused), a float, an optional text, and an optional and a list of a class with an
optional of its own. Each scalar type has one value next to what memory holds
(`Junk`, 0 or 1): the octets that can be confused are those of neighbours, counts,
flags and padding, which differ. Numbers have 1, 2 and 4 octets; the 8-octet ones
add a width, not a step. A UUID's text has 4 characters for 36, which leaves the same
padding. An unbounded list
holds at most `MaxItems`. An application always may stop (`CHECK_DEADLOCK FALSE`).

These operators recurse over the schema, so the runs are all there is for them.

Not modelled: byte sequences, numbers of 8 octets, JSON text and members of a wrong
type, minOccurs of lists (which no code enforces), and writing into a string or
vector that is not empty, which appends.

## DdsBus, Demo, AmtiDemo, SmtiDemo and Demos

`DdsBus` is what processes share: connections, writers and polled readers on
topics, the QoS these get (`toReaderQos`, `toWriterQos` of `QosMapper.h` on the
defaults of `CalQos.h`: best effort, history of one), and the samples in between.
DDS itself is external: a sample goes to the readers that exist when it is
written; samples of one writer stay in order but any of them may be lost, and
those of two writers mix.

| Model | Code |
| --- | --- |
| `Connect`, `CreateEnds`, `EndEnds`, `Release` | entry points of the connection, createReader/Writer, close and destroy |
| `Write`, `Send`, `Arrive`, `TakeAll`, `First` | DdsWriter::write, DdsWriterCore::write, the cache, read(timeout, 1, listener) |
| `TakeCommand`, `Update`, `TimesOut` | the wait loops of both demos, and their deadlines |
| `MakeSome`, `Throws`, `ReadFails`, `DispatchThrows` | an exception in a creation, in a write, and in a read: with no sample at hand, or inside dispatchOne with one that is then lost |
| `ForeignCommand` | another program on the command topic (external) |
| `publish*`, `send*`, `waitFor*` | the functions of those names in each main.cpp |
| `TakenDown` (AMTI), `ScopeExit` (SMTI) | the hand-written clean-up after the catch, and the destructors of `uci::utils` |

`Demos` runs either program as any number of services and clients, with a stranger:
any other program on the command topic. It may send a start, a stop of no activity, a
stop that names an activity some status has announced (`Announced`: everybody can
read the UUID there), a command without a variant, or none at all. Run `demos` (one
service, two clients) checks:

- `StopFromInformed`: a service obeys one start and then one stop, and the stop names
  its activity. If it comes from a client of the demo, the client has been told of
  the activity and has had a status. A stranger needs neither: whoever names the
  activity is obeyed. (`told` is a history variable: a client keeps only the activity
  it was told of last.)
- `ClientSuccess`: a client returns 0 only when the activity it heard of last has been
  completed: its service has obeyed a stop and is on its way out; on the client's
  own commands, if nobody else
  sends any. With two clients it may be the other's: the clients count statuses
  and do not compare the command's id with their own, though the READMEs list the
  id as that of the *matching* `CommandStatusMT`.
- `OneSampleIsEnough`: the history of one does not lose what the client needs. This
  is a property of one service: the statuses of two can overrun each other.
- `CleanExit`: ends go before their connection, and what a process made is
  released: always with the helpers of `uci::utils`, and in the AMTI demo once
  the try block is reached. (A throw between its creations leaks them.) A message
  object is left behind only by a failure: the program's own by the AMTI demo alone,
  when a write throws; and by either demo the one that dispatchOne has made for the
  listener, when deserializing into it throws (`DispatchThrows`), which no pointer of
  `uci::utils` holds. The property says exactly this.

Bound: `MaxLoad` = 2 of clients started, calls that throw and commands of the
stranger, together: every pair of these meets in some behaviour, and a third
would repeat one of them. Every client and service sends a bounded number of
messages, so nothing else needs a bound. The properties are safety and the runs
assume no fairness: that a process ends is a matter of the deadline each of its
waits has. A demo ends (`CHECK_DEADLOCK FALSE`).

Not modelled: moves and release of the pointers, `Id.h`, and the printed
output. The SMTI README speaks of `FunctionListener`; the code has
`MessageListener`.

## Proofs

The proofs hold for any number of threads, listeners, clients, services, topics,
samples and calls. They assume only the named assumptions of the modules:
`ReaderAssumption`, `ConnectionAssumption`, `ServerAssumption`, `LacalAssumption`
and `DemoAssumption` say that the identifiers of threads and the like differ and
that the bounds are naturals (and the reader's history at least one deep);
`LabelAssumption` says that labels are sequences of octets, and
`DocumentAssumption` that what stands in the place of an array of a document is an
array or `NotArray`. Two theorems, `IdsMapBack` and `OneIsEnough`, have a hypothesis
of their own, given below.

- `DdsReader_proofs`: `TypeCorrect`, `CallbackGate` (`QuietWithoutCallback`),
  `Teardown` (`SafeTeardown`), `CallbackAgreement` (`CallbackTracksListeners`) and
  `NoRemovalNoCycle`: an application that never removes a listener never meets
  the lock cycle. The properties are not inductive: that the callback is gone
  says nothing of a thread already past its re-check. `IInv` adds who holds
  which lock where (`LocksHeld`), what the callback is inside and outside `mu_`
  (`CallbackFollows`), that a thread in front of a listener has a sample
  (`SampleInHand`), and how far the destructor is (`DtorProgress`).
  `ReaderImplements` (`Implements`): with `InHand`, which says which lines of the
  code a thread can be at with samples in hand, every step is one of
  `AbstractReader` or changes nothing it sees. `DeliveredInOrder`
  (`InOrderPerThread`) is then proved along the steps of `AbstractReader` only:
  what a thread has shown is older than what it holds, and that is older than
  what is pending (`InSequence`).
- `AsbConnection_proofs`: `TypeCorrect`, `OneThreadCloses` (`SingleJoiner`),
  `WakeupNotLost` (`NoLostWakeup`) and `ParticipantOutlivesMonitor`
  (`MonitorEndsFirst`). `IInv` adds that a closing thread has won the exchange or
  runs the destructor alone (`OneCloser`), that the monitor holds the mutex from
  the predicate to its sleep and does not sleep once `running_` is false
  (`AwakeAtEnd`), and that the join comes first (`JoinedFirst`). `WakeupNotLost` is
  the safety half of `PromptShutdown`.
  `EveryChangeOnce` (`ToldEachChangeOnce`) counts. For a listener and a change
  there are the calls made (`ToldAt`) and the threads that still owe one
  (`DueFrom`); for a listener registered once and for good exactly one of them
  exists (`Once`). `CallsOK` and `DueOK` tie the two to the change a thread works
  for, which is what lets a call move from due to made without being counted
  twice.
- `OwpServer_proofs`: `OneWriteAtATime` (`OneWrite`) and `FreshIds` (`IdsNeverReused`).
  A queue by itself does not tell whether an id in it is new. `IInv` adds that
  every id announced so far, in whichever queue its line is, is below the
  client's counter and differs from the one the monitor thread holds and has yet
  to announce (`AnnouncedOK`); the lemmas say how a line moves from one queue to
  the next without changing what a client is told. The set of lines is left
  open: the properties do not depend on it.
  The second half of the module is about what the lines say. `TypeCorrect`
  (`TypeOK`) comes first. Every step then either leaves what a client is sent alone (`Quiet`) or adds one line
  at its end (`Sends`), and the three properties are proved of these two kinds:
  `SamplesInOrder` (`SampleOrder`), as no sample sent is newer than the one in
  delivery (`SamplesOK`); `InfoComesFirst` (`InfoFirst`), as there is no
  subscription, and no delivery from a copy of one, before INIT (`GreetedOK`); and
  `IdsMapBack` (of the same name), as the id of a concrete subscription has been
  announced for the kind of its key, or the monitor thread is about to announce
  it (`MapOK`). `IdsMapBack` supposes that no client chooses an id of the form
  `xsub.<n>` (`SubIds \cap Nat = {}`): handleSub does not refuse one, and two
  subscriptions then have that id.
- `LacalServer_proofs`: `TypeCorrect` (`TypeOK`) and `MonitorSafeTeardown`
  (`MonitorUsesLiveParts`: entities, registry and externalizer outlive the monitor
  thread, and no session is open once the io context is gone). The invariant
  (`Stages`) says what exists and whether the monitor thread runs at each line of the
  main thread, and that a session that is open has an operation outstanding: io.run
  does not return past it. `Typed` adds the
  domains of what the io context and the monitor keep (`IoTyped`, `MonitorTyped`).
- `Protocol_proofs`: the text functions, for texts of any length.
  `GlobMatchDecides` and with it `WildcardsDecided` (`WildcardsMatch`): a turn of the
  loop of globMatch keeps `LoopOK`, which says that the text as a whole fits the
  pattern exactly if what is left of it fits what is left of the pattern, or if
  it fits after the last star has taken more. That it need never go back to an
  earlier star is the conjunct on `star`: what stands between the last star and
  the place reached has one character for each of its own, so wherever the
  pattern after that star would fit, what is left of the pattern fits as much
  further on; when the next star is met every possibility before it is one after it.
  `Progress` grows with every turn, so the number
  of turns the model gives the loop is enough.
  `LinesCutAlike`: splitFields of a line is the operation that firstField cuts off,
  followed by splitFields of the rest, whatever blanks are around and between.
  `Scans` is the state of the scan after each character; the lemmas say what it is
  after separators (`SeparatorRun`), after the characters of a field
  (`TokenRun`), and that a text standing behind a separator adds its own fields
  (`CopyRun`). `KeysTellApart`: from a key, the stream and the topic, which have no
  line feed, can be read back (`LineReadBack`, `StreamReadBack`). `StreamsToldApart`
  (`StreamsApart`) is the two together.
- `CalConfig_proofs`: `Resolution`, that every connection has the identity
  resolveCalIdentity gave some label, and `LabelsTellApart` (`NamesTellApart`) for
  labels of any length. Exclusive or and rotation are injective, so two labels
  that differ in one character give octets that differ after that character
  and, by induction over the rest, at the end; stamping changes octets 6 and 8
  only.
  `StrictMode` (`ConfiguredModeIsStrict`), for documents of any size: by induction
  over an array, the table that `Parse` leaves behind has exactly the entries up to
  there, and it is `Thrown` exactly if one of them is malformed or has a name
  met before; by induction over the subsystems the same holds of the positions
  (`At`) of all levels, which is what `WellFormed` and `Lists` are stated about.
- `Demos_proofs`: `ObeysTheInformed` (`StopFromInformed`), `SuccessIsTrue`
  (`ClientSuccess`) and `NothingIsLeft` (`CleanExit`), for any number of services and
  clients, with messages lost, delayed and mixed, calls that throw and a stranger.
  The steps of both programs are first reduced to the same few kinds
  (`TellStep`, `TakeStep`, `UpdateStep`, `ThrowStep` ...), which holds because both
  are written with the blocks of `Demo`. `Bookkeeping` is their inductive
  invariant, `IInv`: what the bus may carry (`BusOK`: a stop from a client only of
  an activity it was told of, from a stranger of any; a completed activity only of
  a service that is done), who may have stopped a service (`Entitled`: the stranger,
  or a client told by activity and status), what each process knows (`FlowOK`), and that what a process has still to take
  down covers what it has created, in an order that ends with the connection
  (`ExitOK`, `Plan`). Of a message object `ExitOK` says that one is left only where the
  exit code is 1, and the SMTI demo's own only until its pointer is reset.
  `OneIsEnough` (`OneSampleIsEnough`) supposes that one service runs
  (`Services = {s}`), with any number of clients: the statuses of two services can
  overrun each other, so without it the property is false. Its invariant, `Owed`,
  is an account: for every client, the statuses heard, waiting and on their way
  are no more than the commands the service has answered, and the commands
  taken and on their way no more than the client has sent. A reader that would
  have to hold two samples is then one whose owner is not waiting for either.

`SetInduction` states induction over the naturals about a set, because the provers
cannot instantiate the P(_) of the library's theorem, and derives the least and
the greatest element of a set of numbers from it (`Least`, `Greatest`). What
recursive functions compute (`MixedIn` of `Uuid`, `Within` of `OwpServer`, `Parse` of
`CalConfig`, the loops of `Protocol`) is proved with it.

Checked by TLC only:

- liveness (`CallsReturn`, `PromptShutdown`, `Delivered`, `Bridged`, `Drained`,
  `ExitsWhenAlone`), which needs fairness and ENABLED and is beyond the prover;
- all of `MessageCodec`: the codecs recurse over the schema with RECURSIVE
  operators, which cost the prover its SMT backend, and what they compute is an
  induction over the structure of a type.

The five refuted runs have no theorem: what they check is false.

## Not modelled

What is left out besides what the sections above say: JSON text and rendering of
generated sources (formatting), the loading of externalizers by name and the
registration of types (filled once, before anything runs), build scripts,
generated DDS code, and the DDS implementation itself, which the models
represent by what the code relies on (a KeepLast cache per reader).
