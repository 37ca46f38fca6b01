---------------------------- MODULE LacalServer ----------------------------
(***************************************************************************)
(* The life of the lacal process (Server.cpp) and of its topic monitor     *)
(* (TopicMonitor.cpp): discovery, the drain, and how a delivery holds on   *)
(* to the sessions of clients (ClientSession.cpp).                         *)
(*                                                                         *)
(* The main thread builds the monitor, the io context and the acceptor,    *)
(* runs the handlers of the io context until no operation is outstanding,  *)
(* and takes everything down in reverse order.  The monitor thread waits   *)
(* for DDS conditions: one for announced publications, one for each topic  *)
(* it reads.  Fewer than kMaxTriggers conditions are assumed, so one wait  *)
(* reports all that are triggered.                                         *)
(*                                                                         *)
(* Which lines a client is sent, and in what order, is the subject of      *)
(* OwpServer: here a delivery sends it one line or none.                   *)
(***************************************************************************)
EXTENDS Integers, Sequences

CONSTANTS
    Topics,           \* topics that are published on the bus
    ArcalTopics,      \* those of type arcal_dds::OpaquePayload
    Clients,          \* connections that may be made
    Discovery,        \* the condition of the builtin reader
    PubBatch,         \* kBatch of pollBuiltin
    SampleBatch,      \* kBatch of drainReader
    Depth,            \* samples a reader keeps: 1, the default history, as there is no key
    MaxPublications   \* bound: publications announced

ASSUME LacalAssumption ==
    /\ ArcalTopics \subseteq Topics
    /\ Discovery \notin Topics
    /\ PubBatch \in Nat \ {0} /\ SampleBatch \in Nat \ {0}
    /\ Depth \in Nat \ {0} /\ MaxPublications \in Nat

VARIABLES
    main,         \* where the main thread is
    running,      \* running of runServer
    acceptor,     \* "none", "open" or "closed"
    accepting,    \* the async_accept: "none", "waiting", "done", "aborted"
    arrived,      \* the client of a completed async_accept
    signalWait,   \* the signal_set's async_wait is outstanding
    signalled,    \* SIGINT or SIGTERM has been raised
    sessions,     \* clients with an operation or a posted line outstanding
    open,         \* clients whose flag `open` is set
    gone,         \* clients that have left
    monRunning,   \* TopicMonitor::running_
    mpc,          \* where the monitor thread is
    pending,      \* triggered conditions still to be served
    batch,        \* samples taken by drainReader and still to be delivered
    held,         \* clients of deliver's snapshot
    todo,         \* those it has not come to
    posting,      \* the client sendLine has found open, until its line is posted
    publications, \* samples of the builtin reader
    announced,    \* publications announced so far
    readers,      \* topics in readers_, conditions_ and condTopics_
    failed,       \* topics whose reader could not be created when last tried
    cache,        \* samples waiting in each reader
    alive         \* what the monitor thread works on and is not destroyed

serverVars == <<running, acceptor, accepting, arrived, signalWait, signalled>>
ioVars == <<serverVars, sessions, open, gone>>
topicVars == <<publications, announced, readers, failed, cache>>
deliveryVars == <<batch, held, todo, posting>>
monVars == <<mpc, pending, topicVars, deliveryVars>>
vars == <<main, ioVars, monRunning, monVars, alive>>

(* What is destroyed after the monitor, and the io context, which is not.   *)
MonitorParts == {"entities", "registry", "externalizer"}
Parts        == MonitorParts \cup {"io"}

Init ==
    /\ main = "construct"
    /\ running = TRUE
    /\ acceptor = "none"
    /\ accepting = "none"
    /\ arrived = {}
    /\ signalWait = FALSE
    /\ signalled = FALSE
    /\ sessions = {}
    /\ open = {}
    /\ gone = {}
    /\ monRunning = FALSE
    /\ mpc = "none"
    /\ pending = {}
    /\ batch = 0
    /\ held = {}
    /\ todo = {}
    /\ posting = {}
    /\ publications = <<>>
    /\ announced = 0
    /\ readers = {}
    /\ failed = {}
    /\ cache = [t \in Topics |-> 0]
    /\ alive = {"externalizer"}

-----------------------------------------------------------------------------
(* The main thread: starting up.                                            *)

(* The registry and the monitor, whose constructor may throw: it is not     *)
(* destroyed then.                                                          *)
Construct(ok) ==
    /\ main = "construct"
    /\ main' = IF ok THEN "start" ELSE "unregister"
    /\ alive' = alive \cup {"registry"} \cup (IF ok THEN {"entities"} ELSE {})
    /\ UNCHANGED <<ioVars, monRunning, monVars>>

Start ==
    /\ main = "start"
    /\ monRunning' = TRUE
    /\ mpc' = "test"
    /\ main' = "listen"
    /\ UNCHANGED <<ioVars, pending, topicVars, deliveryVars, alive>>

(* The io context and createAcceptor, then the signal handler and the first *)
(* accept; an address or a port that cannot be used throws past them.       *)
Listen(ok) ==
    /\ main = "listen"
    /\ alive' = alive \cup {"io"}
    /\ IF ok THEN /\ acceptor' = "open"
                  /\ signalWait' = TRUE
                  /\ accepting' = "waiting"
                  /\ main' = "run"
             ELSE /\ main' = "leave"
                  /\ UNCHANGED <<acceptor, signalWait, accepting>>
    /\ UNCHANGED <<running, arrived, signalled, sessions, open, gone, monRunning, monVars>>

-----------------------------------------------------------------------------
(* The main thread: handlers of the io context.                             *)

StaysOpen == acceptor
Closed    == "closed"

(* The signal handler: closing the acceptor aborts the accept that waits.   *)
OnSignal ==
    /\ main = "run"
    /\ signalWait
    /\ signalled
    /\ signalWait' = FALSE
    /\ running' = FALSE
    /\ monRunning' = FALSE
    /\ acceptor' = Closed
    /\ accepting' = IF accepting = "waiting" /\ acceptor' = "closed" THEN "aborted"
                                                                      ELSE accepting
    /\ UNCHANGED <<main, arrived, signalled, sessions, open, gone, monVars, alive>>

Rearmed == IF running /\ acceptor = "open" THEN "waiting" ELSE "none"

OnAccept ==
    /\ main = "run"
    /\ accepting = "done"
    /\ sessions' = sessions \cup arrived
    /\ open' = open \cup arrived
    /\ arrived' = {}
    /\ accepting' = Rearmed
    /\ UNCHANGED <<main, running, acceptor, signalWait, signalled, gone, monRunning,
                   monVars, alive>>

OnAcceptAborted ==
    /\ main = "run"
    /\ accepting = "aborted"
    /\ accepting' = Rearmed
    /\ UNCHANGED <<main, running, acceptor, arrived, signalWait, signalled, sessions, open,
                   gone, monRunning, monVars, alive>>

StillOpen(c) == open
Shut(c)      == open \ {c}

(* INIT is refused, or a write fails: the next handler starts no read.      *)
Closes(c) ==
    /\ main = "run"
    /\ c \in open
    /\ open' = Shut(c)
    /\ UNCHANGED <<main, serverVars, sessions, gone, monRunning, monVars, alive>>

(* The handler of a session's last operation; nobody is told.               *)
SessionEnds(c) ==
    /\ main = "run"
    /\ c \in sessions
    /\ sessions' = sessions \ {c}
    /\ open' = Shut(c)
    /\ gone' = gone \cup {c}
    /\ UNCHANGED <<main, serverVars, monRunning, monVars, alive>>

(* io.run returns when no operation is outstanding; monitor.stop().         *)
RunReturns ==
    /\ main = "run"
    /\ accepting = "none" /\ ~signalWait /\ sessions = {}
    /\ monRunning' = FALSE
    /\ main' = "leave"
    /\ UNCHANGED <<ioVars, monVars, alive>>

-----------------------------------------------------------------------------
(* The main thread: taking down, on return as after an exception.           *)

(* The acceptor and the io context go, with the handlers still in it.       *)
Leave ==
    /\ main = "leave"
    /\ acceptor' = IF acceptor = "none" THEN "none" ELSE "closed"
    /\ sessions' = {}
    /\ alive' = alive \ {"io"}
    /\ main' = "stop"
    /\ UNCHANGED <<running, accepting, arrived, signalWait, signalled, open, gone, monRunning,
                   monVars>>

(* ~TopicMonitor tells its thread to end.                                   *)
StopMonitor ==
    /\ main = "stop"
    /\ monRunning' = FALSE
    /\ main' = "join"
    /\ UNCHANGED <<ioVars, monVars, alive>>

Detached == TRUE
Joined   == mpc = "done"

DeleteEntities ==
    /\ main = "join"
    /\ Joined
    /\ alive' = alive \ {"entities"}
    /\ main' = "unregister"
    /\ UNCHANGED <<ioVars, monRunning, monVars>>

DestroyRegistry ==
    /\ main = "unregister"
    /\ alive' = alive \ {"registry"}
    /\ main' = "release"
    /\ UNCHANGED <<ioVars, monRunning, monVars>>

ResetExternalizer ==
    /\ main = "release"
    /\ alive' = alive \ {"externalizer"}
    /\ main' = "exit"
    /\ UNCHANGED <<ioVars, monRunning, monVars>>

-----------------------------------------------------------------------------
(* The monitor thread.                                                      *)

Test ==
    /\ mpc = "test"
    /\ mpc' = IF monRunning THEN "wait" ELSE "done"
    /\ UNCHANGED <<main, ioVars, monRunning, pending, topicVars, deliveryVars, alive>>

(* A read condition is triggered as long as its reader holds a sample.      *)
Unattached == {}
Attached   == readers
Triggered ==
    {t \in Attached : cache[t] > 0}
    \cup (IF publications = <<>> THEN {} ELSE {Discovery})

(* dds_waitset_wait: what is triggered, nothing at the end of the timeout.  *)
Wait ==
    /\ mpc = "wait"
    /\ pending' = Triggered
    /\ mpc' = "serve"
    /\ UNCHANGED <<main, ioVars, monRunning, topicVars, deliveryVars, alive>>

(* The wait reports an error: the thread ends, and nothing else notices.    *)
WaitFails ==
    /\ mpc = "wait"
    /\ mpc' = "done"
    /\ UNCHANGED <<main, ioVars, monRunning, pending, topicVars, deliveryVars, alive>>

NotOurs(t) == t \notin ArcalTopics
Ours(t)    == t \in ArcalTopics

(* pollBuiltin and ensureReader: some of the readers that are missing may   *)
(* fail to be created; only a later publication tries them again.           *)
PollBuiltin(made) ==
    /\ mpc = "serve" /\ batch = 0
    /\ Discovery \in pending
    /\ LET n == IF Len(publications) < PubBatch THEN Len(publications) ELSE PubBatch
           missing == {t \in {publications[i] : i \in 1..n} : Ours(t)} \ readers IN
         /\ made \subseteq missing
         /\ publications' = SubSeq(publications, n + 1, Len(publications))
         /\ readers' = readers \cup made
         /\ failed' = (failed \ made) \cup (missing \ made)
    /\ pending' = pending \ {Discovery}
    /\ UNCHANGED <<main, ioVars, monRunning, mpc, announced, cache, deliveryVars, alive>>

LeftAfterFullBatch(n) == n - SampleBatch
Left(n)               == IF n > SampleBatch THEN n - SampleBatch ELSE 0

(* drainReader takes a batch, and goes through it before the next condition.*)
DrainReader(t) ==
    /\ mpc = "serve" /\ batch = 0
    /\ t \in pending \ {Discovery}
    /\ cache' = [cache EXCEPT ![t] = Left(@)]
    /\ batch' = cache[t] - Left(cache[t])
    /\ pending' = pending \ {t}
    /\ UNCHANGED <<main, ioVars, monRunning, mpc, publications, announced, readers, failed,
                   held, todo, posting, alive>>

(* A sample that is invalid or cannot be decoded.                           *)
DropSample ==
    /\ mpc = "serve" /\ batch > 0
    /\ batch' = batch - 1
    /\ UNCHANGED <<main, ioVars, monRunning, mpc, pending, topicVars, held, todo, posting,
                   alive>>

(* deliver takes hold of the sessions that are there and open.              *)
Snapshot ==
    /\ mpc = "serve" /\ batch > 0
    /\ batch' = batch - 1
    /\ held' = open
    /\ todo' = open
    /\ mpc' = "deliver"
    /\ UNCHANGED <<main, ioVars, monRunning, pending, topicVars, posting, alive>>

(* A client without a subscription for the sample, or no longer open.       *)
Skip(c) ==
    /\ mpc = "deliver"
    /\ c \in todo
    /\ todo' = todo \ {c}
    /\ UNCHANGED <<main, ioVars, monRunning, mpc, pending, topicVars, batch, held, posting,
                   alive>>

(* sendLine tests `open`, then posts the line to the io context: a step in  *)
(* between may be the handler of the client's last operation.               *)
TestOpen(c) ==
    /\ mpc = "deliver"
    /\ c \in todo \cap open
    /\ todo' = todo \ {c}
    /\ posting' = {c}
    /\ mpc' = "post"
    /\ UNCHANGED <<main, ioVars, monRunning, pending, topicVars, batch, held, alive>>

(* Where the io context is gone the line is, at best, lost.                 *)
Post ==
    /\ mpc = "post"
    /\ sessions' = IF "io" \in alive THEN sessions \cup posting ELSE sessions
    /\ posting' = {}
    /\ mpc' = "deliver"
    /\ UNCHANGED <<main, serverVars, open, gone, monRunning, pending, topicVars, batch, held,
                   todo, alive>>

(* The snapshot is let go, and with it the last hold on sessions that ended.*)
Delivered ==
    /\ mpc = "deliver"
    /\ todo = {}
    /\ held' = {}
    /\ mpc' = "serve"
    /\ UNCHANGED <<main, ioVars, monRunning, pending, topicVars, batch, todo, posting, alive>>

(* A post to the destroyed io context, or the end of a session that belongs *)
(* to it, is undefined behaviour: it may also end the process.              *)
Crash ==
    /\ "io" \notin alive
    /\ mpc = "post" \/ (mpc = "deliver" /\ held # {})
    /\ mpc' = "done"
    /\ main' = "exit"
    /\ alive' = {}
    /\ UNCHANGED <<ioVars, monRunning, pending, topicVars, deliveryVars>>

AllServed ==
    /\ mpc = "serve" /\ batch = 0
    /\ pending = {}
    /\ mpc' = "test"
    /\ UNCHANGED <<main, ioVars, monRunning, pending, topicVars, deliveryVars, alive>>

-----------------------------------------------------------------------------
(* Clients, the operating system and the bus.                               *)

Connect(c) ==
    /\ accepting = "waiting"
    /\ c \notin sessions \cup gone
    /\ arrived' = {c}
    /\ accepting' = "done"
    /\ UNCHANGED <<main, running, acceptor, signalWait, signalled, sessions, open, gone,
                   monRunning, monVars, alive>>

(* A signal before the handler is installed ends the process as such.       *)
Signal ==
    /\ signalWait
    /\ ~signalled
    /\ signalled' = TRUE
    /\ UNCHANGED <<main, running, acceptor, accepting, arrived, signalWait, sessions, open,
                   gone, monRunning, monVars, alive>>

Publish(t) ==
    /\ "entities" \in alive
    /\ announced < MaxPublications
    /\ announced' = announced + 1
    /\ publications' = Append(publications, t)
    /\ UNCHANGED <<main, ioVars, monRunning, mpc, pending, readers, failed, cache,
                   deliveryVars, alive>>

(* A sample replaces the oldest when the history is full.                   *)
Arrive(t) ==
    /\ "entities" \in alive
    /\ t \in readers
    /\ cache' = [cache EXCEPT ![t] = IF @ < Depth THEN @ + 1 ELSE @]
    /\ UNCHANGED <<main, ioVars, monRunning, mpc, pending, publications, announced, readers,
                   failed, deliveryVars, alive>>

-----------------------------------------------------------------------------
IoStep == OnSignal \/ OnAccept \/ OnAcceptAborted \/ RunReturns
MainStep ==
    \/ \E ok \in BOOLEAN : Construct(ok) \/ Listen(ok)
    \/ Start
    \/ IoStep
    \/ Leave \/ StopMonitor \/ DeleteEntities \/ DestroyRegistry \/ ResetExternalizer
Serve ==
    \/ \E made \in SUBSET ArcalTopics : PollBuiltin(made)
    \/ \E t \in Topics : DrainReader(t)
Deliver ==
    \/ DropSample \/ Snapshot
    \/ \E c \in Clients : Skip(c) \/ TestOpen(c)
    \/ Post \/ Delivered
MonitorStep == Test \/ Wait \/ Serve \/ AllServed \/ Deliver

Next ==
    \/ MainStep
    \/ MonitorStep
    \/ WaitFails \/ Crash
    \/ \E c \in Clients : Connect(c) \/ Closes(c) \/ SessionEnds(c)
    \/ Signal
    \/ \E t \in Topics : Publish(t) \/ Arrive(t)

(* Both threads go on while they have something to do.  Nothing is assumed  *)
(* of clients, of signals or of the bus.                                    *)
Spec == Init /\ [][Next]_vars /\ WF_vars(MainStep) /\ WF_vars(MonitorStep)

-----------------------------------------------------------------------------
(* Every variable stays in its domain.                                      *)
TypeOK ==
    /\ main \in {"construct", "start", "listen", "run", "leave", "stop", "join", "unregister",
                 "release", "exit"}
    /\ running \in BOOLEAN /\ monRunning \in BOOLEAN
    /\ signalWait \in BOOLEAN /\ signalled \in BOOLEAN
    /\ acceptor \in {"none", "open", "closed"}
    /\ accepting \in {"none", "waiting", "done", "aborted"}
    /\ arrived \subseteq Clients /\ sessions \subseteq Clients
    /\ open \subseteq Clients /\ gone \subseteq Clients
    /\ mpc \in {"none", "test", "wait", "serve", "deliver", "post", "done"}
    /\ pending \subseteq Topics \cup {Discovery}
    /\ publications \in Seq(Topics)
    /\ announced \in 0..MaxPublications
    /\ readers \subseteq Topics /\ failed \subseteq Topics
    /\ cache \in [Topics -> 0..Depth]
    /\ batch \in 0..SampleBatch
    /\ held \subseteq Clients /\ todo \subseteq Clients /\ posting \subseteq Clients
    /\ alive \subseteq Parts

(* While the monitor thread runs, on every way out of runServer             *)
(* (Server.cpp:93-146, TopicMonitor.cpp:40-49), the entities it waits on,   *)
(* the registry it asks for sessions and the externalizer it writes with    *)
(* exist: they are destroyed after the join.  The io context is not, as it  *)
(* is declared after the monitor (Server.cpp:106), but once it is gone no   *)
(* session is open: the monitor thread takes hold of no further one, and    *)
(* sendLine finds none of those it holds open (ClientSession.cpp:141, 290). *)
(* What remains is a delivery begun before the last session ended: its      *)
(* pending post and the sessions it holds outlive the io context (Crash).   *)
MonitorUsesLiveParts ==
    mpc \notin {"none", "done"} =>
        /\ MonitorParts \subseteq alive
        /\ "io" \in alive \/ open = {}

(* lacal/README.md:185-186, readers are created for arcal's topics "as they *)
(* appear on the bus": an announced topic is read, unless its reader could  *)
(* not be created or the monitor thread has ended.                          *)
InSeq(t) == \E i \in DOMAIN publications : publications[i] = t
Bridged ==
    \A t \in ArcalTopics :
        InSeq(t) ~> (t \in readers \cup failed \/ ~monRunning \/ mpc = "done")

(* A reader that has been given a condition is served: what waits in it is  *)
(* taken, even when samples keep arriving and replace those not yet taken   *)
(* (TopicMonitor.cpp:66-74, 111-126).                                       *)
Drained ==
    \A t \in ArcalTopics :
        cache[t] > 0 ~> (cache[t] = 0 \/ ~monRunning \/ mpc = "done")

(* After SIGINT or SIGTERM the process ends, once no client is connected.   *)
ExitsWhenAlone ==
    ([]<>signalled /\ <>[](sessions = {})) => <>(main = "exit")
=============================================================================
