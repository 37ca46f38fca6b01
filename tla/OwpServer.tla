----------------------------- MODULE OwpServer -----------------------------
(***************************************************************************)
(* The WebSocket bridge of lacal: client sessions (ClientSession.cpp), the *)
(* registry that lists them, and the delivery half of the topic monitor    *)
(* (TopicMonitor.cpp, deliver).                                            *)
(*                                                                         *)
(* Two threads.  The io thread accepts clients, runs their commands one at *)
(* a time, and moves every line from the executor's post queue into the    *)
(* client's writeQueue_ and out of the socket.  The monitor thread takes   *)
(* DDS samples and delivers each to every client: it copies the client's   *)
(* subscriptions under stateMutex and works from the copy.  A step ends    *)
(* where a lock is released or a line is posted.                           *)
(*                                                                         *)
(* Data: a sample has a number and a kind, its <<topic, message name>>; a  *)
(* wildcard subscription holds the set of kinds its two patterns match     *)
(* (globMatch, see Protocol); the server-generated subscription id         *)
(* "xsub.<n>" is n, which no client uses as the id of a SUB of its own.    *)
(***************************************************************************)
EXTENDS Integers, Sequences, FiniteSets

CONSTANTS
    Clients,      \* connections that may be made
    NoClient,     \* no client
    Streams,      \* stream-ids the clients choose for XSUB
    SubIds,       \* subscription-ids the clients choose for SUB
    Topics,       \* topics
    Names,        \* message names
    Patterns,     \* kinds matched by the patterns clients use in XSUB
    NoKind,       \* not a kind: the subscription-id is free
    MaxCommands,  \* bound: lines received from each client
    MaxSamples,   \* bound: samples taken by the monitor
    MaxBacklog    \* bound: lines not written yet when a line or sample comes

Kinds == Topics \X Names
XSubs == [stream : Streams, pattern : Patterns]
Keys  == [stream : Streams, topic : Topics, name : Names]

ASSUME ServerAssumption ==
    /\ NoClient \notin Clients
    /\ NoKind \notin Kinds
    /\ Patterns \subseteq SUBSET Kinds
    /\ MaxCommands \in Nat
    /\ MaxSamples \in Nat
    /\ MaxBacklog \in Nat

VARIABLES
    open,         \* Client::open
    session,      \* what the io thread waits for on this connection
    registry,     \* ClientRegistry::clients_
    initialized,  \* Client::initialized
    verbose,      \* Client::verbose
    xsubs,        \* Client::xsubs
    subs,         \* Client::standardSubs: the kind each id stands for
    concrete,     \* Client::concreteSubs: the id of each key, 0 when there is none
    nextSubId,    \* Client::nextSubId
    okDue,        \* the client whose handler has yet to send its reply
    commands,     \* lines received from each client
    posted,       \* lines posted to the executor by sendLine
    queue,        \* Client::writeQueue_
    writing,      \* async_write operations outstanding
    wire,         \* lines written to the socket
    mpc,          \* where the monitor thread is
    sample,       \* the sample being delivered
    todo,         \* clients of the registry snapshot still to be served
    cur,          \* the client being served
    subsLeft,     \* matching standard subscriptions of the copy, not sent yet
    xsubsLeft,    \* streams of the matching wildcard subscriptions of the copy
    found         \* result of ensureConcreteSubscription

connVars == <<open, session, registry, commands>>
stateVars == <<initialized, verbose, xsubs, subs, concrete, nextSubId>>
sendVars == <<posted, queue, writing, wire>>
monVars == <<mpc, sample, todo, cur, subsLeft, xsubsLeft, found>>
vars == <<connVars, stateVars, okDue, sendVars, monVars>>

(* The elements of a sequence that are in T: SelectSeq, in a form the proofs *)
(* can expand.                                                              *)
Within(s, T) ==
    LET taken[i \in 0..Len(s)] ==
          IF i = 0 THEN <<>>
          ELSE IF s[i] \in T THEN Append(taken[i - 1], s[i]) ELSE taken[i - 1]
    IN  taken[Len(s)]

NoSubs == [i \in SubIds |-> NoKind]
NoConcrete == [k \in Keys |-> 0]

Ok   == [op |-> "+OK"]
Err  == [op |-> "-ERR"]
Info == [op |-> "INFO"]
Msg(id, s) == [op |-> "MSG", id |-> id, n |-> s.n, kind |-> s.kind]
XSubInfo(stream, id, kind) ==
    [op |-> "XSUBINFO", stream |-> stream, id |-> id, kind |-> kind]

Init ==
    /\ open = [c \in Clients |-> FALSE]
    /\ session = [c \in Clients |-> "none"]
    /\ registry = {}
    /\ commands = [c \in Clients |-> 0]
    /\ initialized = [c \in Clients |-> FALSE]
    /\ verbose = [c \in Clients |-> TRUE]
    /\ xsubs = [c \in Clients |-> <<>>]
    /\ subs = [c \in Clients |-> NoSubs]
    /\ concrete = [c \in Clients |-> NoConcrete]
    /\ nextSubId = [c \in Clients |-> 1]
    /\ okDue = NoClient
    /\ posted = [c \in Clients |-> <<>>]
    /\ queue = [c \in Clients |-> <<>>]
    /\ writing = [c \in Clients |-> 0]
    /\ wire = [c \in Clients |-> <<>>]
    /\ mpc = "idle"
    /\ sample = [n |-> 0, kind |-> NoKind]
    /\ todo = {}
    /\ cur = NoClient
    /\ subsLeft = {}
    /\ xsubsLeft = <<>>
    /\ found = [id |-> 0, isNew |-> FALSE]

(* sendLine: refused when the client is no longer open, else posted.        *)
SendLine(c, line) ==
    posted' = IF open[c] THEN [posted EXCEPT ![c] = Append(@, line)] ELSE posted

-----------------------------------------------------------------------------
(* Connections, on the io thread, which runs one handler at a time.         *)

IoIdle == okDue = NoClient

(* A connection is accepted, registered, and its HTTP request awaited.      *)
Accept(c) ==
    /\ IoIdle
    /\ session[c] = "none"
    /\ session' = [session EXCEPT ![c] = "http"]
    /\ open' = [open EXCEPT ![c] = TRUE]
    /\ registry' = registry \cup {c}
    /\ UNCHANGED <<commands, stateVars, okDue, sendVars, monVars>>

(* The request asked for the owp subprotocol and the upgrade succeeded.     *)
Upgrade(c) ==
    /\ IoIdle
    /\ session[c] = "http"
    /\ session' = [session EXCEPT ![c] = "ws"]
    /\ UNCHANGED <<open, registry, commands, stateVars, okDue, sendVars, monVars>>

(* The request or the upgrade fails or is refused, or a read fails or finds *)
(* the connection closed: nothing is awaited from this client any more.     *)
Disconnect(c) ==
    /\ IoIdle
    /\ session[c] \in {"http", "ws"}
    /\ session' = [session EXCEPT ![c] = "over"]
    /\ open' = [open EXCEPT ![c] = FALSE]
    /\ UNCHANGED <<registry, commands, stateVars, okDue, sendVars, monVars>>

-----------------------------------------------------------------------------
(* Commands (handleLine), on the io thread.  A line that is read is handled *)
(* even when a failed write has cleared open meanwhile; the next read is    *)
(* started only while the client is open.                                   *)

Receive(c, stillOpen) ==
    /\ IoIdle
    /\ session[c] = "ws"
    /\ commands[c] < MaxCommands
    /\ Len(posted[c] \o queue[c]) <= MaxBacklog
    /\ commands' = [commands EXCEPT ![c] = @ + 1]
    /\ open' = [open EXCEPT ![c] = @ /\ stillOpen]
    /\ session' = [session EXCEPT ![c] = IF open'[c] THEN "ws" ELSE "over"]
    /\ UNCHANGED <<registry, queue, writing, wire, monVars>>

(* The reply of a command that succeeded, sent after stateMutex is released. *)
Reply ==
    /\ okDue # NoClient
    /\ IF verbose[okDue] THEN SendLine(okDue, Ok) ELSE UNCHANGED posted
    /\ okDue' = NoClient
    /\ UNCHANGED <<connVars, stateVars, queue, writing, wire, monVars>>

AlwaysReady(c) == TRUE
Ready(c) == initialized[c]

(* A command is refused (malformed, PUB, unknown, an id in use or not       *)
(* active): the state is kept, the session goes on.                         *)
Refuse(c) ==
    /\ Receive(c, TRUE)
    /\ Ready(c)
    /\ SendLine(c, Err)
    /\ UNCHANGED <<stateVars, okDue>>

InitAccepted(c) ==
    /\ Receive(c, TRUE)
    /\ ~initialized[c]
    /\ \E v \in BOOLEAN : verbose' = [verbose EXCEPT ![c] = v]
    /\ initialized' = [initialized EXCEPT ![c] = TRUE]
    /\ SendLine(c, Info)
    /\ okDue' = c
    /\ UNCHANGED <<xsubs, subs, concrete, nextSubId>>

(* A second INIT, a malformed one, or one without a supported version; or   *)
(* another command before INIT.                                             *)
EndSession(c) ==
    /\ Receive(c, FALSE)
    /\ SendLine(c, Err)
    /\ UNCHANGED <<stateVars, okDue>>

(* XSUB: no check that the stream-id is new.                                *)
XSub(c, stream, pattern) ==
    /\ Receive(c, TRUE)
    /\ Ready(c)
    /\ xsubs' = [xsubs EXCEPT ![c] = Append(@, [stream |-> stream, pattern |-> pattern])]
    /\ okDue' = c
    /\ UNCHANGED <<initialized, verbose, subs, concrete, nextSubId, posted>>

(* XUNSUB: the stream's wildcards and the concrete subscriptions made for   *)
(* it, under one hold of stateMutex; no error when there are none.          *)
XUnsub(c, stream) ==
    /\ Receive(c, TRUE)
    /\ Ready(c)
    /\ xsubs' = [xsubs EXCEPT ![c] = Within(@, {x \in XSubs : x.stream # stream})]
    /\ concrete' = [concrete EXCEPT ![c] =
                      [k \in Keys |-> IF k.stream = stream THEN 0 ELSE @[k]]]
    /\ okDue' = c
    /\ UNCHANGED <<initialized, verbose, subs, nextSubId, posted>>

(* SUB with a free subscription-id; Refuse is SUB with one in use.          *)
Sub(c, id, kind) ==
    /\ Receive(c, TRUE)
    /\ Ready(c)
    /\ subs[c][id] = NoKind
    /\ subs' = [subs EXCEPT ![c][id] = kind]
    /\ okDue' = c
    /\ UNCHANGED <<initialized, verbose, xsubs, concrete, nextSubId, posted>>

(* UNSUB of an active subscription-id; Refuse is UNSUB of another.          *)
Unsub(c, id) ==
    /\ Receive(c, TRUE)
    /\ Ready(c)
    /\ subs[c][id] # NoKind
    /\ subs' = [subs EXCEPT ![c][id] = NoKind]
    /\ okDue' = c
    /\ UNCHANGED <<initialized, verbose, xsubs, concrete, nextSubId, posted>>

-----------------------------------------------------------------------------
(* Writing, on the io thread.                                              *)

NeverInProgress(c) == FALSE
WriteInProgress(c) == queue[c] # <<>>

PushedFirst(c, line) == <<line>> \o queue[c]
Pushed(c, line)      == Append(queue[c], line)

(* The handler sendLine posted: queue the line, and write unless a write is *)
(* in progress.                                                             *)
RunPosted(c) ==
    /\ IoIdle
    /\ posted[c] # <<>>
    /\ posted' = [posted EXCEPT ![c] = Tail(@)]
    /\ queue' = [queue EXCEPT ![c] = Pushed(c, Head(posted[c]))]
    /\ writing' = [writing EXCEPT ![c] = IF WriteInProgress(c) THEN @ ELSE @ + 1]
    /\ UNCHANGED <<connVars, stateVars, okDue, wire, monVars>>

StopsEachTime(rest) == FALSE
GoesOn(rest)        == rest # <<>>

WriteDone(c) ==
    /\ IoIdle
    /\ writing[c] > 0
    /\ wire' = [wire EXCEPT ![c] = Append(@, Head(queue[c]))]
    /\ queue' = [queue EXCEPT ![c] = Tail(@)]
    /\ writing' = [writing EXCEPT ![c] = IF GoesOn(Tail(queue[c])) THEN @ ELSE @ - 1]
    /\ UNCHANGED <<connVars, stateVars, okDue, posted, monVars>>

(* A failed write leaves its line in the queue and is not followed by       *)
(* another one.                                                             *)
WriteFails(c) ==
    /\ IoIdle
    /\ writing[c] > 0
    /\ writing' = [writing EXCEPT ![c] = @ - 1]
    /\ open' = [open EXCEPT ![c] = FALSE]
    /\ UNCHANGED <<session, registry, commands, stateVars, okDue, posted, queue, wire, monVars>>

-----------------------------------------------------------------------------
(* Delivery, on the monitor thread.                                        *)

(* A decoded sample; the registry snapshot holds the open clients.          *)
TakeSample(kind) ==
    /\ mpc = "idle"
    /\ sample.n < MaxSamples
    /\ \A c \in registry : open[c] => Len(posted[c] \o queue[c]) <= MaxBacklog
    /\ sample' = [n |-> sample.n + 1, kind |-> kind]
    /\ todo' = {c \in registry : open[c]}
    /\ mpc' = "next"
    /\ UNCHANGED <<connVars, stateVars, okDue, sendVars, cur, subsLeft, xsubsLeft, found>>

(* Copy the next client's subscriptions under its stateMutex; only those    *)
(* that match the sample matter from here on.                               *)
CopySubscriptions(c) ==
    /\ mpc = "next"
    /\ c \in todo
    /\ todo' = todo \ {c}
    /\ cur' = c
    /\ subsLeft' = {i \in SubIds : subs[c][i] = sample.kind}
    /\ xsubsLeft' = Within(xsubs[c], {x \in XSubs : sample.kind \in x.pattern})
    /\ mpc' = "subs"
    /\ UNCHANGED <<connVars, stateVars, okDue, sendVars, sample, found>>

SendToSub(id) ==
    /\ mpc = "subs"
    /\ id \in subsLeft
    /\ SendLine(cur, Msg(id, sample))
    /\ subsLeft' = subsLeft \ {id}
    /\ UNCHANGED <<connVars, stateVars, okDue, queue, writing, wire,
                   mpc, sample, todo, cur, xsubsLeft, found>>

SubsDone ==
    /\ mpc = "subs"
    /\ subsLeft = {}
    /\ mpc' = IF xsubsLeft = <<>> THEN "next" ELSE "ensure"
    /\ UNCHANGED <<connVars, stateVars, okDue, sendVars, sample, todo, cur,
                   subsLeft, xsubsLeft, found>>

TopicKey(stream) == [stream |-> stream, topic |-> sample.kind[1],
                     name |-> CHOOSE m \in Names : TRUE]
Key(stream) == [stream |-> stream, topic |-> sample.kind[1], name |-> sample.kind[2]]

CountOfActive   == Cardinality({k \in Keys : concrete[cur][k] # 0}) + 1
CountedFromZero == nextSubId[cur] - 1
FreshId == nextSubId[cur]

(* ensureConcreteSubscription for the next wildcard of the copy, under      *)
(* stateMutex: find the key's id, or give it a new one.                     *)
Ensure ==
    /\ mpc = "ensure"
    /\ LET k == Key(Head(xsubsLeft).stream) IN
         IF concrete[cur][k] # 0
           THEN /\ found' = [id |-> concrete[cur][k], isNew |-> FALSE]
                /\ mpc' = "msg"
                /\ UNCHANGED <<concrete, nextSubId>>
           ELSE /\ found' = [id |-> FreshId, isNew |-> TRUE]
                /\ mpc' = "info"
                /\ concrete' = [concrete EXCEPT ![cur][k] = FreshId]
                /\ nextSubId' = [nextSubId EXCEPT ![cur] = @ + 1]
    /\ UNCHANGED <<connVars, initialized, verbose, xsubs, subs, okDue, sendVars,
                   sample, todo, cur, subsLeft, xsubsLeft>>

SendXSubInfo ==
    /\ mpc = "info"
    /\ SendLine(cur, XSubInfo(Head(xsubsLeft).stream, found.id, sample.kind))
    /\ mpc' = "msg"
    /\ UNCHANGED <<connVars, stateVars, okDue, queue, writing, wire,
                   sample, todo, cur, subsLeft, xsubsLeft, found>>

SendToXSub ==
    /\ mpc = "msg"
    /\ SendLine(cur, Msg(found.id, sample))
    /\ xsubsLeft' = Tail(xsubsLeft)
    /\ mpc' = "subs"
    /\ UNCHANGED <<connVars, stateVars, okDue, queue, writing, wire,
                   sample, todo, cur, subsLeft, found>>

(* All clients are served: closed ones leave the registry.                  *)
RemoveClosed ==
    /\ mpc = "next"
    /\ todo = {}
    /\ registry' = {c \in registry : open[c]}
    /\ mpc' = "idle"
    /\ cur' = NoClient
    /\ UNCHANGED <<open, session, commands, stateVars, okDue, sendVars,
                   sample, todo, subsLeft, xsubsLeft, found>>

-----------------------------------------------------------------------------
Command(c) ==
    \/ InitAccepted(c)
    \/ EndSession(c)
    \/ Refuse(c)
    \/ \E stream \in Streams, pattern \in Patterns : XSub(c, stream, pattern)
    \/ \E stream \in Streams : XUnsub(c, stream)
    \/ \E id \in SubIds, kind \in Kinds : Sub(c, id, kind)
    \/ \E id \in SubIds : Unsub(c, id)

Deliver ==
    \/ \E c \in Clients : CopySubscriptions(c)
    \/ \E id \in SubIds : SendToSub(id)
    \/ SubsDone
    \/ Ensure
    \/ SendXSubInfo
    \/ SendToXSub
    \/ RemoveClosed

Next ==
    \/ \E c \in Clients :
         \/ Accept(c)
         \/ Upgrade(c)
         \/ Disconnect(c)
         \/ Command(c)
         \/ RunPosted(c)
         \/ WriteDone(c)
         \/ WriteFails(c)
    \/ Reply
    \/ \E kind \in Kinds : TakeSample(kind)
    \/ Deliver

Spec == Init /\ [][Next]_vars

(***************************************************************************)
(* The io thread runs the handlers that are ready, a write that was        *)
(* started completes one way or the other, and the monitor thread finishes *)
(* the delivery it is in.  No client is obliged to send anything.          *)
(***************************************************************************)
Fairness ==
    /\ WF_vars(Reply)
    /\ \A c \in Clients : WF_vars(RunPosted(c)) /\ WF_vars(WriteDone(c) \/ WriteFails(c))
    /\ WF_vars(Deliver)

FairSpec == Spec /\ Fairness

-----------------------------------------------------------------------------
(* Everything the client is sent, in order: on the wire, queued, posted.    *)
Sent(c) == wire[c] \o queue[c] \o posted[c]

GeneratedIds == Nat \ {0}
Lines ==
    [op : {"+OK", "-ERR", "INFO"}]
    \cup [op : {"MSG"}, id : SubIds \cup GeneratedIds, n : 1..MaxSamples, kind : Kinds]
    \cup [op : {"XSUBINFO"}, stream : Streams, id : GeneratedIds, kind : Kinds]

(* Every variable stays in its domain.                                      *)
TypeOK ==
    /\ open \in [Clients -> BOOLEAN]
    /\ session \in [Clients -> {"none", "http", "ws", "over"}]
    /\ registry \subseteq Clients
    /\ commands \in [Clients -> 0..MaxCommands]
    /\ initialized \in [Clients -> BOOLEAN]
    /\ verbose \in [Clients -> BOOLEAN]
    /\ xsubs \in [Clients -> Seq(XSubs)]
    /\ subs \in [Clients -> [SubIds -> Kinds \cup {NoKind}]]
    /\ concrete \in [Clients -> [Keys -> Nat]]
    /\ nextSubId \in [Clients -> GeneratedIds]
    /\ okDue \in Clients \cup {NoClient}
    /\ posted \in [Clients -> Seq(Lines)]
    /\ queue \in [Clients -> Seq(Lines)]
    /\ writing \in [Clients -> Nat]
    /\ wire \in [Clients -> Seq(Lines)]
    /\ mpc \in {"idle", "next", "subs", "ensure", "info", "msg"}
    /\ sample.n \in 0..MaxSamples /\ sample.kind \in Kinds \cup {NoKind}
    /\ todo \subseteq Clients
    /\ cur \in Clients \cup {NoClient}
    /\ subsLeft \subseteq SubIds
    /\ xsubsLeft \in Seq(XSubs)
    /\ found \in [id : Nat, isNew : BOOLEAN]

(* lacal/README.md:175-178, enough "metadata to map a subscription ID back  *)
(* to <topic, message-name>": an id the server generated is announced by an *)
(* XSUBINFO before its first MSG, and every later MSG with that id is of    *)
(* the kind announced.                                                      *)
IdMapsBack ==
    \A c \in Clients : LET lines == Sent(c) IN
        \A j \in DOMAIN lines : lines[j].op = "MSG" =>
            LET told == {i \in 1 .. j - 1 : /\ lines[i].op = "XSUBINFO"
                                            /\ lines[i].id = lines[j].id} IN
            /\ lines[j].id \in SubIds \/ told # {}
            /\ \A i \in told : lines[i].kind = lines[j].kind

(* A generated id is announced once: XUNSUB, a new XSUB of the same stream  *)
(* and the monitor's copy never make two subscriptions share an id.         *)
IdsNeverReused ==
    \A c \in Clients : LET lines == Sent(c) IN
        \A i, j \in DOMAIN lines :
            lines[i].op = "XSUBINFO" /\ lines[j].op = "XSUBINFO" /\ lines[i].id = lines[j].id
                => i = j

(* The samples of one subscription reach the client in the order they were  *)
(* taken, through two threads and two queues.                               *)
SampleOrder ==
    \A c \in Clients : LET lines == Sent(c) IN
        \A i, j \in DOMAIN lines :
            i < j /\ lines[i].op = "MSG" /\ lines[j].op = "MSG" /\ lines[i].id = lines[j].id
                => lines[i].n <= lines[j].n

(* lacal/README.md:83, 99-102: a client that gets anything but an error got *)
(* INFO first.                                                              *)
InfoFirst ==
    \A c \in Clients : LET lines == Sent(c) IN
        \A j \in DOMAIN lines : lines[j] # Err => lines[1] = Info

(* The WebSocket stream has at most one write outstanding, and one as long  *)
(* as the queue of an open client holds a line (ClientSession.cpp:142-146,  *)
(* 257-269).                                                                *)
OneWrite ==
    \A c \in Clients :
        /\ writing[c] <= 1
        /\ open[c] => (writing[c] = 1 <=> queue[c] # <<>>)

(* A sample that is being delivered is written to every open client that    *)
(* asks for it, unless the client goes away or gives the subscription up.   *)
Wants(c, kind) ==
    \/ \E id \in SubIds : subs[c][id] = kind
    \/ \E x \in DOMAIN xsubs[c] : kind \in xsubs[c][x].pattern
Received(c, n) == \E j \in DOMAIN wire[c] : wire[c][j].op = "MSG" /\ wire[c][j].n = n

Delivered ==
    \A c \in Clients, n \in 1..MaxSamples :
        (sample.n = n /\ c \in todo /\ Wants(c, sample.kind))
            ~> (Received(c, n) \/ ~open[c] \/ (sample.n = n /\ ~Wants(c, sample.kind)))

(* lacal/README.md:180-181, "XUNSUB <stream-id> removes the wildcard stream *)
(* and its server-generated concrete subscriptions": a concrete             *)
(* subscription belongs to a wildcard the client still has.                 *)
ConcreteHasStream ==
    \A c \in Clients, k \in Keys :
        concrete[c][k] # 0 => \E x \in DOMAIN xsubs[c] : xsubs[c][x].stream = k.stream
=============================================================================
