----------------------------- MODULE DdsReader -----------------------------
(***************************************************************************)
(* One DDS reader: DdsReader<MsgType> (src/src/dds/DdsReader.h) together   *)
(* with the DdsReaderCore it owns (src/src/dds/DdsReaderCore.cpp).         *)
(*                                                                         *)
(* Application threads call addListener, removeListener, read, readNoWait, *)
(* close and finally destroy the reader, while the core's background       *)
(* thread takes samples and dispatches them to the registered listeners.   *)
(* The two mutexes are the reader's mu_ and the core's cbMutex; a step of  *)
(* the model ends where the code releases a lock, has to wait for one, or  *)
(* calls a listener.                                                       *)
(*                                                                         *)
(* The data is abstracted: a sample is its number on the topic and what    *)
(* dispatchOne finds in it ("good", "wrong" type tag, "corrupt" payload),  *)
(* and the vector listeners_ is the number of times it holds each          *)
(* listener, so the model calls listeners in any order.                    *)
(***************************************************************************)
EXTENDS Integers, Sequences

CONSTANTS
    Apps,        \* application threads
    Bg,          \* the core's background thread
    NoThread,    \* "nobody holds the mutex"
    Listeners,   \* listener objects
    Depth,       \* history depth of the reader's KeepLast QoS
    Caps,        \* values of numberOfMessages the application passes (0 = no cap)
    Calls,       \* operations the application uses, a subset of AllCalls
    Tags,        \* what samples may carry, a subset of AllTags
    MaxSamples,  \* bound: samples published on the topic
    MaxCalls     \* bound: calls the application makes in all

AllCalls == {"add", "remove", "read", "close", "destroy"}
AllTags  == {"good", "wrong", "corrupt"}

ASSUME ReaderAssumption ==
    /\ Bg \notin Apps
    /\ NoThread \notin Apps \cup {Bg}
    /\ Listeners # {}
    /\ Depth \in Nat \ {0}
    /\ Caps \subseteq Nat
    /\ Calls \subseteq AllCalls
    /\ Tags \subseteq AllTags
    /\ MaxSamples \in Nat
    /\ MaxCalls \in Nat

VARIABLES
    cache,       \* the DDS reader's history cache, oldest sample first
    published,   \* number of samples that have reached the reader
    mu,          \* holder of DdsReader::mu_
    listeners,   \* DdsReader::listeners_, as a count per listener
    closed,      \* DdsReader::closed_
    cbMutex,     \* holder of Impl::cbMutex
    callback,    \* TRUE when Impl::callback is set
    coreClosed,  \* Impl::closed
    phase,       \* lifetime of the DdsReader object
    pc,          \* where each thread is
    raw,         \* samples a thread has taken and not finished dispatching
    snap,        \* dispatchOne's copy of listeners_, less those already called
    arg,         \* the listener a call is about
    callsLeft,   \* calls the application may still make
    last         \* last[w][l]: last sample thread w handed to listener l

readerVars == <<cache, published>>
lockVars   == <<mu, listeners, cbMutex, callback>>
lifeVars   == <<closed, coreClosed, phase>>
workVars   == <<raw, snap, last>>
vars == <<readerVars, lockVars, lifeVars, workVars, pc, arg, callsLeft>>

Workers == Apps \cup {Bg}
Samples == [id : 1..MaxSamples, tag : AllTags]
NoListeners == [l \in Listeners |-> 0]

DispatchPcs == {"dispatch", "snap", "call"}
DtorPcs     == {"dtor", "dtorMembers", "dtorCore", "join"}
AppPcs      == {"idle", "set", "unset", "take", "closeCb", "closeCore", "dead"}
                   \cup DispatchPcs \cup DtorPcs
BgPcs       == {"loop", "peek", "wait", "take", "lock", "done", "dead"}
                   \cup DispatchPcs

(***************************************************************************)
(* The state the program starts from: the constructor has run and started  *)
(* the background thread, no listener is registered.                       *)
(***************************************************************************)
Init ==
    /\ cache = <<>>
    /\ published = 0
    /\ mu = NoThread
    /\ listeners = NoListeners
    /\ closed = FALSE
    /\ cbMutex = NoThread
    /\ callback = FALSE
    /\ coreClosed = FALSE
    /\ phase = "live"
    /\ pc = [w \in Workers |-> IF w = Bg THEN "loop" ELSE "idle"]
    /\ raw = [w \in Workers |-> <<>>]
    /\ snap = [w \in Workers |-> NoListeners]
    /\ arg = [t \in Apps |-> CHOOSE l \in Listeners : TRUE]
    /\ callsLeft = MaxCalls
    /\ last = [w \in Workers |-> NoListeners]

-----------------------------------------------------------------------------
(* The DDS implementation: a sample arrives and the KeepLast(Depth) cache  *)
(* drops its oldest one when full.                                         *)

KeepLast(s) == IF Len(cache) = Depth THEN Append(Tail(cache), s)
                                     ELSE Append(cache, s)

Publish ==
    /\ published < MaxSamples
    /\ published' = published + 1
    /\ \E tag \in Tags : cache' = KeepLast([id |-> published + 1, tag |-> tag])
    /\ UNCHANGED <<lockVars, lifeVars, workVars, pc, arg, callsLeft>>

(* Impl::take empties the cache, then keeps the first cap samples of it.    *)
TakenNewestFirst(cap) ==
    [i \in 1..Len(cache) |-> cache[Len(cache) + 1 - i]]
Taken(cap) == IF cap > 0 /\ cap < Len(cache) THEN SubSeq(cache, 1, cap) ELSE cache

Goto(w, label) == pc' = [pc EXCEPT ![w] = label]

-----------------------------------------------------------------------------
(* Application calls.                                                      *)

Begin(t, call) ==
    /\ call \in Calls
    /\ phase = "live"
    /\ pc[t] = "idle"
    /\ callsLeft > 0
    /\ callsLeft' = callsLeft - 1

(* addListener: under mu_, push_back; the first listener also sets the      *)
(* background callback, which needs cbMutex, with mu_ still held.           *)
AddListener(t, l) ==
    /\ Begin(t, "add")
    /\ mu = NoThread
    /\ listeners' = [listeners EXCEPT ![l] = @ + 1]
    /\ arg' = [arg EXCEPT ![t] = l]
    /\ IF listeners = NoListeners
         THEN mu' = t /\ Goto(t, "set")
         ELSE UNCHANGED <<mu, pc>>
    /\ UNCHANGED <<readerVars, lifeVars, workVars, cbMutex, callback>>

SetCallback(t) ==
    /\ pc[t] = "set"
    /\ cbMutex = NoThread
    /\ callback' = TRUE
    /\ mu' = NoThread
    /\ Goto(t, "idle")
    /\ UNCHANGED <<readerVars, lifeVars, workVars, listeners, cbMutex, arg, callsLeft>>

(* removeListener: under mu_, erase every occurrence; when none is left,    *)
(* clear the background callback with mu_ still held.                       *)
ErasedOnce(l) == [listeners EXCEPT ![l] = @ - 1]
Erased(l) == [listeners EXCEPT ![l] = 0]

AtMostOneLeft(l) == \A k, m \in Listeners : Erased(l)[k] > 0 /\ Erased(l)[m] > 0 => k = m
NoneLeft(l) == Erased(l) = NoListeners

RemoveListener(t, l) ==
    /\ Begin(t, "remove")
    /\ mu = NoThread
    /\ listeners' = Erased(l)
    /\ arg' = [arg EXCEPT ![t] = l]
    /\ IF NoneLeft(l)
         THEN mu' = t /\ Goto(t, "unset")
         ELSE UNCHANGED <<mu, pc>>
    /\ UNCHANGED <<readerVars, lifeVars, workVars, cbMutex, callback>>

ClearCallback(t) ==
    /\ pc[t] = "unset"
    /\ cbMutex = NoThread
    /\ callback' = FALSE
    /\ mu' = NoThread
    /\ Goto(t, "idle")
    /\ UNCHANGED <<readerVars, lifeVars, workVars, listeners, cbMutex, arg, callsLeft>>

(* read and readNoWait: throw when closed_, otherwise take (after a wait    *)
(* that ends with data or with the timeout) and dispatch every sample.      *)
Poll(t, l) ==
    /\ Begin(t, "read")
    /\ arg' = [arg EXCEPT ![t] = l]
    /\ IF closed THEN UNCHANGED pc ELSE Goto(t, "take")
    /\ UNCHANGED <<readerVars, lockVars, lifeVars, workVars>>

PollTake(t) ==
    /\ pc[t] = "take"
    /\ \E cap \in Caps : raw' = [raw EXCEPT ![t] = Taken(cap)]
    /\ cache' = <<>>
    /\ Goto(t, "dispatch")
    /\ UNCHANGED <<published, lockVars, lifeVars, snap, last, arg, callsLeft>>

PollReturn(t) ==
    /\ pc[t] = "dispatch"
    /\ raw[t] = <<>>
    /\ Goto(t, "idle")
    /\ UNCHANGED <<readerVars, lockVars, lifeVars, raw, snap, last, arg, callsLeft>>

(* close: set closed_, clear the callback, then close the core.             *)
Close(t) ==
    /\ Begin(t, "close")
    /\ closed' = TRUE
    /\ Goto(t, "closeCb")
    /\ UNCHANGED <<readerVars, lockVars, workVars, coreClosed, phase, arg>>

CloseCallback(t) ==
    /\ pc[t] = "closeCb"
    /\ cbMutex = NoThread
    /\ callback' = FALSE
    /\ Goto(t, "closeCore")
    /\ UNCHANGED <<readerVars, lifeVars, workVars, mu, listeners, cbMutex, arg, callsLeft>>

CloseCore(t) ==
    /\ pc[t] = "closeCore"
    /\ coreClosed' = TRUE
    /\ Goto(t, "idle")
    /\ UNCHANGED <<readerVars, lockVars, workVars, closed, phase, arg, callsLeft>>

(* The destructor, which the application runs when it makes no other call:  *)
(* ~DdsReader clears the callback, the members go in reverse order of their *)
(* declaration, and ~Impl closes the core and joins the background thread.  *)
Destroy(t) ==
    /\ Begin(t, "destroy")
    /\ \A u \in Apps : pc[u] = "idle"
    /\ phase' = "dtor"
    /\ Goto(t, "dtor")
    /\ UNCHANGED <<readerVars, lockVars, workVars, closed, coreClosed, arg>>

DtorCallback(t) ==
    /\ pc[t] = "dtor"
    /\ cbMutex = NoThread
    /\ callback' = FALSE
    /\ Goto(t, "dtorMembers")
    /\ UNCHANGED <<readerVars, lifeVars, workVars, mu, listeners, cbMutex, arg, callsLeft>>

DtorMembers(t) ==
    /\ pc[t] = "dtorMembers"
    /\ listeners' = NoListeners
    /\ phase' = "members"
    /\ Goto(t, "dtorCore")
    /\ UNCHANGED <<readerVars, workVars, mu, cbMutex, callback, closed, coreClosed,
                   arg, callsLeft>>

DtorCore(t) ==
    /\ pc[t] = "dtorCore"
    /\ coreClosed' = TRUE
    /\ Goto(t, "join")
    /\ UNCHANGED <<readerVars, lockVars, workVars, closed, phase, arg, callsLeft>>

Detached == TRUE
Joined   == pc[Bg] = "done"

DtorJoin(t) ==
    /\ pc[t] = "join"
    /\ Joined
    /\ phase' = "gone"
    /\ Goto(t, "idle")
    /\ UNCHANGED <<readerVars, lockVars, workVars, closed, coreClosed,
                   arg, callsLeft>>

-----------------------------------------------------------------------------
(* dispatchOne, run by a polling thread or by the background thread on the  *)
(* first sample of raw[w].                                                  *)

(* What dispatchOne throws leaves read() by the caller; on the background   *)
(* thread nothing catches it: std::terminate ends the process.              *)
Throw(w) ==
    /\ IF w = Bg
         THEN pc' = [u \in Workers |-> "dead"] /\ UNCHANGED raw
         ELSE /\ raw' = [raw EXCEPT ![w] = <<>>]
              /\ Goto(w, "idle")
    /\ UNCHANGED last

(* The tag decides; a good sample first goes to the listener of the poll.   *)
DispatchSample(w) ==
    /\ pc[w] = "dispatch"
    /\ raw[w] # <<>>
    /\ LET s == Head(raw[w]) IN
         \/ /\ s.tag = "wrong"
            /\ raw' = [raw EXCEPT ![w] = Tail(@)]
            /\ UNCHANGED <<pc, last>>
         \/ s.tag = "corrupt" /\ Throw(w)
         \/ /\ s.tag = "good"
            /\ IF w = Bg
                 THEN UNCHANGED last
                 ELSE last' = [last EXCEPT ![w][arg[w]] = s.id]
            /\ Goto(w, "snap")
            /\ UNCHANGED raw
    /\ UNCHANGED <<readerVars, lockVars, lifeVars, snap, arg, callsLeft>>

(* Copy listeners_ under mu_.                                               *)
Snapshot(w) ==
    /\ pc[w] = "snap"
    /\ mu = NoThread
    /\ snap' = [snap EXCEPT ![w] = listeners]
    /\ Goto(w, "call")
    /\ UNCHANGED <<readerVars, lockVars, lifeVars, raw, last, arg, callsLeft>>

(* Call the listeners of the copy with no lock held by dispatchOne.         *)
CallListener(w, l) ==
    /\ pc[w] = "call"
    /\ snap[w][l] > 0
    /\ snap' = [snap EXCEPT ![w][l] = @ - 1]
    /\ last' = [last EXCEPT ![w][l] = Head(raw[w]).id]
    /\ UNCHANGED <<readerVars, lockVars, lifeVars, raw, pc, arg, callsLeft>>

NextSample(w) ==
    /\ pc[w] = "call"
    /\ snap[w] = NoListeners
    /\ raw' = [raw EXCEPT ![w] = Tail(@)]
    /\ Goto(w, "dispatch")
    /\ UNCHANGED <<readerVars, lockVars, lifeVars, snap, last, arg, callsLeft>>

-----------------------------------------------------------------------------
(* The background thread, Impl::loop.                                       *)

ExitsWithCallback == coreClosed /\ callback
Exits == coreClosed

BgLoop ==
    /\ pc[Bg] = "loop"
    /\ Goto(Bg, IF Exits THEN "done" ELSE "peek")
    /\ UNCHANGED <<readerVars, lockVars, lifeVars, workVars, arg, callsLeft>>

(* Look at the callback under cbMutex; without one, sleep and start over.   *)
BgPeek ==
    /\ pc[Bg] = "peek"
    /\ cbMutex = NoThread
    /\ Goto(Bg, IF callback THEN "wait" ELSE "loop")
    /\ UNCHANGED <<readerVars, lockVars, lifeVars, workVars, arg, callsLeft>>

(* The wait set wakes for data or after its 100 ms.                         *)
BgWake ==
    /\ pc[Bg] = "wait"
    /\ Goto(Bg, IF Exits THEN "done" ELSE "take")
    /\ UNCHANGED <<readerVars, lockVars, lifeVars, workVars, arg, callsLeft>>

BgTake ==
    /\ pc[Bg] = "take"
    /\ raw' = [raw EXCEPT ![Bg] = Taken(0)]
    /\ cache' = <<>>
    /\ Goto(Bg, IF Taken(0) = <<>> THEN "loop" ELSE "lock")
    /\ UNCHANGED <<published, lockVars, lifeVars, snap, last, arg, callsLeft>>

(* Re-check the callback under cbMutex: dispatch with cbMutex held, or      *)
(* discard the samples when it has been cleared meanwhile.                  *)
NotRechecked == TRUE
StillWanted  == callback

BgLock ==
    /\ pc[Bg] = "lock"
    /\ cbMutex = NoThread
    /\ IF StillWanted
         THEN cbMutex' = Bg /\ Goto(Bg, "dispatch") /\ UNCHANGED raw
         ELSE raw' = [raw EXCEPT ![Bg] = <<>>] /\ Goto(Bg, "loop") /\ UNCHANGED cbMutex
    /\ UNCHANGED <<readerVars, lifeVars, mu, listeners, callback, snap,
                   last, arg, callsLeft>>

BgUnlock ==
    /\ pc[Bg] = "dispatch"
    /\ raw[Bg] = <<>>
    /\ cbMutex' = NoThread
    /\ Goto(Bg, "loop")
    /\ UNCHANGED <<readerVars, lifeVars, workVars, mu, listeners, callback, arg, callsLeft>>

-----------------------------------------------------------------------------
BeginCall(t) ==
    \/ \E l \in Listeners : AddListener(t, l) \/ RemoveListener(t, l) \/ Poll(t, l)
    \/ Close(t)
    \/ Destroy(t)

Dispatch(w) ==
    \/ DispatchSample(w)
    \/ Snapshot(w)
    \/ \E l \in Listeners : CallListener(w, l)
    \/ NextSample(w)

AppStep(t) ==
    \/ SetCallback(t)
    \/ ClearCallback(t)
    \/ PollTake(t)
    \/ PollReturn(t)
    \/ CloseCallback(t)
    \/ CloseCore(t)
    \/ DtorCallback(t)
    \/ DtorMembers(t)
    \/ DtorCore(t)
    \/ DtorJoin(t)
    \/ Dispatch(t)

BgStep ==
    \/ BgLoop
    \/ BgPeek
    \/ BgWake
    \/ BgTake
    \/ BgLock
    \/ BgUnlock
    \/ Dispatch(Bg)

Next ==
    \/ Publish
    \/ \E t \in Apps : BeginCall(t) \/ AppStep(t)
    \/ BgStep

Spec == Init /\ [][Next]_vars

(***************************************************************************)
(* A thread that is inside a call, and the background thread, are          *)
(* scheduled by the operating system as long as they can move; nobody      *)
(* promises that a sample arrives or that the application makes a call.    *)
(***************************************************************************)
Fairness ==
    /\ \A t \in Apps : WF_vars(AppStep(t))
    /\ WF_vars(BgStep)

FairSpec == Spec /\ Fairness

-----------------------------------------------------------------------------
PcOK ==
    /\ pc \in [Workers -> AppPcs \cup BgPcs]
    /\ \A t \in Apps : pc[t] \in AppPcs
    /\ pc[Bg] \in BgPcs

(* Every variable stays in its domain; in particular cbMutex is held across *)
(* a step by the background thread only.                                    *)
TypeOK ==
    /\ cache \in Seq(Samples)
    /\ published \in 0..MaxSamples
    /\ mu \in Apps \cup {NoThread}
    /\ listeners \in [Listeners -> Nat]
    /\ cbMutex \in {Bg, NoThread}
    /\ callback \in BOOLEAN
    /\ closed \in BOOLEAN
    /\ coreClosed \in BOOLEAN
    /\ phase \in {"live", "dtor", "members", "gone"}
    /\ PcOK
    /\ raw \in [Workers -> Seq(Samples)]
    /\ snap \in [Workers -> [Listeners -> Nat]]
    /\ arg \in [Apps -> Listeners]
    /\ callsLeft \in 0..MaxCalls
    /\ last \in [Workers -> [Listeners -> 0..MaxSamples]]

(* Once a call has cleared the background callback, the background thread   *)
(* is outside every listener: what setBackgroundCallback(nullptr) promises  *)
(* to removeListener, close and the destructor, which then let listeners go *)
(* (DdsReaderCore.cpp:84-87, 109-112).                                      *)
QuietWithoutCallback == ~callback => pc[Bg] \notin DispatchPcs

(* The background thread uses neither mu_ nor listeners_ once they have     *)
(* been destroyed, and has ended when the destructor returns (the order the *)
(* comment at DdsReader.h:96 relies on).                                    *)
SafeTeardown ==
    /\ phase \in {"members", "gone"} => pc[Bg] \notin DispatchPcs
    /\ phase = "gone" => pc[Bg] = "done"

(* On a reader nobody has closed, whenever mu_ is free the callback is set  *)
(* exactly when a listener is registered: no interleaving of addListener    *)
(* and removeListener leaves listeners without deliveries, or deliveries    *)
(* without listeners (DdsReader.h:36-51).                                   *)
CallbackTracksListeners ==
    mu = NoThread /\ phase = "live" /\ ~closed
        => (callback <=> listeners # NoListeners)

(* A thread never hands a listener an older sample after a newer one:       *)
(* "Multiple sequential messages are delivered in order" (README.md:618),   *)
(* whatever takes, polls and registrations happen in between.               *)
InOrderPerThread ==
    [][\A w \in Workers, l \in Listeners : last'[w][l] >= last[w][l]]_vars

(* removeListener holds mu_ and waits for cbMutex, which the background     *)
(* thread holds while it waits for mu_.                                     *)
LockCycle ==
    /\ mu # NoThread
    /\ pc[mu] \in {"set", "unset"}
    /\ cbMutex = Bg
    /\ pc[Bg] = "snap"

(* Every call returns, the destructor and its join included, unless the     *)
(* process is terminated or the removal of the last listener has met a      *)
(* dispatch: the lock cycle is the only way a call hangs.                   *)
CallsReturn ==
    \A t \in Apps : pc[t] # "idle" ~> (pc[t] \in {"idle", "dead"} \/ LockCycle)

(* DdsReaderCore.h:44, "Pass nullptr to put the background thread to        *)
(* sleep": a removeListener that asks for it gets it.                       *)
NullptrPutsToSleep ==
    \A t \in Apps : pc[t] = "unset" ~> (~callback \/ pc[t] = "dead")

(* README.md:619, "Listener added and removed mid-stream receives only      *)
(* in-scope messages": a listener about to be called by the background      *)
(* thread is registered, or its removal has not returned yet.               *)
RemovedListenerSilent ==
    \A l \in Listeners :
        pc[Bg] = "call" /\ snap[Bg][l] > 0
            => listeners[l] > 0 \/ \E t \in Apps : pc[t] = "unset" /\ arg[t] = l

(* The promise of AbstractReader, kept through the waits, locks, callbacks  *)
(* and exceptions between taking a sample and showing it: a poll and the    *)
(* background thread never have one sample both, and each listener is shown *)
(* the samples of a take one by one, in order, skipping what is not good    *)
(* (README.md:618, DdsReader.h:76-94).                                      *)
Abs == INSTANCE AbstractReader
         WITH Threads <- Workers, arrived <- published, pending <- cache, held <- raw

Implements == Abs!Spec
=============================================================================
