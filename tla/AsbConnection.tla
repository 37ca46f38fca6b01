--------------------------- MODULE AsbConnection ---------------------------
(***************************************************************************)
(* The service bus connection, DdsAbstractServiceBusConnection             *)
(* (src/src/dds/DdsAbstractServiceBusConnection.cpp): its status and the   *)
(* status listeners, the monitor thread, shutdown and destruction.         *)
(*                                                                         *)
(* Application threads and the monitor thread each run one step at a time; *)
(* a step ends where a lock is released or waited for, where a listener is *)
(* called, or at an access to an atomic.  Every critical section of        *)
(* statusMutex_ is one step; that of monitorCvMutex_ in the monitor thread *)
(* is not, because the predicate is evaluated before the thread sleeps.    *)
(*                                                                         *)
(* The status is kept as the history of the states entered since the       *)
(* constructor: status_.state is its last element, and a change is known   *)
(* by its position.  The vector listeners_ is the number of times it holds  *)
(* each listener, so the model calls listeners in any order.               *)
(***************************************************************************)
EXTENDS Integers, Sequences, FiniteSets

CONSTANTS
    Apps,       \* application threads
    Monitor,    \* monitorThread_
    Nobody,     \* no thread
    Listeners,  \* status listener objects
    MaxCalls    \* bound: calls the application makes in all

ASSUME ConnectionAssumption ==
    /\ Monitor \notin Apps
    /\ Nobody \notin Apps \cup {Monitor}
    /\ MaxCalls \in Nat

VARIABLES
    changes,      \* states entered by the connection, status_.state the last
    listeners,    \* listeners_
    running,      \* running_
    requested,    \* shutdownRequested_
    participant,  \* the DDS participant
    cvMutex,      \* holder of monitorCvMutex_
    pc,           \* where each thread is
    change,       \* the change a thread is telling listeners about
    pending,      \* transitionState's snapshot, less the listeners called
    dying,        \* the thread in the destructor
    told,         \* history: changes each listener was called with
    since,        \* history: the change current at each registration
    callsLeft     \* calls the application may still make

statusVars == <<changes, listeners, told, since>>
runVars == <<running, requested, participant, cvMutex, dying>>
threadVars == <<pc, change, pending, callsLeft>>
vars == <<statusVars, runVars, threadVars>>

Procs == Apps \cup {Monitor}
States == {"NORMAL", "INOPERABLE", "FAILED"}
AppPcs == {"idle", "greet", "fail", "tell", "clear", "wake", "join", "close"}
NoListeners == [l \in Listeners |-> 0]
MonPcs == {"check", "lock", "eval", "sleep", "waiting", "relock", "test",
           "probe", "inoperable", "tell", "done"}

(* The constructor has run: it entered INITIALIZING, the state it started   *)
(* from, and NORMAL before any listener could be added, and it started the  *)
(* monitor thread last.                                                     *)
Init ==
    /\ changes = <<"NORMAL">>
    /\ listeners = NoListeners
    /\ running = TRUE
    /\ requested = FALSE
    /\ participant = "live"
    /\ cvMutex = Nobody
    /\ pc = [p \in Procs |-> IF p = Monitor THEN "check" ELSE "idle"]
    /\ change = [p \in Procs |-> 0]
    /\ pending = [p \in Procs |-> NoListeners]
    /\ dying = Nobody
    /\ told = [l \in Listeners |-> <<>>]
    /\ since = [l \in Listeners |-> <<>>]
    /\ callsLeft = MaxCalls

(* The connection is used through the API until its destructor is called.   *)
MayCall(t) == pc[t] = "idle" /\ dying = Nobody /\ callsLeft > 0

Goto(p, label) == pc' = [pc EXCEPT ![p] = label]

-----------------------------------------------------------------------------
(* Status.                                                                 *)

Status == changes[Len(changes)]
Tell(l, k) == told' = [told EXCEPT ![l] = Append(@, k)]

(* transitionState, the part under statusMutex_: nothing when the state is  *)
(* not new.                                                                 *)
Enter(p, state, next) ==
    /\ IF Status = state
         THEN /\ Goto(p, next)
              /\ UNCHANGED <<changes, change, pending>>
         ELSE /\ changes' = Append(changes, state)
              /\ change' = [change EXCEPT ![p] = Len(changes) + 1]
              /\ pending' = [pending EXCEPT ![p] = listeners]
              /\ Goto(p, IF listeners = NoListeners THEN next ELSE "tell")
    /\ UNCHANGED <<listeners, told, since, runVars, callsLeft>>

NobodyElse(p, l) == NoListeners
StillToCall(p, l) == [pending[p] EXCEPT ![l] = @ - 1]

(* The rest of transitionState, with no lock: call the next listener of the *)
(* snapshot.                                                                *)
TellNext(p, l, next) ==
    /\ pc[p] = "tell"
    /\ pending[p][l] > 0
    /\ Tell(l, change[p])
    /\ pending' = [pending EXCEPT ![p] = StillToCall(p, l)]
    /\ Goto(p, IF StillToCall(p, l) = NoListeners THEN next ELSE "tell")
    /\ UNCHANGED <<changes, listeners, since, runVars, change, callsLeft>>

InitialStatus == 0
Current       == Len(changes)

(* addStatusListener: register and copy the status under statusMutex_ ...   *)
AddStatusListener(t, l) ==
    /\ MayCall(t)
    /\ listeners' = [listeners EXCEPT ![l] = @ + 1]
    /\ change' = [change EXCEPT ![t] = Current]
    /\ pending' = [pending EXCEPT ![t] = [NoListeners EXCEPT ![l] = 1]]
    /\ since' = [since EXCEPT ![l] = Append(@, Len(changes))]
    /\ callsLeft' = callsLeft - 1
    /\ Goto(t, "greet")
    /\ UNCHANGED <<changes, told, runVars>>

(* ... and call the listener with the copy after it is released.            *)
Greet(t, l) ==
    /\ pc[t] = "greet"
    /\ pending[t][l] > 0
    /\ Tell(l, change[t])
    /\ pending' = [pending EXCEPT ![t] = NoListeners]
    /\ Goto(t, "idle")
    /\ UNCHANGED <<changes, listeners, since, runVars, change, callsLeft>>

RemoveStatusListener(t, l) ==
    /\ MayCall(t)
    /\ listeners' = [listeners EXCEPT ![l] = 0]
    /\ callsLeft' = callsLeft - 1
    /\ UNCHANGED <<changes, told, since, runVars, pc, change, pending>>

-----------------------------------------------------------------------------
(* shutdown, and the destructor, which begins at "clear".                  *)

NeverRequested   == FALSE
AlreadyRequested == requested

(* A second call returns at once, whether or not the first one has          *)
(* finished.                                                                *)
Shutdown(t) ==
    /\ MayCall(t)
    /\ callsLeft' = callsLeft - 1
    /\ requested' = TRUE
    /\ Goto(t, IF AlreadyRequested THEN "idle" ELSE "fail")
    /\ UNCHANGED <<statusVars, running, participant, cvMutex, dying, change, pending>>

Fail(t) == pc[t] = "fail" /\ Enter(t, "FAILED", "clear")
TellFailed(t, l) == TellNext(t, l, "clear")

(* The owner destroys the connection when no other call is in progress.     *)
Destroy(t) ==
    /\ MayCall(t)
    /\ \A u \in Apps : pc[u] = "idle"
    /\ callsLeft' = callsLeft - 1
    /\ dying' = t
    /\ Goto(t, "clear")
    /\ UNCHANGED <<statusVars, running, requested, participant, cvMutex, change, pending>>

NoLock    == TRUE
MutexFree == cvMutex = Nobody

(* running_ = false under monitorCvMutex_.                                  *)
ClearRunning(t) ==
    /\ pc[t] = "clear"
    /\ MutexFree
    /\ running' = FALSE
    /\ Goto(t, "wake")
    /\ UNCHANGED <<statusVars, requested, participant, cvMutex, dying, change, pending, callsLeft>>

(* notify_all: the monitor thread, if it waits, has to lock and look again. *)
NotifyAll(t) ==
    /\ pc[t] = "wake"
    /\ pc' = [pc EXCEPT ![t] = "join",
                        ![Monitor] = IF @ = "waiting" THEN "lock" ELSE @]
    /\ UNCHANGED <<statusVars, runVars, change, pending, callsLeft>>

Detached == TRUE
Joined   == pc[Monitor] = "done"

(* join, unless the thread was joined before; the destructor ends here.     *)
Join(t) ==
    /\ pc[t] = "join"
    /\ Joined
    /\ participant' = IF dying = t THEN "destroyed" ELSE participant
    /\ Goto(t, IF dying = t THEN "idle" ELSE "close")
    /\ UNCHANGED <<statusVars, running, requested, cvMutex, dying, change, pending, callsLeft>>

CloseParticipant(t) ==
    /\ pc[t] = "close"
    /\ participant' = "closed"
    /\ Goto(t, "idle")
    /\ UNCHANGED <<statusVars, running, requested, cvMutex, dying, change, pending, callsLeft>>

-----------------------------------------------------------------------------
(* The monitor thread.                                                     *)

MonCheck ==
    /\ pc[Monitor] = "check"
    /\ Goto(Monitor, IF running THEN "lock" ELSE "done")
    /\ UNCHANGED <<statusVars, runVars, change, pending, callsLeft>>

MonLock ==
    /\ pc[Monitor] = "lock"
    /\ cvMutex = Nobody
    /\ cvMutex' = Monitor
    /\ Goto(Monitor, "eval")
    /\ UNCHANGED <<statusVars, running, requested, participant, dying, change, pending, callsLeft>>

(* The predicate of wait_for.                                               *)
MonEval ==
    /\ pc[Monitor] = "eval"
    /\ Goto(Monitor, IF running THEN "sleep" ELSE "test")
    /\ cvMutex' = IF running THEN cvMutex ELSE Nobody
    /\ UNCHANGED <<statusVars, running, requested, participant, dying, change, pending, callsLeft>>

(* The condition variable releases the mutex as the thread starts to wait.  *)
MonSleep ==
    /\ pc[Monitor] = "sleep"
    /\ cvMutex' = Nobody
    /\ Goto(Monitor, "waiting")
    /\ UNCHANGED <<statusVars, running, requested, participant, dying, change, pending, callsLeft>>

(* Two seconds have passed; wait_for returns once it has the mutex again.   *)
Timeout ==
    /\ pc[Monitor] = "waiting"
    /\ Goto(Monitor, "relock")
    /\ UNCHANGED <<statusVars, runVars, change, pending, callsLeft>>

MonRelock ==
    /\ pc[Monitor] = "relock"
    /\ cvMutex = Nobody
    /\ Goto(Monitor, "test")
    /\ UNCHANGED <<statusVars, runVars, change, pending, callsLeft>>

MonTest ==
    /\ pc[Monitor] = "test"
    /\ Goto(Monitor, IF running THEN "probe" ELSE "done")
    /\ UNCHANGED <<statusVars, runVars, change, pending, callsLeft>>

(* domain_id() throws when the participant is gone.                         *)
MonProbe ==
    /\ pc[Monitor] = "probe"
    /\ Goto(Monitor, IF participant = "live" THEN "check" ELSE "inoperable")
    /\ UNCHANGED <<statusVars, runVars, change, pending, callsLeft>>

MonInoperable == pc[Monitor] = "inoperable" /\ Enter(Monitor, "INOPERABLE", "check")
MonTell(l) == TellNext(Monitor, l, "check")

(* The application closes the participant it got from participant().        *)
ParticipantLost ==
    /\ participant = "live"
    /\ dying = Nobody
    /\ participant' = "lost"
    /\ UNCHANGED <<statusVars, running, requested, cvMutex, dying, threadVars>>

-----------------------------------------------------------------------------
Call(t) ==
    \/ \E l \in Listeners : AddStatusListener(t, l) \/ RemoveStatusListener(t, l)
    \/ Shutdown(t)
    \/ Destroy(t)

Continue(t) ==
    \/ \E l \in Listeners : Greet(t, l) \/ TellFailed(t, l)
    \/ Fail(t)
    \/ NotifyAll(t)
    \/ Join(t)
    \/ CloseParticipant(t)

MonStep ==
    \/ MonCheck
    \/ MonEval
    \/ MonSleep
    \/ MonTest
    \/ MonProbe
    \/ MonInoperable
    \/ \E l \in Listeners : MonTell(l)

MonAcquire == MonLock \/ MonRelock

Next ==
    \/ \E t \in Apps : Call(t) \/ Continue(t) \/ ClearRunning(t)
    \/ MonStep
    \/ MonAcquire
    \/ Timeout
    \/ ParticipantLost

Spec == Init /\ [][Next]_vars

(***************************************************************************)
(* Threads that can go on do, and one that asks for the mutex gets it some *)
(* time.  Nothing is assumed of Timeout: what follows holds however long   *)
(* the two seconds are.                                                    *)
(***************************************************************************)
FairSpec ==
    /\ Spec
    /\ \A t \in Apps : WF_vars(Continue(t)) /\ SF_vars(ClearRunning(t))
    /\ WF_vars(MonStep)
    /\ SF_vars(MonAcquire)

-----------------------------------------------------------------------------
PcOK ==
    /\ pc \in [Procs -> AppPcs \cup MonPcs]
    /\ pc[Monitor] \in MonPcs
    /\ \A t \in Apps : pc[t] \in AppPcs

(* A thread with listeners left to call has one change to tell them.        *)
TellingOK ==
    /\ change \in [Procs -> Nat]
    /\ pending \in [Procs -> [Listeners -> Nat]]
    /\ \A p \in Procs : pending[p] # NoListeners => change[p] \in 1..Len(changes)

(* Every variable stays in its domain; a listener is told of a state the    *)
(* connection has entered.                                                  *)
TypeOK ==
    /\ changes \in Seq(States) /\ changes # <<>>
    /\ listeners \in [Listeners -> Nat]
    /\ told \in [Listeners -> Seq(Nat)]
    /\ since \in [Listeners -> Seq(Nat)]
    /\ running \in BOOLEAN
    /\ requested \in BOOLEAN
    /\ participant \in {"live", "lost", "closed", "destroyed"}
    /\ cvMutex \in {Nobody, Monitor}
    /\ dying \in Apps \cup {Nobody}
    /\ callsLeft \in 0..MaxCalls
    /\ PcOK
    /\ TellingOK

(* The shutdownRequested_ exchange (line 56) lets one caller through: two   *)
(* threads never join monitorThread_ at once, which would be undefined.     *)
Closing == {"fail", "tell", "clear", "wake", "join", "close"}
SingleJoiner == \A t, u \in Apps : pc[t] \in Closing /\ pc[u] \in Closing => t = u

(* The participant is closed by shutdown, and destroyed with the object,    *)
(* when the monitor thread, which uses it, has ended.                       *)
MonitorEndsFirst == participant \in {"closed", "destroyed"} => pc[Monitor] = "done"

(* A listener registered once and for good is told of every change from the *)
(* one current at its registration on, each exactly once, by whichever      *)
(* thread: addStatusListener's copy and transitionState's snapshot neither  *)
(* overlap nor leave a gap (lines 110-113, 133-139).                        *)
Calls(l, k) ==
    Cardinality({i \in DOMAIN told[l] : told[l][i] = k})
    + Cardinality({p \in Procs : change[p] = k /\ pending[p][l] > 0})

ToldEachChangeOnce ==
    \A l \in Listeners : (Len(since[l]) = 1 /\ listeners[l] > 0) =>
        \A k \in 1..Len(changes) : Calls(l, k) = IF k < since[l][1] THEN 0 ELSE 1

(* Because running_ is cleared under monitorCvMutex_, the notification is   *)
(* not lost: a thread in join never waits for a monitor thread asleep.      *)
NoLostWakeup == \A t \in Apps : pc[t] = "join" => pc[Monitor] # "waiting"

(* PLAN.md:43-45 and the comment at line 145: shutdown and the destructor   *)
(* wake the monitor thread, so they return without the wait's timeout.      *)
PromptShutdown ==
    \A t \in Apps : (pc[t] \in Closing) ~> (pc[t] = "idle")

(* README.md:602, CAL-016366, "Status listener is called immediately on     *)
(* registration with current state": the call made at registration does not *)
(* come after, and take back, a newer state the listener was already told.  *)
GreetedWithCurrentState ==
    [][\A t \in Apps, l \in Listeners : Greet(t, l) =>
         \A i \in DOMAIN told[l] : told[l][i] <= change[t]]_vars
=============================================================================
