------------------------ MODULE AsbConnection_proofs ------------------------
(***************************************************************************)
(* Proofs about AsbConnection, for any number of threads, listeners and    *)
(* calls: the type invariant; that at most one thread shuts down; that the *)
(* monitor thread cannot miss the notification; that the participant       *)
(* outlives it; and that a listener is called with each change once.       *)
(***************************************************************************)
EXTENDS AsbConnection, SequenceTheorems, FiniteSetTheorems, TLAPS

(***************************************************************************)
(* The inductive invariant.                                                *)
(***************************************************************************)

(* A thread is closing because it won the exchange or runs the destructor,  *)
(* and while one runs the destructor the others are idle.                   *)
OneCloser ==
    /\ SingleJoiner
    /\ \A t \in Apps : pc[t] \in Closing /\ dying = Nobody => requested
    /\ \A t \in Apps : dying \notin {Nobody, t} => pc[t] = "idle"

(* The monitor thread holds the mutex from the predicate to its sleep, so   *)
(* it does not go to sleep once running_ is false.                          *)
AwakeAtEnd ==
    /\ NoLostWakeup
    /\ \A t \in Apps : pc[t] \in {"wake", "join"} => ~running
    /\ pc[Monitor] \in {"eval", "sleep"} => cvMutex = Monitor
    /\ pc[Monitor] = "sleep" => running

(* The participant is touched after the join.                               *)
JoinedFirst ==
    /\ MonitorEndsFirst
    /\ \A t \in Apps : pc[t] = "close" => pc[Monitor] = "done"

IInv == TypeOK /\ OneCloser /\ AwakeAtEnd /\ JoinedFirst

(***************************************************************************)
(* Lemmas about the operators.                                             *)
(***************************************************************************)

(* The program counter after a step of one thread.                          *)
LEMMA GotoApp ==
    ASSUME NEW t \in Apps, NEW label \in AppPcs, PcOK, Goto(t, label)
    PROVE  /\ PcOK'
           /\ pc'[t] = label
           /\ \A p \in Procs \ {t} : pc'[p] = pc[p]
BY ConnectionAssumption DEF Goto, PcOK, Procs

LEMMA GotoMonitor ==
    ASSUME NEW label \in MonPcs, PcOK, Goto(Monitor, label)
    PROVE  /\ PcOK'
           /\ pc'[Monitor] = label
           /\ \A p \in Procs \ {Monitor} : pc'[p] = pc[p]
BY ConnectionAssumption DEF Goto, PcOK, Procs

LEMMA PcStays == ASSUME PcOK, UNCHANGED pc PROVE PcOK'
BY DEF PcOK

LEMMA Labels ==
    /\ AppPcs = {"idle", "greet", "fail", "tell", "clear", "wake", "join", "close"}
    /\ MonPcs = {"check", "lock", "eval", "sleep", "waiting", "relock", "test",
                 "probe", "inoperable", "tell", "done"}
    /\ Closing = {"fail", "tell", "clear", "wake", "join", "close"}
BY DEF AppPcs, MonPcs, Closing

LEMMA NoListenersType == NoListeners \in [Listeners -> Nat]
BY DEF NoListeners

LEMMA TellType ==
    ASSUME TypeOK, NEW l \in Listeners, NEW p \in Procs, Tell(l, change[p])
    PROVE  told' \in [Listeners -> Seq(Nat)]
<1>1. Append(told[l], change[p]) \in Seq(Nat)
  BY AppendProperties DEF TypeOK, TellingOK
<1> QED BY <1>1 DEF TypeOK, Tell

(* A step that leaves the status alone keeps its types when it keeps those  *)
(* of the thread and of the flags.                                          *)
LEMMA QuietStep ==
    ASSUME TypeOK, PcOK', UNCHANGED <<statusVars, change, pending>>,
           running' \in BOOLEAN, requested' \in BOOLEAN,
           participant' \in {"live", "lost", "closed", "destroyed"},
           cvMutex' \in {Nobody, Monitor}, dying' \in Apps \cup {Nobody},
           callsLeft' \in 0..MaxCalls
    PROVE  TypeOK'
BY DEF TypeOK, TellingOK, statusVars

(***************************************************************************)
(* Type correctness: first the actions that change the status or call      *)
(* listeners, then the rest.                                               *)
(***************************************************************************)

LEMMA InitType == Init => TypeOK
<1> SUFFICES ASSUME Init PROVE TypeOK
  OBVIOUS
<1>1. PcOK
  BY ConnectionAssumption, Labels DEF Init, PcOK, Procs
<1>2. TellingOK
  BY NoListenersType DEF Init, TellingOK
<1>3. changes \in Seq(States) /\ changes # <<>>
  BY DEF Init, States
<1>4. callsLeft \in 0..MaxCalls
  BY ConnectionAssumption DEF Init
<1> QED BY <1>1, <1>2, <1>3, <1>4, EmptySeq, NoListenersType DEF Init, TypeOK

LEMMA EnterType ==
    ASSUME TypeOK, PcOK', NEW p \in Procs, NEW state \in States, NEW next,
           Enter(p, state, next)
    PROVE  TypeOK'
<1>1. UNCHANGED <<listeners, told, since, running, requested, participant,
                  cvMutex, dying, callsLeft>>
  BY DEF Enter, runVars
<1>2. CASE Status = state
  BY <1>1, <1>2 DEF Enter, TypeOK, TellingOK
<1>3. CASE Status # state
  <2>1. /\ changes' = Append(changes, state)
        /\ change' = [change EXCEPT ![p] = Len(changes) + 1]
        /\ pending' = [pending EXCEPT ![p] = listeners]
    BY <1>3 DEF Enter
  <2>2. /\ changes' \in Seq(States) /\ changes' # <<>>
        /\ Len(changes') = Len(changes) + 1
        /\ Len(changes) \in Nat
    BY <2>1, AppendProperties DEF TypeOK
  <2>3. change' \in [Procs -> Nat] /\ pending' \in [Procs -> [Listeners -> Nat]]
    BY <2>1, <2>2 DEF TypeOK, TellingOK
  <2>4. ASSUME NEW q \in Procs, pending'[q] # NoListeners
        PROVE  change'[q] \in 1..Len(changes')
    <3>1. CASE q = p
      BY <3>1, <2>1, <2>2 DEF TypeOK, TellingOK
    <3>2. CASE q # p
      BY <3>2, <2>1, <2>2, <2>4 DEF TypeOK, TellingOK
    <3> QED BY <3>1, <3>2
  <2>5. TellingOK'
    BY <2>3, <2>4 DEF TellingOK
  <2> QED BY <1>1, <2>2, <2>5 DEF TypeOK
<1> QED BY <1>2, <1>3

LEMMA TellNextType ==
    ASSUME TypeOK, PcOK', NEW p \in Procs, NEW l \in Listeners, NEW next,
           TellNext(p, l, next)
    PROVE  TypeOK'
<1>1. /\ UNCHANGED <<changes, listeners, since, running, requested, participant,
                     cvMutex, dying, callsLeft, change>>
      /\ told' \in [Listeners -> Seq(Nat)]
  BY TellType DEF TellNext, runVars
<1>2. TellingOK'
  <2>1. pending[p] \in [Listeners -> Nat] /\ pending[p] # NoListeners
    BY DEF TypeOK, TellingOK, TellNext, NoListeners
  <2>2. StillToCall(p, l) \in [Listeners -> Nat]
    BY <2>1 DEF StillToCall, TellNext
  <2> QED BY <1>1, <2>1, <2>2 DEF TypeOK, TellingOK, TellNext
<1> QED BY <1>1, <1>2 DEF TypeOK

LEMMA GreetType ==
    ASSUME TypeOK, PcOK', NEW t \in Apps, NEW l \in Listeners, Greet(t, l)
    PROVE  TypeOK'
<1>1. t \in Procs /\ told' \in [Listeners -> Seq(Nat)]
  BY TellType DEF Greet, Procs
<1>2. TellingOK'
  BY <1>1, NoListenersType DEF TypeOK, TellingOK, Greet
<1> QED BY <1>1, <1>2 DEF TypeOK, Greet, runVars

LEMMA AddType ==
    ASSUME TypeOK, PcOK', NEW t \in Apps, NEW l \in Listeners, AddStatusListener(t, l)
    PROVE  TypeOK'
<1>1. /\ t \in Procs
      /\ Len(changes) \in Nat /\ Len(changes) \in 1..Len(changes)
      /\ listeners' \in [Listeners -> Nat]
  BY DEF TypeOK, AddStatusListener, Procs
<1>2. Append(since[l], Len(changes)) \in Seq(Nat)
  BY <1>1, AppendProperties DEF TypeOK
<1>3. [NoListeners EXCEPT ![l] = 1] \in [Listeners -> Nat]
  BY NoListenersType
<1>4. TellingOK'
  BY <1>1, <1>3 DEF TypeOK, TellingOK, AddStatusListener, Current
<1>5. callsLeft' \in 0..MaxCalls
  BY ConnectionAssumption DEF TypeOK, AddStatusListener, MayCall
<1> QED BY <1>1, <1>2, <1>4, <1>5 DEF TypeOK, AddStatusListener, runVars

LEMMA CallType ==
    ASSUME TypeOK, NEW t \in Apps, Call(t)
    PROVE  TypeOK'
<1>1. callsLeft > 0 => callsLeft - 1 \in 0..MaxCalls
  BY ConnectionAssumption DEF TypeOK
<1>2. ASSUME NEW l \in Listeners, AddStatusListener(t, l)
      PROVE  TypeOK'
  <2>1. PcOK'
    BY <1>2, GotoApp, Labels DEF AddStatusListener, TypeOK
  <2> QED BY <1>2, <2>1, AddType
<1>3. ASSUME NEW l \in Listeners, RemoveStatusListener(t, l)
      PROVE  TypeOK'
  <2>1. PcOK'
    BY <1>3, PcStays DEF RemoveStatusListener, TypeOK
  <2> QED BY <1>1, <1>3, <2>1 DEF RemoveStatusListener, MayCall, TypeOK, TellingOK, runVars
<1>4. CASE Shutdown(t)
  <2>1. PcOK'
    BY <1>4, GotoApp, Labels DEF Shutdown, TypeOK
  <2> QED BY <1>1, <1>4, <2>1, QuietStep DEF Shutdown, MayCall, TypeOK
<1>5. CASE Destroy(t)
  <2>1. PcOK'
    BY <1>5, GotoApp, Labels DEF Destroy, TypeOK
  <2> QED BY <1>1, <1>5, <2>1, QuietStep DEF Destroy, MayCall, TypeOK
<1> QED BY <1>2, <1>3, <1>4, <1>5 DEF Call

LEMMA ContinueType ==
    ASSUME TypeOK, NEW t \in Apps, Continue(t) \/ ClearRunning(t)
    PROVE  TypeOK'
<1> USE Labels
<1>1. t \in Procs /\ PcOK
  BY DEF Procs, TypeOK
<1>2. ASSUME NEW l \in Listeners, Greet(t, l)
      PROVE  TypeOK'
  BY <1>1, <1>2, GotoApp, GreetType DEF Greet
<1>3. ASSUME NEW l \in Listeners, TellFailed(t, l)
      PROVE  TypeOK'
  <2>1. PcOK'
    BY <1>1, <1>3, GotoApp DEF TellFailed, TellNext
  <2> QED BY <1>1, <1>3, <2>1, TellNextType DEF TellFailed
<1>4. CASE Fail(t)
  <2>1. PcOK'
    BY <1>1, <1>4, GotoApp DEF Fail, Enter
  <2> QED BY <1>1, <1>4, <2>1, EnterType DEF Fail, States
<1>5. CASE NotifyAll(t)
  <2>1. PcOK'
    BY <1>1, <1>5, ConnectionAssumption DEF NotifyAll, PcOK, Procs
  <2> QED BY <1>5, <2>1, QuietStep DEF NotifyAll, runVars, TypeOK
<1>6. CASE Join(t)
  <2>1. PcOK'
    BY <1>1, <1>6, GotoApp DEF Join
  <2> QED BY <1>6, <2>1, QuietStep DEF Join, TypeOK
<1>7. CASE CloseParticipant(t)
  <2>1. PcOK'
    BY <1>1, <1>7, GotoApp DEF CloseParticipant
  <2> QED BY <1>7, <2>1, QuietStep DEF CloseParticipant, TypeOK
<1>8. CASE ClearRunning(t)
  <2>1. PcOK'
    BY <1>1, <1>8, GotoApp DEF ClearRunning
  <2> QED BY <1>8, <2>1, QuietStep DEF ClearRunning, TypeOK
<1> QED BY <1>2, <1>3, <1>4, <1>5, <1>6, <1>7, <1>8 DEF Continue

LEMMA MonitorType ==
    ASSUME TypeOK, MonStep \/ MonAcquire \/ Timeout
    PROVE  TypeOK'
<1> USE Labels
<1>1. Monitor \in Procs /\ PcOK
  BY DEF Procs, TypeOK
<1>2. CASE MonInoperable
  <2>1. PcOK'
    BY <1>1, <1>2, GotoMonitor DEF MonInoperable, Enter
  <2> QED BY <1>1, <1>2, <2>1, EnterType DEF MonInoperable, States
<1>3. ASSUME NEW l \in Listeners, MonTell(l)
      PROVE  TypeOK'
  <2>1. PcOK'
    BY <1>1, <1>3, GotoMonitor DEF MonTell, TellNext
  <2> QED BY <1>1, <1>3, <2>1, TellNextType DEF MonTell
<1>4. CASE MonCheck \/ MonTest \/ MonProbe \/ MonRelock \/ Timeout
  <2>1. PcOK'
    BY <1>1, <1>4, GotoMonitor DEF MonCheck, MonTest, MonProbe, MonRelock, Timeout
  <2> QED BY <1>4, <2>1, QuietStep
          DEF MonCheck, MonTest, MonProbe, MonRelock, Timeout, runVars, TypeOK
<1>5. CASE MonLock \/ MonEval \/ MonSleep
  <2>1. PcOK'
    BY <1>1, <1>5, GotoMonitor DEF MonLock, MonEval, MonSleep
  <2> QED BY <1>5, <2>1, QuietStep DEF MonLock, MonEval, MonSleep, TypeOK
<1> QED BY <1>2, <1>3, <1>4, <1>5 DEF MonStep, MonAcquire

LEMMA TypeStep == TypeOK /\ [Next]_vars => TypeOK'
<1> SUFFICES ASSUME TypeOK, [Next]_vars PROVE TypeOK'
  OBVIOUS
<1>1. CASE ParticipantLost
  BY <1>1, PcStays, QuietStep DEF ParticipantLost, threadVars, TypeOK
<1>2. CASE UNCHANGED vars
  BY <1>2, PcStays, QuietStep DEF vars, runVars, threadVars, TypeOK
<1> QED BY <1>1, <1>2, CallType, ContinueType, MonitorType DEF Next

(* Every variable of the connection stays in its domain.                    *)
THEOREM TypeCorrect == Spec => []TypeOK
BY InitType, TypeStep, PTL DEF Spec

(***************************************************************************)
(* Shutdown: the invariant that orders the closing thread, the mutex and   *)
(* the monitor thread.                                                     *)
(***************************************************************************)

LEMMA InitClosing == Init => OneCloser /\ AwakeAtEnd /\ JoinedFirst
BY ConnectionAssumption, Labels
   DEF Init, OneCloser, SingleJoiner, AwakeAtEnd, NoLostWakeup, JoinedFirst,
       MonitorEndsFirst, Procs

(* Nobody enters the closing part but through the exchange or the           *)
(* destructor.                                                              *)
LEMMA OneCloserStep == TypeOK /\ OneCloser /\ [Next]_vars => OneCloser'
<1> SUFFICES ASSUME TypeOK, OneCloser, [Next]_vars PROVE OneCloser'
  OBVIOUS
<1> USE Labels, ConnectionAssumption DEF OneCloser, SingleJoiner, Procs
<1>1. PcOK
  BY DEF TypeOK
<1>2. ASSUME NEW t \in Apps, UNCHANGED <<dying, requested>>,
             pc'[t] \in Closing => pc[t] \in Closing,
             pc[t] = "idle" => dying = Nobody \/ pc'[t] = "idle",
             \A u \in Apps \ {t} : pc'[u] = pc[u]
      PROVE  OneCloser'
  BY <1>2
<1>3. ASSUME UNCHANGED <<dying, requested>>, \A u \in Apps : pc'[u] = pc[u]
      PROVE  OneCloser'
  BY <1>3
<1>4. ASSUME NEW t \in Apps, Call(t)
      PROVE  OneCloser'
  <2>1. ASSUME NEW l \in Listeners, AddStatusListener(t, l)
        PROVE  OneCloser'
    BY <1>1, <1>2, <2>1, GotoApp DEF AddStatusListener, MayCall, runVars
  <2>2. ASSUME NEW l \in Listeners, RemoveStatusListener(t, l)
        PROVE  OneCloser'
    BY <1>3, <2>2 DEF RemoveStatusListener, runVars
  <2>3. CASE Shutdown(t)
    BY <1>1, <2>3, GotoApp DEF Shutdown, MayCall, AlreadyRequested
  <2>4. CASE Destroy(t)
    BY <1>1, <2>4, GotoApp DEF Destroy, MayCall
  <2> QED BY <1>4, <2>1, <2>2, <2>3, <2>4 DEF Call
<1>5. ASSUME NEW t \in Apps, Continue(t) \/ ClearRunning(t)
      PROVE  OneCloser'
  <2>1. ASSUME NEW l \in Listeners, Greet(t, l)
        PROVE  OneCloser'
    BY <1>1, <1>2, <2>1, GotoApp DEF Greet, runVars
  <2>2. ASSUME NEW l \in Listeners, TellFailed(t, l)
        PROVE  OneCloser'
    BY <1>1, <1>2, <2>2, GotoApp DEF TellFailed, TellNext, runVars
  <2>3. CASE Fail(t)
    BY <1>1, <1>2, <2>3, GotoApp DEF Fail, Enter, runVars
  <2>4. CASE NotifyAll(t)
    BY <1>1, <1>2, <2>4 DEF NotifyAll, runVars, PcOK
  <2>5. CASE Join(t) \/ CloseParticipant(t) \/ ClearRunning(t)
    BY <1>1, <1>2, <2>5, GotoApp DEF Join, CloseParticipant, ClearRunning
  <2> QED BY <1>5, <2>1, <2>2, <2>3, <2>4, <2>5 DEF Continue
<1>6. CASE MonStep \/ MonAcquire \/ Timeout
  <2>1. UNCHANGED <<dying, requested>>
    BY <1>6 DEF MonStep, MonAcquire, MonCheck, MonLock, MonEval, MonSleep, Timeout, MonRelock,
               MonTest, MonProbe, MonInoperable, Enter, MonTell, TellNext, runVars
  <2>2. \A u \in Apps : pc'[u] = pc[u]
    BY <1>1, <1>6, GotoMonitor
       DEF MonStep, MonAcquire, MonCheck, MonLock, MonEval, MonSleep, Timeout, MonRelock,
           MonTest, MonProbe, MonInoperable, Enter, MonTell, TellNext
  <2> QED BY <1>3, <2>1, <2>2
<1>7. CASE ParticipantLost \/ UNCHANGED vars
  BY <1>3, <1>7 DEF ParticipantLost, vars, runVars, threadVars
<1> QED BY <1>4, <1>5, <1>6, <1>7 DEF Next

(* What each thread may do to the flag, the mutex and the other's place:    *)
(* the application's threads move the monitor only by notify_all.           *)
LEMMA AppMoves ==
    ASSUME TypeOK, NEW t \in Apps, Call(t) \/ Continue(t) \/ ClearRunning(t)
    PROVE  /\ cvMutex' = cvMutex
           /\ \A u \in Apps \ {t} : pc'[u] = pc[u]
           /\ running' => running
           /\ running => running' \/ ClearRunning(t)
           /\ pc'[t] = "wake" => ~running' \/ pc[t] = "wake"
           /\ pc'[t] = "join" => pc[t] \in {"wake", "join"}
           /\ pc'[t] = "join" => pc[t] = "join" \/ pc'[Monitor] # "waiting"
           /\ pc'[t] = "close" => pc[t] = "close" \/ pc[Monitor] = "done"
           /\ pc'[Monitor] = pc[Monitor]
                \/ (pc[Monitor] = "waiting" /\ pc'[Monitor] = "lock")
           /\ participant' = participant \/ pc[Monitor] = "done" \/ pc[t] = "close"
<1> USE Labels, ConnectionAssumption DEF Procs
<1>1. PcOK
  BY DEF TypeOK
<1>2. ASSUME NEW l \in Listeners,
             AddStatusListener(t, l) \/ Greet(t, l) \/ TellFailed(t, l)
      PROVE  /\ UNCHANGED runVars
             /\ \A p \in Procs \ {t} : pc'[p] = pc[p]
             /\ pc'[t] \in {"greet", "idle", "tell", "clear"}
  BY <1>1, <1>2, GotoApp DEF AddStatusListener, Greet, TellFailed, TellNext
<1>3. ASSUME NEW l \in Listeners, RemoveStatusListener(t, l)
      PROVE  UNCHANGED <<runVars, pc>>
  BY <1>3 DEF RemoveStatusListener
<1>4. CASE Shutdown(t) \/ Destroy(t) \/ Fail(t)
  <2>1. /\ UNCHANGED <<cvMutex, running, participant>>
        /\ \A p \in Procs \ {t} : pc'[p] = pc[p]
        /\ pc'[t] \in {"idle", "fail", "clear", "tell"}
    BY <1>1, <1>4, GotoApp DEF Shutdown, Destroy, Fail, Enter, runVars
  <2> QED BY <2>1
<1>5. CASE ClearRunning(t)
  BY <1>1, <1>5, GotoApp DEF ClearRunning
<1>6. CASE NotifyAll(t)
  BY <1>1, <1>6 DEF NotifyAll, PcOK, runVars
<1>7. CASE Join(t) \/ CloseParticipant(t)
  BY <1>1, <1>7, GotoApp DEF Join, Joined, CloseParticipant
<1>8. CASE \E l \in Listeners : AddStatusListener(t, l) \/ Greet(t, l) \/ TellFailed(t, l)
  <2>1. /\ UNCHANGED runVars
        /\ \A p \in Procs \ {t} : pc'[p] = pc[p]
        /\ pc'[t] \in {"greet", "idle", "tell", "clear"}
    BY <1>2, <1>8
  <2> QED BY <2>1 DEF runVars
<1>9. CASE \E l \in Listeners : RemoveStatusListener(t, l)
  <2>1. UNCHANGED <<runVars, pc>>
    BY <1>3, <1>9
  <2> QED BY <2>1 DEF runVars
<1> QED BY <1>4, <1>5, <1>6, <1>7, <1>8, <1>9 DEF Call, Continue

LEMMA AwakeAtEndStep == TypeOK /\ AwakeAtEnd /\ [Next]_vars => AwakeAtEnd'
<1> SUFFICES ASSUME TypeOK, AwakeAtEnd, [Next]_vars PROVE AwakeAtEnd'
  OBVIOUS
<1> USE Labels, ConnectionAssumption DEF AwakeAtEnd, NoLostWakeup
<1>1. PcOK
  BY DEF TypeOK
<1>2. ASSUME NEW t \in Apps, Call(t) \/ Continue(t) \/ ClearRunning(t)
      PROVE  AwakeAtEnd'
  <2>1. /\ cvMutex' = cvMutex
        /\ \A u \in Apps \ {t} : pc'[u] = pc[u]
        /\ running' => running
        /\ running => running' \/ ClearRunning(t)
        /\ pc'[t] = "wake" => ~running' \/ pc[t] = "wake"
        /\ pc'[t] = "join" => pc[t] \in {"wake", "join"}
        /\ pc'[t] = "join" => pc[t] = "join" \/ pc'[Monitor] # "waiting"
        /\ pc'[Monitor] = pc[Monitor]
             \/ (pc[Monitor] = "waiting" /\ pc'[Monitor] = "lock")
    BY <1>2, AppMoves
  <2>2. ClearRunning(t) => cvMutex = Nobody
    BY DEF ClearRunning, MutexFree
  <2>3. ~running => ~running'
    BY <2>1
  <2>4. \A u \in Apps : pc'[u] = "join" => pc'[Monitor] # "waiting"
    BY <2>1
  <2>5. \A u \in Apps : pc'[u] \in {"wake", "join"} => ~running'
    BY <2>1, <2>3
  <2>6. pc'[Monitor] \in {"eval", "sleep"} => cvMutex' = Monitor
    BY <2>1
  <2>7. pc'[Monitor] = "sleep" => running'
    BY <2>1, <2>2
  <2> QED BY <2>4, <2>5, <2>6, <2>7
<1>3. ASSUME MonStep \/ MonAcquire \/ Timeout
      PROVE  AwakeAtEnd'
  <2>1. \A u \in Apps : pc'[u] = pc[u]
    BY <1>1, <1>3, GotoMonitor
       DEF MonStep, MonAcquire, MonCheck, MonLock, MonEval, MonSleep, Timeout, MonRelock,
           MonTest, MonProbe, MonInoperable, Enter, MonTell, TellNext, Procs
  <2>2. running' = running
    BY <1>3 DEF MonStep, MonAcquire, MonCheck, MonLock, MonEval, MonSleep, Timeout, MonRelock,
           MonTest, MonProbe, MonInoperable, Enter, MonTell, TellNext, runVars
  <2>3. CASE MonLock
    BY <1>1, <2>1, <2>2, <2>3, GotoMonitor DEF MonLock
  <2>4. CASE MonEval
    BY <1>1, <2>1, <2>2, <2>4, GotoMonitor DEF MonEval
  <2>5. CASE MonSleep
    BY <1>1, <2>1, <2>2, <2>5, GotoMonitor DEF MonSleep
  <2>6. CASE ~MonLock /\ ~MonEval /\ ~MonSleep
    <3>1. pc'[Monitor] \notin {"eval", "sleep", "waiting"}
      BY <1>1, <1>3, <2>6, GotoMonitor
         DEF MonStep, MonAcquire, MonCheck, Timeout, MonRelock, MonTest, MonProbe,
             MonInoperable, Enter, MonTell, TellNext
    <3> QED BY <2>1, <2>2, <3>1
  <2> QED BY <2>3, <2>4, <2>5, <2>6
<1>4. CASE ParticipantLost \/ UNCHANGED vars
  BY <1>4 DEF ParticipantLost, vars, runVars, threadVars
<1> QED BY <1>2, <1>3, <1>4 DEF Next

LEMMA JoinedFirstStep == TypeOK /\ JoinedFirst /\ [Next]_vars => JoinedFirst'
<1> SUFFICES ASSUME TypeOK, JoinedFirst, [Next]_vars PROVE JoinedFirst'
  OBVIOUS
<1> USE Labels, ConnectionAssumption DEF JoinedFirst, MonitorEndsFirst
<1>1. PcOK
  BY DEF TypeOK
<1>2. ASSUME NEW t \in Apps, Call(t) \/ Continue(t) \/ ClearRunning(t)
      PROVE  JoinedFirst'
  <2>1. /\ \A u \in Apps \ {t} : pc'[u] = pc[u]
        /\ pc'[t] = "close" => pc[t] = "close" \/ pc[Monitor] = "done"
        /\ pc'[Monitor] = pc[Monitor]
             \/ (pc[Monitor] = "waiting" /\ pc'[Monitor] = "lock")
        /\ participant' = participant \/ pc[Monitor] = "done" \/ pc[t] = "close"
    BY <1>2, AppMoves
  <2> QED BY <2>1
<1>3. ASSUME MonStep \/ MonAcquire \/ Timeout
      PROVE  JoinedFirst'
  <2>1. \A u \in Apps : pc'[u] = pc[u]
    BY <1>1, <1>3, GotoMonitor
       DEF MonStep, MonAcquire, MonCheck, MonLock, MonEval, MonSleep, Timeout, MonRelock,
           MonTest, MonProbe, MonInoperable, Enter, MonTell, TellNext, Procs
  <2>2. participant' = participant /\ pc[Monitor] # "done"
    BY <1>3 DEF MonStep, MonAcquire, MonCheck, MonLock, MonEval, MonSleep, Timeout, MonRelock,
           MonTest, MonProbe, MonInoperable, Enter, MonTell, TellNext, runVars
  <2> QED BY <2>1, <2>2
<1>4. CASE ParticipantLost \/ UNCHANGED vars
  BY <1>4 DEF ParticipantLost, vars, runVars, threadVars
<1> QED BY <1>2, <1>3, <1>4 DEF Next

LEMMA InvariantHolds == Spec => []IInv
<1>1. Init => IInv
  BY InitType, InitClosing DEF IInv
<1>2. IInv /\ [Next]_vars => IInv'
  BY TypeStep, OneCloserStep, AwakeAtEndStep, JoinedFirstStep DEF IInv
<1> QED BY <1>1, <1>2, PTL DEF Spec

(* Two threads never join the monitor thread at once, whoever calls         *)
(* shutdown and however often.                                              *)
THEOREM OneThreadCloses == Spec => []SingleJoiner
<1>1. IInv => SingleJoiner
  BY DEF IInv, OneCloser
<1> QED BY <1>1, InvariantHolds, PTL

(* The notification of shutdown and of the destructor is never lost.        *)
THEOREM WakeupNotLost == Spec => []NoLostWakeup
<1>1. IInv => NoLostWakeup
  BY DEF IInv, AwakeAtEnd
<1> QED BY <1>1, InvariantHolds, PTL

(* The participant is closed, and the object destroyed, only after the      *)
(* monitor thread has ended.                                                *)
THEOREM ParticipantOutlivesMonitor == Spec => []MonitorEndsFirst
<1>1. IInv => MonitorEndsFirst
  BY DEF IInv, JoinedFirst
<1> QED BY <1>1, InvariantHolds, PTL

(***************************************************************************)
(* Status listeners: the invariant that accounts for every call.           *)
(***************************************************************************)

(* The calls made of a change, and the threads that have one still to make. *)
ToldAt(l, k) == {i \in DOMAIN told[l] : told[l][i] = k}
DueFrom(l, k) == {p \in Procs : change[p] = k /\ pending[p][l] > 0}

(* A listener that was registered once and is still registered has been     *)
(* called with each change since, or one thread is about to.                *)
Once(l) ==
    Len(since[l]) = 1 /\ listeners[l] > 0 =>
        \A k \in 1 .. Len(changes) :
            IF k < since[l][1]
              THEN ToldAt(l, k) = {} /\ DueFrom(l, k) = {}
              ELSE \/ DueFrom(l, k) = {} /\ \E i \in DOMAIN told[l] : ToldAt(l, k) = {i}
                   \/ ToldAt(l, k) = {} /\ \E p \in Procs : DueFrom(l, k) = {p}

(* Nobody is called more often than registered, nor of what has not         *)
(* happened.                                                                *)
CallsOK ==
    \A l \in Listeners :
        /\ listeners[l] <= Len(since[l])
        /\ \A p \in Procs : pending[p][l] <= Len(since[l])
        /\ since[l] = <<>> => told[l] = <<>>
        /\ \A i \in DOMAIN told[l] : told[l][i] \in 1 .. Len(changes)
        /\ \A i \in DOMAIN since[l] : since[l][i] \in 1 .. Len(changes)

(* Listeners are called from two places only, and addStatusListener calls   *)
(* one.                                                                     *)
DueOK ==
    \A p \in Procs :
        /\ pc[p] \notin {"tell", "greet"} => pending[p] = NoListeners
        /\ pc[p] = "greet" => \E l \in Listeners : pending[p] = [NoListeners EXCEPT ![l] = 1]

CountedOK == CallsOK /\ DueOK /\ \A l \in Listeners : Once(l)

LEMMA SinceOne ==
    ASSUME TypeOK, NEW l \in Listeners
    PROVE  /\ told[l] \in Seq(Nat) /\ since[l] \in Seq(Nat) /\ changes \in Seq(States)
           /\ Len(told[l]) \in Nat /\ DOMAIN told[l] = 1 .. Len(told[l])
           /\ Len(since[l]) \in Nat /\ DOMAIN since[l] = 1 .. Len(since[l])
           /\ Len(changes) \in Nat
           /\ \A i \in DOMAIN told[l] : told[l][i] \in Nat
           /\ \A i \in DOMAIN since[l] : since[l][i] \in Nat
           /\ since[l] = <<>> <=> Len(since[l]) = 0
<1>1. told[l] \in Seq(Nat) /\ since[l] \in Seq(Nat) /\ changes \in Seq(States)
  BY DEF TypeOK
<1> QED BY <1>1, LenProperties, ElementOfSeq, EmptySeq

(* A step in which no listener is called, registered or becomes due.        *)
LEMMA CountedQuiet ==
    ASSUME CountedOK, UNCHANGED <<statusVars, change, pending>>,
           \A p \in Procs : pc'[p] = pc[p] \/ {pc[p], pc'[p]} \cap {"tell", "greet"} = {}
    PROVE  CountedOK'
<1>1. UNCHANGED <<changes, listeners, told, since>>
  BY DEF statusVars
<1>2. CallsOK'
  BY <1>1 DEF CountedOK, CallsOK
<1>3. DueOK'
  BY DEF CountedOK, DueOK, NoListeners
<1>4. \A l \in Listeners : Once(l)'
  BY <1>1 DEF CountedOK, Once, ToldAt, DueFrom
<1> QED BY <1>2, <1>3, <1>4 DEF CountedOK

(* One call of a listener, that was due from thread p.                      *)
LEMMA CountedTell ==
    ASSUME CountedOK, TypeOK, NEW p \in Procs, NEW l \in Listeners, pending[p][l] > 0,
           Tell(l, change[p]), UNCHANGED <<changes, listeners, since, change>>,
           NEW left \in [Listeners -> Nat], pending' = [pending EXCEPT ![p] = left],
           left[l] = pending[p][l] - 1, \A m \in Listeners \ {l} : left[m] = pending[p][m]
    PROVE  CallsOK' /\ \A m \in Listeners : Once(m)'
<1> DEFINE k0 == change[p]
           n == Len(told[l])
<1>1. /\ k0 \in 1 .. Len(changes)
      /\ pending[p][l] \in Nat /\ pending \in [Procs -> [Listeners -> Nat]]
  BY DEF TypeOK, TellingOK, NoListeners
<1>2. /\ told'[l] = Append(told[l], k0)
      /\ \A m \in Listeners \ {l} : told'[m] = told[m]
  BY DEF Tell, TypeOK
<1>3. /\ n \in Nat /\ DOMAIN told[l] = 1 .. n
      /\ DOMAIN told'[l] = 1 .. n + 1
      /\ \A i \in 1 .. n : told'[l][i] = told[l][i]
      /\ told'[l][n + 1] = k0
  BY <1>1, <1>2, SinceOne, AppendProperties
<1>4. /\ \A q \in Procs \ {p} : pending'[q] = pending[q]
      /\ pending'[p] = left
  BY <1>1
<1> HIDE DEF n, k0
<1>5. CallsOK'
  <2>1. ASSUME NEW m \in Listeners
        PROVE  /\ \A q \in Procs : pending'[q][m] <= Len(since[m])
               /\ since[m] = <<>> => told'[m] = <<>>
               /\ \A i \in DOMAIN told'[m] : told'[m][i] \in 1 .. Len(changes)
    <3>1. \A q \in Procs : pending'[q][m] <= Len(since[m])
      BY <1>1, <1>4, SinceOne DEF CountedOK, CallsOK
    <3>2. since[m] = <<>> => m # l /\ told[m] = <<>>
      BY <1>1, SinceOne DEF CountedOK, CallsOK
    <3>3. \A i \in DOMAIN told'[m] : told'[m][i] \in 1 .. Len(changes)
      <4>1. \A i \in DOMAIN told[m] : told[m][i] \in 1 .. Len(changes)
        BY DEF CountedOK, CallsOK
      <4>2. CASE m = l
        <5>1. \A i \in 1 .. n + 1 : told'[l][i] \in 1 .. Len(changes)
          <6> SUFFICES ASSUME NEW i \in 1 .. n + 1 PROVE told'[l][i] \in 1 .. Len(changes)
            OBVIOUS
          <6>1. CASE i \in 1 .. n
            BY <1>3, <4>1, <4>2, <6>1
          <6>2. CASE i = n + 1
            BY <1>1, <1>3, <6>2
          <6> QED BY <1>3, <6>1, <6>2
        <5> QED BY <1>3, <4>2, <5>1
      <4>3. CASE m # l
        BY <1>2, <4>1, <4>3
      <4> QED BY <4>2, <4>3
    <3> QED BY <1>2, <3>1, <3>2, <3>3
  <2> QED BY <2>1 DEF CountedOK, CallsOK
<1>6. ASSUME NEW m \in Listeners \ {l}
      PROVE  Once(m)'
  <2>1. \A k : DueFrom(m, k)' = DueFrom(m, k)
    BY <1>1, <1>4 DEF DueFrom
  <2>2. \A k : ToldAt(m, k)' = ToldAt(m, k)
    BY <1>2 DEF ToldAt
  <2> QED BY <1>2, <2>1, <2>2 DEF CountedOK, Once
<1>7. Once(l)'
  <2>1. SUFFICES ASSUME Len(since[l]) = 1, listeners[l] > 0, NEW k \in 1 .. Len(changes)
                 PROVE  IF k < since[l][1]
                          THEN ToldAt(l, k)' = {} /\ DueFrom(l, k)' = {}
                          ELSE \/ /\ DueFrom(l, k)' = {}
                                  /\ \E i \in DOMAIN told'[l] : ToldAt(l, k)' = {i}
                               \/ /\ ToldAt(l, k)' = {}
                                  /\ \E q \in Procs : DueFrom(l, k)' = {q}
    BY DEF Once
  <2>2. pending[p][l] = 1 /\ left[l] = 0
    <3>1. pending[p][l] <= Len(since[l])
      BY DEF CountedOK, CallsOK
    <3> QED BY <1>1, <2>1, <3>1
  <2>3. CASE k = k0
    <3>1. p \in DueFrom(l, k)
      BY <2>3 DEF DueFrom, k0
    <3>2. ~(k < since[l][1]) /\ DueFrom(l, k) = {p} /\ ToldAt(l, k) = {}
      BY <2>1, <3>1 DEF CountedOK, Once
    <3>3. DueFrom(l, k)' = {}
      BY <1>4, <2>2, <3>2 DEF DueFrom
    <3>4. \A i \in 1 .. n : told[l][i] # k
      BY <1>3, <3>2 DEF ToldAt
    <3>5. \A i \in 1 .. n + 1 : told'[l][i] = k <=> i = n + 1
      BY <1>3, <2>3, <3>4
    <3>6. ToldAt(l, k)' = {n + 1} /\ n + 1 \in DOMAIN told'[l]
      BY <1>3, <3>5 DEF ToldAt
    <3> QED BY <3>2, <3>3, <3>6
  <2>4. CASE k # k0
    <3>1. DueFrom(l, k)' = DueFrom(l, k)
      BY <1>4, <2>4 DEF DueFrom, k0
    <3>2. ToldAt(l, k)' = ToldAt(l, k)
      <4>1. \A i : i \in DOMAIN told'[l] /\ told'[l][i] = k
                      <=> i \in DOMAIN told[l] /\ told[l][i] = k
        BY <1>3, <2>4
      <4> QED BY <4>1 DEF ToldAt
    <3>3. IF k < since[l][1]
            THEN ToldAt(l, k) = {} /\ DueFrom(l, k) = {}
            ELSE \/ DueFrom(l, k) = {} /\ \E i \in DOMAIN told[l] : ToldAt(l, k) = {i}
                 \/ ToldAt(l, k) = {} /\ \E q \in Procs : DueFrom(l, k) = {q}
      BY <2>1 DEF CountedOK, Once
    <3>4. \A i \in DOMAIN told[l] : i \in DOMAIN told'[l]
      BY <1>3
    <3> QED BY <3>1, <3>2, <3>3, <3>4
  <2> QED BY <2>3, <2>4
<1> QED BY <1>5, <1>6, <1>7

(* The status changes: the snapshot makes the change due to every listener  *)
(* that is registered.                                                      *)
LEMMA CountedEnter ==
    ASSUME CountedOK, TypeOK, NEW p \in Procs, pending[p] = NoListeners,
           NEW state \in States, changes' = Append(changes, state),
           change' = [change EXCEPT ![p] = Len(changes) + 1],
           pending' = [pending EXCEPT ![p] = listeners], UNCHANGED <<listeners, told, since>>
    PROVE  CallsOK' /\ \A l \in Listeners : Once(l)'
<1>1. /\ Len(changes) \in Nat /\ Len(changes') = Len(changes) + 1
      /\ change \in [Procs -> Nat] /\ pending \in [Procs -> [Listeners -> Nat]]
      /\ listeners \in [Listeners -> Nat]
  BY LenProperties, AppendProperties DEF TypeOK, TellingOK
<1>2. /\ change'[p] = Len(changes) + 1 /\ pending'[p] = listeners
      /\ \A q \in Procs \ {p} : change'[q] = change[q] /\ pending'[q] = pending[q]
  BY <1>1
<1>3. CallsOK'
  <2>1. ASSUME NEW l \in Listeners
        PROVE  /\ \A q \in Procs : pending'[q][l] <= Len(since[l])
               /\ \A i \in DOMAIN told[l] : told[l][i] \in 1 .. Len(changes')
               /\ \A i \in DOMAIN since[l] : since[l][i] \in 1 .. Len(changes')
    BY <1>1, <1>2 DEF CountedOK, CallsOK
  <2> QED BY <2>1 DEF CountedOK, CallsOK
<1>4. ASSUME NEW l \in Listeners PROVE Once(l)'
  <2>1. SUFFICES ASSUME Len(since[l]) = 1, listeners[l] > 0, NEW k \in 1 .. Len(changes')
                 PROVE  IF k < since[l][1]
                          THEN ToldAt(l, k)' = {} /\ DueFrom(l, k)' = {}
                          ELSE \/ /\ DueFrom(l, k)' = {}
                                  /\ \E i \in DOMAIN told[l] : ToldAt(l, k)' = {i}
                               \/ /\ ToldAt(l, k)' = {}
                                  /\ \E q \in Procs : DueFrom(l, k)' = {q}
    BY DEF Once
  <2>2. since[l][1] \in 1 .. Len(changes)
    BY <2>1, SinceOne DEF CountedOK, CallsOK
  <2>3. ToldAt(l, k)' = ToldAt(l, k)
    BY DEF ToldAt
  <2>4. CASE k = Len(changes) + 1
    <3>1. ToldAt(l, k) = {}
      BY <1>1, <2>4 DEF ToldAt, CountedOK, CallsOK
    <3>2. \A q \in Procs : pending[q][l] > 0 => change[q] # k
      <4>1. ASSUME NEW q \in Procs, pending[q][l] > 0 PROVE change[q] \in 1 .. Len(changes)
        BY <4>1 DEF TypeOK, TellingOK, NoListeners
      <4> QED BY <1>1, <2>4, <4>1
    <3>3. DueFrom(l, k)' = {p}
      BY <1>2, <2>1, <2>4, <3>2 DEF DueFrom
    <3>4. ~(k < since[l][1])
      BY <1>1, <2>2, <2>4
    <3> QED BY <2>3, <3>1, <3>3, <3>4
  <2>5. CASE k \in 1 .. Len(changes)
    <3>1. pending[p][l] = 0
      BY DEF NoListeners
    <3>2. DueFrom(l, k)' = DueFrom(l, k)
      BY <1>1, <1>2, <2>5, <3>1 DEF DueFrom
    <3> QED BY <2>1, <2>3, <2>5, <3>2 DEF CountedOK, Once
  <2> QED BY <1>1, <2>4, <2>5
<1> QED BY <1>3, <1>4

(* A listener is registered: the call due is with the current change.       *)
LEMMA CountedAdd ==
    ASSUME CountedOK, TypeOK, NEW t \in Apps, NEW l \in Listeners, AddStatusListener(t, l)
    PROVE  CountedOK'
<1>1. /\ t \in Procs /\ pc[t] = "idle" /\ pending[t] = NoListeners
      /\ listeners' = [listeners EXCEPT ![l] = @ + 1]
      /\ change' = [change EXCEPT ![t] = Len(changes)]
      /\ pending' = [pending EXCEPT ![t] = [NoListeners EXCEPT ![l] = 1]]
      /\ since' = [since EXCEPT ![l] = Append(@, Len(changes))]
      /\ UNCHANGED <<changes, told>> /\ Goto(t, "greet")
  BY DEF AddStatusListener, MayCall, Procs, CountedOK, DueOK, Current
<1>2. /\ Len(changes) \in Nat /\ Len(changes) > 0
      /\ change \in [Procs -> Nat] /\ pending \in [Procs -> [Listeners -> Nat]]
      /\ listeners \in [Listeners -> Nat] /\ since \in [Listeners -> Seq(Nat)]
  BY LenProperties, EmptySeq DEF TypeOK, TellingOK
<1>3. /\ pending'[t] = [NoListeners EXCEPT ![l] = 1]
      /\ pending'[t][l] = 1 /\ \A m \in Listeners \ {l} : pending'[t][m] = 0
      /\ \A m \in Listeners : pending[t][m] = 0
      /\ change'[t] = Len(changes)
      /\ \A q \in Procs \ {t} : change'[q] = change[q] /\ pending'[q] = pending[q]
  BY <1>1, <1>2 DEF NoListeners
<1>4. /\ Len(since'[l]) = Len(since[l]) + 1 /\ Len(since[l]) \in Nat
      /\ DOMAIN since[l] = 1 .. Len(since[l])
      /\ DOMAIN since'[l] = 1 .. Len(since[l]) + 1
      /\ \A i \in 1 .. Len(since[l]) : since'[l][i] = since[l][i]
      /\ since'[l][Len(since[l]) + 1] = Len(changes)
      /\ \A m \in Listeners \ {l} : since'[m] = since[m]
  BY <1>1, <1>2, SinceOne, AppendProperties
<1>5. CallsOK'
  <2>1. ASSUME NEW m \in Listeners \ {l}
        PROVE  /\ listeners'[m] <= Len(since'[m])
               /\ \A p \in Procs : pending'[p][m] <= Len(since'[m])
               /\ since'[m] = <<>> => told[m] = <<>>
               /\ \A i \in DOMAIN since'[m] : since'[m][i] \in 1 .. Len(changes)
    <3>1. since'[m] = since[m] /\ listeners'[m] = listeners[m]
      BY <1>1, <1>2, <1>4
    <3>2. \A p \in Procs : pending'[p][m] = pending[p][m]
      BY <1>3
    <3> QED BY <3>1, <3>2 DEF CountedOK, CallsOK
  <2>2. listeners'[l] <= Len(since'[l]) /\ since'[l] # <<>>
    <3>1. listeners'[l] = listeners[l] + 1 /\ listeners[l] <= Len(since[l])
      BY <1>1, <1>2 DEF CountedOK, CallsOK
    <3>2. since'[l] # <<>>
      BY <1>4
    <3> QED BY <1>2, <1>4, <3>1, <3>2
  <2>3. \A p \in Procs : pending'[p][l] <= Len(since'[l])
    <3>1. ASSUME NEW p \in Procs PROVE pending'[p][l] <= Len(since'[l])
      <4>1. pending[p][l] <= Len(since[l]) /\ pending[p][l] \in Nat
        BY <1>2 DEF CountedOK, CallsOK
      <4>2. pending'[p][l] \in {1, pending[p][l]}
        BY <1>3
      <4> QED BY <1>4, <4>1, <4>2
    <3> QED BY <3>1
  <2>4. \A i \in DOMAIN since'[l] : since'[l][i] \in 1 .. Len(changes)
    <3>1. ASSUME NEW i \in 1 .. Len(since[l]) + 1 PROVE since'[l][i] \in 1 .. Len(changes)
      <4>1. CASE i \in 1 .. Len(since[l])
        BY <1>4, <4>1 DEF CountedOK, CallsOK
      <4>2. CASE i = Len(since[l]) + 1
        BY <1>2, <1>4, <4>2
      <4> QED BY <1>4, <4>1, <4>2
    <3> QED BY <1>4, <3>1
  <2> QED BY <1>1, <2>1, <2>2, <2>3, <2>4 DEF CountedOK, CallsOK
<1>6. DueOK'
  <2>1. pc'[t] = "greet" /\ \A p \in Procs \ {t} : pc'[p] = pc[p]
    BY <1>1, GotoApp, Labels DEF TypeOK
  <2> QED BY <1>3, <2>1 DEF CountedOK, DueOK
<1>7. ASSUME NEW m \in Listeners \ {l} PROVE Once(m)'
  <2>1. since'[m] = since[m] /\ listeners'[m] = listeners[m]
    BY <1>1, <1>2, <1>4
  <2>2. \A k : DueFrom(m, k)' = DueFrom(m, k)
    <3>1. ~(pending'[t][m] > 0) /\ ~(pending[t][m] > 0)
      BY <1>3
    <3>2. \A q \in Procs \ {t} : change'[q] = change[q] /\ pending'[q][m] = pending[q][m]
      BY <1>3
    <3> QED BY <3>1, <3>2 DEF DueFrom
  <2>3. \A k : ToldAt(m, k)' = ToldAt(m, k)
    BY <1>1 DEF ToldAt
  <2> QED BY <1>1, <2>1, <2>2, <2>3 DEF CountedOK, Once
<1>8. Once(l)'
  <2>1. SUFFICES ASSUME Len(since'[l]) = 1, NEW k \in 1 .. Len(changes)
                 PROVE  IF k < since'[l][1]
                          THEN ToldAt(l, k)' = {} /\ DueFrom(l, k)' = {}
                          ELSE /\ ToldAt(l, k)' = {}
                               /\ \E q \in Procs : DueFrom(l, k)' = {q}
    BY <1>1 DEF Once
  <2>2. Len(since[l]) = 0 /\ since[l] = <<>> /\ since'[l][1] = Len(changes)
    BY <1>4, <2>1, SinceOne
  <2>3. told[l] = <<>> /\ \A p \in Procs : ~(pending[p][l] > 0)
    BY <1>2, <2>2 DEF CountedOK, CallsOK
  <2>4. ToldAt(l, k)' = {}
    BY <1>1, <2>3 DEF ToldAt
  <2>5. CASE k = Len(changes)
    <3>1. DueFrom(l, k)' = {t}
      BY <1>1, <1>3, <2>3, <2>5 DEF DueFrom
    <3> QED BY <1>1, <1>2, <2>2, <2>4, <2>5, <3>1
  <2>6. CASE k # Len(changes)
    <3>1. DueFrom(l, k)' = {}
      BY <1>3, <2>3, <2>6 DEF DueFrom
    <3> QED BY <1>2, <2>2, <2>4, <2>6, <3>1
  <2> QED BY <2>5, <2>6
<1> QED BY <1>5, <1>6, <1>7, <1>8 DEF CountedOK

LEMMA CountedRemove ==
    ASSUME CountedOK, TypeOK, NEW t \in Apps, NEW l \in Listeners, RemoveStatusListener(t, l)
    PROVE  CountedOK'
<1>1. /\ listeners' = [listeners EXCEPT ![l] = 0]
      /\ UNCHANGED <<changes, told, since, pc, change, pending>>
  BY DEF RemoveStatusListener
<1>2. /\ listeners'[l] = 0
      /\ \A m \in Listeners \ {l} : listeners'[m] = listeners[m]
  BY <1>1 DEF TypeOK
<1>3. CallsOK'
  <2>1. \A m \in Listeners : listeners'[m] <= Len(since[m])
    BY <1>2, SinceOne DEF CountedOK, CallsOK
  <2> QED BY <1>1, <2>1 DEF CountedOK, CallsOK
<1>4. DueOK'
  BY <1>1 DEF CountedOK, DueOK, NoListeners
<1>5. \A m \in Listeners : Once(m)'
  <2>1. Once(l)'
    BY <1>2 DEF Once
  <2>2. ASSUME NEW m \in Listeners \ {l} PROVE Once(m)'
    BY <1>1, <1>2 DEF CountedOK, Once, ToldAt, DueFrom
  <2> QED BY <2>1, <2>2
<1> QED BY <1>3, <1>4, <1>5 DEF CountedOK

LEMMA CountedGreet ==
    ASSUME CountedOK, TypeOK, NEW t \in Apps, NEW l \in Listeners, Greet(t, l)
    PROVE  CountedOK'
<1>1. /\ t \in Procs /\ pc[t] = "greet" /\ pending[t][l] > 0 /\ Tell(l, change[t])
      /\ pending' = [pending EXCEPT ![t] = NoListeners]
      /\ UNCHANGED <<changes, listeners, since, change>> /\ Goto(t, "idle")
  BY DEF Greet, Procs
<1>2. PICK m \in Listeners : pending[t] = [NoListeners EXCEPT ![m] = 1]
  BY <1>1 DEF CountedOK, DueOK
<1>3. m = l
  BY <1>1, <1>2 DEF NoListeners
<1>4. /\ NoListeners[l] = pending[t][l] - 1
      /\ \A x \in Listeners \ {l} : NoListeners[x] = pending[t][x]
  BY <1>2, <1>3 DEF NoListeners
<1>5. CallsOK' /\ \A x \in Listeners : Once(x)'
  BY <1>1, <1>4, NoListenersType, CountedTell
<1>6. DueOK'
  <2>1. pc'[t] = "idle" /\ \A p \in Procs \ {t} : pc'[p] = pc[p]
    BY <1>1, GotoApp, Labels DEF TypeOK
  <2>2. pending'[t] = NoListeners /\ \A p \in Procs \ {t} : pending'[p] = pending[p]
    BY <1>1 DEF TypeOK, TellingOK
  <2> QED BY <2>1, <2>2 DEF CountedOK, DueOK
<1> QED BY <1>5, <1>6 DEF CountedOK

LEMMA CountedTellNext ==
    ASSUME CountedOK, TypeOK, NEW p \in Procs, NEW l \in Listeners, NEW next,
           next # "greet", TellNext(p, l, next)
    PROVE  CountedOK'
<1>1. /\ pc[p] = "tell" /\ pending[p][l] > 0 /\ Tell(l, change[p])
      /\ pending' = [pending EXCEPT ![p] = StillToCall(p, l)]
      /\ pc' = [pc EXCEPT ![p] = IF StillToCall(p, l) = NoListeners THEN next ELSE "tell"]
      /\ UNCHANGED <<changes, listeners, since, change>>
  BY DEF TellNext, Goto
<1>2. pending[p] \in [Listeners -> Nat]
  BY DEF TypeOK, TellingOK
<1>3. PICK left : left = StillToCall(p, l)
  OBVIOUS
<1>4. /\ left \in [Listeners -> Nat] /\ left[l] = pending[p][l] - 1
      /\ \A m \in Listeners \ {l} : left[m] = pending[p][m]
  BY <1>1, <1>2, <1>3 DEF StillToCall
<1>5. CallsOK' /\ \A m \in Listeners : Once(m)'
  <2>1. pending' = [pending EXCEPT ![p] = left]
    BY <1>1, <1>3
  <2> QED BY <1>1, <1>4, <2>1, CountedTell
<1>6. DueOK'
  <2>1. /\ pc'[p] = IF left = NoListeners THEN next ELSE "tell"
        /\ \A q \in Procs \ {p} : pc'[q] = pc[q]
    BY <1>1, <1>3 DEF TypeOK, PcOK
  <2>2. pending'[p] = left /\ \A q \in Procs \ {p} : pending'[q] = pending[q]
    BY <1>1, <1>3 DEF TypeOK, TellingOK
  <2> QED BY <2>1, <2>2 DEF CountedOK, DueOK
<1> QED BY <1>5, <1>6 DEF CountedOK

LEMMA CountedEnterAt ==
    ASSUME CountedOK, TypeOK, NEW p \in Procs, pc[p] \notin {"tell", "greet"},
           NEW state \in States, NEW next, next \notin {"tell", "greet"}, Enter(p, state, next)
    PROVE  CountedOK'
<1>1. pending[p] = NoListeners
  BY DEF CountedOK, DueOK
<1>2. CASE Status = state
  <2>1. UNCHANGED <<statusVars, change, pending>> /\ pc' = [pc EXCEPT ![p] = next]
    BY <1>2 DEF Enter, Goto, statusVars
  <2>2. pc'[p] = next /\ \A q \in Procs \ {p} : pc'[q] = pc[q]
    BY <2>1 DEF TypeOK, PcOK
  <2> QED BY <2>1, <2>2, CountedQuiet
<1>3. CASE Status # state
  <2>1. /\ changes' = Append(changes, state)
        /\ change' = [change EXCEPT ![p] = Len(changes) + 1]
        /\ pending' = [pending EXCEPT ![p] = listeners]
        /\ pc' = [pc EXCEPT ![p] = IF listeners = NoListeners THEN next ELSE "tell"]
        /\ UNCHANGED <<listeners, told, since>>
    BY <1>3 DEF Enter, Goto
  <2>2. CallsOK' /\ \A l \in Listeners : Once(l)'
    BY <1>1, <2>1, CountedEnter
  <2>3. DueOK'
    <3>1. /\ pc'[p] = IF listeners = NoListeners THEN next ELSE "tell"
          /\ \A q \in Procs \ {p} : pc'[q] = pc[q]
      BY <2>1 DEF TypeOK, PcOK
    <3>2. pending'[p] = listeners /\ \A q \in Procs \ {p} : pending'[q] = pending[q]
      BY <2>1 DEF TypeOK, TellingOK
    <3> QED BY <3>1, <3>2 DEF CountedOK, DueOK
  <2> QED BY <2>2, <2>3 DEF CountedOK
<1> QED BY <1>2, <1>3

LEMMA CountedStep == CountedOK /\ TypeOK /\ [Next]_vars => CountedOK'
<1> SUFFICES ASSUME CountedOK, TypeOK, [Next]_vars PROVE CountedOK'
  OBVIOUS
<1> USE Labels, ConnectionAssumption DEF Procs
<1>1. PcOK
  BY DEF TypeOK
<1>2. ASSUME NEW t \in Apps, NEW label \in AppPcs, Goto(t, label),
             {pc[t], label} \cap {"tell", "greet"} = {},
             UNCHANGED <<statusVars, change, pending>>
      PROVE  CountedOK'
  BY <1>1, <1>2, GotoApp, CountedQuiet
<1>3. ASSUME NEW t \in Apps, Call(t) PROVE CountedOK'
  <2>1. ASSUME NEW l \in Listeners, AddStatusListener(t, l) PROVE CountedOK'
    BY <2>1, CountedAdd
  <2>2. ASSUME NEW l \in Listeners, RemoveStatusListener(t, l) PROVE CountedOK'
    BY <2>2, CountedRemove
  <2>3. CASE Shutdown(t)
    BY <1>2, <2>3 DEF Shutdown, MayCall
  <2>4. CASE Destroy(t)
    BY <1>2, <2>4 DEF Destroy, MayCall
  <2> QED BY <1>3, <2>1, <2>2, <2>3, <2>4 DEF Call
<1>4. ASSUME NEW t \in Apps, Continue(t) \/ ClearRunning(t) PROVE CountedOK'
  <2>1. ASSUME NEW l \in Listeners, Greet(t, l) PROVE CountedOK'
    BY <2>1, CountedGreet
  <2>2. ASSUME NEW l \in Listeners, TellFailed(t, l) PROVE CountedOK'
    BY <2>2, CountedTellNext DEF TellFailed
  <2>3. CASE Fail(t)
    BY <2>3, CountedEnterAt DEF Fail, States
  <2>4. CASE NotifyAll(t)
    <3>1. \A p \in Procs : pc'[p] = pc[p] \/ {pc[p], pc'[p]} \cap {"tell", "greet"} = {}
      BY <1>1, <2>4 DEF NotifyAll, PcOK
    <3> QED BY <2>4, <3>1, CountedQuiet DEF NotifyAll
  <2>5. CASE Join(t) \/ CloseParticipant(t) \/ ClearRunning(t)
    BY <1>2, <2>5 DEF Join, CloseParticipant, ClearRunning
  <2> QED BY <1>4, <2>1, <2>2, <2>3, <2>4, <2>5 DEF Continue
<1>5. CASE MonStep \/ MonAcquire \/ Timeout
  <2>1. CASE MonInoperable
    BY <2>1, CountedEnterAt DEF MonInoperable, States
  <2>2. ASSUME NEW l \in Listeners, MonTell(l) PROVE CountedOK'
    BY <2>2, CountedTellNext DEF MonTell
  <2>3. ASSUME NEW label \in MonPcs, Goto(Monitor, label),
               {pc[Monitor], label} \cap {"tell", "greet"} = {},
               UNCHANGED <<statusVars, change, pending>>
        PROVE  CountedOK'
    BY <1>1, <2>3, GotoMonitor, CountedQuiet
  <2>4. CASE MonCheck \/ MonEval \/ MonSleep \/ MonTest \/ MonProbe
    BY <2>3, <2>4 DEF MonCheck, MonEval, MonSleep, MonTest, MonProbe
  <2>5. CASE MonLock \/ MonRelock \/ Timeout
    BY <2>3, <2>5 DEF MonLock, MonRelock, Timeout
  <2> QED BY <1>5, <2>1, <2>2, <2>4, <2>5 DEF MonStep, MonAcquire
<1>6. CASE ParticipantLost \/ UNCHANGED vars
  BY <1>6, CountedQuiet DEF ParticipantLost, vars, threadVars
<1> QED BY <1>3, <1>4, <1>5, <1>6 DEF Next

LEMMA InitCounted == Init => CountedOK
<1> SUFFICES ASSUME Init PROVE CountedOK
  OBVIOUS
<1>1. CallsOK
  BY DEF Init, CallsOK, NoListeners
<1>2. DueOK
  BY ConnectionAssumption DEF Init, DueOK, Procs
<1>3. \A l \in Listeners : Once(l)
  BY DEF Init, Once, NoListeners
<1> QED BY <1>1, <1>2, <1>3 DEF CountedOK

(* Counted, the calls made and the calls due are one.                       *)
LEMMA CountedOnce == CountedOK => ToldEachChangeOnce
<1> SUFFICES ASSUME CountedOK, NEW l \in Listeners, Len(since[l]) = 1, listeners[l] > 0,
                    NEW k \in 1 .. Len(changes)
             PROVE  Calls(l, k) = IF k < since[l][1] THEN 0 ELSE 1
  BY DEF ToldEachChangeOnce
<1>1. IF k < since[l][1]
        THEN ToldAt(l, k) = {} /\ DueFrom(l, k) = {}
        ELSE \/ DueFrom(l, k) = {} /\ \E i \in DOMAIN told[l] : ToldAt(l, k) = {i}
             \/ ToldAt(l, k) = {} /\ \E p \in Procs : DueFrom(l, k) = {p}
  BY DEF CountedOK, Once
<1>2. Calls(l, k) = Cardinality(ToldAt(l, k)) + Cardinality(DueFrom(l, k))
  BY DEF Calls, ToldAt, DueFrom
<1>3. Cardinality({}) = 0 /\ \A x : Cardinality({x}) = 1
  BY FS_EmptySet, FS_Singleton
<1>4. CASE ToldAt(l, k) = {} /\ DueFrom(l, k) = {}
  BY <1>1, <1>2, <1>3, <1>4
<1>5. CASE DueFrom(l, k) = {} /\ \E i : ToldAt(l, k) = {i}
  <2>1. Cardinality(ToldAt(l, k)) = 1 /\ Cardinality(DueFrom(l, k)) = 0
    BY <1>3, <1>5, Zenon
  <2>2. Calls(l, k) = 1 /\ ToldAt(l, k) # {}
    BY <1>2, <1>5, <2>1
  <2> QED BY <1>1, <2>2
<1>6. CASE ToldAt(l, k) = {} /\ \E p : DueFrom(l, k) = {p}
  <2>1. Cardinality(ToldAt(l, k)) = 0 /\ Cardinality(DueFrom(l, k)) = 1
    BY <1>3, <1>6, Zenon
  <2>2. Calls(l, k) = 1 /\ DueFrom(l, k) # {}
    BY <1>2, <1>6, <2>1
  <2> QED BY <1>1, <2>2
<1> QED BY <1>1, <1>4, <1>5, <1>6

(* However registrations, removals and changes of the status interleave, a  *)
(* listener registered once and still registered has been called with each  *)
(* change since its registration exactly once, or one thread is about to:   *)
(* the copy made by addStatusListener and the snapshot of transitionState   *)
(* neither overlap nor leave a gap (lines 110-113, 133-139).                *)
THEOREM EveryChangeOnce == Spec => []ToldEachChangeOnce
<1>1. Spec => []CountedOK
  BY InitCounted, CountedStep, TypeCorrect, PTL DEF Spec
<1> QED BY <1>1, CountedOnce, PTL
=============================================================================
