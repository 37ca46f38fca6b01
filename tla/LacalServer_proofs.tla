------------------------- MODULE LacalServer_proofs -------------------------
(***************************************************************************)
(* Proofs about LacalServer, for any topics, clients and batch sizes: what *)
(* the monitor thread works on exists while it runs, the io context with   *)
(* the exception MonitorUsesLiveParts names, and every variable stays in   *)
(* its domain.                                                             *)
(***************************************************************************)
EXTENDS LacalServer, SequenceTheorems, TLAPS

(***************************************************************************)
(* Where the main thread is tells what there is and whether the monitor    *)
(* thread has been started; past the join it has ended.  A session that is *)
(* open has an operation outstanding, so io.run returns past no open one.  *)
(***************************************************************************)
Stages ==
    /\ main = "construct" => mpc = "none" /\ alive = {"externalizer"}
    /\ main = "start" => mpc = "none" /\ alive = MonitorParts
    /\ main \in {"listen", "stop", "join"} => mpc # "none" /\ alive = MonitorParts
    /\ main \in {"run", "leave"} => mpc # "none" /\ alive = Parts
    /\ main \in {"unregister", "release", "exit"} => mpc \in {"none", "done"}
    /\ alive \subseteq Parts
    /\ main \in {"construct", "start", "listen", "run", "leave", "stop", "join", "unregister",
                 "release", "exit"}
    /\ open \subseteq sessions
    /\ main # "run" => open = {}

LEMMA MainKeeps == ASSUME Stages, MainStep PROVE Stages'
<1> USE DEF Stages, ioVars, monVars
<1>1. ASSUME NEW ok \in BOOLEAN, Construct(ok) PROVE Stages'
  BY <1>1 DEF Construct, MonitorParts, Parts
<1>2. ASSUME NEW ok \in BOOLEAN, Listen(ok) PROVE Stages'
  BY <1>2 DEF Listen, MonitorParts, Parts
<1>3. CASE Start
  BY <1>3 DEF Start
<1>4. CASE IoStep
  BY <1>4 DEF IoStep, OnSignal, OnAccept, OnAcceptAborted, RunReturns
<1>5. CASE Leave
  BY <1>5 DEF Leave, MonitorParts, Parts
<1>6. CASE StopMonitor
  BY <1>6 DEF StopMonitor
<1>7. CASE DeleteEntities
  BY <1>7 DEF DeleteEntities, Joined
<1>8. CASE DestroyRegistry \/ ResetExternalizer
  BY <1>8 DEF DestroyRegistry, ResetExternalizer
<1> QED BY <1>1, <1>2, <1>3, <1>4, <1>5, <1>6, <1>7, <1>8 DEF MainStep

(* The monitor thread, once started, does not go back to not being so; it   *)
(* may post to a session and opens none; and, short of a crash, neither it  *)
(* nor the world outside moves the main thread.                             *)
LEMMA OthersKeep ==
    ASSUME Stages, UNCHANGED <<main, alive>>,
           mpc' = mpc \/ (mpc \notin {"none", "done"} /\ mpc' # "none"),
           open' \subseteq open, open' \subseteq sessions'
    PROVE  Stages'
BY DEF Stages

(* What every step of the monitor thread but a crash does and leaves alone. *)
MonitorMoves ==
    /\ UNCHANGED <<main, alive, open>>
    /\ sessions \subseteq sessions'
    /\ mpc \notin {"none", "done"} /\ mpc' # "none"

LEMMA MonitorStepMoves == ASSUME MonitorStep \/ WaitFails PROVE MonitorMoves
<1> USE DEF MonitorMoves, ioVars
<1>1. CASE Test \/ Wait \/ AllServed \/ WaitFails
  BY <1>1 DEF Test, Wait, AllServed, WaitFails
<1>2. CASE Serve
  BY <1>2 DEF Serve, PollBuiltin, DrainReader
<1>3. CASE Deliver
  BY <1>3 DEF Deliver, DropSample, Snapshot, Skip, TestOpen, Post, Delivered
<1> QED BY <1>1, <1>2, <1>3 DEF MonitorStep

LEMMA CrashKeeps == ASSUME Stages, Crash PROVE Stages'
BY DEF Stages, Crash, ioVars, MonitorParts, Parts

LEMMA MonitorKeeps == ASSUME Stages, MonitorStep \/ WaitFails PROVE Stages'
<1>1. MonitorMoves
  BY MonitorStepMoves
<1>2. open' \subseteq sessions'
  BY <1>1 DEF MonitorMoves, Stages
<1> QED BY <1>1, <1>2, OthersKeep DEF MonitorMoves

(* What clients, the operating system and the bus do.                       *)
World ==
    \/ \E c \in Clients : Connect(c) \/ Closes(c) \/ SessionEnds(c)
    \/ Signal
    \/ \E t \in Topics : Publish(t) \/ Arrive(t)

LEMMA WorldKeeps == ASSUME Stages, World PROVE Stages'
<1>1. UNCHANGED <<main, alive, mpc>>
  BY DEF World, Connect, Closes, SessionEnds, Signal, Publish, Arrive, monVars
<1>2. open' \subseteq open /\ open' \subseteq sessions'
  BY DEF World, Connect, Closes, SessionEnds, Signal, Publish, Arrive, ioVars, Shut, Stages
<1> QED BY <1>1, <1>2, OthersKeep

LEMMA StagesStep == Stages /\ [Next]_vars => Stages'
<1> SUFFICES ASSUME Stages, [Next]_vars PROVE Stages'
  OBVIOUS
<1>1. CASE Next
  BY <1>1, MainKeeps, MonitorKeeps, CrashKeeps, WorldKeeps DEF Next, World
<1>2. CASE UNCHANGED vars
  BY <1>2 DEF vars, monVars, ioVars, Stages
<1> QED BY <1>1, <1>2

(* On every way out of runServer (Server.cpp:93-146, TopicMonitor.cpp:      *)
(* 40-49) the DDS entities, the registry and the externalizer outlive the   *)
(* monitor thread.  The io context does not, but no session is open once it *)
(* is gone: the thread takes no new one and starts no new post to it.       *)
THEOREM MonitorSafeTeardown == Spec => []MonitorUsesLiveParts
<1>1. Init => Stages
  BY DEF Init, Stages, MonitorParts, Parts
<1>2. Stages => MonitorUsesLiveParts
  BY DEF Stages, MonitorUsesLiveParts, MonitorParts, Parts
<1> QED BY <1>1, <1>2, StagesStep, PTL DEF Spec

(***************************************************************************)
(* Type correctness.                                                       *)
(***************************************************************************)

(* The domains, by the thread that writes the variables.                    *)
IoTyped ==
    /\ running \in BOOLEAN /\ monRunning \in BOOLEAN
    /\ signalWait \in BOOLEAN /\ signalled \in BOOLEAN
    /\ acceptor \in {"none", "open", "closed"}
    /\ accepting \in {"none", "waiting", "done", "aborted"}
    /\ arrived \subseteq Clients /\ sessions \subseteq Clients
    /\ open \subseteq Clients /\ gone \subseteq Clients

MonitorTyped ==
    /\ mpc \in {"none", "test", "wait", "serve", "deliver", "post", "done"}
    /\ pending \subseteq Topics \cup {Discovery}
    /\ publications \in Seq(Topics)
    /\ announced \in 0..MaxPublications
    /\ readers \subseteq Topics /\ failed \subseteq Topics
    /\ cache \in [Topics -> 0..Depth]
    /\ batch \in 0..SampleBatch
    /\ held \subseteq Clients /\ todo \subseteq Clients /\ posting \subseteq Clients

Typed == Stages /\ IoTyped /\ MonitorTyped

LEMMA MainTyped == ASSUME Typed, MainStep PROVE IoTyped' /\ MonitorTyped'
<1> USE DEF Typed, Stages, IoTyped, MonitorTyped, ioVars, serverVars, monVars, topicVars,
           deliveryVars
<1>1. ASSUME NEW ok \in BOOLEAN, Construct(ok) PROVE IoTyped' /\ MonitorTyped'
  BY <1>1 DEF Construct
<1>2. ASSUME NEW ok \in BOOLEAN, Listen(ok) PROVE IoTyped' /\ MonitorTyped'
  BY <1>2 DEF Listen
<1>3. CASE Start
  BY <1>3 DEF Start
<1>4. CASE IoStep
  <2>1. CASE OnSignal
    BY <2>1 DEF OnSignal, Closed
  <2>2. CASE OnAccept
    BY <2>2 DEF OnAccept, Rearmed
  <2>3. CASE OnAcceptAborted \/ RunReturns
    BY <2>3 DEF OnAcceptAborted, RunReturns, Rearmed
  <2> QED BY <1>4, <2>1, <2>2, <2>3 DEF IoStep
<1>5. CASE Leave \/ StopMonitor
  BY <1>5 DEF Leave, StopMonitor
<1>6. CASE DeleteEntities \/ DestroyRegistry \/ ResetExternalizer
  BY <1>6 DEF DeleteEntities, DestroyRegistry, ResetExternalizer
<1> QED BY <1>1, <1>2, <1>3, <1>4, <1>5, <1>6 DEF MainStep

(* A batch read from the builtin reader leaves the rest, in order.          *)
LEMMA BatchRest ==
    ASSUME NEW s \in Seq(Topics), NEW n \in 0..Len(s)
    PROVE  SubSeq(s, n + 1, Len(s)) \in Seq(Topics)
BY SubSeqProperties

LEMMA MonitorStepTyped == ASSUME Typed, MonitorStep \/ WaitFails PROVE IoTyped' /\ MonitorTyped'
<1> USE LacalAssumption DEF Typed, IoTyped, MonitorTyped, ioVars, serverVars, monVars, topicVars,
           deliveryVars
<1>1. CASE Test \/ AllServed \/ WaitFails
  BY <1>1 DEF Test, AllServed, WaitFails
<1>2. CASE Wait
  BY <1>2 DEF Wait, Triggered, Attached
<1>3. ASSUME NEW made \in SUBSET ArcalTopics, PollBuiltin(made) PROVE IoTyped' /\ MonitorTyped'
  <2> DEFINE n == IF Len(publications) < PubBatch THEN Len(publications) ELSE PubBatch
  <2>1. Len(publications) \in Nat /\ \A i \in 1..Len(publications) : publications[i] \in Topics
    BY LenProperties, ElementOfSeq
  <2>2. n \in 0..Len(publications)
    BY <2>1
  <2>3. {publications[i] : i \in 1..n} \subseteq Topics
    BY <2>1
  <2>4. publications' \in Seq(Topics)
    BY <1>3, <2>2, BatchRest DEF PollBuiltin
  <2>5. readers' \subseteq Topics /\ failed' \subseteq Topics /\ pending' \subseteq pending
    BY <1>3, <2>3 DEF PollBuiltin
  <2> QED BY <1>3, <2>4, <2>5 DEF PollBuiltin
<1>4. ASSUME NEW t \in Topics, DrainReader(t) PROVE IoTyped' /\ MonitorTyped'
  BY <1>4 DEF DrainReader, Left
<1>5. CASE Deliver
  BY <1>5 DEF Deliver, DropSample, Snapshot, Skip, TestOpen, Post, Delivered
<1> QED BY <1>1, <1>2, <1>3, <1>4, <1>5 DEF MonitorStep, Serve

LEMMA CrashTyped == ASSUME Typed, Crash PROVE IoTyped' /\ MonitorTyped'
BY DEF Typed, IoTyped, MonitorTyped, ioVars, serverVars, topicVars, deliveryVars, Crash

LEMMA WorldTyped == ASSUME Typed, World PROVE IoTyped' /\ MonitorTyped'
<1> USE LacalAssumption DEF Typed, IoTyped, MonitorTyped, ioVars, serverVars, monVars, topicVars,
           deliveryVars
<1>1. ASSUME NEW t \in Topics, Publish(t) PROVE IoTyped' /\ MonitorTyped'
  <2>1. Append(publications, t) \in Seq(Topics)
    BY AppendProperties
  <2> QED BY <1>1, <2>1 DEF Publish
<1>2. ASSUME NEW t \in Topics, Arrive(t) PROVE IoTyped' /\ MonitorTyped'
  BY <1>2 DEF Arrive
<1>3. ASSUME NEW c \in Clients, Connect(c) \/ Closes(c) \/ SessionEnds(c)
     PROVE  IoTyped' /\ MonitorTyped'
  BY <1>3 DEF Connect, Closes, SessionEnds, Shut
<1>4. CASE Signal
  BY <1>4 DEF Signal
<1> QED BY <1>1, <1>2, <1>3, <1>4 DEF World

(* Every variable of the server stays in its domain, whatever the batch     *)
(* sizes and however often the readers' history overflows: among them, a    *)
(* drained cache does not go below zero (TopicMonitor.cpp:111-126).         *)
THEOREM TypeCorrect == Spec => []TypeOK
<1>1. Init => Typed
  <2> SUFFICES ASSUME Init PROVE Typed
    OBVIOUS
  <2>1. Stages /\ IoTyped
    BY DEF Init, Stages, IoTyped, MonitorParts, Parts
  <2>2. 0 \in 0..MaxPublications /\ 0 \in 0..Depth /\ <<>> \in Seq(Topics)
          /\ 0 \in 0..SampleBatch
    BY LacalAssumption, EmptySeq
  <2>3. MonitorTyped
    BY <2>2 DEF Init, MonitorTyped
  <2> QED BY <2>1, <2>3 DEF Typed
<1>2. Typed /\ [Next]_vars => Typed'
  <2> SUFFICES ASSUME Typed, [Next]_vars PROVE Typed'
    OBVIOUS
  <2>1. CASE Next
    <3>1. Stages'
      BY <2>1, StagesStep DEF Typed
    <3>2. IoTyped' /\ MonitorTyped'
      BY <2>1, MainTyped, MonitorStepTyped, CrashTyped, WorldTyped DEF Next, World
    <3> QED BY <3>1, <3>2 DEF Typed
  <2>2. CASE UNCHANGED vars
    <3>1. Stages'
      BY <2>2, StagesStep DEF Typed
    <3> QED BY <2>2, <3>1
            DEF Typed, IoTyped, MonitorTyped, vars, ioVars, serverVars, monVars, topicVars,
           deliveryVars
  <2> QED BY <2>1, <2>2
<1>3. Typed => TypeOK
  BY DEF Typed, Stages, IoTyped, MonitorTyped, TypeOK
<1> QED BY <1>1, <1>2, <1>3, PTL DEF Spec
=============================================================================
