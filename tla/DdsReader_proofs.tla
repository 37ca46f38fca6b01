-------------------------- MODULE DdsReader_proofs --------------------------
(***************************************************************************)
(* Proofs about DdsReader, for any number of threads, listeners, samples   *)
(* and calls: the type invariant, and the four safety properties of the    *)
(* lock protocol between the application's threads and the background      *)
(* thread, from one inductive invariant; that the reader implements        *)
(* AbstractReader; and, along AbstractReader, the order of delivery.       *)
(***************************************************************************)
EXTENDS DdsReader, SequenceTheorems, TLAPS

(***************************************************************************)
(* The inductive invariant.                                                *)
(***************************************************************************)

(* A listener is only ever called for the sample in front.                  *)
SampleInHand == \A w \in Workers : pc[w] \in {"snap", "call"} => raw[w] # <<>>

(* Who holds which lock.  While the background thread is inside a listener  *)
(* it holds cbMutex and the callback is set.                                *)
LocksHeld ==
    /\ \A t \in Apps : pc[t] \in {"set", "unset"} => mu = t
    /\ pc[Bg] \in DispatchPcs => cbMutex = Bg /\ callback

(* The reader's list and the core's callback, inside and outside mu_.       *)
CallbackFollows ==
    /\ \A t \in Apps : pc[t] = "set"   => listeners # NoListeners /\ ~callback
    /\ \A t \in Apps : pc[t] = "unset" => listeners = NoListeners
    /\ mu = NoThread /\ listeners = NoListeners => ~callback
    /\ mu = NoThread /\ phase = "live" /\ ~closed /\ listeners # NoListeners => callback
    /\ \A t \in Apps : pc[t] \in {"closeCb", "closeCore"} => closed

(* How far the destructor has come.                                         *)
DtorProgress ==
    /\ \A t \in Apps : pc[t] \in {"dtor", "dtorMembers"}  => phase = "dtor"
    /\ \A t \in Apps : pc[t] \in {"dtorCore", "join"}     => phase = "members"
    /\ \A t \in Apps : pc[t] = "dtorMembers"              => ~callback
    /\ \A t, u \in Apps : pc[t] \in DtorPcs /\ pc[u] \in DtorPcs => t = u
    /\ phase # "live" => \A t \in Apps : pc[t] \in DtorPcs \cup {"idle", "dead"}
    /\ phase \in {"members", "gone"} => ~callback
    /\ phase = "gone" => pc[Bg] = "done"

IInv == TypeOK /\ SampleInHand /\ LocksHeld /\ CallbackFollows /\ DtorProgress
(***************************************************************************)
(* Lemmas about the operators.                                             *)
(***************************************************************************)

(* Appending a sample of the right form keeps the cache a sequence of       *)
(* samples, whether or not the oldest one is dropped.                       *)
LEMMA KeepLastType ==
    ASSUME NEW s \in Samples, cache \in Seq(Samples)
    PROVE  KeepLast(s) \in Seq(Samples)
<1>1. CASE Len(cache) = Depth
  <2>1. cache # <<>>
    BY <1>1, ReaderAssumption
  <2>2. Tail(cache) \in Seq(Samples)
    BY <2>1
  <2> QED BY <1>1, <2>2 DEF KeepLast
<1>2. CASE Len(cache) # Depth
  BY <1>2 DEF KeepLast
<1> QED BY <1>1, <1>2

(* A take returns samples of the cache.                                     *)
LEMMA TakenType ==
    ASSUME NEW cap \in Nat, cache \in Seq(Samples)
    PROVE  Taken(cap) \in Seq(Samples) /\ Len(Taken(cap)) \in Nat
<1>1. SubSeq(cache, 1, cap) \in Seq(Samples) \/ ~(cap > 0 /\ cap < Len(cache))
  BY SubSeqProperties
<1>2. Taken(cap) \in Seq(Samples)
  BY <1>1 DEF Taken
<1> QED BY <1>2, LenProperties

LEMMA NoListenersType == NoListeners \in [Listeners -> Nat]
BY DEF NoListeners

(* The program counter after a step of an application thread, or of the     *)
(* background thread.                                                       *)
LEMMA GotoApp ==
    ASSUME NEW t \in Apps, NEW label \in AppPcs, PcOK, Goto(t, label)
    PROVE  /\ PcOK'
           /\ pc'[t] = label
           /\ \A w \in Workers \ {t} : pc'[w] = pc[w]
BY ReaderAssumption DEF Goto, PcOK, Workers

LEMMA GotoBg ==
    ASSUME NEW label \in BgPcs, PcOK, Goto(Bg, label)
    PROVE  /\ PcOK'
           /\ pc'[Bg] = label
           /\ \A w \in Workers \ {Bg} : pc'[w] = pc[w]
BY ReaderAssumption DEF Goto, PcOK, Workers

(* dispatchOne is run by both kinds of thread.                              *)
LEMMA GotoAny ==
    ASSUME NEW w \in Workers, NEW label \in DispatchPcs, PcOK, Goto(w, label)
    PROVE  /\ PcOK'
           /\ pc'[w] = label
           /\ \A u \in Workers \ {w} : pc'[u] = pc[u]
<1>1. label \in AppPcs /\ label \in BgPcs
  BY DEF AppPcs, BgPcs
<1> QED BY <1>1, GotoApp, GotoBg DEF Workers

LEMMA PcStays == ASSUME PcOK, UNCHANGED pc PROVE PcOK'
BY DEF PcOK

LEMMA EmptyRaw == <<>> \in Seq(Samples)
BY EmptySeq

LEMMA Labels ==
    /\ {"idle", "set", "unset", "take", "closeCb", "closeCore", "dispatch", "dead",
        "dtor", "dtorMembers", "dtorCore", "join"} \subseteq AppPcs
    /\ {"loop", "peek", "wait", "take", "lock", "done", "dead", "dispatch"} \subseteq BgPcs
    /\ {"dispatch", "snap", "call"} = DispatchPcs
BY DEF AppPcs, BgPcs, DispatchPcs, DtorPcs

(***************************************************************************)
(* Type correctness.                                                       *)
(***************************************************************************)

LEMMA InitType == Init => TypeOK /\ SampleInHand
<1> SUFFICES ASSUME Init PROVE TypeOK /\ SampleInHand
  OBVIOUS
<1>1. arg \in [Apps -> Listeners]
  BY ReaderAssumption DEF Init
<1>2. last \in [Workers -> [Listeners -> 0..MaxSamples]]
  BY ReaderAssumption DEF Init, NoListeners
<1>3. PcOK
  BY ReaderAssumption, Labels DEF Init, PcOK, Workers
<1>4. SampleInHand
  BY <1>3 DEF Init, SampleInHand, Workers
<1>5. /\ cache \in Seq(Samples)
      /\ raw \in [Workers -> Seq(Samples)]
      /\ snap \in [Workers -> [Listeners -> Nat]]
  BY EmptyRaw, NoListenersType DEF Init
<1>6. callsLeft \in 0..MaxCalls /\ published \in 0..MaxSamples
  BY ReaderAssumption DEF Init
<1>7. /\ mu \in Apps \cup {NoThread}
      /\ listeners \in [Listeners -> Nat]
      /\ cbMutex \in {Bg, NoThread}
      /\ callback \in BOOLEAN /\ closed \in BOOLEAN /\ coreClosed \in BOOLEAN
      /\ phase \in {"live", "dtor", "members", "gone"}
  BY NoListenersType DEF Init
<1> QED
  BY <1>1, <1>2, <1>3, <1>4, <1>5, <1>6, <1>7 DEF TypeOK

LEMMA NextType == TypeOK /\ SampleInHand /\ [Next]_vars => TypeOK' /\ SampleInHand'
<1> SUFFICES ASSUME TypeOK, SampleInHand, [Next]_vars
             PROVE  TypeOK' /\ SampleInHand'
  OBVIOUS
<1> USE ReaderAssumption
<1>0. PcOK
  BY DEF TypeOK
<1>1. CASE Publish
  <2> PICK tag \in Tags : cache' = KeepLast([id |-> published + 1, tag |-> tag])
    BY <1>1 DEF Publish
  <2>1. [id |-> published + 1, tag |-> tag] \in Samples /\ published' \in 0..MaxSamples
    BY <1>1 DEF Publish, TypeOK, Samples
  <2>2. cache' \in Seq(Samples)
    BY <2>1, KeepLastType DEF TypeOK
  <2>3. PcOK'
    BY <1>0, <1>1 DEF Publish, PcOK
  <2> QED
    BY <1>1, <2>1, <2>2, <2>3 DEF Publish, TypeOK, SampleInHand, vars, readerVars,
         lockVars, lifeVars, workVars
<1>2. ASSUME NEW t \in Apps, NEW l \in Listeners, AddListener(t, l)
      PROVE  TypeOK' /\ SampleInHand'
  <2>1. PcOK' /\ SampleInHand'
    BY <1>0, <1>2, GotoApp, PcStays, Labels DEF AddListener, Begin, SampleInHand,
         workVars, Workers
  <2> QED
    BY <1>2, <2>1 DEF AddListener, Begin, TypeOK, vars, readerVars, lockVars,
         lifeVars, workVars
<1>3. ASSUME NEW t \in Apps, NEW l \in Listeners, RemoveListener(t, l)
      PROVE  TypeOK' /\ SampleInHand'
  <2>1. PcOK' /\ SampleInHand'
    BY <1>0, <1>3, GotoApp, PcStays, Labels DEF RemoveListener, Erased, Begin,
         SampleInHand, workVars, Workers
  <2> QED
    BY <1>3, <2>1 DEF RemoveListener, Erased, Begin, TypeOK, vars, readerVars,
         lockVars, lifeVars, workVars
<1>4. ASSUME NEW t \in Apps, NEW l \in Listeners, Poll(t, l)
      PROVE  TypeOK' /\ SampleInHand'
  <2>1. PcOK' /\ SampleInHand'
    BY <1>0, <1>4, GotoApp, PcStays, Labels DEF Poll, Begin, SampleInHand, workVars, Workers
  <2> QED
    BY <1>4, <2>1 DEF Poll, Begin, TypeOK, vars, readerVars, lockVars, lifeVars, workVars
<1>5. ASSUME NEW t \in Apps, Close(t)
      PROVE  TypeOK' /\ SampleInHand'
  <2>1. PcOK' /\ SampleInHand'
    BY <1>0, <1>5, GotoApp, Labels DEF Close, Begin, SampleInHand, workVars, Workers
  <2> QED
    BY <1>5, <2>1 DEF Close, Begin, TypeOK, vars, readerVars, lockVars, lifeVars, workVars
<1>6. ASSUME NEW t \in Apps, Destroy(t)
      PROVE  TypeOK' /\ SampleInHand'
  <2>1. PcOK' /\ SampleInHand'
    BY <1>0, <1>6, GotoApp, Labels DEF Destroy, Begin, SampleInHand, workVars, Workers
  <2> QED
    BY <1>6, <2>1 DEF Destroy, Begin, TypeOK, vars, readerVars, lockVars, lifeVars, workVars
<1>7. ASSUME NEW t \in Apps, SetCallback(t)
      PROVE  TypeOK' /\ SampleInHand'
  <2>1. PcOK' /\ SampleInHand'
    BY <1>0, <1>7, GotoApp, Labels DEF SetCallback, SampleInHand, workVars, Workers
  <2> QED
    BY <1>7, <2>1 DEF SetCallback, TypeOK, vars, readerVars, lockVars, lifeVars, workVars
<1>8. ASSUME NEW t \in Apps, ClearCallback(t)
      PROVE  TypeOK' /\ SampleInHand'
  <2>1. PcOK' /\ SampleInHand'
    BY <1>0, <1>8, GotoApp, Labels DEF ClearCallback, SampleInHand, workVars, Workers
  <2> QED
    BY <1>8, <2>1 DEF ClearCallback, TypeOK, vars, readerVars, lockVars, lifeVars, workVars
<1>9. ASSUME NEW t \in Apps, PollTake(t)
      PROVE  TypeOK' /\ SampleInHand'
  <2> PICK cap \in Caps : raw' = [raw EXCEPT ![t] = Taken(cap)]
    BY <1>9 DEF PollTake
  <2>2. Taken(cap) \in Seq(Samples) /\ Len(Taken(cap)) \in Nat
    BY TakenType DEF TypeOK
  <2>3. raw' \in [Workers -> Seq(Samples)]
    BY <2>2 DEF TypeOK
  <2>1. PcOK' /\ SampleInHand'
    BY <1>0, <1>9, GotoApp, Labels DEF PollTake, SampleInHand, workVars, Workers
  <2> QED
    BY <1>9, <2>1, <2>3, EmptyRaw DEF PollTake, TypeOK, vars, readerVars, lockVars,
         lifeVars, workVars
<1>10. ASSUME NEW t \in Apps, PollReturn(t)
      PROVE  TypeOK' /\ SampleInHand'
  <2>1. PcOK' /\ SampleInHand'
    BY <1>0, <1>10, GotoApp, Labels DEF PollReturn, SampleInHand, workVars, Workers
  <2> QED
    BY <1>10, <2>1 DEF PollReturn, TypeOK, vars, readerVars, lockVars, lifeVars, workVars
<1>11. ASSUME NEW t \in Apps, CloseCallback(t)
      PROVE  TypeOK' /\ SampleInHand'
  <2>1. PcOK' /\ SampleInHand'
    BY <1>0, <1>11, GotoApp, Labels DEF CloseCallback, SampleInHand, workVars, Workers
  <2> QED
    BY <1>11, <2>1 DEF CloseCallback, TypeOK, vars, readerVars, lockVars, lifeVars, workVars
<1>12. ASSUME NEW t \in Apps, CloseCore(t)
      PROVE  TypeOK' /\ SampleInHand'
  <2>1. PcOK' /\ SampleInHand'
    BY <1>0, <1>12, GotoApp, Labels DEF CloseCore, SampleInHand, workVars, Workers
  <2> QED
    BY <1>12, <2>1 DEF CloseCore, TypeOK, vars, readerVars, lockVars, lifeVars, workVars
<1>13. ASSUME NEW t \in Apps, DtorCallback(t)
      PROVE  TypeOK' /\ SampleInHand'
  <2>1. PcOK' /\ SampleInHand'
    BY <1>0, <1>13, GotoApp, Labels DEF DtorCallback, SampleInHand, workVars, Workers
  <2> QED
    BY <1>13, <2>1 DEF DtorCallback, TypeOK, vars, readerVars, lockVars, lifeVars, workVars
<1>14. ASSUME NEW t \in Apps, DtorMembers(t)
      PROVE  TypeOK' /\ SampleInHand'
  <2>1. PcOK' /\ SampleInHand'
    BY <1>0, <1>14, GotoApp, Labels DEF DtorMembers, SampleInHand, workVars, Workers
  <2> QED
    BY <1>14, <2>1, NoListenersType DEF DtorMembers, TypeOK, vars, readerVars,
         lockVars, lifeVars, workVars
<1>15. ASSUME NEW t \in Apps, DtorCore(t)
      PROVE  TypeOK' /\ SampleInHand'
  <2>1. PcOK' /\ SampleInHand'
    BY <1>0, <1>15, GotoApp, Labels DEF DtorCore, SampleInHand, workVars, Workers
  <2> QED
    BY <1>15, <2>1 DEF DtorCore, TypeOK, vars, readerVars, lockVars, lifeVars, workVars
<1>16. ASSUME NEW t \in Apps, DtorJoin(t)
      PROVE  TypeOK' /\ SampleInHand'
  <2>1. PcOK' /\ SampleInHand'
    BY <1>0, <1>16, GotoApp, Labels DEF DtorJoin, SampleInHand, workVars, Workers
  <2> QED
    BY <1>16, <2>1 DEF DtorJoin, TypeOK, vars, readerVars, lockVars, lifeVars, workVars
<1>17. ASSUME NEW w \in Workers, DispatchSample(w)
      PROVE  TypeOK' /\ SampleInHand'
  <2> DEFINE s == Head(raw[w])
  <2>1. s \in Samples /\ Tail(raw[w]) \in Seq(Samples)
    BY <1>17 DEF DispatchSample, TypeOK
  <2>2. CASE s.tag = "wrong"
    <3>1. raw' = [raw EXCEPT ![w] = Tail(@)] /\ UNCHANGED <<pc, last>>
      BY <1>17, <2>2 DEF DispatchSample
    <3>2. PcOK' /\ SampleInHand'
      BY <1>0, <1>17, <3>1 DEF DispatchSample, PcOK, SampleInHand
    <3> QED BY <1>17, <2>1, <3>1, <3>2 DEF DispatchSample, TypeOK, vars, readerVars,
           lockVars, lifeVars, workVars
  <2>3. CASE s.tag = "corrupt"
    <3>1. Throw(w)
      BY <1>17, <2>3 DEF DispatchSample
    <3>2. CASE w = Bg
      <4>1. PcOK' /\ SampleInHand'
        BY <1>0, <3>1, <3>2, Labels DEF Throw, PcOK, SampleInHand, Workers
      <4> QED BY <1>17, <3>1, <3>2, <4>1 DEF DispatchSample, Throw, TypeOK, vars,
             readerVars, lockVars, lifeVars, workVars
    <3>3. CASE w # Bg
      <4>1. PcOK' /\ SampleInHand'
        BY <1>0, <3>1, <3>3, Labels, GotoApp DEF Throw, SampleInHand, TypeOK, Workers
      <4>2. raw' \in [Workers -> Seq(Samples)]
        <5>1. raw \in [Workers -> Seq(Samples)]
          BY DEF TypeOK
        <5>2. raw' = [raw EXCEPT ![w] = <<>>]
          BY <3>1, <3>3 DEF Throw
        <5> QED BY <5>1, <5>2, EmptyRaw
      <4> QED BY <1>17, <3>1, <3>3, <4>1, <4>2 DEF DispatchSample, Throw, TypeOK,
             vars, readerVars, lockVars, lifeVars, workVars
    <3> QED BY <3>2, <3>3
  <2>4. CASE s.tag = "good"
    <3>1. Goto(w, "snap") /\ raw' = raw
      BY <1>17, <2>4 DEF DispatchSample
    <3>2. PcOK' /\ SampleInHand'
      BY <1>0, <1>17, <3>1, Labels, GotoAny DEF DispatchSample, SampleInHand
    <3>3. last' \in [Workers -> [Listeners -> 0..MaxSamples]]
      <4>1. CASE w = Bg
        BY <1>17, <2>4, <4>1 DEF DispatchSample, TypeOK
      <4>2. CASE w # Bg
        <5>1. arg[w] \in Listeners /\ s.id \in 0..MaxSamples /\ w \in Apps
          BY <2>1, <4>2 DEF TypeOK, Samples, Workers
        <5>2. last' = [last EXCEPT ![w][arg[w]] = s.id]
          BY <1>17, <2>4, <4>2 DEF DispatchSample
        <5>3. last \in [Workers -> [Listeners -> 0..MaxSamples]]
          BY DEF TypeOK
        <5> QED BY <5>1, <5>2, <5>3
      <4> QED BY <4>1, <4>2
    <3> QED BY <1>17, <3>1, <3>2, <3>3 DEF DispatchSample, TypeOK, vars, readerVars,
           lockVars, lifeVars, workVars
  <2> QED BY <1>17, <2>2, <2>3, <2>4 DEF DispatchSample
<1>18. ASSUME NEW w \in Workers, Snapshot(w)
      PROVE  TypeOK' /\ SampleInHand'
  <2>1. PcOK' /\ SampleInHand'
    BY <1>0, <1>18, GotoAny, Labels DEF Snapshot, SampleInHand, workVars, Workers
  <2> QED
    BY <1>18, <2>1 DEF Snapshot, TypeOK, vars, readerVars, lockVars, lifeVars, workVars
<1>19. ASSUME NEW w \in Workers, NextSample(w)
      PROVE  TypeOK' /\ SampleInHand'
  <2>2. Tail(raw[w]) \in Seq(Samples)
    BY <1>19 DEF NextSample, TypeOK, SampleInHand
  <2>3. raw' \in [Workers -> Seq(Samples)]
    BY <1>19, <2>2 DEF NextSample, TypeOK
  <2>1. PcOK' /\ SampleInHand'
    BY <1>0, <1>19, GotoAny, Labels DEF NextSample, SampleInHand, workVars, Workers
  <2> QED
    BY <1>19, <2>1, <2>3 DEF NextSample, TypeOK, vars, readerVars, lockVars, lifeVars,
           workVars
<1>20. ASSUME NEW w \in Workers, NEW l \in Listeners, CallListener(w, l)
      PROVE  TypeOK' /\ SampleInHand'
  <2>1. Head(raw[w]) \in Samples
    BY <1>20 DEF CallListener, TypeOK, SampleInHand
  <2>2. last' \in [Workers -> [Listeners -> 0..MaxSamples]]
    BY <1>20, <2>1 DEF CallListener, TypeOK, Samples
  <2>3. snap' \in [Workers -> [Listeners -> Nat]]
    BY <1>20 DEF CallListener, TypeOK
  <2>4. PcOK' /\ SampleInHand'
    BY <1>0, <1>20 DEF CallListener, PcOK, SampleInHand
  <2> QED
    BY <1>20, <2>2, <2>3, <2>4 DEF CallListener, TypeOK, vars, readerVars, lockVars,
         lifeVars, workVars
<1>21. CASE BgLoop
  <2>1. PcOK' /\ SampleInHand'
    BY <1>0, <1>21, GotoBg, Labels DEF BgLoop, SampleInHand, workVars, Workers
  <2> QED
    BY <1>21, <2>1 DEF BgLoop, TypeOK, vars, readerVars, lockVars, lifeVars, workVars
<1>22. CASE BgPeek
  <2>1. PcOK' /\ SampleInHand'
    BY <1>0, <1>22, GotoBg, Labels DEF BgPeek, SampleInHand, workVars, Workers
  <2> QED
    BY <1>22, <2>1 DEF BgPeek, TypeOK, vars, readerVars, lockVars, lifeVars, workVars
<1>23. CASE BgWake
  <2>1. PcOK' /\ SampleInHand'
    BY <1>0, <1>23, GotoBg, Labels DEF BgWake, SampleInHand, workVars, Workers
  <2> QED
    BY <1>23, <2>1 DEF BgWake, TypeOK, vars, readerVars, lockVars, lifeVars, workVars
<1>24. CASE BgTake
  <2>2. Taken(0) \in Seq(Samples)
    BY TakenType DEF TypeOK
  <2>3. raw' \in [Workers -> Seq(Samples)]
    BY <1>24, <2>2 DEF BgTake, TypeOK
  <2>1. PcOK' /\ SampleInHand'
    BY <1>0, <1>24, GotoBg, Labels DEF BgTake, SampleInHand, workVars, Workers
  <2> QED
    BY <1>24, <2>1, <2>3, EmptyRaw DEF BgTake, TypeOK, vars, readerVars, lockVars,
         lifeVars, workVars
<1>25. CASE BgLock
  <2>2. raw' \in [Workers -> Seq(Samples)]
    BY <1>25, EmptyRaw DEF BgLock, TypeOK
  <2>3. /\ cbMutex' \in {Bg, NoThread}
        /\ UNCHANGED <<readerVars, lifeVars, mu, listeners, callback, snap,
               last, arg, callsLeft>>
    BY <1>25 DEF BgLock, TypeOK
  <2>4. raw \in [Workers -> Seq(Samples)]
    BY DEF TypeOK
  <2>1. PcOK' /\ SampleInHand'
    BY <1>0, <1>25, GotoBg, Labels, <2>4 DEF BgLock, SampleInHand, workVars, Workers
  <2> QED
    BY <1>25, <2>1, <2>2, <2>3 DEF BgLock, TypeOK, vars, readerVars, lockVars,
         lifeVars, workVars
<1>26. CASE BgUnlock
  <2>1. PcOK' /\ SampleInHand'
    BY <1>0, <1>26, GotoBg, Labels DEF BgUnlock, SampleInHand, workVars, Workers
  <2> QED
    BY <1>26, <2>1 DEF BgUnlock, TypeOK, vars, readerVars, lockVars, lifeVars, workVars
<1>27. CASE UNCHANGED vars
  BY <1>0, <1>27 DEF TypeOK, PcOK, SampleInHand, vars, readerVars, lockVars, lifeVars,
         workVars
<1> QED
  BY <1>1, <1>2, <1>3, <1>4, <1>5, <1>6, <1>7, <1>8, <1>9, <1>10, <1>11, <1>12, <1>13,
       <1>14, <1>15, <1>16, <1>17, <1>18, <1>19, <1>20, <1>21, <1>22, <1>23, <1>24,
       <1>25, <1>26, <1>27
     DEF Next, BeginCall, AppStep, BgStep, Dispatch, Workers

(* TypeOK of the reader: every variable stays in its domain.                *)
THEOREM TypeCorrect == Spec => []TypeOK
<1>1. TypeOK /\ SampleInHand /\ [Next]_vars => (TypeOK /\ SampleInHand)'
  BY NextType
<1> QED BY <1>1, InitType, PTL DEF Spec

(***************************************************************************)
(* The lock protocol.                                                      *)
(***************************************************************************)
Protocol == LocksHeld /\ CallbackFollows /\ DtorProgress

LEMMA InitProtocol == Init => Protocol
BY ReaderAssumption DEF Init, Protocol, LocksHeld, CallbackFollows, DtorProgress,
                        DispatchPcs, DtorPcs, Workers

LEMMA NextProtocol == TypeOK /\ Protocol /\ [Next]_vars => Protocol'
<1> SUFFICES ASSUME TypeOK, Protocol, [Next]_vars
             PROVE  Protocol'
  OBVIOUS
<1> USE ReaderAssumption DEF Protocol
<1>0. PcOK
  BY DEF TypeOK
<1>1. CASE Publish
  BY <1>0, <1>1, PcStays DEF Publish, PcOK,
     LocksHeld, CallbackFollows, DtorProgress, DispatchPcs, DtorPcs, Workers,
            lockVars, lifeVars
<1>2. ASSUME NEW t \in Apps, NEW l \in Listeners, AddListener(t, l)
      PROVE  Protocol'
  <2>1. listeners' # NoListeners
    <3>1. listeners'[l] = listeners[l] + 1 /\ listeners[l] \in Nat
      BY <1>2 DEF AddListener, TypeOK
    <3> QED BY <3>1 DEF NoListeners
  <2>2. CASE listeners = NoListeners
    BY <1>0, <1>2, <2>1, <2>2, GotoApp, Labels DEF AddListener, Begin,
       LocksHeld, CallbackFollows, DtorProgress, DispatchPcs, DtorPcs, Workers, lifeVars
  <2>3. CASE listeners # NoListeners
    BY <1>0, <1>2, <2>1, <2>3 DEF AddListener, Begin,
       LocksHeld, CallbackFollows, DtorProgress, DispatchPcs, DtorPcs, Workers, lifeVars
  <2> QED BY <2>2, <2>3
<1>3. ASSUME NEW t \in Apps, NEW l \in Listeners, RemoveListener(t, l)
      PROVE  Protocol'
  <2>1. listeners' = Erased(l)
    BY <1>3 DEF RemoveListener
  <2>2. listeners = NoListeners => NoneLeft(l)
    BY DEF NoneLeft, Erased, NoListeners
  <2>3. CASE NoneLeft(l)
    BY <1>0, <1>3, <2>1, <2>3, GotoApp, Labels DEF RemoveListener, NoneLeft, Begin,
       LocksHeld, CallbackFollows, DtorProgress, DispatchPcs, DtorPcs, Workers, lifeVars
  <2>4. CASE ~NoneLeft(l)
    BY <1>0, <1>3, <2>1, <2>2, <2>4 DEF RemoveListener, NoneLeft, Begin,
       LocksHeld, CallbackFollows, DtorProgress, DispatchPcs, DtorPcs, Workers, lifeVars
  <2> QED BY <2>3, <2>4
<1>4. ASSUME NEW t \in Apps, NEW l \in Listeners, Poll(t, l)
      PROVE  Protocol'
  BY <1>0, <1>4, GotoApp, PcStays, Labels DEF Poll, Begin,
     LocksHeld, CallbackFollows, DtorProgress, DispatchPcs, DtorPcs, Workers,
            lockVars, lifeVars
<1>5. ASSUME NEW t \in Apps, Close(t)
      PROVE  Protocol'
  BY <1>0, <1>5, GotoApp, Labels DEF Close, Begin,
     LocksHeld, CallbackFollows, DtorProgress, DispatchPcs, DtorPcs, Workers,
            lockVars, lifeVars
<1>6. ASSUME NEW t \in Apps, Destroy(t)
      PROVE  Protocol'
  BY <1>0, <1>6, GotoApp, Labels DEF Destroy, Begin,
     LocksHeld, CallbackFollows, DtorProgress, DispatchPcs, DtorPcs, Workers,
            lockVars, lifeVars
<1>7. ASSUME NEW t \in Apps, SetCallback(t)
      PROVE  Protocol'
  BY <1>0, <1>7, GotoApp, Labels DEF SetCallback,
     LocksHeld, CallbackFollows, DtorProgress, DispatchPcs, DtorPcs, Workers,
            lockVars, lifeVars
<1>8. ASSUME NEW t \in Apps, ClearCallback(t)
      PROVE  Protocol'
  BY <1>0, <1>8, GotoApp, Labels DEF ClearCallback,
     LocksHeld, CallbackFollows, DtorProgress, DispatchPcs, DtorPcs, Workers,
            lockVars, lifeVars
<1>9. ASSUME NEW t \in Apps, PollTake(t)
      PROVE  Protocol'
  BY <1>0, <1>9, GotoApp, Labels DEF PollTake,
     LocksHeld, CallbackFollows, DtorProgress, DispatchPcs, DtorPcs, Workers,
            lockVars, lifeVars
<1>10. ASSUME NEW t \in Apps, PollReturn(t)
      PROVE  Protocol'
  BY <1>0, <1>10, GotoApp, Labels DEF PollReturn,
     LocksHeld, CallbackFollows, DtorProgress, DispatchPcs, DtorPcs, Workers,
            lockVars, lifeVars
<1>11. ASSUME NEW t \in Apps, CloseCallback(t)
      PROVE  Protocol'
  BY <1>0, <1>11, GotoApp, Labels DEF CloseCallback,
     LocksHeld, CallbackFollows, DtorProgress, DispatchPcs, DtorPcs, Workers,
            lockVars, lifeVars
<1>12. ASSUME NEW t \in Apps, CloseCore(t)
      PROVE  Protocol'
  BY <1>0, <1>12, GotoApp, Labels DEF CloseCore,
     LocksHeld, CallbackFollows, DtorProgress, DispatchPcs, DtorPcs, Workers,
            lockVars, lifeVars
<1>13. ASSUME NEW t \in Apps, DtorCallback(t)
      PROVE  Protocol'
  BY <1>0, <1>13, GotoApp, Labels DEF DtorCallback,
     LocksHeld, CallbackFollows, DtorProgress, DispatchPcs, DtorPcs, Workers,
            lockVars, lifeVars
<1>14. ASSUME NEW t \in Apps, DtorMembers(t)
      PROVE  Protocol'
  BY <1>0, <1>14, GotoApp, Labels DEF DtorMembers,
     LocksHeld, CallbackFollows, DtorProgress, DispatchPcs, DtorPcs, Workers,
            lockVars, lifeVars
<1>15. ASSUME NEW t \in Apps, DtorCore(t)
      PROVE  Protocol'
  BY <1>0, <1>15, GotoApp, Labels DEF DtorCore,
     LocksHeld, CallbackFollows, DtorProgress, DispatchPcs, DtorPcs, Workers,
            lockVars, lifeVars
<1>16. ASSUME NEW t \in Apps, DtorJoin(t)
      PROVE  Protocol'
  BY <1>0, <1>16, GotoApp, Labels DEF DtorJoin, Joined,
     LocksHeld, CallbackFollows, DtorProgress, DispatchPcs, DtorPcs, Workers,
            lockVars, lifeVars
<1>17. ASSUME NEW w \in Workers, DispatchSample(w)
      PROVE  Protocol'
  BY <1>0, <1>17, GotoAny, GotoApp, Labels DEF DispatchSample, Throw, PcOK,
     LocksHeld, CallbackFollows, DtorProgress, DispatchPcs, DtorPcs, Workers,
            lockVars, lifeVars
<1>18. ASSUME NEW w \in Workers, Snapshot(w)
      PROVE  Protocol'
  BY <1>0, <1>18, GotoAny, Labels DEF Snapshot,
     LocksHeld, CallbackFollows, DtorProgress, DispatchPcs, DtorPcs, Workers,
            lockVars, lifeVars
<1>19. ASSUME NEW w \in Workers, NextSample(w)
      PROVE  Protocol'
  BY <1>0, <1>19, GotoAny, Labels DEF NextSample,
     LocksHeld, CallbackFollows, DtorProgress, DispatchPcs, DtorPcs, Workers,
            lockVars, lifeVars
<1>20. ASSUME NEW w \in Workers, NEW l \in Listeners, CallListener(w, l)
      PROVE  Protocol'
  BY <1>0, <1>20, PcStays DEF CallListener,
     LocksHeld, CallbackFollows, DtorProgress, DispatchPcs, DtorPcs, Workers,
            lockVars, lifeVars
<1>21. CASE BgLoop
  BY <1>0, <1>21, GotoBg, Labels DEF BgLoop, Exits,
     LocksHeld, CallbackFollows, DtorProgress, DispatchPcs, DtorPcs, Workers,
            lockVars, lifeVars
<1>22. CASE BgPeek
  BY <1>0, <1>22, GotoBg, Labels DEF BgPeek,
     LocksHeld, CallbackFollows, DtorProgress, DispatchPcs, DtorPcs, Workers,
            lockVars, lifeVars
<1>23. CASE BgWake
  BY <1>0, <1>23, GotoBg, Labels DEF BgWake, Exits,
     LocksHeld, CallbackFollows, DtorProgress, DispatchPcs, DtorPcs, Workers,
            lockVars, lifeVars
<1>24. CASE BgTake
  BY <1>0, <1>24, GotoBg, Labels DEF BgTake,
     LocksHeld, CallbackFollows, DtorProgress, DispatchPcs, DtorPcs, Workers,
            lockVars, lifeVars
<1>25. CASE BgLock
  BY <1>0, <1>25, GotoBg, Labels DEF BgLock, StillWanted,
     LocksHeld, CallbackFollows, DtorProgress, DispatchPcs, DtorPcs, Workers,
            lockVars, lifeVars
<1>26. CASE BgUnlock
  BY <1>0, <1>26, GotoBg, Labels DEF BgUnlock,
     LocksHeld, CallbackFollows, DtorProgress, DispatchPcs, DtorPcs, Workers,
            lockVars, lifeVars
<1>27. CASE UNCHANGED vars
  BY <1>0, <1>27, PcStays DEF vars, readerVars, workVars,
     LocksHeld, CallbackFollows, DtorProgress, DispatchPcs, DtorPcs, Workers,
            lockVars, lifeVars
<1> QED
  BY <1>1, <1>2, <1>3, <1>4, <1>5, <1>6, <1>7, <1>8, <1>9, <1>10, <1>11, <1>12, <1>13,
         <1>14, <1>15, <1>16, <1>17, <1>18, <1>19, <1>20, <1>21, <1>22, <1>23, <1>24,
         <1>25, <1>26, <1>27
     DEF Next, BeginCall, AppStep, BgStep, Dispatch, Workers

LEMMA InvariantHolds == Spec => []IInv
<1>1. Init => IInv
  BY InitType, InitProtocol DEF IInv, Protocol
<1>2. IInv /\ [Next]_vars => IInv'
  BY NextType, NextProtocol DEF IInv, Protocol
<1> QED BY <1>1, <1>2, PTL DEF Spec

(***************************************************************************)
(* The results.                                                            *)
(***************************************************************************)

(* setBackgroundCallback(nullptr) returns only when the background thread   *)
(* is outside every listener, and keeps it outside.                         *)
THEOREM CallbackGate == Spec => []QuietWithoutCallback
<1>1. IInv => QuietWithoutCallback
  BY DEF IInv, LocksHeld, QuietWithoutCallback
<1> QED BY <1>1, InvariantHolds, PTL

(* The background thread never uses a destroyed member of the reader, and   *)
(* the destructor returns only when it has ended.                           *)
THEOREM Teardown == Spec => []SafeTeardown
<1>1. IInv => SafeTeardown
  BY DEF IInv, LocksHeld, DtorProgress, SafeTeardown
<1> QED BY <1>1, InvariantHolds, PTL

(* Outside mu_, an open reader delivers in the background exactly when a    *)
(* listener is registered.                                                  *)
THEOREM CallbackAgreement == Spec => []CallbackTracksListeners
<1>1. IInv => CallbackTracksListeners
  BY DEF IInv, TypeOK, CallbackFollows, CallbackTracksListeners
<1> QED BY <1>1, InvariantHolds, PTL

(* Only removeListener can close the lock cycle: an application that never  *)
(* removes a listener never meets it.                                       *)
THEOREM NoRemovalNoCycle ==
    ASSUME "remove" \notin Calls
    PROVE  Spec => []~LockCycle
<1> DEFINE NoUnset == \A t \in Apps : pc[t] # "unset"
<1>1. Init => NoUnset
  BY ReaderAssumption DEF Init, Workers
<1>2. IInv /\ NoUnset /\ [Next]_vars => NoUnset'
  <2> SUFFICES ASSUME IInv, NoUnset, [Next]_vars, NEW u \in Apps, pc'[u] = "unset"
               PROVE  FALSE
    OBVIOUS
  <2>1. pc \in [Workers -> AppPcs \cup BgPcs] /\ u \in Workers /\ pc[u] # "unset"
    BY DEF IInv, TypeOK, PcOK, Workers
  <2>2. ASSUME NEW w \in Workers, NEW label, Goto(w, label), label # "unset"
        PROVE  FALSE
    BY <2>1, <2>2 DEF Goto
  <2>3. pc' # pc
    BY <2>1
  <2>4. ASSUME NEW t \in Apps, BeginCall(t)
        PROVE  FALSE
    BY <2>2, <2>3, <2>4 DEF BeginCall, AddListener, RemoveListener, Poll, Close, Destroy,
                            Begin, Workers
  <2>5. ASSUME NEW w \in Workers, Dispatch(w)
        PROVE  FALSE
    <3>1. pc' # [v \in Workers |-> "dead"]
      BY <2>1
    <3> QED
      BY <2>2, <2>3, <2>5, <3>1
         DEF Dispatch, DispatchSample, Throw, Snapshot, CallListener, NextSample
  <2>6. ASSUME NEW t \in Apps, AppStep(t)
        PROVE  FALSE
    BY <2>2, <2>5, <2>6
       DEF AppStep, SetCallback, ClearCallback, PollTake, PollReturn, CloseCallback,
           CloseCore, DtorCallback, DtorMembers, DtorCore, DtorJoin, Workers
  <2>7. CASE BgStep
    BY <2>2, <2>5, <2>7
       DEF BgStep, BgLoop, BgPeek, BgWake, BgTake, BgLock, BgUnlock, Workers
  <2>8. ~Publish /\ ~UNCHANGED vars
    BY <2>3 DEF Publish, vars
  <2> QED BY <2>4, <2>6, <2>7, <2>8 DEF Next
<1>3. IInv /\ NoUnset => ~LockCycle
  BY DEF IInv, TypeOK, LocksHeld, CallbackFollows, LockCycle, DispatchPcs
<1> QED BY <1>1, <1>2, <1>3, InvariantHolds, PTL DEF Spec
(***************************************************************************)
(* The reader implements AbstractReader.                                   *)
(***************************************************************************)

(* Outside the dispatch a thread has no samples, and the sample in front is *)
(* a good one from the moment listeners are called for it.                  *)
InHand ==
    \A w \in Workers :
        /\ pc[w] \notin {"dispatch", "snap", "call", "lock", "dead"} => raw[w] = <<>>
        /\ pc[w] \in {"snap", "call"} => Head(raw[w]).tag = "good"

(* What the mapping sees of a state.                                        *)
seen == <<published, cache, raw, last>>

LEMMA SeenIsMapped == UNCHANGED seen => UNCHANGED Abs!vars
BY DEF seen, Abs!vars

(* A take keeps a prefix of the cache.                                      *)
LEMMA TakenPrefix ==
    ASSUME NEW cap \in Nat, cache \in Seq(Samples)
    PROVE  \E n \in 0 .. Len(cache) : Taken(cap) = SubSeq(cache, 1, n)
<1>1. CASE cap > 0 /\ cap < Len(cache)
  BY <1>1 DEF Taken
<1>2. CASE ~(cap > 0 /\ cap < Len(cache))
  <2>1. cache = SubSeq(cache, 1, Len(cache))
    OBVIOUS
  <2> QED BY <1>2, <2>1 DEF Taken
<1> QED BY <1>1, <1>2

LEMMA InitImplements == Init => InHand /\ Abs!Init
BY ReaderAssumption DEF Init, InHand, NoListeners, Abs!Init, Workers

(* A thread that takes has nothing left from before.                        *)
LEMMA TakeMapped ==
    ASSUME NEW w \in Workers, NEW cap \in Nat, cache \in Seq(Samples), raw[w] = <<>>,
           raw' = [raw EXCEPT ![w] = Taken(cap)], cache' = <<>>,
           UNCHANGED <<published, last>>
    PROVE  Abs!Take(w)
BY TakenPrefix DEF Abs!Take

(* Every step leaves InHand true, and is a step of AbstractReader or one it *)
(* does not see.                                                            *)
LEMMA NextImplements ==
    TypeOK /\ SampleInHand /\ InHand /\ [Next]_vars => InHand' /\ [Abs!Next]_(Abs!vars)
<1> SUFFICES ASSUME TypeOK, SampleInHand, InHand, [Next]_vars
             PROVE  InHand' /\ [Abs!Next]_(Abs!vars)
  OBVIOUS
<1> USE ReaderAssumption
<1>0. /\ PcOK
      /\ raw \in [Workers -> Seq(Samples)]
      /\ cache \in Seq(Samples)
  BY DEF TypeOK
<1>a. ASSUME NEW t \in Apps, NEW label \in AppPcs, Goto(t, label), UNCHANGED seen,
             label \in {"dispatch", "lock"} \/ raw[t] = <<>>, label \notin {"snap", "call"}
      PROVE  InHand' /\ [Abs!Next]_(Abs!vars)
  BY <1>0, <1>a, GotoApp, SeenIsMapped DEF InHand, seen, Workers
<1>b. ASSUME NEW label \in BgPcs, Goto(Bg, label), UNCHANGED seen,
             label \in {"dispatch", "lock"} \/ raw[Bg] = <<>>, label \notin {"snap", "call"}
      PROVE  InHand' /\ [Abs!Next]_(Abs!vars)
  BY <1>0, <1>b, GotoBg, SeenIsMapped DEF InHand, seen, Workers
<1>c. ASSUME UNCHANGED <<pc, seen>>
      PROVE  InHand' /\ [Abs!Next]_(Abs!vars)
  BY <1>c, SeenIsMapped DEF InHand, seen
<1>d. ASSUME NEW t \in Apps
      PROVE  pc[t] \in {"idle", "set", "unset", "closeCb", "closeCore", "dtor",
                        "dtorMembers", "dtorCore", "join", "take"} => raw[t] = <<>>
  BY DEF InHand, Workers
<1>e. pc[Bg] \in {"loop", "peek", "wait", "take"} => raw[Bg] = <<>>
  BY DEF InHand, Workers
<1>1. CASE Publish
  <2> PICK tag \in Tags : cache' = KeepLast([id |-> published + 1, tag |-> tag])
    BY <1>1 DEF Publish
  <2>1. [id |-> published + 1, tag |-> tag] \in Samples
    BY <1>1 DEF Publish, TypeOK, Samples
  <2>2. Abs!Arrive
    BY <1>1, <2>1 DEF Publish, KeepLast, Abs!Arrive, workVars
  <2>3. InHand'
    BY <1>1 DEF Publish, InHand, workVars
  <2> QED BY <2>2, <2>3 DEF Abs!Next
<1>2. ASSUME NEW t \in Apps, BeginCall(t)
      PROVE  InHand' /\ [Abs!Next]_(Abs!vars)
  <2>1. UNCHANGED seen /\ pc[t] = "idle"
    BY <1>2 DEF BeginCall, AddListener, RemoveListener, Poll, Close, Destroy, Begin,
                readerVars, workVars, seen
  <2>2. UNCHANGED pc \/ \E label \in {"set", "unset", "take", "closeCb", "dtor"} : Goto(t, label)
    BY <1>2 DEF BeginCall, AddListener, RemoveListener, Poll, Close, Destroy
  <2> QED BY <1>a, <1>c, <1>d, <2>1, <2>2, Labels
<1>3. ASSUME NEW t \in Apps,
             \/ SetCallback(t) \/ ClearCallback(t) \/ PollReturn(t) \/ CloseCallback(t)
             \/ CloseCore(t) \/ DtorCallback(t) \/ DtorMembers(t) \/ DtorCore(t) \/ DtorJoin(t)
      PROVE  InHand' /\ [Abs!Next]_(Abs!vars)
  <2>1. UNCHANGED seen /\ raw[t] = <<>>
    BY <1>3, <1>d DEF SetCallback, ClearCallback, PollReturn, CloseCallback, CloseCore,
       DtorCallback, DtorMembers, DtorCore, DtorJoin, readerVars, workVars, seen
  <2>2. \E label \in {"idle", "closeCore", "dtorMembers", "dtorCore", "join"} : Goto(t, label)
    BY <1>3 DEF SetCallback, ClearCallback, PollReturn, CloseCallback, CloseCore,
       DtorCallback, DtorMembers, DtorCore, DtorJoin
  <2> QED BY <1>a, <2>1, <2>2, Labels
<1>4. ASSUME NEW t \in Apps, PollTake(t)
      PROVE  InHand' /\ [Abs!Next]_(Abs!vars)
  <2>1. PICK cap \in Caps : raw' = [raw EXCEPT ![t] = Taken(cap)]
    BY <1>4 DEF PollTake
  <2>2. Abs!Take(t)
    BY <1>0, <1>4, <1>d, <2>1, TakeMapped DEF PollTake, Workers
  <2>3. InHand'
    BY <1>0, <1>4, <2>1, GotoApp, Labels DEF PollTake, InHand, Workers
  <2> QED BY <2>2, <2>3 DEF Abs!Next, Workers
<1>5. ASSUME NEW w \in Workers, DispatchSample(w)
      PROVE  InHand' /\ [Abs!Next]_(Abs!vars)
  <2> DEFINE s == Head(raw[w])
  <2>1. raw[w] # <<>> /\ pc[w] = "dispatch" /\ UNCHANGED <<cache, published>>
    BY <1>5 DEF DispatchSample, readerVars
  <2>2. CASE s.tag = "wrong"
    <3>1. raw' = [raw EXCEPT ![w] = Tail(@)] /\ UNCHANGED <<pc, last>>
      BY <1>5, <2>2 DEF DispatchSample
    <3>2. Abs!Done(w)
      BY <2>1, <3>1 DEF Abs!Done
    <3>3. InHand'
      BY <1>0, <2>1, <3>1 DEF InHand
    <3> QED BY <3>2, <3>3 DEF Abs!Next
  <2>3. CASE s.tag = "corrupt"
    <3>1. Throw(w)
      BY <1>5, <2>3 DEF DispatchSample
    <3>2. CASE w = Bg
      <4>1. UNCHANGED seen /\ pc' = [u \in Workers |-> "dead"]
        BY <2>1, <3>1, <3>2 DEF Throw, seen
      <4> QED BY <4>1, SeenIsMapped DEF InHand
    <3>3. CASE w # Bg
      <4>1. w \in Apps /\ raw' = [raw EXCEPT ![w] = <<>>] /\ Goto(w, "idle") /\ UNCHANGED last
        BY <3>1, <3>3 DEF Throw, Workers
      <4>2. Abs!LetGo(w)
        BY <2>1, <4>1 DEF Abs!LetGo
      <4>3. InHand'
        BY <1>0, <4>1, GotoApp, Labels DEF InHand
      <4> QED BY <4>2, <4>3 DEF Abs!Next
    <3> QED BY <3>2, <3>3
  <2>4. CASE s.tag = "good"
    <3>1. Goto(w, "snap") /\ raw' = raw
      BY <1>5, <2>4 DEF DispatchSample
    <3>2. InHand'
      BY <1>0, <2>4, <3>1, GotoAny, Labels DEF InHand
    <3>3. CASE w = Bg
      <4>1. UNCHANGED seen
        BY <1>5, <2>1, <2>4, <3>1, <3>3 DEF DispatchSample, seen
      <4> QED BY <3>2, <4>1, SeenIsMapped
    <3>4. CASE w # Bg
      <4>1. arg[w] \in Listeners /\ last' = [last EXCEPT ![w][arg[w]] = s.id]
        BY <1>5, <2>4, <3>4 DEF DispatchSample, TypeOK, Workers
      <4>2. Abs!Show(w, arg[w])
        BY <2>1, <2>4, <3>1, <4>1 DEF Abs!Show
      <4> QED BY <3>2, <4>1, <4>2 DEF Abs!Next
    <3> QED BY <3>3, <3>4
  <2> QED BY <1>5, <2>2, <2>3, <2>4 DEF DispatchSample
<1>6. ASSUME NEW w \in Workers, Snapshot(w)
      PROVE  InHand' /\ [Abs!Next]_(Abs!vars)
  <2>1. UNCHANGED seen /\ Goto(w, "call") /\ pc[w] = "snap"
    BY <1>6 DEF Snapshot, readerVars, seen
  <2>2. InHand'
    BY <1>0, <2>1, GotoAny, Labels DEF InHand, seen
  <2> QED BY <2>1, <2>2, SeenIsMapped
<1>7. ASSUME NEW w \in Workers, NEW l \in Listeners, CallListener(w, l)
      PROVE  InHand' /\ [Abs!Next]_(Abs!vars)
  <2>1. Abs!Show(w, l)
    BY <1>7 DEF CallListener, SampleInHand, InHand, Abs!Show, readerVars
  <2>2. InHand'
    BY <1>7 DEF CallListener, InHand
  <2> QED BY <2>1, <2>2 DEF Abs!Next
<1>8. ASSUME NEW w \in Workers, NextSample(w)
      PROVE  InHand' /\ [Abs!Next]_(Abs!vars)
  <2>1. Abs!Done(w)
    BY <1>8 DEF NextSample, SampleInHand, Abs!Done, readerVars
  <2>2. InHand'
    BY <1>0, <1>8, GotoAny, Labels DEF NextSample, InHand
  <2> QED BY <2>1, <2>2 DEF Abs!Next
<1>9. CASE BgLoop \/ BgPeek \/ BgWake \/ BgUnlock
  <2>1. UNCHANGED seen /\ raw[Bg] = <<>>
    BY <1>9, <1>e DEF BgLoop, BgPeek, BgWake, BgUnlock, readerVars, workVars, seen
  <2>2. \E label \in {"done", "peek", "wait", "loop", "take"} : Goto(Bg, label)
    BY <1>9 DEF BgLoop, BgPeek, BgWake, BgUnlock
  <2> QED BY <1>b, <2>1, <2>2, Labels
<1>10. CASE BgTake
  <2>1. raw[Bg] = <<>> /\ raw' = [raw EXCEPT ![Bg] = Taken(0)]
    BY <1>10, <1>e DEF BgTake
  <2>2. Abs!Take(Bg)
    BY <1>0, <1>10, <2>1, TakeMapped DEF BgTake, Workers
  <2>3. InHand'
    BY <1>0, <1>10, <2>1, GotoBg, Labels DEF BgTake, InHand, Workers
  <2> QED BY <2>2, <2>3 DEF Abs!Next, Workers
<1>11. CASE BgLock
  <2>1. CASE StillWanted
    <3>1. Goto(Bg, "dispatch") /\ UNCHANGED seen
      BY <1>11, <2>1 DEF BgLock, readerVars, seen
    <3> QED BY <1>b, <3>1, Labels
  <2>2. CASE ~StillWanted
    <3>1. /\ Goto(Bg, "loop") /\ raw' = [raw EXCEPT ![Bg] = <<>>]
          /\ UNCHANGED <<published, cache, last>>
      BY <1>11, <2>2 DEF BgLock, readerVars
    <3>2. Abs!LetGo(Bg)
      BY <3>1 DEF Abs!LetGo
    <3>3. InHand'
      BY <1>0, <3>1, GotoBg, Labels DEF InHand, Workers
    <3> QED BY <3>2, <3>3 DEF Abs!Next, Workers
  <2> QED BY <2>1, <2>2
<1>12. CASE UNCHANGED vars
  BY <1>c, <1>12 DEF vars, readerVars, workVars, seen
<1> QED
  BY <1>1, <1>2, <1>3, <1>4, <1>5, <1>6, <1>7, <1>8, <1>9, <1>10, <1>11, <1>12
     DEF Next, AppStep, BgStep, Dispatch, Workers

(* Whatever the threads, locks, waits and exceptions between taking a       *)
(* sample and showing it do, the reader keeps the promise of AbstractReader *)
(* (DdsReader.h:53-94).                                                     *)
THEOREM ReaderImplements == Spec => Implements
<1>1. TypeOK /\ SampleInHand /\ InHand /\ [Next]_vars => (TypeOK /\ SampleInHand /\ InHand)'
  BY NextType, NextImplements
<1> QED
  BY <1>1, InitType, InitImplements, NextImplements, PTL DEF Spec, Implements, Abs!Spec

(***************************************************************************)
(* Order.  Along AbstractReader, what a thread has shown is older than what *)
(* it holds, and that is older than what is still pending.                 *)
(***************************************************************************)
Ascending(s) == \A i, j \in 1 .. Len(s) : i < j => s[i].id < s[j].id
Before(n, s) == \A i \in 1 .. Len(s) : n < s[i].id
UpTo(s, n)   == \A i \in 1 .. Len(s) : s[i].id <= n

OrderInHand(w) ==
    /\ Ascending(raw[w])
    /\ UpTo(raw[w], published)
    /\ \A i \in 1 .. Len(raw[w]) : Before(raw[w][i].id, cache)
    /\ \A l \in Listeners : /\ last[w][l] <= published
                            /\ Before(last[w][l], cache)
                            /\ Before(last[w][l] - 1, raw[w])

InSequence ==
    /\ Ascending(cache)
    /\ UpTo(cache, published)
    /\ \A w \in Workers : OrderInHand(w)

LEMMA InitInSequence == Init => InSequence
BY ReaderAssumption DEF Init, NoListeners, InSequence, OrderInHand, Ascending, Before, UpTo,
                        Workers

(* Forgetting the oldest sample, or adding a newer one, keeps the order.    *)
LEMMA TailInOrder ==
    ASSUME NEW s \in Seq(Samples), s # <<>>, NEW n \in Int, NEW m \in Int
    PROVE  /\ Tail(s) \in Seq(Samples)
           /\ Len(Tail(s)) = Len(s) - 1
           /\ \A i \in 1 .. Len(s) - 1 : Tail(s)[i] = s[i + 1]
           /\ Ascending(s) => Ascending(Tail(s))
           /\ Before(n, s) => Before(n, Tail(s))
           /\ UpTo(s, m) => UpTo(Tail(s), m)
<1>1. /\ Tail(s) \in Seq(Samples)
      /\ Len(Tail(s)) = Len(s) - 1
      /\ \A i \in 1 .. Len(s) - 1 : Tail(s)[i] = s[i + 1]
  OBVIOUS
<1> QED BY <1>1 DEF Ascending, Before, UpTo

LEMMA AppendInOrder ==
    ASSUME NEW s \in Seq(Samples), NEW x \in Samples, NEW n \in Int, NEW m \in Int,
           UpTo(s, m), x.id = m + 1
    PROVE  /\ Ascending(s) => Ascending(Append(s, x))
           /\ Before(n, s) /\ n <= m => Before(n, Append(s, x))
           /\ UpTo(Append(s, x), m + 1)
<1>1. /\ Append(s, x) \in Seq(Samples)
      /\ Len(Append(s, x)) = Len(s) + 1
      /\ \A i \in 1 .. Len(s) : Append(s, x)[i] = s[i]
      /\ Append(s, x)[Len(s) + 1] = x
  OBVIOUS
<1>2. \A i \in 1 .. Len(s) : s[i].id \in Int
  <2>1. \A i \in 1 .. Len(s) : s[i] \in Samples
    OBVIOUS
  <2> QED BY <2>1, ReaderAssumption DEF Samples
<1>3. \A i \in 1 .. Len(s) : s[i].id < x.id
  BY <1>2 DEF UpTo
<1>4. Ascending(s) => Ascending(Append(s, x))
  BY <1>1, <1>3 DEF Ascending
<1>5. Before(n, s) /\ n <= m => Before(n, Append(s, x))
  BY <1>1 DEF Before
<1>6. UpTo(Append(s, x), m + 1)
  BY <1>1, <1>2 DEF UpTo
<1> QED BY <1>4, <1>5, <1>6

LEMMA PrefixInOrder ==
    ASSUME NEW s \in Seq(Samples), NEW k \in 0 .. Len(s), NEW n \in Int, NEW m \in Int
    PROVE  /\ Ascending(s) => Ascending(SubSeq(s, 1, k))
           /\ Before(n, s) => Before(n, SubSeq(s, 1, k))
           /\ UpTo(s, m) => UpTo(SubSeq(s, 1, k), m)
<1>1. Len(SubSeq(s, 1, k)) = k /\ \A i \in 1 .. k : SubSeq(s, 1, k)[i] = s[i]
  OBVIOUS
<1> QED BY <1>1 DEF Ascending, Before, UpTo

NeverBack == \A w \in Workers, l \in Listeners : last'[w][l] >= last[w][l]

(* Every step of AbstractReader keeps the order, and shows no listener an   *)
(* older sample.                                                            *)
LEMMA AbstractOrder ==
    TypeOK /\ TypeOK' /\ InSequence /\ [Abs!Next]_(Abs!vars) => InSequence' /\ NeverBack
<1> SUFFICES ASSUME TypeOK, TypeOK', InSequence, [Abs!Next]_(Abs!vars)
             PROVE  InSequence' /\ NeverBack
  OBVIOUS
<1>0. /\ cache \in Seq(Samples) /\ published \in Nat
      /\ raw \in [Workers -> Seq(Samples)]
      /\ last \in [Workers -> [Listeners -> Nat]]
      /\ \A x \in Samples : x.id \in Nat
  <2>1. /\ cache \in Seq(Samples) /\ published \in 0..MaxSamples
        /\ raw \in [Workers -> Seq(Samples)]
        /\ last \in [Workers -> [Listeners -> 0..MaxSamples]]
    BY DEF TypeOK
  <2>2. 0..MaxSamples \subseteq Nat
    BY ReaderAssumption
  <2>3. last \in [Workers -> [Listeners -> Nat]]
    BY <2>1, <2>2
  <2>4. \A x \in Samples : x.id \in Nat
    BY ReaderAssumption DEF Samples
  <2> QED BY <2>1, <2>2, <2>3, <2>4
<1>1. CASE UNCHANGED Abs!vars
  <2>1. UNCHANGED <<published, cache, raw, last>>
    BY <1>1 DEF Abs!vars
  <2>2. NeverBack
    BY <1>0, <2>1 DEF NeverBack
  <2>3. \A w \in Workers : OrderInHand(w)'
    BY <2>1 DEF InSequence, OrderInHand, Ascending, Before, UpTo
  <2> QED BY <2>1, <2>2, <2>3 DEF InSequence, Ascending, UpTo
<1>2. CASE Abs!Arrive
  <2> DEFINE kept == IF Len(cache) = Depth THEN Tail(cache) ELSE cache
  <2>1. PICK x \in Samples : x.id = published + 1 /\ cache' = Append(kept, x)
    BY <1>2 DEF Abs!Arrive
  <2>2. published' = published + 1 /\ raw' = raw /\ last' = last
    BY <1>2 DEF Abs!Arrive
  <2>3. /\ kept \in Seq(Samples) /\ Ascending(kept) /\ UpTo(kept, published)
        /\ \A n \in Int : Before(n, cache) => Before(n, kept)
    <3>1. CASE Len(cache) = Depth
      BY <1>0, <3>1, ReaderAssumption, TailInOrder DEF InSequence
    <3>2. CASE Len(cache) # Depth
      BY <1>0, <3>2 DEF InSequence
    <3> QED BY <3>1, <3>2
  <2> HIDE DEF kept
  <2>4. Ascending(cache') /\ UpTo(cache', published')
    BY <1>0, <2>1, <2>2, <2>3, AppendInOrder
  <2>5. ASSUME NEW n \in Int, Before(n, cache), n <= published
        PROVE  Before(n, cache')
    BY <1>0, <2>1, <2>3, <2>5, AppendInOrder
  <2>6. ASSUME NEW w \in Workers
        PROVE  OrderInHand(w)'
    <3>1. Ascending(raw'[w]) /\ UpTo(raw'[w], published')
      BY <1>0, <2>2 DEF InSequence, OrderInHand, UpTo
    <3>2. \A i \in 1 .. Len(raw'[w]) : Before(raw'[w][i].id, cache')
      BY <1>0, <2>2, <2>5 DEF InSequence, OrderInHand, UpTo
    <3>3. \A l \in Listeners : /\ last'[w][l] <= published'
                               /\ Before(last'[w][l], cache')
                               /\ Before(last'[w][l] - 1, raw'[w])
      BY <1>0, <2>2, <2>5 DEF InSequence, OrderInHand
    <3> QED BY <3>1, <3>2, <3>3 DEF OrderInHand, Ascending, Before, UpTo
  <2>7. InSequence'
    BY <2>4, <2>6 DEF InSequence, Ascending, UpTo
  <2>8. NeverBack
    BY <1>0, <2>2 DEF NeverBack
  <2> QED BY <2>7, <2>8
<1>3. ASSUME NEW v \in Workers, Abs!Take(v)
      PROVE  InSequence' /\ NeverBack
  <2>1. PICK n \in 0 .. Len(cache) : raw' = [raw EXCEPT ![v] = SubSeq(cache, 1, n)]
    BY <1>3 DEF Abs!Take
  <2>2. cache' = <<>> /\ published' = published /\ last' = last
    BY <1>3 DEF Abs!Take
  <2>3. \A m \in Int : Before(m, cache') /\ Ascending(cache') /\ UpTo(cache', m)
    BY <2>2 DEF Before, Ascending, UpTo
  <2>4. ASSUME NEW w \in Workers
        PROVE  OrderInHand(w)'
    <3>1. CASE w # v
      BY <1>0, <2>1, <2>2, <3>1
         DEF InSequence, OrderInHand, Ascending, Before, UpTo
    <3>2. CASE w = v
      <4>1. raw'[w] = SubSeq(cache, 1, n)
        BY <1>0, <2>1, <3>2
      <4>2. Ascending(raw'[w]) /\ UpTo(raw'[w], published')
        BY <1>0, <2>2, <4>1, PrefixInOrder DEF InSequence
      <4>3. \A l \in Listeners : Before(last'[w][l] - 1, cache)
        BY <1>0, <2>2 DEF InSequence, OrderInHand, Before
      <4>4. \A l \in Listeners : Before(last'[w][l] - 1, raw'[w])
        BY <1>0, <2>2, <4>1, <4>3, PrefixInOrder
      <4> QED BY <1>0, <2>2, <4>2, <4>4
              DEF InSequence, OrderInHand, Ascending, Before, UpTo
    <3> QED BY <3>1, <3>2
  <2>5. InSequence'
    BY <1>0, <2>2, <2>3, <2>4 DEF InSequence, Ascending, UpTo
  <2>6. NeverBack
    BY <1>0, <2>2 DEF NeverBack
  <2> QED BY <2>5, <2>6
<1>4. ASSUME NEW v \in Workers, NEW k \in Listeners, Abs!Show(v, k)
      PROVE  InSequence' /\ NeverBack
  <2>1. /\ raw[v] # <<>> /\ last' = [last EXCEPT ![v][k] = Head(raw[v]).id]
        /\ cache' = cache /\ published' = published /\ raw' = raw
    BY <1>4 DEF Abs!Show
  <2>2. Head(raw[v]) = raw[v][1] /\ 1 \in 1 .. Len(raw[v])
    BY <1>0, <2>1
  <2>3. last[v][k] <= raw[v][1].id
    <3>1. last[v][k] \in Nat /\ raw[v][1].id \in Nat
      BY <1>0, <2>2
    <3> QED BY <2>2, <3>1 DEF InSequence, OrderInHand, Before
  <2>4. NeverBack
    BY <1>0, <2>1, <2>2, <2>3 DEF NeverBack
  <2>5. Before(raw[v][1].id - 1, raw[v])
    BY <1>0, <2>2 DEF InSequence, OrderInHand, Ascending, Before
  <2>6. raw[v][1].id <= published /\ Before(raw[v][1].id, cache)
    BY <2>2 DEF InSequence, OrderInHand, UpTo
  <2>7. ASSUME NEW w \in Workers, NEW l \in Listeners
        PROVE  /\ last'[w][l] <= published
               /\ Before(last'[w][l], cache)
               /\ Before(last'[w][l] - 1, raw[w])
    BY <1>0, <2>1, <2>2, <2>5, <2>6 DEF InSequence, OrderInHand
  <2> QED BY <2>1, <2>4, <2>7 DEF InSequence, OrderInHand, Ascending, Before, UpTo
<1>5. ASSUME NEW v \in Workers, NEW rest \in Seq(Samples),
             raw' = [raw EXCEPT ![v] = rest], UNCHANGED <<cache, published, last>>,
             rest = <<>> \/ (raw[v] # <<>> /\ rest = Tail(raw[v]))
      PROVE  InSequence' /\ NeverBack
  <2>1. NeverBack
    BY <1>0, <1>5 DEF NeverBack
  <2>2. ASSUME NEW w \in Workers
        PROVE  OrderInHand(w)'
    <3>1. CASE w # v
      BY <1>0, <1>5, <3>1 DEF InSequence, OrderInHand, Ascending, Before, UpTo
    <3>2. CASE w = v /\ rest = <<>>
      BY <1>0, <1>5, <3>2 DEF InSequence, OrderInHand, Ascending, Before, UpTo
    <3>3. CASE w = v /\ raw[v] # <<>> /\ rest = Tail(raw[v])
      <4>1. raw'[w] = rest /\ OrderInHand(v)
        BY <1>0, <1>5, <3>3 DEF InSequence
      <4>2. Ascending(rest) /\ UpTo(rest, published)
        BY <1>0, <3>3, <4>1, TailInOrder DEF OrderInHand
      <4>3. \A i \in 1 .. Len(rest) : rest[i] = raw[v][i + 1] /\ i + 1 \in 1 .. Len(raw[v])
        BY <1>0, <3>3, TailInOrder
      <4>4. \A i \in 1 .. Len(rest) : Before(rest[i].id, cache)
        BY <4>1, <4>3 DEF OrderInHand
      <4>5. \A l \in Listeners : Before(last[v][l] - 1, rest)
        BY <4>1, <4>3 DEF OrderInHand, Before
      <4> QED BY <1>5, <3>3, <4>1, <4>2, <4>4, <4>5 DEF OrderInHand, Ascending, Before, UpTo
    <3> QED BY <1>5, <3>1, <3>2, <3>3
  <2> QED BY <1>5, <2>1, <2>2 DEF InSequence, Ascending, UpTo
<1>6. ASSUME NEW v \in Workers, Abs!Done(v)
      PROVE  InSequence' /\ NeverBack
  <2>1. Tail(raw[v]) \in Seq(Samples)
    BY <1>0, <1>6 DEF Abs!Done
  <2>2. raw' = [raw EXCEPT ![v] = Tail(raw[v])] /\ raw[v] # <<>>
    BY <1>6 DEF Abs!Done
  <2>3. UNCHANGED <<cache, published, last>>
    BY <1>6 DEF Abs!Done
  <2> QED BY <1>5, <2>1, <2>2, <2>3
<1>7. ASSUME NEW v \in Workers, Abs!LetGo(v)
      PROVE  InSequence' /\ NeverBack
  BY <1>5, <1>7, EmptyRaw DEF Abs!LetGo
<1> QED BY <1>1, <1>2, <1>3, <1>4, <1>6, <1>7 DEF Abs!Next

(* A thread never hands a listener an older sample after a newer one,       *)
(* whatever other threads take meanwhile: a consequence of the refinement   *)
(* (README.md:618, DdsReader.h:53-94).                                      *)
THEOREM DeliveredInOrder == Spec => InOrderPerThread
<1> DEFINE Inv == TypeOK /\ SampleInHand /\ InHand /\ InSequence
<1>1. Init => Inv
  BY InitType, InitImplements, InitInSequence
<1>2. Inv /\ [Next]_vars => Inv' /\ [NeverBack]_vars
  BY NextType, NextImplements, AbstractOrder
<1> QED BY <1>1, <1>2, PTL DEF Spec, InOrderPerThread, NeverBack
=============================================================================
