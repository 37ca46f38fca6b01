---------------------------- MODULE Demos_proofs ----------------------------
(***************************************************************************)
(* Proofs about Demos, for any number of services and clients: what a      *)
(* service obeys, what the success of a client means, and what is left of  *)
(* a process that ends; and, for one service and any number of clients,    *)
(* that readers that keep one sample lose nothing that matters.            *)
(*                                                                         *)
(* AmtiDemo and SmtiDemo are written with the same building blocks of      *)
(* Demo.  The proof first reduces every step of either program to one of   *)
(* the few kinds of step below, then shows what each kind preserves.       *)
(***************************************************************************)
EXTENDS Demos, SequenceTheorems, TLAPS

(***************************************************************************)
(* The invariant.  What is known and by whom:                              *)
(***************************************************************************)

Activity == Services \cup {NoActivity}
States == {"", "ACTIVE_UNCONSTRAINED", "COMPLETED"}

Begun == {c \in Clients : pc[c] # "off"}
Informed(c, x) == x \in told[c] /\ heard[c].count > 0
Completed(s) == Len(accepted[s]) = 2 /\ pc[s] \in {"cleanup", "ended"}

(* The commands and activities there may be on the bus.  A client's stop is *)
(* for an activity it was told of, a stranger's for any, and the services   *)
(* of those that are completed are done.                                    *)
Strange == {Start(Stranger), Unset, Empty} \cup {Stop(Stranger, x) : x \in Activity}
Commands ==
    {Start(c) : c \in Begun}
    \cup {Stop(i[1], i[2]) : i \in {j \in Begun \X Activity : Informed(j[1], j[2])}}
    \cup {m \in Strange : trouble > 0}
Activities ==
    {[activity |-> s, state |-> "ACTIVE_UNCONSTRAINED"] : s \in Services}
    \cup {[activity |-> s, state |-> "COMPLETED"] : s \in {x \in Services : Completed(x)}}

Carries(t, Bodies) ==
    \A a \in Apps : /\ cache[<<a, t>>] \in Seq(Bodies)
                    /\ \A p \in Publishers : net[<<a, t>>][p] \in Seq(Bodies)

(* Who a service may have obeyed, and who may have stopped it.              *)
Senders == Begun \cup {p \in {Stranger} : trouble > 0}
Entitled(y, x) == y \in Senders /\ (y # Stranger => Informed(y, x))

ServiceOK(s) ==
    /\ pc[s] \in {"off", "capability", "capabilityStatus", "waitStart"} => accepted[s] = <<>>
    /\ pc[s] \in {"startStatus", "startActivity", "waitStop"} => Len(accepted[s]) = 1
    /\ pc[s] \in {"stopStatus", "stopActivity"} => Len(accepted[s]) = 2
    /\ Len(accepted[s]) <= 2
    /\ Len(accepted[s]) > 0 => accepted[s][1].start /\ accepted[s][1].by \in Senders
    /\ Len(accepted[s]) > 1 => /\ ~accepted[s][2].start
                               /\ Entitled(accepted[s][2].by, s)
                               /\ command[s].activity = s
    /\ demo = "smti" =>
         (pc[s] \in {"off", "capability", "capabilityStatus", "waitStart", "waitStop"}
            => ~command[s].received)

ClientOK(c) ==
    /\ heard[c].state # "" => heard[c].activity \in Services
    /\ heard[c].state = "COMPLETED" => Completed(heard[c].activity)
    /\ pc[c] \in {"sendStop", "waitCompleted"} => Informed(c, heard[c].activity)
    /\ exit[c] = 0 => pc[c] \in {"cleanup", "ended"} /\ heard[c].state = "COMPLETED"

(* What is still to be taken down.                                          *)
Own(a) == IF a \in Services THEN Topics ELSE {"Command", "CommandStatus", "Activity"}
Live(a) == {t \in Topics : ends[<<a, t>>] \notin {"none", "gone"}}

Closed(T)  == <<"closed", T>>
Gone(T)    == <<"gone", T>>
Message    == <<"message", {}>>
Disconnect == <<"connection", {}>>
Plan(steps, live) ==
    \/ steps = <<Disconnect>> /\ live = {}
    \/ \E T \in SUBSET Topics :
         /\ live \subseteq T
         /\ steps \in {<<Gone(T), Disconnect>>, <<Closed(T), Gone(T), Disconnect>>}
    \/ \E T, U \in SUBSET Topics :
         /\ live \subseteq T \cup U
         /\ steps \in {<<Gone(T), Gone(U), Disconnect>>, <<Message, Gone(T), Gone(U), Disconnect>>}

ProcessOK(a) ==
    /\ pc[a] = "off" => asb[a] = "none" /\ \A t \in Topics : ends[<<a, t>>] = "none"
    /\ pc[a] \notin {"off", "cleanup", "ended"} => asb[a] = "up" /\ Live(a) \subseteq Own(a)
    /\ pc[a] = "cleanup" => asb[a] = "up" /\ Plan(todo[a], Live(a))
    /\ asb[a] = "gone" => Live(a) = {}
    /\ pc[a] = "ended" /\ (demo = "smti" \/ AllCreated(a)) =>
         asb[a] \in {"none", "gone"} /\ Live(a) = {}
    /\ holding[a] # "none" => exit[a] = 1 /\ pc[a] \in {"cleanup", "ended"}
    /\ demo = "smti" /\ holding[a] = "ours" =>
         pc[a] = "cleanup" /\ Head(todo[a])[1] = "message"
    /\ pc[a] \notin {"cleanup", "ended"} => exit[a] = -1

Labels == {"off", "capability", "capabilityStatus", "waitStart", "startStatus",
           "startActivity", "waitStop", "stopStatus", "stopActivity", "sendStart",
           "waitActive", "sendStop", "waitCompleted", "cleanup", "ended"}

Holders == {"none", "ours", "reader"}

ProcessesTyped ==
    /\ demo \in {"amti", "smti"}
    /\ asb \in [Apps -> {"none", "up", "gone"}]
    /\ ends \in [Endpoints -> {"none", "writer", "reader", "closed", "gone"}]
    /\ pc \in [Apps -> Labels]
    /\ exit \in [Apps -> {-1, 0, 1}]
    /\ todo = [a \in Apps |-> todo[a]]
    /\ holding \in [Apps -> Holders]
    /\ trouble \in Nat

ReceivedCommand == [received : BOOLEAN, start : BOOLEAN, by : Publishers, activity : Activity]

DataTyped ==
    /\ cache = [e \in Endpoints |-> cache[e]]
    /\ net = [e \in Endpoints |-> net[e]]
    /\ \A e \in Endpoints : net[e] = [p \in Publishers |-> net[e][p]]
    /\ command \in [Services -> ReceivedCommand]
    /\ heard \in [Clients -> [count : Nat, state : States, activity : Activity]]
    /\ told \in [Clients -> SUBSET Activity]
    /\ accepted \in [Services -> Seq([by : Publishers, start : BOOLEAN])]

BusOK == Carries("Command", Commands) /\ Carries("Activity", Activities)
FlowOK == /\ \A s \in Services : ServiceOK(s)
          /\ \A c \in Clients : ClientOK(c)
ExitOK == \A a \in Apps : ProcessOK(a)

IInv == ProcessesTyped /\ DataTyped /\ BusOK /\ FlowOK /\ ExitOK

(***************************************************************************)
(* The kinds of step of a process.                                         *)
(***************************************************************************)

BeginStep(a) ==
    /\ pc[a] = "off"
    /\ \/ MakeAll(a, Amti!Ends(a), Amti!Writes(a),
                  IF a \in Services THEN "capability" ELSE "sendStart")
       \/ \E k \in 0 .. Len(Amti!Ends(a)) - 1 : \E steps :
            LET made == SubSeq(Amti!Ends(a), 1, k) IN
            /\ MakeSome(a, made, Amti!Writes(a), steps)
            /\ IF demo = "amti" THEN steps = <<>> ELSE Plan(steps, ToSet(made))
       \/ MakeNothing(a)
    /\ UNCHANGED <<cache, net, overrun, demo, holding, dataVars>>

(* Publications that nobody acts upon, by a service.                        *)
TellStep(s) ==
    \E topic \in {"Capability", "CapabilityStatus", "CommandStatus"} : \E body :
    \E next \in CASE pc[s] = "capability"       -> {"capabilityStatus"}
                  [] pc[s] = "capabilityStatus" -> {"waitStart"}
                  [] pc[s] = "startStatus"      -> {"startActivity"}
                  [] pc[s] = "stopStatus"       -> {"stopActivity"}
                  [] OTHER                      -> {} :
        /\ topic = "CommandStatus" <=> pc[s] \in {"startStatus", "stopStatus"}
        /\ PublishThen(s, topic, body, next)

AskStep(c) ==
    \/ pc[c] = "sendStart" /\ PublishThen(c, "Command", Start(c), "waitActive")
    \/ pc[c] = "sendStop" /\ PublishThen(c, "Command", Stop(c, heard[c].activity), "waitCompleted")

ActivateStep(s) ==
    /\ pc[s] = "startActivity"
    /\ Publish(s, "Activity", [activity |-> s, state |-> "ACTIVE_UNCONSTRAINED"])
    /\ Goto(s, "waitStop")
    /\ command' = IF demo = "smti" THEN [command EXCEPT ![s] = NoCommand] ELSE command
    /\ UNCHANGED <<exit, todo, heard, told, accepted>>

CompleteStep(s) ==
    /\ pc[s] = "stopActivity"
    /\ Publish(s, "Activity", [activity |-> s, state |-> "COMPLETED"])
    /\ \E steps : Plan(steps, Own(s)) /\ Leave(s, 0, steps)
    /\ UNCHANGED dataVars

Kept(s) == LET m == First(<<s, "Command">>) IN
           IF demo = "amti" THEN Amti!CommandListener(NoCommand, m)
                            ELSE Smti!commandListener(command[s], m)

TakeStep(s) ==
    \E steps :
        /\ Plan(steps, Own(s))
        /\ \/ /\ pc[s] = "waitStart"
              /\ TakeCommand(s, Kept(s), Kept(s).start, "startStatus", steps)
           \/ /\ pc[s] = "waitStop"
              /\ TakeCommand(s, Kept(s), ~Kept(s).start /\ Kept(s).activity = s, "stopStatus", steps)

Counted(h)   == [h EXCEPT !.count = @ + 1]
Noted(h, m)  == [h EXCEPT !.activity = m.activity, !.state = m.state]

UpdateStep(c) ==
    /\ pc[c] \in {"waitActive", "waitCompleted"}
    /\ \E steps :
         /\ Plan(steps, Own(c))
         /\ \/ Update(c, "CommandStatus", Counted(heard[c]), steps)
            \/ Update(c, "Activity", Noted(heard[c], First(<<c, "Activity">>)), steps)

ThrowStep(a) ==
    /\ pc[a] \notin {"off", "cleanup", "ended"}
    /\ \E lost \in Holders : \E steps :
         /\ Plan(steps, Own(a))
         /\ demo = "smti" /\ lost = "ours" => Head(steps)[1] = "message"
         /\ Fails(a, lost, steps)
         /\ \/ cache' = cache
            \/ \E topic \in Topics : TakeAll(<<a, topic>>)

TimeoutStep(a) == \E steps : Plan(steps, Own(a)) /\ TimesOut(a, steps)

ServiceStep(s) == TellStep(s) \/ ActivateStep(s) \/ CompleteStep(s) \/ TakeStep(s)
ClientStep(c)  == AskStep(c) \/ UpdateStep(c)

ProcessStep(a) ==
    \/ BeginStep(a)
    \/ a \in Services /\ ServiceStep(a)
    \/ a \in Clients /\ ClientStep(a)
    \/ ThrowStep(a)
    \/ TimeoutStep(a)
    \/ CleanUp(a)

(***************************************************************************)
(* Plans.                                                                  *)
(***************************************************************************)

LEMMA PlanMonotone ==
    ASSUME NEW steps, NEW live, NEW fewer, fewer \subseteq live, Plan(steps, live)
    PROVE  Plan(steps, fewer)
<1>1. CASE steps = <<Disconnect>> /\ live = {}
  BY <1>1 DEF Plan
<1>2. CASE \E T \in SUBSET Topics :
             /\ live \subseteq T
             /\ steps \in {<<Gone(T), Disconnect>>, <<Closed(T), Gone(T), Disconnect>>}
  <2>1. PICK T \in SUBSET Topics :
             /\ live \subseteq T
             /\ steps \in {<<Gone(T), Disconnect>>, <<Closed(T), Gone(T), Disconnect>>}
    BY <1>2
  <2>2. fewer \subseteq T
    BY <2>1
  <2> QED BY <2>1, <2>2 DEF Plan
<1>3. CASE \E T, U \in SUBSET Topics :
             /\ live \subseteq T \cup U
             /\ steps \in {<<Gone(T), Gone(U), Disconnect>>,
                           <<Message, Gone(T), Gone(U), Disconnect>>}
  <2>1. PICK T \in SUBSET Topics, U \in SUBSET Topics :
             /\ live \subseteq T \cup U
             /\ steps \in {<<Gone(T), Gone(U), Disconnect>>,
                           <<Message, Gone(T), Gone(U), Disconnect>>}
    BY <1>3
  <2>2. fewer \subseteq T \cup U
    BY <2>1
  <2> QED BY <2>1, <2>2 DEF Plan
<1> QED BY <1>1, <1>2, <1>3 DEF Plan

LEMMA PlanNotEmpty ==
    ASSUME NEW steps, NEW live, Plan(steps, live)
    PROVE  steps # <<>>
BY DEF Plan

LEMMA AmtiPlan ==
    ASSUME NEW a \in Apps
    PROVE  Plan(Amti!CleanUpOf(a), Own(a))
<1>1. ToSet(Amti!ServiceEnds) \subseteq Topics /\ Topics \subseteq ToSet(Amti!ServiceEnds)
  <2>1. \A t \in Topics : \E i \in 1..5 : t = Amti!ServiceEnds[i]
    BY DemoAssumption DEF Amti!ServiceEnds
  <2>2. \A i \in 1..5 : Amti!ServiceEnds[i] \in Topics
    BY DemoAssumption DEF Amti!ServiceEnds
  <2>3. DOMAIN Amti!ServiceEnds = 1..5
    BY DEF Amti!ServiceEnds
  <2> QED BY <2>1, <2>2, <2>3 DEF ToSet
<1>2. ToSet(Amti!ClientEnds) = {"Command", "CommandStatus", "Activity"}
  <2>1. DOMAIN Amti!ClientEnds = 1..3
    BY DEF Amti!ClientEnds
  <2>2. /\ Amti!ClientEnds[1] = "Command" /\ Amti!ClientEnds[2] = "CommandStatus"
        /\ Amti!ClientEnds[3] = "Activity"
    BY DEF Amti!ClientEnds
  <2>3. 1..3 = {1, 2, 3}
    OBVIOUS
  <2> QED BY <2>1, <2>2, <2>3 DEF ToSet
<1>3. ToSet(Amti!ClientEnds) \subseteq Topics
  BY <1>2, DemoAssumption
<1> DEFINE T == IF a \in Services THEN ToSet(Amti!ServiceEnds) ELSE ToSet(Amti!ClientEnds)
<1>4. T \in SUBSET Topics /\ Own(a) \subseteq T
  BY <1>1, <1>2, <1>3 DEF Own
<1>5. Amti!CleanUpOf(a) = <<Closed(T), Gone(T), Disconnect>>
  BY DEF Amti!CleanUpOf, Amti!ServiceCleanUp, Amti!ClientCleanUp, Amti!TakenDown,
         Closed, Gone, Disconnect, Amti!ToSet, ToSet
<1> HIDE DEF T
<1> QED BY <1>4, <1>5 DEF Plan

LEMMA ConcatTwo ==
    ASSUME NEW g, NEW h
    PROVE  <<g>> \o <<h>> = <<g, h>>
<1> DEFINE S == {g, h}
<1>1. <<g>> \in Seq(S) /\ <<h>> \in Seq(S) /\ <<g, h>> \in Seq(S)
  OBVIOUS
<1>2. Len(<<g>>) = 1 /\ Len(<<h>>) = 1 /\ Len(<<g,h>>) = 2
  OBVIOUS
<1>3. <<g>>[1] = g /\ <<h>>[1] = h /\ <<g, h>>[1] = g /\ <<g,h>>[2] = h
  OBVIOUS
<1> DEFINE s == <<g>>
           t == <<h>>
           u == <<g, h>>
<1> HIDE DEF S, s, t, u
<1>4. /\ s \o t \in Seq(S) /\ Len(s \o t) = 2
      /\ (s \o t)[1] = s[1] /\ (s \o t)[2] = t[1]
  <2>1. s \in Seq(S) /\ t \in Seq(S) /\ Len(s) = 1 /\ Len(t) = 1
    BY <1>1, <1>2 DEF s, t
  <2> QED BY <2>1, ConcatProperties
<1>5. \A i \in 1..2 : (s \o t)[i] = u[i]
  BY <1>3, <1>4 DEF s, t, u
<1>6. s \o t = u
  BY <1>1, <1>2, <1>4, <1>5, SeqEqual DEF u
<1> QED BY <1>6 DEF s, t, u

LEMMA ConcatThree ==
    ASSUME NEW g, NEW h, NEW d
    PROVE  <<g>> \o <<h>> \o <<d>> = <<g, h, d>>
<1> DEFINE S == {g, h, d}
           s == <<g, h>>
           t == <<d>>
           u == <<g, h, d>>
<1>1. s \in Seq(S) /\ t \in Seq(S) /\ u \in Seq(S)
  OBVIOUS
<1>2. Len(s) = 2 /\ Len(t) = 1 /\ Len(u) = 3
  OBVIOUS
<1>3. s[1] = g /\ s[2] = h /\ t[1] = d /\ u[1] = g /\ u[2] = h /\ u[3] = d
  OBVIOUS
<1> HIDE DEF S, s, t, u
<1>4. /\ s \o t \in Seq(S) /\ Len(s \o t) = 3
      /\ \A i \in 1..3 : (s \o t)[i] = IF i <= 2 THEN s[i] ELSE t[i - 2]
  <2>1. Len(s) + Len(t) = 3
    BY <1>2
  <2>2. /\ s \o t \in Seq(S) /\ Len(s \o t) = Len(s) + Len(t)
        /\ \A i \in 1..Len(s) + Len(t) :
             (s \o t)[i] = IF i <= Len(s) THEN s[i] ELSE t[i - Len(s)]
    BY <1>1, ConcatProperties
  <2> QED BY <1>2, <2>1, <2>2
<1>5. \A i \in 1..3 : (s \o t)[i] = u[i]
  BY <1>3, <1>4
<1>6. s \o t = u
  BY <1>1, <1>2, <1>4, <1>5, SeqEqual
<1> QED BY <1>6, ConcatTwo DEF s, t, u

LEMMA ConcatFour ==
    ASSUME NEW g, NEW h, NEW d, NEW m
    PROVE  <<m>> \o <<g, h, d>> = <<m, g, h, d>>
<1> DEFINE S == {g, h, d, m}
           s == <<m>>
           t == <<g, h, d>>
           u == <<m, g, h, d>>
<1>1. s \in Seq(S) /\ t \in Seq(S) /\ u \in Seq(S)
  OBVIOUS
<1>2. Len(s) = 1 /\ Len(t) = 3 /\ Len(u) = 4
  OBVIOUS
<1>3. /\ s[1] = m /\ t[1] = g /\ t[2] = h /\ t[3] = d
      /\ u[1] = m /\ u[2] = g /\ u[3] = h /\ u[4] = d
  OBVIOUS
<1> HIDE DEF S, s, t, u
<1>4. /\ s \o t \in Seq(S) /\ Len(s \o t) = 4
      /\ \A i \in 1..4 : (s \o t)[i] = IF i <= 1 THEN s[i] ELSE t[i - 1]
  <2>1. Len(s) + Len(t) = 4
    BY <1>2
  <2>2. /\ s \o t \in Seq(S) /\ Len(s \o t) = Len(s) + Len(t)
        /\ \A i \in 1..Len(s) + Len(t) :
             (s \o t)[i] = IF i <= Len(s) THEN s[i] ELSE t[i - Len(s)]
    BY <1>1, ConcatProperties
  <2> QED BY <1>2, <2>1, <2>2
<1>5. \A i \in 1..4 : (s \o t)[i] = u[i]
  BY <1>3, <1>4
<1>6. s \o t = u
  BY <1>1, <1>2, <1>4, <1>5, SeqEqual
<1> QED BY <1>6 DEF s, t, u

(* The pointers made are taken down, whichever they are.                    *)
LEMMA ScopePlan ==
    ASSUME NEW a \in Apps, NEW made \in SUBSET Topics
    PROVE  /\ Plan(Smti!ScopeExit(a, made), made)
           /\ Plan(Smti!ResetMessagePtr \o Smti!ScopeExit(a, made), made)
           /\ Head(Smti!ResetMessagePtr \o Smti!ScopeExit(a, made))[1] = "message"
<1> DEFINE T == made \ Smti!Writes(a)
           U == made \cap Smti!Writes(a)
<1>1. T \in SUBSET Topics /\ U \in SUBSET Topics /\ made \subseteq T \cup U
  OBVIOUS
<1>2. Smti!ScopeExit(a, made) = <<Gone(T)>> \o <<Gone(U)>> \o <<Disconnect>>
  BY DEF Smti!ScopeExit, Smti!ResetReaderPtr, Smti!ResetWriterPtr, Smti!ResetConnectionPtr,
         Gone, Disconnect
<1>3. Smti!ResetMessagePtr = <<Message>>
  BY DEF Smti!ResetMessagePtr, Message
<1> HIDE DEF T, U
<1> DEFINE g == Gone(T)
           h == Gone(U)
           d == Disconnect
           m == Message
<1>4. Smti!ScopeExit(a, made) = <<g>> \o <<h>> \o <<d>> /\ Smti!ResetMessagePtr = <<m>>
  BY <1>2, <1>3
<1> HIDE DEF g, h, d, m
<1>5. /\ <<g>> \o <<h>> \o <<d>> = <<g, h, d>>
      /\ <<m>> \o <<g, h, d>> = <<m, g, h, d>>
      /\ Head(<<m, g, h, d>>) = m
  <2>1. Head(<<m, g, h, d>>) = m
    OBVIOUS
  <2> QED BY <2>1, ConcatThree, ConcatFour
<1>6. /\ Smti!ScopeExit(a, made) = <<Gone(T), Gone(U), Disconnect>>
      /\ Smti!ResetMessagePtr \o Smti!ScopeExit(a, made)
           = <<Message, Gone(T), Gone(U), Disconnect>>
      /\ Head(<<Message, Gone(T), Gone(U), Disconnect>>) = Message
  BY <1>4, <1>5 DEF g, h, d, m
<1>7. Message[1] = "message"
  BY DEF Message
<1> QED BY <1>1, <1>6, <1>7 DEF Plan

LEMMA SameEnds ==
    ASSUME NEW a \in Apps
    PROVE  /\ Smti!Ptrs(a) = Amti!Ends(a)
           /\ Smti!Writes(a) = Amti!Writes(a)
           /\ Smti!ToSet(Smti!Ptrs(a)) = Own(a)
           /\ ToSet(Amti!Ends(a)) = Own(a)
           /\ Own(a) \subseteq Topics
<1>1. Smti!Ptrs(a) = Amti!Ends(a) /\ Smti!Writes(a) = Amti!Writes(a)
  BY DEF Smti!Ptrs, Amti!Ends, Smti!ServicePtrs, Smti!ClientPtrs, Amti!ServiceEnds,
         Amti!ClientEnds, Smti!Writes, Amti!Writes, Smti!ServiceWrites, Smti!ClientWrites,
         Amti!ServiceWrites, Amti!ClientWrites
<1>2. CASE a \in Services
  <2> DEFINE s == Amti!ServiceEnds
  <2>1. DOMAIN s = 1..5
    BY DEF Amti!ServiceEnds
  <2>2. /\ s[1] = "Capability" /\ s[2] = "CapabilityStatus" /\ s[3] = "CommandStatus"
        /\ s[4] = "Activity" /\ s[5] = "Command"
    BY DEF Amti!ServiceEnds
  <2>3. 1..5 = {1, 2, 3, 4, 5}
    OBVIOUS
  <2>4. ToSet(s) = {s[1], s[2], s[3], s[4], s[5]}
    BY <2>1, <2>3 DEF ToSet
  <2> HIDE DEF s
  <2>5. ToSet(s) = Topics
    BY <2>2, <2>4, DemoAssumption
  <2> QED BY <1>1, <1>2, <2>5 DEF Own, Amti!Ends, s, Smti!ToSet, ToSet
<1>3. CASE a \notin Services
  <2> DEFINE s == Amti!ClientEnds
  <2>1. DOMAIN s = 1..3
    BY DEF Amti!ClientEnds
  <2>2. s[1] = "Command" /\ s[2] = "CommandStatus" /\ s[3] = "Activity"
    BY DEF Amti!ClientEnds
  <2>3. 1..3 = {1, 2, 3}
    OBVIOUS
  <2>4. ToSet(s) = {s[1], s[2], s[3]}
    BY <2>1, <2>3 DEF ToSet
  <2> HIDE DEF s
  <2>5. ToSet(s) = {"Command", "CommandStatus", "Activity"}
    BY <2>2, <2>4
  <2>6. {"Command", "CommandStatus", "Activity"} \subseteq Topics
    BY DemoAssumption
  <2> QED BY <1>1, <1>3, <2>5, <2>6 DEF Own, Amti!Ends, s, Smti!ToSet, ToSet
<1> QED BY <1>2, <1>3

(* What has been made before a creation throws is short of the last.        *)
LEMMA MadeIsOwn ==
    ASSUME NEW a \in Apps, NEW k \in 0 .. Len(Amti!Ends(a)) - 1
    PROVE  /\ ToSet(SubSeq(Amti!Ends(a), 1, k)) \subseteq Own(a)
           /\ \E i \in DOMAIN Amti!Ends(a) :
                Amti!Ends(a)[i] \in Topics \ ToSet(SubSeq(Amti!Ends(a), 1, k))
<1> DEFINE s == Amti!Ends(a)
           n == Len(s)
<1>1. /\ s \in Seq(Own(a)) /\ n \in Nat \ {0} /\ s[n] \in Topics
      /\ \A i \in 1..n - 1 : s[i] # s[n]
  <2>1. CASE a \in Services
    <3>1. s = <<"Capability", "CapabilityStatus", "CommandStatus", "Activity", "Command">>
      BY <2>1 DEF Amti!Ends, Amti!ServiceEnds
    <3>2. n = 5 /\ s[5] = "Command" /\ \A i \in 1..4 : s[i] # "Command"
      BY <3>1
    <3>3. s \in Seq(Topics) /\ Own(a) = Topics
      BY <2>1, <3>1, DemoAssumption DEF Own
    <3> HIDE DEF s
    <3> QED BY <3>2, <3>3, DemoAssumption
  <2>2. CASE a \notin Services
    <3>1. s = <<"Command", "CommandStatus", "Activity">>
      BY <2>2 DEF Amti!Ends, Amti!ClientEnds
    <3>2. n = 3 /\ s[3] = "Activity" /\ \A i \in 1..2 : s[i] # "Activity"
      BY <3>1
    <3>3. s \in Seq(Own(a))
      BY <2>2, <3>1 DEF Own
    <3> HIDE DEF s
    <3> QED BY <3>2, <3>3, DemoAssumption
  <2> QED BY <2>1, <2>2
<1> HIDE DEF s
<1> DEFINE made == SubSeq(s, 1, k)
<1>2. /\ made \in Seq(Own(a)) /\ Len(made) = k
      /\ \A i \in 1..k : made[i] = s[i]
  BY <1>1, SubSeqProperties DEF s
<1>3. DOMAIN made = 1..k /\ k < n /\ DOMAIN s = 1..n
  BY <1>1, <1>2, LenProperties DEF s
<1>4. ToSet(made) = {s[i] : i \in 1..k}
  BY <1>2, <1>3 DEF ToSet
<1>5. ToSet(made) \subseteq Own(a)
  BY <1>2, <1>3, ElementOfSeq DEF ToSet
<1>6. s[n] \notin ToSet(made)
  BY <1>1, <1>3, <1>4
<1> QED BY <1>1, <1>3, <1>5, <1>6 DEF s

(***************************************************************************)
(* The building blocks of Demo are those that AmtiDemo and SmtiDemo use.   *)
(***************************************************************************)

LEMMA AmtiBlocks ==
    ASSUME NEW a, NEW topic, NEW body, NEW next, NEW code, NEW steps, NEW lost, NEW kept,
           NEW wanted, NEW made, NEW writes
    PROVE  /\ Amti!MakeAll(a, made, writes, next) <=> MakeAll(a, made, writes, next)
           /\ Amti!MakeSome(a, made, writes, steps) <=> MakeSome(a, made, writes, steps)
           /\ Amti!MakeNothing(a) <=> MakeNothing(a)
           /\ Amti!Throws(a, lost, steps) <=> Throws(a, lost, steps)
           /\ Amti!ReadFails(a, steps) <=> ReadFails(a, steps)
           /\ Amti!TimesOut(a, steps) <=> TimesOut(a, steps)
           /\ Amti!Publish(a, topic, body) <=> Publish(a, topic, body)
           /\ Amti!PublishThen(a, topic, body, next) <=> PublishThen(a, topic, body, next)
           /\ Amti!TakeCommand(a, kept, wanted, next, steps)
                <=> TakeCommand(a, kept, wanted, next, steps)
           /\ Amti!Update(a, topic, kept, steps) <=> Update(a, topic, kept, steps)
           /\ Amti!Leave(a, code, steps) <=> Leave(a, code, steps)
           /\ Amti!Goto(a, next) <=> Goto(a, next)
           /\ Amti!CleanUp(a) <=> CleanUp(a)
<1>1. Amti!MakeAll(a, made, writes, next) <=> MakeAll(a, made, writes, next)
  BY DEF Amti!MakeAll, MakeAll, Amti!Connect, Connect, Amti!CreateEnds, CreateEnds,
         Amti!ToSet, ToSet, Amti!Goto, Goto, Amti!busVars, busVars, Amti!flowVars,
         flowVars, Amti!dataVars, dataVars, Amti!Endpoints, Endpoints, Amti!Publishers,
         Publishers
<1>2. Amti!MakeSome(a, made, writes, steps) <=> MakeSome(a, made, writes, steps)
  BY DEF Amti!MakeSome, MakeSome, Amti!Trouble, Trouble, Amti!Room, Room, Amti!Cardinality, Cardinality, Amti!Connect,
         Connect, Amti!CreateEnds, CreateEnds, Amti!ToSet, ToSet, Amti!Leave, Leave,
         Amti!Goto, Goto, Amti!busVars, busVars, Amti!flowVars, flowVars,
         Amti!dataVars, dataVars, Amti!Endpoints, Endpoints, Amti!Publishers,
         Publishers
<1>3. Amti!MakeNothing(a) <=> MakeNothing(a)
  BY DEF Amti!MakeNothing, MakeNothing, Amti!Trouble, Trouble, Amti!Room, Room, Amti!Cardinality, Cardinality,
         Amti!Leave, Leave, Amti!Goto, Goto, Amti!busVars, busVars, Amti!flowVars,
         flowVars, Amti!dataVars, dataVars, Amti!Endpoints, Endpoints, Amti!Publishers,
         Publishers
<1>4. Amti!Throws(a, lost, steps) <=> Throws(a, lost, steps)
  BY DEF Amti!Throws, Throws, Amti!Fails, Fails, Amti!Trouble, Trouble, Amti!Room, Room, Amti!Cardinality, Cardinality, Amti!Leave,
         Leave, Amti!Goto, Goto, Amti!busVars, busVars, Amti!flowVars, flowVars,
         Amti!dataVars, dataVars, Amti!Endpoints, Endpoints, Amti!Publishers,
         Publishers
<1>5. Amti!TimesOut(a, steps) <=> TimesOut(a, steps)
  BY DEF Amti!TimesOut, TimesOut, Amti!PastDeadline, PastDeadline, Amti!Waiting,
         Waiting, Amti!Leave, Leave, Amti!Goto, Goto, Amti!busVars, busVars,
         Amti!flowVars, flowVars, Amti!dataVars, dataVars, Amti!Endpoints, Endpoints,
         Amti!Publishers, Publishers
<1>6. Amti!Publish(a, topic, body) <=> Publish(a, topic, body)
  BY DEF Amti!Publish, Publish, Amti!Write, Write, Amti!Send, Send, Amti!Readers,
         Readers, Amti!Matches, Matches, Amti!toWriterQos, toWriterQos,
         Amti!toReaderQos, toReaderQos, Amti!Reliability, Reliability,
         Amti!HistoryDepth, HistoryDepth, Amti!CalQos, CalQos, Amti!busVars, busVars,
         Amti!flowVars, flowVars, Amti!dataVars, dataVars, Amti!Endpoints, Endpoints,
         Amti!Publishers, Publishers
<1>7. Amti!PublishThen(a, topic, body, next) <=> PublishThen(a, topic, body, next)
  BY DEF Amti!PublishThen, PublishThen, Amti!Publish, Publish, Amti!Goto, Goto,
         Amti!Write, Write, Amti!Send, Send, Amti!Readers, Readers, Amti!Matches,
         Matches, Amti!toWriterQos, toWriterQos, Amti!toReaderQos, toReaderQos,
         Amti!Reliability, Reliability, Amti!HistoryDepth, HistoryDepth, Amti!CalQos,
         CalQos, Amti!busVars, busVars, Amti!flowVars, flowVars, Amti!dataVars,
         dataVars, Amti!Endpoints, Endpoints, Amti!Publishers, Publishers
<1>8. Amti!TakeCommand(a, kept, wanted, next, steps) <=> TakeCommand(a, kept, wanted, next, steps)
  BY DEF Amti!TakeCommand, TakeCommand, Amti!Has, Has, Amti!TakeAll, TakeAll,
         Amti!Goto, Goto, Amti!Leave, Leave, Amti!busVars, busVars, Amti!flowVars,
         flowVars, Amti!dataVars, dataVars, Amti!Endpoints, Endpoints, Amti!Publishers,
         Publishers
<1>9. Amti!Update(a, topic, kept, steps) <=> Update(a, topic, kept, steps)
  BY DEF Amti!Update, Update, Amti!Has, Has, Amti!TakeAll, TakeAll, Amti!HasBoth,
         HasBoth, Amti!Target, Target, Amti!Goto, Goto, Amti!Leave, Leave,
         Amti!busVars, busVars, Amti!flowVars, flowVars, Amti!dataVars, dataVars,
         Amti!Endpoints, Endpoints, Amti!Publishers, Publishers
<1>10. Amti!Leave(a, code, steps) <=> Leave(a, code, steps)
  BY DEF Amti!Leave, Leave, Amti!Goto, Goto, Amti!busVars, busVars, Amti!flowVars,
         flowVars, Amti!dataVars, dataVars, Amti!Endpoints, Endpoints, Amti!Publishers,
         Publishers
<1>11. Amti!Goto(a, next) <=> Goto(a, next)
  BY DEF Amti!Goto, Goto, Amti!busVars, busVars, Amti!flowVars, flowVars,
         Amti!dataVars, dataVars, Amti!Endpoints, Endpoints, Amti!Publishers,
         Publishers
<1>0. Amti!Fails(a, "reader", steps) <=> Fails(a, "reader", steps)
  BY DEF Amti!Fails, Fails, Amti!Trouble, Trouble, Amti!Room, Room, Amti!Cardinality,
         Cardinality, Amti!Leave, Leave, Amti!Goto, Goto, Amti!dataVars, dataVars
<1>13. Amti!ReadFails(a, steps) <=> ReadFails(a, steps)
  <2>1. Amti!Polled(a) = Polled(a) /\ Amti!Waiting = Waiting
    BY DEF Amti!Polled, Polled, Amti!StatusWanted, StatusWanted, Amti!ActivityWanted,
           ActivityWanted, Amti!Target, Target, Amti!Waiting, Waiting
  <2>2. ASSUME NEW t
        PROVE  Amti!DispatchThrows(a, t, steps) <=> DispatchThrows(a, t, steps)
    BY <1>0 DEF Amti!DispatchThrows, DispatchThrows, Amti!Has, Has, Amti!TakeAll, TakeAll
  <2>3. Amti!Throws(a, "none", steps) <=> Throws(a, "none", steps)
    BY DEF Amti!Throws, Throws, Amti!Fails, Fails, Amti!Trouble, Trouble, Amti!Room, Room,
           Amti!Cardinality, Cardinality, Amti!Leave, Leave, Amti!Goto, Goto, Amti!dataVars, dataVars
  <2> QED BY <2>1, <2>2, <2>3 DEF Amti!ReadFails, ReadFails
<1>12. Amti!CleanUp(a) <=> CleanUp(a)
  BY DEF Amti!CleanUp, CleanUp, Amti!EndEnds, EndEnds, Amti!Quiet, Quiet, Amti!Release,
         Release, Amti!Goto, Goto, Amti!busVars, busVars, Amti!flowVars, flowVars,
         Amti!dataVars, dataVars, Amti!Endpoints, Endpoints, Amti!Publishers,
         Publishers
<1> QED BY <1>1, <1>2, <1>3, <1>4, <1>5, <1>6, <1>7, <1>8, <1>9, <1>10, <1>11, <1>12, <1>13

LEMMA SmtiBlocks ==
    ASSUME NEW a, NEW topic, NEW body, NEW next, NEW code, NEW steps, NEW lost, NEW kept,
           NEW wanted, NEW made, NEW writes
    PROVE  /\ Smti!MakeAll(a, made, writes, next) <=> MakeAll(a, made, writes, next)
           /\ Smti!MakeSome(a, made, writes, steps) <=> MakeSome(a, made, writes, steps)
           /\ Smti!MakeNothing(a) <=> MakeNothing(a)
           /\ Smti!Throws(a, lost, steps) <=> Throws(a, lost, steps)
           /\ Smti!ReadFails(a, steps) <=> ReadFails(a, steps)
           /\ Smti!TimesOut(a, steps) <=> TimesOut(a, steps)
           /\ Smti!Publish(a, topic, body) <=> Publish(a, topic, body)
           /\ Smti!PublishThen(a, topic, body, next) <=> PublishThen(a, topic, body, next)
           /\ Smti!TakeCommand(a, kept, wanted, next, steps)
                <=> TakeCommand(a, kept, wanted, next, steps)
           /\ Smti!Update(a, topic, kept, steps) <=> Update(a, topic, kept, steps)
           /\ Smti!Leave(a, code, steps) <=> Leave(a, code, steps)
           /\ Smti!Goto(a, next) <=> Goto(a, next)
           /\ Smti!CleanUp(a) <=> CleanUp(a)
<1>1. Smti!MakeAll(a, made, writes, next) <=> MakeAll(a, made, writes, next)
  BY DEF Smti!MakeAll, MakeAll, Smti!Connect, Connect, Smti!CreateEnds, CreateEnds,
         Smti!ToSet, ToSet, Smti!Goto, Goto, Smti!busVars, busVars, Smti!flowVars,
         flowVars, Smti!dataVars, dataVars, Smti!Endpoints, Endpoints, Smti!Publishers,
         Publishers
<1>2. Smti!MakeSome(a, made, writes, steps) <=> MakeSome(a, made, writes, steps)
  BY DEF Smti!MakeSome, MakeSome, Smti!Trouble, Trouble, Smti!Room, Room, Smti!Cardinality, Cardinality, Smti!Connect,
         Connect, Smti!CreateEnds, CreateEnds, Smti!ToSet, ToSet, Smti!Leave, Leave,
         Smti!Goto, Goto, Smti!busVars, busVars, Smti!flowVars, flowVars,
         Smti!dataVars, dataVars, Smti!Endpoints, Endpoints, Smti!Publishers,
         Publishers
<1>3. Smti!MakeNothing(a) <=> MakeNothing(a)
  BY DEF Smti!MakeNothing, MakeNothing, Smti!Trouble, Trouble, Smti!Room, Room, Smti!Cardinality, Cardinality,
         Smti!Leave, Leave, Smti!Goto, Goto, Smti!busVars, busVars, Smti!flowVars,
         flowVars, Smti!dataVars, dataVars, Smti!Endpoints, Endpoints, Smti!Publishers,
         Publishers
<1>4. Smti!Throws(a, lost, steps) <=> Throws(a, lost, steps)
  BY DEF Smti!Throws, Throws, Smti!Fails, Fails, Smti!Trouble, Trouble, Smti!Room, Room, Smti!Cardinality, Cardinality, Smti!Leave,
         Leave, Smti!Goto, Goto, Smti!busVars, busVars, Smti!flowVars, flowVars,
         Smti!dataVars, dataVars, Smti!Endpoints, Endpoints, Smti!Publishers,
         Publishers
<1>5. Smti!TimesOut(a, steps) <=> TimesOut(a, steps)
  BY DEF Smti!TimesOut, TimesOut, Smti!PastDeadline, PastDeadline, Smti!Waiting,
         Waiting, Smti!Leave, Leave, Smti!Goto, Goto, Smti!busVars, busVars,
         Smti!flowVars, flowVars, Smti!dataVars, dataVars, Smti!Endpoints, Endpoints,
         Smti!Publishers, Publishers
<1>6. Smti!Publish(a, topic, body) <=> Publish(a, topic, body)
  BY DEF Smti!Publish, Publish, Smti!Write, Write, Smti!Send, Send, Smti!Readers,
         Readers, Smti!Matches, Matches, Smti!toWriterQos, toWriterQos,
         Smti!toReaderQos, toReaderQos, Smti!Reliability, Reliability,
         Smti!HistoryDepth, HistoryDepth, Smti!CalQos, CalQos, Smti!busVars, busVars,
         Smti!flowVars, flowVars, Smti!dataVars, dataVars, Smti!Endpoints, Endpoints,
         Smti!Publishers, Publishers
<1>7. Smti!PublishThen(a, topic, body, next) <=> PublishThen(a, topic, body, next)
  BY DEF Smti!PublishThen, PublishThen, Smti!Publish, Publish, Smti!Goto, Goto,
         Smti!Write, Write, Smti!Send, Send, Smti!Readers, Readers, Smti!Matches,
         Matches, Smti!toWriterQos, toWriterQos, Smti!toReaderQos, toReaderQos,
         Smti!Reliability, Reliability, Smti!HistoryDepth, HistoryDepth, Smti!CalQos,
         CalQos, Smti!busVars, busVars, Smti!flowVars, flowVars, Smti!dataVars,
         dataVars, Smti!Endpoints, Endpoints, Smti!Publishers, Publishers
<1>8. Smti!TakeCommand(a, kept, wanted, next, steps) <=> TakeCommand(a, kept, wanted, next, steps)
  BY DEF Smti!TakeCommand, TakeCommand, Smti!Has, Has, Smti!TakeAll, TakeAll,
         Smti!Goto, Goto, Smti!Leave, Leave, Smti!busVars, busVars, Smti!flowVars,
         flowVars, Smti!dataVars, dataVars, Smti!Endpoints, Endpoints, Smti!Publishers,
         Publishers
<1>9. Smti!Update(a, topic, kept, steps) <=> Update(a, topic, kept, steps)
  BY DEF Smti!Update, Update, Smti!Has, Has, Smti!TakeAll, TakeAll, Smti!HasBoth,
         HasBoth, Smti!Target, Target, Smti!Goto, Goto, Smti!Leave, Leave,
         Smti!busVars, busVars, Smti!flowVars, flowVars, Smti!dataVars, dataVars,
         Smti!Endpoints, Endpoints, Smti!Publishers, Publishers
<1>10. Smti!Leave(a, code, steps) <=> Leave(a, code, steps)
  BY DEF Smti!Leave, Leave, Smti!Goto, Goto, Smti!busVars, busVars, Smti!flowVars,
         flowVars, Smti!dataVars, dataVars, Smti!Endpoints, Endpoints, Smti!Publishers,
         Publishers
<1>11. Smti!Goto(a, next) <=> Goto(a, next)
  BY DEF Smti!Goto, Goto, Smti!busVars, busVars, Smti!flowVars, flowVars,
         Smti!dataVars, dataVars, Smti!Endpoints, Endpoints, Smti!Publishers,
         Publishers
<1>0. Smti!Fails(a, "reader", steps) <=> Fails(a, "reader", steps)
  BY DEF Smti!Fails, Fails, Smti!Trouble, Trouble, Smti!Room, Room, Smti!Cardinality,
         Cardinality, Smti!Leave, Leave, Smti!Goto, Goto, Smti!dataVars, dataVars
<1>13. Smti!ReadFails(a, steps) <=> ReadFails(a, steps)
  <2>1. Smti!Polled(a) = Polled(a) /\ Smti!Waiting = Waiting
    BY DEF Smti!Polled, Polled, Smti!StatusWanted, StatusWanted, Smti!ActivityWanted,
           ActivityWanted, Smti!Target, Target, Smti!Waiting, Waiting
  <2>2. ASSUME NEW t
        PROVE  Smti!DispatchThrows(a, t, steps) <=> DispatchThrows(a, t, steps)
    BY <1>0 DEF Smti!DispatchThrows, DispatchThrows, Smti!Has, Has, Smti!TakeAll, TakeAll
  <2>3. Smti!Throws(a, "none", steps) <=> Throws(a, "none", steps)
    BY DEF Smti!Throws, Throws, Smti!Fails, Fails, Smti!Trouble, Trouble, Smti!Room, Room,
           Smti!Cardinality, Cardinality, Smti!Leave, Leave, Smti!Goto, Goto, Smti!dataVars, dataVars
  <2> QED BY <2>1, <2>2, <2>3 DEF Smti!ReadFails, ReadFails
<1>12. Smti!CleanUp(a) <=> CleanUp(a)
  BY DEF Smti!CleanUp, CleanUp, Smti!EndEnds, EndEnds, Smti!Quiet, Quiet, Smti!Release,
         Release, Smti!Goto, Goto, Smti!busVars, busVars, Smti!flowVars, flowVars,
         Smti!dataVars, dataVars, Smti!Endpoints, Endpoints, Smti!Publishers,
         Publishers
<1> QED BY <1>1, <1>2, <1>3, <1>4, <1>5, <1>6, <1>7, <1>8, <1>9, <1>10, <1>11, <1>12, <1>13

(***************************************************************************)
(* Every step of a program is of one of the kinds.                         *)
(***************************************************************************)

LEMMA WaitingIsRunning ==
    ASSUME NEW a, pc[a] \in Waiting
    PROVE  pc[a] \notin {"off", "cleanup", "ended"}
BY DEF Waiting

(* A read that throws has taken the sample it was given, or none.           *)
LEMMA ReadFailsThrows ==
    ASSUME NEW a \in Apps, NEW steps, Plan(steps, Own(a)), ReadFails(a, steps)
    PROVE  ThrowStep(a)
<1>1. pc[a] \notin {"off", "cleanup", "ended"}
  BY WaitingIsRunning DEF ReadFails
<1>2. CASE Throws(a, "none", steps)
  BY <1>1, <1>2 DEF ThrowStep, Throws, Holders
<1>3. ASSUME NEW topic \in Polled(a), DispatchThrows(a, topic, steps)
      PROVE  ThrowStep(a)
  <2>1. topic \in Topics
    BY DemoAssumption DEF Polled
  <2>2. Fails(a, "reader", steps) /\ TakeAll(<<a, topic>>)
    BY <1>3 DEF DispatchThrows
  <2> QED BY <1>1, <2>1, <2>2 DEF ThrowStep, Holders
<1> QED BY <1>2, <1>3 DEF ReadFails

LEMMA AmtiThrows ==
    ASSUME NEW a \in Apps, demo = "amti",
           pc[a] \notin {"off", "cleanup", "ended"}, Amti!WriteThrows(a)
    PROVE  ThrowStep(a)
<1>1. Throws(a, "ours", Amti!CleanUpOf(a))
  BY AmtiBlocks DEF Amti!WriteThrows
<1> QED BY <1>1, AmtiPlan DEF ThrowStep, Throws, Holders

LEMMA AmtiBegins ==
    ASSUME NEW a \in Apps, demo = "amti", Amti!Begin(a)
    PROVE  BeginStep(a)
<1>1. /\ pc[a] = "off"
      /\ UNCHANGED <<cache, net, overrun, demo, holding, dataVars>>
  BY DEF Amti!Begin, Amti!dataVars, dataVars
<1>2. CASE Amti!MakeAll(a, Amti!Ends(a), Amti!Writes(a),
                        IF a \in Services THEN "capability" ELSE "sendStart")
  BY <1>1, <1>2, AmtiBlocks DEF BeginStep
<1>3. CASE \E k \in 0 .. Len(Amti!Ends(a)) - 1 :
             Amti!MakeSome(a, SubSeq(Amti!Ends(a), 1, k), Amti!Writes(a), <<>>)
  <2>1. PICK k \in 0 .. Len(Amti!Ends(a)) - 1 :
             Amti!MakeSome(a, SubSeq(Amti!Ends(a), 1, k), Amti!Writes(a), <<>>)
    BY <1>3
  <2>2. MakeSome(a, SubSeq(Amti!Ends(a), 1, k), Amti!Writes(a), <<>>)
    BY <2>1, AmtiBlocks
  <2> QED BY <1>1, <2>2 DEF BeginStep
<1>4. CASE Amti!MakeNothing(a)
  BY <1>1, <1>4, AmtiBlocks DEF BeginStep
<1> QED BY <1>2, <1>3, <1>4 DEF Amti!Begin

LEMMA AmtiServes ==
    ASSUME NEW s \in Services, demo = "amti", Amti!runService(s)
    PROVE  ServiceStep(s) \/ ThrowStep(s)
<1>0. s \in Apps
  BY DemoAssumption
<1>1. ASSUME NEW label \in Labels \ {"off", "cleanup", "ended"}, pc[s] = label,
             Amti!WriteThrows(s)
      PROVE  ThrowStep(s)
  BY <1>0, <1>1, AmtiThrows
<1>2. CASE Amti!publishCapability(s)
  <2>1. CASE Amti!PublishThen(s, "Capability", s, "capabilityStatus")
    BY <1>2, <2>1, AmtiBlocks DEF Amti!publishCapability, ServiceStep, TellStep
  <2> QED BY <1>1, <1>2, <2>1 DEF Amti!publishCapability, Labels
<1>3. CASE Amti!publishCapabilityStatus(s)
  <2>1. CASE Amti!PublishThen(s, "CapabilityStatus", s, "waitStart")
    BY <1>3, <2>1, AmtiBlocks DEF Amti!publishCapabilityStatus, ServiceStep, TellStep
  <2> QED BY <1>1, <1>3, <2>1 DEF Amti!publishCapabilityStatus, Labels
<1>4. CASE Amti!publishCommandStatus(s)
  <2>1. ASSUME NEW body, pc[s] = "startStatus",
               Amti!PublishThen(s, "CommandStatus", body, "startActivity")
        PROVE  ServiceStep(s)
    BY <2>1, AmtiBlocks DEF ServiceStep, TellStep
  <2>2. ASSUME NEW body, pc[s] = "stopStatus",
               Amti!PublishThen(s, "CommandStatus", body, "stopActivity")
        PROVE  ServiceStep(s)
    BY <2>2, AmtiBlocks DEF ServiceStep, TellStep
  <2> QED BY <1>1, <1>4, <2>1, <2>2 DEF Amti!publishCommandStatus, Labels
<1>5. CASE Amti!publishActivity(s)
  <2>1. ASSUME pc[s] = "startActivity",
               Amti!PublishThen(s, "Activity",
                    [activity |-> s, state |-> "ACTIVE_UNCONSTRAINED"], "waitStop")
        PROVE  ServiceStep(s)
    <3>1. PublishThen(s, "Activity",
                    [activity |-> s, state |-> "ACTIVE_UNCONSTRAINED"], "waitStop")
      BY <2>1, AmtiBlocks
    <3> QED BY <2>1, <3>1 DEF PublishThen, ServiceStep, ActivateStep, dataVars
  <2>2. ASSUME pc[s] = "stopActivity",
               Amti!Publish(s, "Activity", [activity |-> s, state |-> "COMPLETED"]),
               Amti!Leave(s, 0, Amti!CleanUpOf(s)),
               UNCHANGED Amti!dataVars
        PROVE  ServiceStep(s)
    <3>1. /\ Publish(s, "Activity", [activity |-> s, state |-> "COMPLETED"])
          /\ Leave(s, 0, Amti!CleanUpOf(s))
      BY <2>2, AmtiBlocks
    <3> QED BY <1>0, <2>2, <3>1, AmtiPlan
            DEF ServiceStep, CompleteStep, Amti!dataVars, dataVars
  <2> QED BY <1>1, <1>5, <2>1, <2>2 DEF Amti!publishActivity, Labels
<1>6. CASE Amti!waitForCommand(s)
  <2>1. Amti!Taken(s) = Kept(s)
    BY DEF Amti!Taken, Kept, Amti!First, First, Amti!NoCommand, NoCommand
  <2>2. ASSUME pc[s] = "waitStart",
               Amti!TakeCommand(s, Amti!Taken(s), Amti!Taken(s).start, "startStatus",
                                Amti!CleanUpOf(s))
        PROVE  ServiceStep(s)
    <3>1. TakeCommand(s, Kept(s), Kept(s).start, "startStatus", Amti!CleanUpOf(s))
      BY <2>1, <2>2, AmtiBlocks
    <3> QED BY <1>0, <2>2, <3>1, AmtiPlan DEF ServiceStep, TakeStep
  <2>3. ASSUME pc[s] = "waitStop",
               Amti!TakeCommand(s, Amti!Taken(s), Amti!WantsStop(s, Amti!Taken(s)),
                                "stopStatus", Amti!CleanUpOf(s))
        PROVE  ServiceStep(s)
    <3>1. TakeCommand(s, Kept(s), ~Kept(s).start /\ Kept(s).activity = s, "stopStatus",
                      Amti!CleanUpOf(s))
      BY <2>1, <2>3, AmtiBlocks DEF Amti!WantsStop
    <3> QED BY <1>0, <2>3, <3>1, AmtiPlan DEF ServiceStep, TakeStep
  <2> QED BY <1>6, <2>2, <2>3 DEF Amti!waitForCommand
<1> QED BY <1>2, <1>3, <1>4, <1>5, <1>6 DEF Amti!runService

LEMMA AmtiAsks ==
    ASSUME NEW c \in Clients, demo = "amti", Amti!runClient(c)
    PROVE  ClientStep(c) \/ ThrowStep(c)
<1>0. c \in Apps
  BY DemoAssumption
<1>1. ASSUME NEW label \in Labels \ {"off", "cleanup", "ended"}, pc[c] = label,
             Amti!WriteThrows(c)
      PROVE  ThrowStep(c)
  BY <1>0, <1>1, AmtiThrows
<1>2. CASE Amti!sendStartCommand(c)
  <2>1. Amti!Start(c) = Start(c)
    BY DEF Amti!Start, Start
  <2>2. CASE Amti!PublishThen(c, "Command", Amti!Start(c), "waitActive")
    BY <1>2, <2>1, <2>2, AmtiBlocks DEF Amti!sendStartCommand, ClientStep, AskStep
  <2> QED BY <1>1, <1>2, <2>2 DEF Amti!sendStartCommand, Labels
<1>3. CASE Amti!sendStopCommand(c)
  <2>1. Amti!Stop(c, heard[c].activity) = Stop(c, heard[c].activity)
    BY DEF Amti!Stop, Stop
  <2>2. CASE Amti!PublishThen(c, "Command", Amti!Stop(c, heard[c].activity), "waitCompleted")
    BY <1>3, <2>1, <2>2, AmtiBlocks DEF Amti!sendStopCommand, ClientStep, AskStep
  <2> QED BY <1>1, <1>3, <2>2 DEF Amti!sendStopCommand, Labels
<1>4. CASE Amti!waitForClientUpdates(c)
  <2>1. /\ Amti!CommandStatusListener(heard[c]) = Counted(heard[c])
        /\ Amti!ActivityListener(heard[c], Amti!First(<<c, "Activity">>))
             = Noted(heard[c], First(<<c, "Activity">>))
    BY DEF Amti!CommandStatusListener, Counted, Amti!ActivityListener, Noted, Amti!First, First
  <2>2. ASSUME Amti!Update(c, "CommandStatus", Amti!CommandStatusListener(heard[c]),
                           Amti!CleanUpOf(c))
        PROVE  Update(c, "CommandStatus", Counted(heard[c]), Amti!CleanUpOf(c))
    BY <2>1, <2>2, AmtiBlocks
  <2>3. ASSUME Amti!Update(c, "Activity",
                           Amti!ActivityListener(heard[c], Amti!First(<<c, "Activity">>)),
                           Amti!CleanUpOf(c))
        PROVE  Update(c, "Activity", Noted(heard[c], First(<<c, "Activity">>)),
                      Amti!CleanUpOf(c))
    BY <2>1, <2>3, AmtiBlocks
  <2> QED BY <1>0, <1>4, <2>2, <2>3, AmtiPlan
          DEF Amti!waitForClientUpdates, ClientStep, UpdateStep
<1> QED BY <1>2, <1>3, <1>4 DEF Amti!runClient

LEMMA AmtiSteps ==
    ASSUME NEW a \in Apps, demo = "amti",
           Amti!Begin(a) \/ Amti!AmtiStep(a) \/ Amti!Timeout(a)
    PROVE  ProcessStep(a)
<1>1. CASE Amti!ReadThrows(a)
  <2>1. ReadFails(a, Amti!CleanUpOf(a))
    BY <1>1, AmtiBlocks DEF Amti!ReadThrows
  <2> QED BY <2>1, AmtiPlan, ReadFailsThrows DEF ProcessStep
<1>2. CASE Amti!Timeout(a)
  <2>1. TimesOut(a, Amti!CleanUpOf(a))
    BY <1>2, AmtiBlocks DEF Amti!Timeout
  <2> QED BY <2>1, AmtiPlan DEF TimeoutStep, ProcessStep
<1>3. CASE Amti!CleanUp(a)
  BY <1>3, AmtiBlocks DEF ProcessStep
<1> QED BY <1>1, <1>2, <1>3, AmtiBegins, AmtiServes, AmtiAsks DEF Amti!AmtiStep, ProcessStep

LEMMA WholePlan ==
    ASSUME NEW a \in Apps
    PROVE  /\ Plan(Smti!WholeScope(a), Own(a))
           /\ Plan(Smti!ResetMessagePtr \o Smti!WholeScope(a), Own(a))
           /\ Head(Smti!ResetMessagePtr \o Smti!WholeScope(a))[1] = "message"
BY SameEnds, ScopePlan DEF Smti!WholeScope

LEMMA SmtiWriteThrows ==
    ASSUME NEW a \in Apps, demo = "smti",
           pc[a] \notin {"off", "cleanup", "ended"}, Smti!WriteThrows(a)
    PROVE  ThrowStep(a)
<1>1. Throws(a, "ours", Smti!ResetMessagePtr \o Smti!WholeScope(a))
  BY SmtiBlocks DEF Smti!WriteThrows
<1> QED BY <1>1, WholePlan DEF ThrowStep, Throws, Holders

LEMMA SmtiReadThrows ==
    ASSUME NEW a \in Apps, demo = "smti", Smti!ReadThrows(a)
    PROVE  ThrowStep(a)
<1>1. ReadFails(a, Smti!WholeScope(a))
  BY SmtiBlocks DEF Smti!ReadThrows
<1> QED BY <1>1, WholePlan, ReadFailsThrows

LEMMA SmtiBegins ==
    ASSUME NEW a \in Apps, demo = "smti", Smti!Begin(a)
    PROVE  BeginStep(a)
<1>1. /\ pc[a] = "off"
      /\ UNCHANGED <<cache, net, overrun, demo, holding, dataVars>>
  BY DEF Smti!Begin, Smti!dataVars, dataVars
<1>2. CASE Smti!MakeAll(a, Smti!Ptrs(a), Smti!Writes(a),
                        IF a \in Services THEN "capability" ELSE "sendStart")
  BY <1>1, <1>2, SmtiBlocks, SameEnds DEF BeginStep
<1>3. CASE \E k \in 0 .. Len(Smti!Ptrs(a)) - 1 :
             Smti!MakeSome(a, SubSeq(Smti!Ptrs(a), 1, k), Smti!Writes(a),
                           Smti!ScopeExit(a, Smti!ToSet(SubSeq(Smti!Ptrs(a), 1, k))))
  <2> DEFINE made(k) == SubSeq(Amti!Ends(a), 1, k)
             steps(k) == Smti!ScopeExit(a, ToSet(made(k)))
  <2>1. PICK k \in 0 .. Len(Amti!Ends(a)) - 1 :
             Smti!MakeSome(a, made(k), Amti!Writes(a), steps(k))
    <3>1. PICK k \in 0 .. Len(Smti!Ptrs(a)) - 1 :
               Smti!MakeSome(a, SubSeq(Smti!Ptrs(a), 1, k), Smti!Writes(a),
                             Smti!ScopeExit(a, Smti!ToSet(SubSeq(Smti!Ptrs(a), 1, k))))
      BY <1>3
    <3>2. Smti!Ptrs(a) = Amti!Ends(a) /\ Smti!Writes(a) = Amti!Writes(a)
      BY SameEnds
    <3>3. Smti!ToSet(made(k)) = ToSet(made(k))
      BY DEF Smti!ToSet, ToSet
    <3>4. k \in 0 .. Len(Amti!Ends(a)) - 1
      BY <3>1, <3>2
    <3>5. Smti!MakeSome(a, made(k), Amti!Writes(a), steps(k))
      BY <3>1, <3>2, <3>3
    <3> QED BY <3>4, <3>5
  <2>2. MakeSome(a, made(k), Amti!Writes(a), steps(k))
    BY <2>1, SmtiBlocks
  <2>3. ToSet(made(k)) \in SUBSET Topics
    BY <2>1, MadeIsOwn, SameEnds
  <2>4. Plan(steps(k), ToSet(made(k)))
    BY <2>3, ScopePlan
  <2> HIDE DEF steps
  <2> QED BY <1>1, <2>1, <2>2, <2>4 DEF BeginStep
<1>4. CASE Smti!MakeNothing(a)
  BY <1>1, <1>4, SmtiBlocks DEF BeginStep
<1> QED BY <1>2, <1>3, <1>4 DEF Smti!Begin

LEMMA SmtiServes ==
    ASSUME NEW s \in Services, demo = "smti", Smti!runService(s)
    PROVE  ServiceStep(s) \/ ThrowStep(s)
<1>0. s \in Apps
  BY DemoAssumption
<1>1. ASSUME NEW label \in Labels \ {"off", "cleanup", "ended"}, pc[s] = label,
             Smti!WriteThrows(s)
      PROVE  ThrowStep(s)
  BY <1>0, <1>1, SmtiWriteThrows
<1>2. CASE Smti!publishCapability(s)
  <2>1. CASE Smti!PublishThen(s, "Capability", s, "capabilityStatus")
    BY <1>2, <2>1, SmtiBlocks DEF Smti!publishCapability, ServiceStep, TellStep
  <2> QED BY <1>1, <1>2, <2>1 DEF Smti!publishCapability, Labels
<1>3. CASE Smti!publishCapabilityStatus(s)
  <2>1. CASE Smti!PublishThen(s, "CapabilityStatus", s, "waitStart")
    BY <1>3, <2>1, SmtiBlocks DEF Smti!publishCapabilityStatus, ServiceStep, TellStep
  <2> QED BY <1>1, <1>3, <2>1 DEF Smti!publishCapabilityStatus, Labels
<1>4. CASE Smti!publishCommandStatus(s)
  <2>1. ASSUME NEW body, pc[s] = "startStatus",
               Smti!PublishThen(s, "CommandStatus", body, "startActivity")
        PROVE  ServiceStep(s)
    BY <2>1, SmtiBlocks DEF ServiceStep, TellStep
  <2>2. ASSUME NEW body, pc[s] = "stopStatus",
               Smti!PublishThen(s, "CommandStatus", body, "stopActivity")
        PROVE  ServiceStep(s)
    BY <2>2, SmtiBlocks DEF ServiceStep, TellStep
  <2> QED BY <1>1, <1>4, <2>1, <2>2 DEF Smti!publishCommandStatus, Labels
<1>5. CASE Smti!publishActivity(s)
  <2>1. ASSUME pc[s] = "startActivity",
               Smti!Publish(s, "Activity", [activity |-> s, state |-> "ACTIVE_UNCONSTRAINED"]),
               Smti!Goto(s, "waitStop"),
               command' = [command EXCEPT ![s] = Smti!NoCommand],
               UNCHANGED <<exit, todo, heard, told, accepted>>
        PROVE  ServiceStep(s)
    <3>1. /\ Publish(s, "Activity", [activity |-> s, state |-> "ACTIVE_UNCONSTRAINED"])
          /\ Goto(s, "waitStop")
      BY <2>1, SmtiBlocks
    <3> QED BY <2>1, <3>1 DEF ServiceStep, ActivateStep, Smti!NoCommand, NoCommand
  <2>2. ASSUME pc[s] = "stopActivity",
               Smti!Publish(s, "Activity", [activity |-> s, state |-> "COMPLETED"]),
               Smti!Leave(s, 0, Smti!WholeScope(s)),
               UNCHANGED Smti!dataVars
        PROVE  ServiceStep(s)
    <3>1. /\ Publish(s, "Activity", [activity |-> s, state |-> "COMPLETED"])
          /\ Leave(s, 0, Smti!WholeScope(s))
      BY <2>2, SmtiBlocks
    <3> QED BY <1>0, <2>2, <3>1, WholePlan
            DEF ServiceStep, CompleteStep, Smti!dataVars, dataVars
  <2> QED BY <1>1, <1>5, <2>1, <2>2 DEF Smti!publishActivity, Labels
<1>6. CASE Smti!waitForCommand(s)
  <2>1. Smti!Taken(s) = Kept(s)
    BY DEF Smti!Taken, Kept, Smti!First, First
  <2>2. ASSUME pc[s] = "waitStart",
               Smti!TakeCommand(s, Smti!Taken(s), Smti!Taken(s).start, "startStatus",
                                Smti!WholeScope(s))
        PROVE  ServiceStep(s)
    <3>1. TakeCommand(s, Kept(s), Kept(s).start, "startStatus", Smti!WholeScope(s))
      BY <2>1, <2>2, SmtiBlocks
    <3> QED BY <1>0, <2>2, <3>1, WholePlan DEF ServiceStep, TakeStep
  <2>3. ASSUME pc[s] = "waitStop",
               Smti!TakeCommand(s, Smti!Taken(s), ~Smti!Taken(s).start /\ Smti!Taken(s).activity = s,
                                "stopStatus", Smti!WholeScope(s))
        PROVE  ServiceStep(s)
    <3>1. TakeCommand(s, Kept(s), ~Kept(s).start /\ Kept(s).activity = s, "stopStatus",
                      Smti!WholeScope(s))
      BY <2>1, <2>3, SmtiBlocks
    <3> QED BY <1>0, <2>3, <3>1, WholePlan DEF ServiceStep, TakeStep
  <2> QED BY <1>6, <2>2, <2>3 DEF Smti!waitForCommand
<1> QED BY <1>2, <1>3, <1>4, <1>5, <1>6 DEF Smti!runService

LEMMA SmtiAsks ==
    ASSUME NEW c \in Clients, demo = "smti", Smti!runClient(c)
    PROVE  ClientStep(c) \/ ThrowStep(c)
<1>0. c \in Apps
  BY DemoAssumption
<1>1. ASSUME NEW label \in Labels \ {"off", "cleanup", "ended"}, pc[c] = label,
             Smti!WriteThrows(c)
      PROVE  ThrowStep(c)
  BY <1>0, <1>1, SmtiWriteThrows
<1>2. CASE Smti!sendStartCommand(c)
  <2>1. Smti!Start(c) = Start(c)
    BY DEF Smti!Start, Start
  <2>2. CASE Smti!PublishThen(c, "Command", Smti!Start(c), "waitActive")
    BY <1>2, <2>1, <2>2, SmtiBlocks DEF Smti!sendStartCommand, ClientStep, AskStep
  <2> QED BY <1>1, <1>2, <2>2 DEF Smti!sendStartCommand, Labels
<1>3. CASE Smti!sendStopCommand(c)
  <2>1. Smti!Stop(c, heard[c].activity) = Stop(c, heard[c].activity)
    BY DEF Smti!Stop, Stop
  <2>2. CASE Smti!PublishThen(c, "Command", Smti!Stop(c, heard[c].activity), "waitCompleted")
    BY <1>3, <2>1, <2>2, SmtiBlocks DEF Smti!sendStopCommand, ClientStep, AskStep
  <2> QED BY <1>1, <1>3, <2>2 DEF Smti!sendStopCommand, Labels
<1>4. CASE Smti!waitForClientUpdates(c)
  <2>1. /\ Smti!statusListener(heard[c]) = Counted(heard[c])
        /\ Smti!activityListener(heard[c], Smti!First(<<c, "Activity">>))
             = Noted(heard[c], First(<<c, "Activity">>))
    BY DEF Smti!statusListener, Counted, Smti!activityListener, Noted, Smti!First, First
  <2>2. ASSUME Smti!Update(c, "CommandStatus", Smti!statusListener(heard[c]),
                           Smti!WholeScope(c))
        PROVE  Update(c, "CommandStatus", Counted(heard[c]), Smti!WholeScope(c))
    BY <2>1, <2>2, SmtiBlocks
  <2>3. ASSUME Smti!Update(c, "Activity",
                           Smti!activityListener(heard[c], Smti!First(<<c, "Activity">>)),
                           Smti!WholeScope(c))
        PROVE  Update(c, "Activity", Noted(heard[c], First(<<c, "Activity">>)),
                      Smti!WholeScope(c))
    BY <2>1, <2>3, SmtiBlocks
  <2> QED BY <1>0, <1>4, <2>2, <2>3, WholePlan
          DEF Smti!waitForClientUpdates, ClientStep, UpdateStep
<1> QED BY <1>2, <1>3, <1>4 DEF Smti!runClient

LEMMA SmtiSteps ==
    ASSUME NEW a \in Apps, demo = "smti",
           Smti!Begin(a) \/ Smti!SmtiStep(a) \/ Smti!Timeout(a)
    PROVE  ProcessStep(a)
<1>1. CASE Smti!ReadThrows(a)
  BY <1>1, SmtiReadThrows DEF ProcessStep
<1>2. CASE Smti!Timeout(a)
  <2>1. TimesOut(a, Smti!WholeScope(a))
    BY <1>2, SmtiBlocks DEF Smti!Timeout
  <2> QED BY <2>1, WholePlan DEF TimeoutStep, ProcessStep
<1>3. CASE Smti!CleanUp(a)
  BY <1>3, SmtiBlocks DEF ProcessStep
<1> QED BY <1>1, <1>2, <1>3, SmtiBegins, SmtiServes, SmtiAsks DEF Smti!SmtiStep, ProcessStep

LEMMA EveryStep ==
    ASSUME NEW a \in Apps, demo \in {"amti", "smti"}, Begin(a) \/ Step(a) \/ Timeout(a)
    PROVE  ProcessStep(a)
BY AmtiSteps, SmtiSteps DEF Begin, Step, Timeout

(***************************************************************************)
(* What every step preserves.                                              *)
(***************************************************************************)

(* What is known stays known.                                               *)
NothingForgotten ==
    /\ \A c \in Clients : /\ pc[c] # "off" => pc'[c] # "off"
                          /\ told[c] \subseteq told'[c]
                          /\ heard[c].count > 0 => heard'[c].count > 0
    /\ trouble > 0 => trouble' > 0
    /\ \A s \in Services : Completed(s) => Completed(s)'

(* A step of one process leaves the others as they are.                     *)
OthersKept(a) ==
    /\ demo' = demo
    /\ \A b \in Apps \ {a} :
         /\ asb'[b] = asb[b] /\ pc'[b] = pc[b] /\ exit'[b] = exit[b]
         /\ todo'[b] = todo[b] /\ holding'[b] = holding[b]
         /\ \A t \in Topics : ends'[<<b, t>>] = ends[<<b, t>>]
    /\ \A s \in Services \ {a} : command'[s] = command[s] /\ accepted'[s] = accepted[s]
    /\ \A c \in Clients \ {a} : heard'[c] = heard[c] /\ told'[c] = told[c]

OwnOK(a) ==
    /\ a \in Services => ServiceOK(a)
    /\ a \in Clients => ClientOK(a)
    /\ ProcessOK(a)

LEMMA KnownGrows ==
    ASSUME NothingForgotten
    PROVE  /\ Begun \subseteq Begun'
           /\ Senders \subseteq Senders'
           /\ \A y : \A x : Entitled(y, x) => Entitled(y, x)'
           /\ \A c \in Clients : \A x : Informed(c, x) => Informed(c, x)'
           /\ Commands \subseteq Commands'
           /\ Activities \subseteq Activities'
<1>1. Begun \subseteq Begun'
  BY DEF NothingForgotten, Begun
<1>2. Senders \subseteq Senders'
  BY <1>1 DEF NothingForgotten, Senders
<1>3. \A c \in Clients : \A x : Informed(c, x) => Informed(c, x)'
  BY DEF NothingForgotten, Informed
<1>4. ASSUME NEW m \in Commands PROVE m \in Commands'
  <2>1. CASE \E c \in Begun : m = Start(c)
    BY <1>1, <2>1 DEF Commands, Start
  <2>2. CASE \E i \in Begun \X Activity : Informed(i[1], i[2]) /\ m = Stop(i[1], i[2])
    <3>1. PICK i \in Begun \X Activity : Informed(i[1], i[2]) /\ m = Stop(i[1], i[2])
      BY <2>2
    <3>2. i[1] \in Clients /\ i \in Begun' \X Activity
      BY <1>1, <3>1 DEF Begun
    <3>3. Informed(i[1], i[2])'
      BY <1>3, <3>1, <3>2
    <3> QED BY <3>1, <3>2, <3>3 DEF Commands, Stop, Activity
  <2>3. CASE m \in Strange /\ trouble > 0
    BY <2>3 DEF Commands, NothingForgotten, Strange, Activity, Start, Stop, Unset, Empty
  <2> QED BY <1>4, <2>1, <2>2, <2>3 DEF Commands
<1>5. ASSUME NEW m \in Activities PROVE m \in Activities'
  BY <1>5 DEF Activities, NothingForgotten
<1>6. ASSUME NEW y, NEW x, Entitled(y, x) PROVE Entitled(y, x)'
  <2>1. y \in Senders' /\ (y # Stranger => y \in Clients)
    BY <1>2, <1>6 DEF Entitled, Senders, Begun
  <2>2. y # Stranger => Informed(y, x)'
    BY <1>3, <1>6, <2>1 DEF Entitled
  <2> QED BY <2>1, <2>2 DEF Entitled
<1> QED BY <1>1, <1>2, <1>3, <1>4, <1>5, <1>6

LEMMA EndsAreTopics ==
    ASSUME NEW a \in Apps
    PROVE  \A i \in DOMAIN Amti!Ends(a) : Amti!Ends(a)[i] \in Topics
BY SameEnds DEF ToSet

LEMMA OthersOK ==
    ASSUME IInv, NothingForgotten, NEW a, OthersKept(a), NEW b \in Apps \ {a}
    PROVE  OwnOK(b)'
<1>1. ASSUME b \in Services PROVE ServiceOK(b)'
  <2>1. ServiceOK(b)
    BY <1>1 DEF IInv, FlowOK
  <2>2. pc'[b] = pc[b] /\ command'[b] = command[b] /\ accepted'[b] = accepted[b] /\ demo' = demo
    BY <1>1 DEF OthersKept
  <2>3. PICK x, y : x = accepted[b][1].by /\ y = accepted[b][2].by
    OBVIOUS
  <2>4. /\ x \in Senders => x \in Senders'
        /\ Entitled(y, b) => Entitled(y, b)'
    BY KnownGrows
  <2>5. /\ Len(accepted[b]) > 0 => accepted[b][1].start /\ x \in Senders
        /\ Len(accepted[b]) > 1 => ~accepted[b][2].start /\ Entitled(y, b)
    BY <2>1, <2>3 DEF ServiceOK
  <2>6. /\ Len(accepted'[b]) > 0 => accepted'[b][1].start /\ accepted'[b][1].by \in Senders'
        /\ Len(accepted'[b]) > 1 => /\ ~accepted'[b][2].start
                                   /\ Entitled(accepted[b][2].by, b)'
    BY <2>2, <2>3, <2>4, <2>5 DEF Entitled, Informed
  <2> QED BY <2>1, <2>2, <2>6 DEF ServiceOK
<1>2. ASSUME b \in Clients PROVE ClientOK(b)'
  <2>1. ClientOK(b)
    BY <1>2 DEF IInv, FlowOK
  <2>2. pc'[b] = pc[b] /\ exit'[b] = exit[b] /\ heard'[b] = heard[b]
    BY <1>2 DEF OthersKept
  <2>3. PICK x : x = heard[b].activity
    OBVIOUS
  <2>4. /\ x \in Services => (Completed(x) => Completed(x)')
        /\ b \in Clients => (Informed(b, x) => Informed(b, x)')
    BY KnownGrows DEF NothingForgotten
  <2>5. /\ heard[b].state # "" => x \in Services
        /\ heard[b].state = "COMPLETED" => x \in Services /\ Completed(x)
        /\ pc[b] \in {"sendStop", "waitCompleted"} => Informed(b, x)
    BY <2>1, <2>3 DEF ClientOK
  <2>6. /\ heard'[b].state # "" => heard'[b].activity \in Services
        /\ heard'[b].state = "COMPLETED" => Completed(heard[b].activity)'
        /\ pc'[b] \in {"sendStop", "waitCompleted"} => Informed(b, heard[b].activity)'
    BY <1>2, <2>2, <2>3, <2>4, <2>5 DEF Completed, Informed
  <2> QED BY <2>1, <2>2, <2>6 DEF ClientOK
<1>3. ProcessOK(b)'
  <2>1. ProcessOK(b)
    BY DEF IInv, ExitOK
  <2>2. /\ asb'[b] = asb[b] /\ pc'[b] = pc[b] /\ exit'[b] = exit[b] /\ demo' = demo
        /\ todo'[b] = todo[b] /\ holding'[b] = holding[b]
        /\ \A t \in Topics : ends'[<<b, t>>] = ends[<<b, t>>]
    BY DEF OthersKept
  <2>3. Live(b)' = Live(b)
    BY <2>2 DEF Live
  <2>4. AllCreated(b)' <=> AllCreated(b)
    BY <2>2, EndsAreTopics DEF AllCreated
  <2> QED BY <2>1, <2>2, <2>3, <2>4 DEF ProcessOK
<1> QED BY <1>1, <1>2, <1>3 DEF OwnOK

(* Samples stay, go, or are joined by samples there may be.                 *)
LEMMA BusStays ==
    ASSUME BusOK, NothingForgotten,
           \A a \in Apps, t \in {"Command", "Activity"} :
               /\ cache'[<<a, t>>] \in {cache[<<a, t>>], <<>>}
               /\ \A p \in Publishers : net'[<<a, t>>][p] \in {net[<<a, t>>][p], <<>>}
    PROVE  BusOK'
<1>1. Commands \subseteq Commands' /\ Activities \subseteq Activities'
  BY KnownGrows
<1>2. Seq(Commands) \subseteq Seq(Commands') /\ Seq(Activities) \subseteq Seq(Activities')
  BY <1>1, SeqMonotonic
<1>3. <<>> \in Seq(Commands') /\ <<>> \in Seq(Activities')
  OBVIOUS
<1> QED BY <1>2, <1>3 DEF BusOK, Carries

(* A cache is emptied by a read.                                            *)
LEMMA ReadEmpties ==
    ASSUME IInv, NEW a \in Apps,
           cache' = cache \/ \E topic \in Topics : TakeAll(<<a, topic>>)
    PROVE  /\ cache' = [e \in Endpoints |-> cache'[e]]
           /\ \A e \in Endpoints : cache'[e] \in {cache[e], <<>>}
<1>1. cache = [e \in Endpoints |-> cache[e]]
  BY DEF IInv, DataTyped
<1>2. CASE cache' = cache
  BY <1>1, <1>2
<1>3. ASSUME NEW topic \in Topics, TakeAll(<<a, topic>>)
      PROVE  /\ cache' = [e \in Endpoints |-> cache'[e]]
             /\ \A e \in Endpoints : cache'[e] \in {cache[e], <<>>}
  <2>1. cache' = [cache EXCEPT ![<<a, topic>>] = <<>>]
    BY <1>3 DEF TakeAll
  <2> QED BY <1>1, <2>1
<1> QED BY <1>2, <1>3

(* A cache is emptied by a read.                                            *)
LEMMA ReadKeeps ==
    ASSUME IInv, NothingForgotten, NEW e \in Endpoints,
           cache' = [cache EXCEPT ![e] = <<>>], net' = net
    PROVE  BusOK' /\ cache' = [r \in Endpoints |-> cache'[r]]
<1>1. cache = [r \in Endpoints |-> cache[r]]
  BY DEF IInv, DataTyped
<1>2. \A a \in Apps, t \in {"Command", "Activity"} : <<a, t>> \in Endpoints
  BY DemoAssumption DEF Endpoints
<1>3. \A r \in Endpoints : cache'[r] \in {cache[r], <<>>}
  BY <1>1
<1>4. BusOK'
  BY <1>2, <1>3, BusStays DEF IInv
<1>5. cache' = [r \in Endpoints |-> cache'[r]]
  BY <1>1
<1> QED BY <1>4, <1>5

LEMMA BusPublishes ==
    ASSUME IInv, NothingForgotten, NEW a \in Apps, NEW topic, NEW body,
           Publish(a, topic, body),
           topic = "Command" => body \in Commands',
           topic = "Activity" => body \in Activities'
    PROVE  /\ BusOK'
           /\ cache' = cache
           /\ net' = [e \in Endpoints |-> net'[e]]
           /\ \A e \in Endpoints : net'[e] = [p \in Publishers |-> net'[e][p]]
<1>1. /\ net' = [r \in Endpoints |-> IF r \in Readers(<<a, topic>>)
                                     THEN [net[r] EXCEPT ![a] = Append(@, body)]
                                     ELSE net[r]]
      /\ cache' = cache
  BY DEF Publish, Write, Send
<1>2. \A r \in Readers(<<a, topic>>) : r[2] = topic
  BY DEF Readers
<1>3. \A r \in Endpoints : net[r] = [p \in Publishers |-> net[r][p]]
  BY DEF IInv, DataTyped
<1>4. a \in Publishers
  BY DEF Publishers
<1>5. ASSUME NEW r \in Endpoints, NEW p \in Publishers
      PROVE  /\ net'[r] = [q \in Publishers |-> net'[r][q]]
             /\ net'[r][p] = IF r \in Readers(<<a, topic>>) /\ p = a
                               THEN Append(net[r][p], body) ELSE net[r][p]
  <2>1. CASE r \in Readers(<<a, topic>>)
    <3>1. net'[r] = [net[r] EXCEPT ![a] = Append(@, body)]
      BY <1>1, <2>1
    <3> QED BY <1>3, <1>4, <2>1, <3>1
  <2>2. CASE r \notin Readers(<<a, topic>>)
    BY <1>1, <1>3, <2>2
  <2> QED BY <2>1, <2>2
<1>6. net' = [e \in Endpoints |-> net'[e]]
  BY <1>1
<1>7. ASSUME NEW t, NEW Bodies, NEW Later, Bodies \subseteq Later, t \in Topics,
             Carries(t, Bodies), topic = t => body \in Later
      PROVE  \A b \in Apps : /\ cache'[<<b, t>>] \in Seq(Later)
                             /\ \A p \in Publishers : net'[<<b, t>>][p] \in Seq(Later)
  <2>1. Seq(Bodies) \subseteq Seq(Later)
    BY <1>7, SeqMonotonic
  <2>2. SUFFICES ASSUME NEW b \in Apps
                 PROVE  /\ cache'[<<b, t>>] \in Seq(Later)
                        /\ \A p \in Publishers : net'[<<b, t>>][p] \in Seq(Later)
    OBVIOUS
  <2>3. <<b, t>> \in Endpoints
    BY <1>7 DEF Endpoints
  <2>4. /\ cache[<<b, t>>] \in Seq(Later)
        /\ \A p \in Publishers : net[<<b, t>>][p] \in Seq(Later)
    BY <1>7, <2>1 DEF Carries
  <2>5. <<b, t>> \in Readers(<<a, topic>>) => topic = t
    BY <1>2
  <2>6. topic = t => \A p \in Publishers : Append(net[<<b, t>>][p], body) \in Seq(Later)
    BY <1>7, <2>4, AppendProperties
  <2> QED BY <1>1, <1>5, <2>3, <2>4, <2>5, <2>6
<1>8. BusOK'
  <2>1. Commands \subseteq Commands' /\ Activities \subseteq Activities'
    BY KnownGrows
  <2>2. Carries("Command", Commands) /\ Carries("Activity", Activities)
    BY DEF IInv, BusOK
  <2>3. "Command" \in Topics /\ "Activity" \in Topics
    BY DemoAssumption
  <2>4. /\ \A b \in Apps : /\ cache'[<<b, "Command">>] \in Seq(Commands')
                           /\ \A p \in Publishers : net'[<<b, "Command">>][p] \in Seq(Commands')
        /\ \A b \in Apps : /\ cache'[<<b, "Activity">>] \in Seq(Activities')
                           /\ \A p \in Publishers : net'[<<b, "Activity">>][p] \in Seq(Activities')
    BY <1>7, <2>1, <2>2, <2>3
  <2> QED BY <2>4 DEF BusOK, Carries
<1>9. \A e \in Endpoints : net'[e] = [p \in Publishers |-> net'[e][p]]
  BY <1>4, <1>5
<1>10. cache' = cache
  BY <1>1
<1> QED BY <1>6, <1>8, <1>9, <1>10

(* What one step of a process has to be shown to do.                        *)
Preserved(a) == /\ ProcessesTyped' /\ DataTyped' /\ BusOK'
                /\ OthersKept(a) /\ OwnOK(a)'

LEMMA PreservedSuffices ==
    ASSUME IInv, NEW a \in Apps, NothingForgotten, Preserved(a)
    PROVE  IInv'
<1>1. \A b \in Apps : OwnOK(b)'
  BY OthersOK DEF Preserved
<1>2. Services \subseteq Apps /\ Clients \subseteq Apps
  BY DemoAssumption
<1> QED BY <1>1, <1>2 DEF IInv, Preserved, OwnOK, FlowOK, ExitOK

(***************************************************************************)
(* Steps that leave what a process knows as it is.                         *)
(***************************************************************************)

LEMMA ServiceMoves ==
    ASSUME IInv, NothingForgotten, NEW s \in Services,
           accepted'[s] = accepted[s], demo' = demo,
           Len(accepted[s]) > 1 => command'[s].activity = command[s].activity,
           pc'[s] \in {"off", "capability", "capabilityStatus", "waitStart"}
             => accepted[s] = <<>>,
           pc'[s] \in {"startStatus", "startActivity", "waitStop"} => Len(accepted[s]) = 1,
           pc'[s] \in {"stopStatus", "stopActivity"} => Len(accepted[s]) = 2,
           demo = "smti" =>
             (pc'[s] \in {"off", "capability", "capabilityStatus", "waitStart", "waitStop"}
                => ~command'[s].received)
    PROVE  ServiceOK(s)'
<1>1. ServiceOK(s)
  BY DEF IInv, FlowOK
<1>2. PICK x, y : x = accepted[s][1].by /\ y = accepted[s][2].by
  OBVIOUS
<1>3. /\ x \in Senders => x \in Senders'
      /\ Entitled(y, s) => Entitled(y, s)'
  BY KnownGrows
<1>4. /\ Len(accepted[s]) > 0 => accepted[s][1].start /\ x \in Senders
      /\ Len(accepted[s]) > 1 => /\ ~accepted[s][2].start /\ Entitled(y, s)
                                 /\ command[s].activity = s
  BY <1>1, <1>2 DEF ServiceOK
<1>5. /\ Len(accepted'[s]) > 0 => accepted'[s][1].start /\ accepted'[s][1].by \in Senders'
      /\ Len(accepted'[s]) > 1 => /\ ~accepted'[s][2].start
                                 /\ Entitled(accepted[s][2].by, s)'
                                 /\ command'[s].activity = s
  BY <1>2, <1>3, <1>4 DEF Entitled, Informed
<1>6. Len(accepted'[s]) <= 2
  BY <1>1 DEF ServiceOK
<1> QED BY <1>5, <1>6 DEF ServiceOK

LEMMA ClientMoves ==
    ASSUME IInv, NothingForgotten, NEW c \in Clients, heard'[c] = heard[c],
           pc'[c] \in {"sendStop", "waitCompleted"} => pc[c] \in {"sendStop", "waitCompleted"},
           exit'[c] = 0 => exit[c] = 0 /\ pc'[c] \in {"cleanup", "ended"}
    PROVE  ClientOK(c)'
<1>1. ClientOK(c)
  BY DEF IInv, FlowOK
<1>2. PICK x : x = heard[c].activity
  OBVIOUS
<1>3. /\ x \in Services => (Completed(x) => Completed(x)')
      /\ Informed(c, x) => Informed(c, x)'
  BY KnownGrows DEF NothingForgotten
<1>4. /\ heard[c].state # "" => x \in Services
      /\ heard[c].state = "COMPLETED" => x \in Services /\ Completed(x)
      /\ pc[c] \in {"sendStop", "waitCompleted"} => Informed(c, x)
  BY <1>1, <1>2 DEF ClientOK
<1>5. /\ heard'[c].state # "" => heard'[c].activity \in Services
      /\ heard'[c].state = "COMPLETED" => Completed(heard[c].activity)'
      /\ pc'[c] \in {"sendStop", "waitCompleted"} => Informed(c, heard[c].activity)'
  BY <1>2, <1>3, <1>4 DEF Completed, Informed
<1>6. exit[c] = 0 => heard[c].state = "COMPLETED"
  BY <1>1 DEF ClientOK
<1> QED BY <1>5, <1>6 DEF ClientOK

LEMMA NothingLost ==
    ASSUME ProcessesTyped, NEW a \in Apps, OthersKept(a),
           trouble' \in {trouble, trouble + 1}, pc'[a] # "off",
           a \in Clients => /\ told[a] \subseteq told'[a]
                            /\ heard[a].count > 0 => heard'[a].count > 0,
           a \in Services /\ pc[a] \in {"cleanup", "ended"} =>
               accepted'[a] = accepted[a] /\ pc'[a] \in {"cleanup", "ended"}
    PROVE  NothingForgotten
<1>1. Services \subseteq Apps /\ Clients \subseteq Apps
  BY DemoAssumption
<1>2. ASSUME NEW c \in Clients
      PROVE  /\ pc[c] # "off" => pc'[c] # "off"
             /\ told[c] \subseteq told'[c]
             /\ heard[c].count > 0 => heard'[c].count > 0
  BY <1>1 DEF OthersKept
<1>3. trouble > 0 => trouble' > 0
  BY DEF ProcessesTyped
<1>4. ASSUME NEW s \in Services, Completed(s) PROVE Completed(s)'
  BY <1>1, <1>4 DEF OthersKept, Completed
<1> QED BY <1>2, <1>3, <1>4 DEF NothingForgotten

(* A running process leaves with a plan for all it has made.                *)
LEMMA Leaves ==
    ASSUME IInv, NEW a \in Apps, NEW code \in {0, 1}, NEW steps,
           pc[a] \notin {"off", "cleanup", "ended"}, Plan(steps, Own(a)), Leave(a, code, steps)
    PROVE  /\ pc' \in [Apps -> Labels] /\ exit' \in [Apps -> {-1, 0, 1}]
           /\ todo' = [b \in Apps |-> todo'[b]]
           /\ pc'[a] = "cleanup" /\ exit'[a] = code /\ todo'[a] = steps
           /\ \A b \in Apps \ {a} : pc'[b] = pc[b] /\ exit'[b] = exit[b] /\ todo'[b] = todo[b]
           /\ (asb' = asb /\ ends' = ends /\ demo' = demo
               /\ (holding'[a] # "none" => code = 1)
               /\ (demo = "smti" /\ holding'[a] = "ours" => Head(steps)[1] = "message"))
                => ProcessOK(a)'
<1>1. /\ pc' = [pc EXCEPT ![a] = "cleanup"]
      /\ exit' = [exit EXCEPT ![a] = code]
      /\ todo' = [todo EXCEPT ![a] = steps]
  BY PlanNotEmpty DEF Leave, Goto
<1>2. /\ pc \in [Apps -> Labels] /\ exit \in [Apps -> {-1, 0, 1}]
      /\ todo = [b \in Apps |-> todo[b]]
  BY DEF IInv, ProcessesTyped
<1>3. /\ pc' \in [Apps -> Labels] /\ pc'[a] = "cleanup"
      /\ \A b \in Apps \ {a} : pc'[b] = pc[b]
  BY <1>1, <1>2 DEF Labels
<1>4. /\ exit' \in [Apps -> {-1, 0, 1}] /\ exit'[a] = code
      /\ \A b \in Apps \ {a} : exit'[b] = exit[b]
  BY <1>1, <1>2
<1>5. /\ todo' = [b \in Apps |-> todo'[b]] /\ todo'[a] = steps
      /\ \A b \in Apps \ {a} : todo'[b] = todo[b]
  BY <1>1, <1>2
<1>6. ASSUME asb' = asb, ends' = ends, demo' = demo,
             holding'[a] # "none" => code = 1,
             demo = "smti" /\ holding'[a] = "ours" => Head(steps)[1] = "message"
      PROVE  ProcessOK(a)'
  <2>1. ProcessOK(a) /\ asb[a] = "up" /\ Live(a) \subseteq Own(a)
    BY DEF IInv, ExitOK, ProcessOK
  <2>2. Live(a)' = Live(a)
    BY <1>6 DEF Live
  <2>3. Plan(steps, Live(a))
    BY <2>1, PlanMonotone
  <2>4. Plan(todo[a], Live(a))'
    BY <1>5, <2>2, <2>3
  <2>5. asb'[a] = "up" /\ pc'[a] = "cleanup"
    BY <1>3, <1>6, <2>1
  <2>6. /\ holding'[a] # "none" => exit'[a] = 1 /\ pc'[a] \in {"cleanup", "ended"}
        /\ demo' = "smti" /\ holding'[a] = "ours" =>
             pc'[a] = "cleanup" /\ Head(todo'[a])[1] = "message"
    BY <1>4, <1>5, <1>6, <2>5
  <2> QED BY <2>4, <2>5, <2>6 DEF ProcessOK
<1> QED BY <1>3, <1>4, <1>5, <1>6

LEMMA ThrowPreserves ==
    ASSUME IInv, NEW a \in Apps, ThrowStep(a)
    PROVE  NothingForgotten /\ Preserved(a)
<1>1. PICK lost, steps :
         /\ lost \in Holders
         /\ Plan(steps, Own(a))
         /\ demo = "smti" /\ lost = "ours" => Head(steps)[1] = "message"
         /\ Fails(a, lost, steps)
         /\ cache' = cache \/ \E topic \in Topics : TakeAll(<<a, topic>>)
         /\ pc[a] \notin {"off", "cleanup", "ended"}
  BY DEF ThrowStep
<1>2. /\ trouble' = trouble + 1 /\ Leave(a, 1, steps)
      /\ holding' = [holding EXCEPT ![a] = lost]
      /\ asb' = asb /\ ends' = ends /\ net' = net /\ demo' = demo
      /\ command' = command /\ heard' = heard /\ told' = told /\ accepted' = accepted
  BY <1>1 DEF Fails, Trouble, dataVars
<1>14. /\ cache' = [e \in Endpoints |-> cache'[e]]
       /\ \A e \in Endpoints : cache'[e] \in {cache[e], <<>>}
  BY <1>1, ReadEmpties
<1>3. /\ pc' \in [Apps -> Labels] /\ exit' \in [Apps -> {-1, 0, 1}]
      /\ todo' = [b \in Apps |-> todo'[b]]
      /\ pc'[a] = "cleanup" /\ exit'[a] = 1 /\ todo'[a] = steps
      /\ \A b \in Apps \ {a} : pc'[b] = pc[b] /\ exit'[b] = exit[b] /\ todo'[b] = todo[b]
  BY <1>1, <1>2, Leaves
<1>4. /\ holding' \in [Apps -> Holders] /\ holding'[a] = lost
      /\ \A b \in Apps \ {a} : holding'[b] = holding[b]
  BY <1>1, <1>2 DEF IInv, ProcessesTyped
<1>5. ProcessesTyped'
  BY <1>2, <1>3, <1>4 DEF IInv, ProcessesTyped
<1>6. DataTyped'
  BY <1>2, <1>14 DEF IInv, DataTyped
<1>7. OthersKept(a)
  BY <1>2, <1>3, <1>4 DEF OthersKept
<1>8. NothingForgotten
  BY <1>1, <1>2, <1>3, <1>7, NothingLost DEF IInv
<1>9. BusOK'
  <2>1. \A b \in Apps, t \in {"Command", "Activity"} : <<b, t>> \in Endpoints
    BY DemoAssumption DEF Endpoints
  <2> QED BY <1>2, <1>8, <1>14, <2>1, BusStays DEF IInv
<1>10. demo \in {"amti", "smti"}
  BY DEF IInv, ProcessesTyped
<1>11. ProcessOK(a)'
  BY <1>1, <1>2, <1>4, <1>10, Leaves
<1>12. a \in Services => ServiceOK(a)'
  BY <1>2, <1>3, <1>8, ServiceMoves
<1>13. a \in Clients => ClientOK(a)'
  BY <1>2, <1>3, <1>8, ClientMoves
<1> QED BY <1>5, <1>6, <1>7, <1>8, <1>9, <1>11, <1>12, <1>13 DEF Preserved, OwnOK

LEMMA TimeoutPreserves ==
    ASSUME IInv, NEW a \in Apps, TimeoutStep(a)
    PROVE  NothingForgotten /\ Preserved(a)
<1>1. PICK steps : Plan(steps, Own(a)) /\ TimesOut(a, steps)
  BY DEF TimeoutStep
<1>2. /\ pc[a] \notin {"off", "cleanup", "ended"} /\ Leave(a, 1, steps)
      /\ trouble' = trouble /\ holding' = holding
      /\ asb' = asb /\ ends' = ends /\ cache' = cache /\ net' = net /\ demo' = demo
      /\ command' = command /\ heard' = heard /\ told' = told /\ accepted' = accepted
  BY <1>1 DEF TimesOut, PastDeadline, Waiting, busVars, dataVars
<1>3. /\ pc' \in [Apps -> Labels] /\ exit' \in [Apps -> {-1, 0, 1}]
      /\ todo' = [b \in Apps |-> todo'[b]]
      /\ pc'[a] = "cleanup" /\ exit'[a] = 1 /\ todo'[a] = steps
      /\ \A b \in Apps \ {a} : pc'[b] = pc[b] /\ exit'[b] = exit[b] /\ todo'[b] = todo[b]
  BY <1>1, <1>2, Leaves
<1>4. holding[a] = "none"
  BY <1>2 DEF IInv, ExitOK, ProcessOK
<1>5. ProcessesTyped'
  BY <1>2, <1>3 DEF IInv, ProcessesTyped
<1>6. DataTyped'
  BY <1>2 DEF IInv, DataTyped
<1>7. OthersKept(a)
  BY <1>2, <1>3 DEF OthersKept
<1>8. NothingForgotten
  BY <1>2, <1>3, <1>7, NothingLost DEF IInv
<1>9. BusOK'
  BY <1>2, <1>8, BusStays DEF IInv
<1>11. ProcessOK(a)'
  BY <1>1, <1>2, <1>4, Leaves
<1>12. a \in Services => ServiceOK(a)'
  BY <1>2, <1>3, <1>8, ServiceMoves
<1>13. a \in Clients => ClientOK(a)'
  BY <1>2, <1>3, <1>8, ClientMoves
<1> QED BY <1>5, <1>6, <1>7, <1>8, <1>9, <1>11, <1>12, <1>13 DEF Preserved, OwnOK

(***************************************************************************)
(* Publications.                                                           *)
(***************************************************************************)

(* A running process goes on running.                                       *)
LEMMA GoesOn ==
    ASSUME IInv, NEW a \in Apps, NEW next \in Labels \ {"off", "cleanup", "ended"},
           pc[a] \notin {"off", "cleanup", "ended"}, Goto(a, next)
    PROVE  /\ pc' \in [Apps -> Labels] /\ pc'[a] = next
           /\ \A b \in Apps \ {a} : pc'[b] = pc[b]
           /\ (asb' = asb /\ ends' = ends /\ demo' = demo /\ exit' = exit /\ holding' = holding)
                => ProcessOK(a)'
<1>1. /\ pc' \in [Apps -> Labels] /\ pc'[a] = next
      /\ \A b \in Apps \ {a} : pc'[b] = pc[b]
  BY DEF Goto, IInv, ProcessesTyped
<1>2. ASSUME asb' = asb, ends' = ends, demo' = demo, exit' = exit, holding' = holding
      PROVE  ProcessOK(a)'
  <2>1. ProcessOK(a)
    BY DEF IInv, ExitOK
  <2>2. holding[a] = "none" /\ exit[a] = -1 /\ asb[a] = "up" /\ Live(a) \subseteq Own(a)
    BY <2>1 DEF ProcessOK
  <2>3. Live(a)' = Live(a)
    BY <1>2 DEF Live
  <2> QED BY <1>1, <1>2, <2>2, <2>3 DEF ProcessOK
<1> QED BY <1>1, <1>2

LEMMA PublishThenPreserves ==
    ASSUME IInv, NEW a \in Apps, NEW topic, NEW body,
           NEW next \in Labels \ {"off", "cleanup", "ended"},
           pc[a] \notin {"off", "cleanup", "ended"},
           PublishThen(a, topic, body, next),
           topic = "Command" => body \in Commands,
           topic # "Activity",
           a \in Services => /\ <<pc[a], next>> \in {<<"capability", "capabilityStatus">>,
                                                    <<"capabilityStatus", "waitStart">>,
                                                    <<"startStatus", "startActivity">>,
                                                    <<"stopStatus", "stopActivity">>},
           a \in Clients => <<pc[a], next>> \in {<<"sendStart", "waitActive">>,
                                                <<"sendStop", "waitCompleted">>}
    PROVE  NothingForgotten /\ Preserved(a)
<1>1. /\ Goto(a, next) /\ Publish(a, topic, body)
      /\ trouble' = trouble /\ holding' = holding /\ exit' = exit /\ todo' = todo
      /\ asb' = asb /\ ends' = ends /\ cache' = cache /\ demo' = demo
      /\ command' = command /\ heard' = heard /\ told' = told /\ accepted' = accepted
  BY DEF PublishThen, Publish, dataVars
<1>2. /\ pc' \in [Apps -> Labels] /\ pc'[a] = next
      /\ \A b \in Apps \ {a} : pc'[b] = pc[b]
  BY <1>1, GoesOn
<1>3. OthersKept(a)
  BY <1>1, <1>2 DEF OthersKept
<1>4. NothingForgotten
  BY <1>1, <1>2, <1>3, NothingLost DEF IInv
<1>5. Commands \subseteq Commands'
  BY <1>4, KnownGrows
<1>6. /\ BusOK'
      /\ net' = [e \in Endpoints |-> net'[e]]
      /\ \A e \in Endpoints : net'[e] = [p \in Publishers |-> net'[e][p]]
  BY <1>1, <1>4, <1>5, BusPublishes
<1>7. ProcessesTyped'
  BY <1>1, <1>2 DEF IInv, ProcessesTyped
<1>8. DataTyped'
  BY <1>1, <1>6 DEF IInv, DataTyped
<1>9. ProcessOK(a)'
  BY <1>1, GoesOn
<1>10. ASSUME a \in Services PROVE ServiceOK(a)'
  <2>1. ServiceOK(a)
    BY <1>10 DEF IInv, FlowOK
  <2>2. /\ pc[a] \in {"capability", "capabilityStatus"} =>
             /\ accepted[a] = <<>> /\ next \in {"capabilityStatus", "waitStart"}
             /\ demo = "smti" => ~command[a].received
        /\ pc[a] = "startStatus" => Len(accepted[a]) = 1 /\ next = "startActivity"
        /\ pc[a] = "stopStatus" => Len(accepted[a]) = 2 /\ next = "stopActivity"
        /\ pc[a] \in {"capability", "capabilityStatus", "startStatus", "stopStatus"}
    BY <1>10, <2>1 DEF ServiceOK
  <2> QED BY <1>1, <1>2, <1>4, <1>10, <2>2, ServiceMoves
<1>11. ASSUME a \in Clients PROVE ClientOK(a)'
  <2>1. exit[a] = -1
    BY DEF IInv, ExitOK, ProcessOK
  <2> QED BY <1>1, <1>2, <1>4, <1>11, <2>1, ClientMoves
<1> QED BY <1>3, <1>4, <1>6, <1>7, <1>8, <1>9, <1>10, <1>11 DEF Preserved, OwnOK

LEMMA TellPreserves ==
    ASSUME IInv, NEW s \in Services, TellStep(s)
    PROVE  NothingForgotten /\ Preserved(s)
<1>1. PICK topic, body, next :
         /\ topic \in {"Capability", "CapabilityStatus", "CommandStatus"}
         /\ PublishThen(s, topic, body, next)
         /\ <<pc[s], next>> \in {<<"capability", "capabilityStatus">>,
                                 <<"capabilityStatus", "waitStart">>,
                                 <<"startStatus", "startActivity">>,
                                 <<"stopStatus", "stopActivity">>}
  BY DEF TellStep
<1>2. /\ next \in Labels \ {"off", "cleanup", "ended"}
      /\ pc[s] \notin {"off", "cleanup", "ended"}
  BY <1>1 DEF Labels
<1>3. s \in Apps /\ s \notin Clients
  BY DemoAssumption
<1> QED BY <1>1, <1>2, <1>3, PublishThenPreserves

LEMMA AskPreserves ==
    ASSUME IInv, NEW c \in Clients, AskStep(c)
    PROVE  NothingForgotten /\ Preserved(c)
<1>1. c \in Apps /\ c \notin Services
  BY DemoAssumption
<1>2. CASE pc[c] = "sendStart" /\ PublishThen(c, "Command", Start(c), "waitActive")
  <2>1. Start(c) \in Commands
    BY <1>2 DEF Commands, Begun
  <2>2. "waitActive" \in Labels \ {"off", "cleanup", "ended"}
    BY DEF Labels
  <2> QED BY <1>1, <1>2, <2>1, <2>2, PublishThenPreserves
<1>3. CASE /\ pc[c] = "sendStop"
           /\ PublishThen(c, "Command", Stop(c, heard[c].activity), "waitCompleted")
  <2>1. PICK x : x = heard[c].activity
    OBVIOUS
  <2>2. x \in Activity
    BY <2>1 DEF IInv, DataTyped
  <2>3. Informed(c, x)
    BY <1>3, <2>1 DEF IInv, FlowOK, ClientOK
  <2>4. Stop(c, x) \in Commands
    <3> DEFINE i == <<c, x>>
    <3>1. i \in {j \in Begun \X Activity : Informed(j[1], j[2])}
      BY <1>3, <2>2, <2>3 DEF Begun, Informed
    <3>2. Stop(c, x) = Stop(i[1], i[2])
      OBVIOUS
    <3> HIDE DEF i
    <3> QED BY <3>1, <3>2 DEF Commands
  <2>5. "waitCompleted" \in Labels \ {"off", "cleanup", "ended"}
    BY DEF Labels
  <2> QED BY <1>1, <1>3, <2>1, <2>4, <2>5, PublishThenPreserves
<1> QED BY <1>2, <1>3 DEF AskStep

LEMMA NoCommandType == NoCommand \in ReceivedCommand /\ ~NoCommand.received
BY DEF NoCommand, ReceivedCommand, Publishers, Activity

LEMMA ActivatePreserves ==
    ASSUME IInv, NEW s \in Services, ActivateStep(s)
    PROVE  NothingForgotten /\ Preserved(s)
<1> DEFINE body == [activity |-> s, state |-> "ACTIVE_UNCONSTRAINED"]
<1>1. /\ pc[s] = "startActivity" /\ Goto(s, "waitStop") /\ Publish(s, "Activity", body)
      /\ trouble' = trouble /\ holding' = holding /\ exit' = exit /\ todo' = todo
      /\ asb' = asb /\ ends' = ends /\ cache' = cache /\ demo' = demo
      /\ heard' = heard /\ told' = told /\ accepted' = accepted
      /\ command' = IF demo = "smti" THEN [command EXCEPT ![s] = NoCommand] ELSE command
  BY DEF ActivateStep, Publish
<1>2. s \in Apps /\ s \notin Clients /\ "waitStop" \in Labels \ {"off", "cleanup", "ended"}
  BY DemoAssumption DEF Labels
<1>3. /\ pc' \in [Apps -> Labels] /\ pc'[s] = "waitStop"
      /\ \A b \in Apps \ {s} : pc'[b] = pc[b]
  BY <1>1, <1>2, GoesOn
<1>4. /\ command' \in [Services -> ReceivedCommand]
      /\ \A x \in Services \ {s} : command'[x] = command[x]
      /\ demo = "smti" => ~command'[s].received
  <2>1. command \in [Services -> ReceivedCommand]
    BY DEF IInv, DataTyped
  <2> QED BY <1>1, <2>1, NoCommandType
<1>5. OthersKept(s)
  BY <1>1, <1>3, <1>4 DEF OthersKept
<1>6. NothingForgotten
  BY <1>1, <1>2, <1>3, <1>5, NothingLost DEF IInv
<1>7. body \in Activities'
  BY DEF Activities
<1>8. /\ BusOK'
      /\ net' = [e \in Endpoints |-> net'[e]]
      /\ \A e \in Endpoints : net'[e] = [p \in Publishers |-> net'[e][p]]
  BY <1>1, <1>2, <1>6, <1>7, BusPublishes
<1>9. ProcessesTyped'
  BY <1>1, <1>3 DEF IInv, ProcessesTyped
<1>10. DataTyped'
  BY <1>1, <1>4, <1>8 DEF IInv, DataTyped
<1>11. ProcessOK(s)'
  BY <1>1, <1>2, GoesOn
<1>12. ServiceOK(s)'
  <2>1. Len(accepted[s]) = 1
    BY <1>1 DEF IInv, FlowOK, ServiceOK
  <2>2. ~(Len(accepted[s]) > 1)
    BY <2>1
  <2>3. accepted'[s] = accepted[s] /\ demo' = demo
    BY <1>1
  <2> QED BY <1>3, <1>4, <1>6, <2>1, <2>2, <2>3, ServiceMoves
<1> QED BY <1>2, <1>5, <1>6, <1>8, <1>9, <1>10, <1>11, <1>12 DEF Preserved, OwnOK

LEMMA CompletePreserves ==
    ASSUME IInv, NEW s \in Services, CompleteStep(s)
    PROVE  NothingForgotten /\ Preserved(s)
<1> DEFINE body == [activity |-> s, state |-> "COMPLETED"]
<1>1. PICK steps : Plan(steps, Own(s)) /\ Leave(s, 0, steps)
  BY DEF CompleteStep
<1>2. /\ pc[s] = "stopActivity" /\ Publish(s, "Activity", body)
      /\ trouble' = trouble /\ holding' = holding
      /\ asb' = asb /\ ends' = ends /\ cache' = cache /\ demo' = demo
      /\ command' = command /\ heard' = heard /\ told' = told /\ accepted' = accepted
  BY DEF CompleteStep, Publish, dataVars
<1>3. s \in Apps /\ s \notin Clients
  BY DemoAssumption
<1>4. /\ pc' \in [Apps -> Labels] /\ exit' \in [Apps -> {-1, 0, 1}]
      /\ todo' = [b \in Apps |-> todo'[b]]
      /\ pc'[s] = "cleanup" /\ exit'[s] = 0 /\ todo'[s] = steps
      /\ \A b \in Apps \ {s} : pc'[b] = pc[b] /\ exit'[b] = exit[b] /\ todo'[b] = todo[b]
  BY <1>1, <1>2, <1>3, Leaves
<1>5. OthersKept(s)
  BY <1>2, <1>4 DEF OthersKept
<1>6. NothingForgotten
  BY <1>2, <1>3, <1>4, <1>5, NothingLost DEF IInv
<1>7. body \in Activities'
  <2>1. Len(accepted[s]) = 2
    BY <1>2 DEF IInv, FlowOK, ServiceOK
  <2>2. Completed(s)'
    BY <1>2, <1>4, <2>1 DEF Completed
  <2> QED BY <2>2 DEF Activities
<1>8. /\ BusOK'
      /\ net' = [e \in Endpoints |-> net'[e]]
      /\ \A e \in Endpoints : net'[e] = [p \in Publishers |-> net'[e][p]]
  BY <1>2, <1>3, <1>6, <1>7, BusPublishes
<1>9. ProcessesTyped'
  BY <1>2, <1>4 DEF IInv, ProcessesTyped
<1>10. DataTyped'
  BY <1>2, <1>8 DEF IInv, DataTyped
<1>11. ProcessOK(s)'
  <2>1. holding[s] = "none"
    BY <1>2, <1>3 DEF IInv, ExitOK, ProcessOK
  <2> QED BY <1>1, <1>2, <1>3, <2>1, Leaves
<1>12. ServiceOK(s)'
  BY <1>2, <1>4, <1>6, ServiceMoves
<1> QED BY <1>3, <1>5, <1>6, <1>8, <1>9, <1>10, <1>11, <1>12 DEF Preserved, OwnOK

(***************************************************************************)
(* A service takes a command.                                              *)
(***************************************************************************)

Received(start, by, activity) ==
    [received |-> TRUE, start |-> start, by |-> by, activity |-> activity]

LEMMA ReceivedFields ==
    ASSUME NEW start \in BOOLEAN, NEW by \in Publishers, NEW activity \in Activity
    PROVE  /\ Received(start, by, activity) \in ReceivedCommand
           /\ Received(start, by, activity).received
           /\ Received(start, by, activity).start = start
           /\ Received(start, by, activity).by = by
           /\ Received(start, by, activity).activity = activity
BY DEF Received, ReceivedCommand

(* What a wanted command says of its sender.                                *)
LEMMA WhatIsKept ==
    ASSUME IInv, NEW s \in Services, pc[s] \in {"waitStart", "waitStop"}, Has(<<s, "Command">>)
    PROVE  /\ Kept(s) \in ReceivedCommand
           /\ ~Kept(s).received /\ demo = "smti" => Kept(s) = command[s]
           /\ Kept(s).received => Kept(s).by \in Senders
           /\ Kept(s).received /\ ~Kept(s).start /\ Kept(s).activity = s =>
                Entitled(Kept(s).by, s)
<1>1. PICK m : m = First(<<s, "Command">>)
  OBVIOUS
<1>2. m \in Commands
  <2>1. cache[<<s, "Command">>] \in Seq(Commands)
    BY DemoAssumption DEF IInv, BusOK, Carries
  <2> QED BY <1>1, <2>1, HeadTailProperties DEF Has, First
<1>3. PICK old : old = command[s]
  OBVIOUS
<1>4. old \in ReceivedCommand /\ (demo = "smti" => ~old.received)
  BY <1>3 DEF IInv, DataTyped, FlowOK, ServiceOK
<1>5. demo \in {"amti", "smti"}
  BY DEF IInv, ProcessesTyped
<1>6. PICK k : k = Kept(s)
  OBVIOUS
<1>7. /\ m.kind = "start" => k = Received(TRUE, m.by, NoActivity)
      /\ m.kind = "stop"  => k = Received(FALSE, m.by, m.activity)
      /\ m.kind = "empty" => k = IF demo = "amti" THEN NoCommand ELSE old
      /\ m.kind = "unset" => k = IF demo = "amti" THEN NoCommand
                                 ELSE Received(FALSE, m.by, NoActivity)
  <2>1. CASE demo = "amti"
    <3>1. k = CASE m.kind = "start" -> [received |-> TRUE, start |-> TRUE,
                                        by |-> m.by, activity |-> NoActivity]
                [] m.kind = "stop"  -> [received |-> TRUE, start |-> FALSE,
                                        by |-> m.by, activity |-> m.activity]
                [] OTHER -> NoCommand
      BY <1>1, <1>6, <2>1 DEF Kept, Amti!CommandListener
    <3> QED BY <2>1, <3>1 DEF Received
  <2>2. CASE demo = "smti"
    <3>1. k = IF m.kind = "empty" THEN old
              ELSE [received |-> TRUE, start |-> m.kind = "start", by |-> m.by,
                    activity |-> IF m.kind = "stop" THEN m.activity ELSE NoActivity]
      BY <1>1, <1>3, <1>6, <2>2 DEF Kept, Smti!commandListener
    <3>2. m.kind = "start" => k = Received(TRUE, m.by, NoActivity)
      BY <3>1 DEF Received
    <3>3. m.kind = "stop" => k = Received(FALSE, m.by, m.activity)
      BY <3>1 DEF Received
    <3>4. m.kind = "unset" => k = Received(FALSE, m.by, NoActivity)
      BY <3>1 DEF Received
    <3>5. m.kind = "empty" => k = old
      BY <3>1
    <3> QED BY <2>2, <3>2, <3>3, <3>4, <3>5
  <2> QED BY <1>5, <2>1, <2>2
<1>8. /\ s # NoActivity /\ NoActivity \in Activity /\ Stranger \in Publishers
      /\ Clients \subseteq Publishers
  BY DemoAssumption DEF Activity, Publishers
<1>9. CASE \E c \in Begun : m = Start(c)
  <2>1. PICK c \in Begun : m = Start(c)
    BY <1>9
  <2>2. m.kind = "start" /\ m.by = c /\ c \in Publishers /\ c \in Senders
    BY <2>1, <1>8 DEF Start, Begun, Senders
  <2>3. k = Received(TRUE, c, NoActivity)
    BY <1>7, <2>2
  <2>4. k \in ReceivedCommand /\ k.received /\ k.start /\ k.by = c
    BY <1>8, <2>2, <2>3 DEF Received, ReceivedCommand
  <2> QED BY <1>6, <2>2, <2>4
<1>10. CASE \E i \in Begun \X Activity : Informed(i[1], i[2]) /\ m = Stop(i[1], i[2])
  <2>1. PICK c \in Begun, x \in Activity : Informed(c, x) /\ m = Stop(c, x)
    BY <1>10
  <2>2. /\ m.kind = "stop" /\ m.by = c /\ m.activity = x /\ c \in Publishers /\ c \in Senders
    BY <2>1, <1>8 DEF Stop, Begun, Senders
  <2>3. k = Received(FALSE, c, x)
    BY <1>7, <2>2
  <2>4. k \in ReceivedCommand /\ k.received /\ ~k.start /\ k.by = c /\ k.activity = x
    BY <2>2, <2>3 DEF Received, ReceivedCommand
  <2>5. x = s => Entitled(Kept(s).by, s)
    BY <1>6, <2>1, <2>2, <2>4 DEF Entitled, Informed
  <2> QED BY <1>6, <2>2, <2>4, <2>5
<1>11. CASE m \in Strange /\ trouble > 0
  <2>1. /\ m.by = Stranger /\ m.activity \in Activity
        /\ m.kind \in {"start", "stop", "unset", "empty"}
    BY <1>8, <1>11 DEF Strange, Start, Stop, Unset, Empty
  <2>2. PICK x : x = m.activity
    OBVIOUS
  <2>3. \/ \E b \in BOOLEAN, y \in Activity : k = Received(b, Stranger, y)
        \/ demo = "amti" /\ k = NoCommand
        \/ demo = "smti" /\ k = old
    BY <1>5, <1>7, <1>8, <2>1, <2>2
  <2>4. Stranger \in Senders /\ Entitled(Stranger, s)
    BY <1>11 DEF Senders, Entitled
  <2>5. CASE \E b \in BOOLEAN, y \in Activity : k = Received(b, Stranger, y)
    <3>1. k \in ReceivedCommand /\ k.received /\ k.by = Stranger
      BY <1>8, <2>5, ReceivedFields
    <3> QED BY <1>6, <2>4, <3>1
  <2>6. CASE demo = "amti" /\ k = NoCommand
    BY <1>6, <2>6, NoCommandType
  <2>7. CASE demo = "smti" /\ k = old
    BY <1>3, <1>4, <1>6, <2>7
  <2> QED BY <2>3, <2>5, <2>6, <2>7
<1> QED BY <1>2, <1>9, <1>10, <1>11 DEF Commands

Order(k) == [by |-> k.by, start |-> k.start]

LEMMA TakeMeans ==
    ASSUME NEW s \in Services, TakeStep(s)
    PROVE  /\ pc[s] \in {"waitStart", "waitStop"} /\ Has(<<s, "Command">>)
           /\ cache' = [cache EXCEPT ![<<s, "Command">>] = <<>>]
           /\ command' = [command EXCEPT ![s] = Kept(s)]
           /\ asb' = asb /\ ends' = ends /\ net' = net /\ demo' = demo /\ holding' = holding
           /\ heard' = heard /\ told' = told /\ trouble' = trouble
           /\ \/ /\ ~Kept(s).received
                 /\ accepted' = accepted /\ exit' = exit /\ todo' = todo /\ pc' = pc
              \/ /\ Kept(s).received
                 /\ accepted' = [accepted EXCEPT ![s] = Append(@, Order(Kept(s)))]
                 /\ exit' = exit /\ todo' = todo
                 /\ \/ pc[s] = "waitStart" /\ Kept(s).start /\ Goto(s, "startStatus")
                    \/ /\ pc[s] = "waitStop" /\ ~Kept(s).start /\ Kept(s).activity = s
                       /\ Goto(s, "stopStatus")
              \/ \E steps : /\ Plan(steps, Own(s)) /\ Leave(s, 1, steps)
                            /\ accepted' = accepted
<1>1. PICK steps :
        /\ Plan(steps, Own(s))
        /\ \/ /\ pc[s] = "waitStart"
              /\ TakeCommand(s, Kept(s), Kept(s).start, "startStatus", steps)
           \/ /\ pc[s] = "waitStop"
              /\ TakeCommand(s, Kept(s), ~Kept(s).start /\ Kept(s).activity = s, "stopStatus", steps)
  BY DEF TakeStep
<1>2. CASE /\ pc[s] = "waitStart"
           /\ TakeCommand(s, Kept(s), Kept(s).start, "startStatus", steps)
  BY <1>1, <1>2 DEF TakeCommand, TakeAll, Order
<1>3. CASE /\ pc[s] = "waitStop"
           /\ TakeCommand(s, Kept(s), ~Kept(s).start /\ Kept(s).activity = s, "stopStatus", steps)
  BY <1>1, <1>3 DEF TakeCommand, TakeAll, Order
<1> QED BY <1>1, <1>2, <1>3

LEMMA TakePreserves ==
    ASSUME IInv, NEW s \in Services, TakeStep(s)
    PROVE  NothingForgotten /\ Preserved(s)
<1>1. /\ pc[s] \in {"waitStart", "waitStop"} /\ Has(<<s, "Command">>)
      /\ cache' = [cache EXCEPT ![<<s, "Command">>] = <<>>]
      /\ command' = [command EXCEPT ![s] = Kept(s)]
      /\ asb' = asb /\ ends' = ends /\ net' = net /\ demo' = demo /\ holding' = holding
      /\ heard' = heard /\ told' = told /\ trouble' = trouble
  BY TakeMeans
<1>2. PICK k : k = Kept(s)
  OBVIOUS
<1>3. /\ k \in ReceivedCommand
      /\ ~k.received /\ demo = "smti" => k = command[s]
      /\ k.received => k.by \in Senders
      /\ k.received /\ ~k.start /\ k.activity = s => Entitled(k.by, s)
  BY <1>1, <1>2, WhatIsKept
<1>4. s \in Apps /\ s \notin Clients /\ <<s, "Command">> \in Endpoints
  BY DemoAssumption DEF Endpoints
<1>5. /\ command' \in [Services -> ReceivedCommand] /\ command'[s] = k
      /\ \A x \in Services \ {s} : command'[x] = command[x]
  BY <1>1, <1>2, <1>3 DEF IInv, DataTyped
<1>6. /\ \A e \in Endpoints : net[e] = [p \in Publishers |-> net[e][p]]
      /\ net = [e \in Endpoints |-> net[e]]
      /\ heard \in [Clients -> [count : Nat, state : States, activity : Activity]]
      /\ told \in [Clients -> SUBSET Activity]
      /\ accepted \in [Services -> Seq([by : Publishers, start : BOOLEAN])]
  BY DEF IInv, DataTyped
<1>7. ServiceOK(s) /\ ProcessOK(s) /\ ProcessesTyped
  BY <1>4 DEF IInv, FlowOK, ExitOK
<1>8. CASE /\ ~k.received
           /\ accepted' = accepted /\ exit' = exit /\ todo' = todo /\ pc' = pc
  <2>1. OthersKept(s)
    BY <1>1, <1>5, <1>8 DEF OthersKept
  <2>2. NothingForgotten
    BY <1>1, <1>4, <1>7, <1>8, <2>1, NothingLost
  <2>3. BusOK' /\ cache' = [r \in Endpoints |-> cache'[r]]
    BY <1>1, <1>4, <2>2, ReadKeeps
  <2>4. ProcessesTyped'
    BY <1>1, <1>7, <1>8 DEF ProcessesTyped
  <2>5. DataTyped'
    BY <1>1, <1>5, <1>6, <1>8, <2>3 DEF DataTyped
  <2>6. ProcessOK(s)'
    BY <1>1, <1>7, <1>8 DEF ProcessOK, Live, AllCreated
  <2>7. ServiceOK(s)'
    <3>1. /\ pc[s] = "waitStart" => accepted[s] = <<>>
          /\ pc[s] = "waitStop" => Len(accepted[s]) = 1
      BY <1>7 DEF ServiceOK
    <3> QED BY <1>1, <1>5, <1>8, <2>2, <3>1, ServiceMoves
  <2> QED BY <1>4, <2>1, <2>2, <2>3, <2>4, <2>5, <2>6, <2>7 DEF Preserved, OwnOK
<1>9. CASE \E steps : /\ Plan(steps, Own(s)) /\ Leave(s, 1, steps)
                      /\ accepted' = accepted
  <2>1. PICK steps : /\ Plan(steps, Own(s)) /\ Leave(s, 1, steps)
                     /\ accepted' = accepted
    BY <1>9
  <2>2. /\ pc' \in [Apps -> Labels] /\ exit' \in [Apps -> {-1, 0, 1}]
        /\ todo' = [b \in Apps |-> todo'[b]]
        /\ pc'[s] = "cleanup" /\ exit'[s] = 1 /\ todo'[s] = steps
        /\ \A b \in Apps \ {s} : pc'[b] = pc[b] /\ exit'[b] = exit[b] /\ todo'[b] = todo[b]
    BY <1>1, <1>4, <2>1, Leaves
  <2>3. OthersKept(s)
    BY <1>1, <1>5, <2>1, <2>2 DEF OthersKept
  <2>4. NothingForgotten
    BY <1>1, <1>4, <1>7, <2>1, <2>2, <2>3, NothingLost
  <2>5. BusOK' /\ cache' = [r \in Endpoints |-> cache'[r]]
    BY <1>1, <1>4, <2>4, ReadKeeps
  <2>6. ProcessesTyped'
    BY <1>1, <1>7, <2>2 DEF ProcessesTyped
  <2>7. DataTyped'
    BY <1>1, <1>5, <1>6, <2>1, <2>5 DEF DataTyped
  <2>8. ProcessOK(s)'
    <3>1. holding[s] = "none"
      BY <1>1, <1>7 DEF ProcessOK
    <3> QED BY <1>1, <1>4, <2>1, <3>1, Leaves
  <2>9. ServiceOK(s)'
    <3>1. Len(accepted[s]) <= 1
      BY <1>1, <1>7 DEF ServiceOK
    <3>2. ~(Len(accepted[s]) > 1)
      BY <1>6, <3>1
    <3> QED BY <1>1, <2>1, <2>2, <2>4, <3>2, ServiceMoves
  <2> QED BY <1>4, <2>3, <2>4, <2>5, <2>6, <2>7, <2>8, <2>9 DEF Preserved, OwnOK
<1>10. CASE /\ k.received
            /\ accepted' = [accepted EXCEPT ![s] = Append(@, Order(k))]
            /\ exit' = exit /\ todo' = todo
            /\ \/ pc[s] = "waitStart" /\ k.start /\ Goto(s, "startStatus")
               \/ /\ pc[s] = "waitStop" /\ ~k.start /\ k.activity = s
                  /\ Goto(s, "stopStatus")
  <2>1. PICK next \in {"startStatus", "stopStatus"} :
           /\ Goto(s, next)
           /\ next = "startStatus" => pc[s] = "waitStart" /\ k.start
           /\ next = "stopStatus" => pc[s] = "waitStop" /\ ~k.start /\ k.activity = s
    BY <1>10
  <2>2. next \in Labels \ {"off", "cleanup", "ended"}
    BY <2>1 DEF Labels
  <2>3. /\ pc' \in [Apps -> Labels] /\ pc'[s] = next
        /\ \A b \in Apps \ {s} : pc'[b] = pc[b]
    BY <1>1, <1>4, <2>1, <2>2, GoesOn
  <2>4. ProcessOK(s)'
    BY <1>1, <1>4, <1>10, <2>1, <2>2, GoesOn
  <2>5. PICK order : order = Order(k)
    OBVIOUS
  <2>6. /\ order \in [by : Publishers, start : BOOLEAN]
        /\ order.by = k.by /\ order.start = k.start
    BY <1>3, <2>5 DEF Order, ReceivedCommand
  <2>7. /\ accepted' \in [Services -> Seq([by : Publishers, start : BOOLEAN])]
        /\ accepted'[s] = Append(accepted[s], order)
        /\ \A x \in Services \ {s} : accepted'[x] = accepted[x]
    BY <1>6, <1>10, <2>5, <2>6, AppendProperties
  <2>8. OthersKept(s)
    BY <1>1, <1>5, <1>10, <2>3, <2>7 DEF OthersKept
  <2>9. NothingForgotten
    BY <1>1, <1>4, <1>7, <2>1, <2>3, <2>8, NothingLost
  <2>10. BusOK' /\ cache' = [r \in Endpoints |-> cache'[r]]
    BY <1>1, <1>4, <2>9, ReadKeeps
  <2>11. ProcessesTyped'
    BY <1>1, <1>7, <1>10, <2>3 DEF ProcessesTyped
  <2>12. DataTyped'
    BY <1>1, <1>5, <1>6, <2>7, <2>10 DEF DataTyped
  <2>13. ServiceOK(s)'
    <3>1. PICK x : x = accepted[s][1].by
      OBVIOUS
    <3>2. PICK y : y = k.by
      OBVIOUS
    <3>3. /\ x \in Senders => x \in Senders'
          /\ y \in Senders => y \in Senders'
          /\ Entitled(y, s) => Entitled(y, s)'
      BY <2>9, KnownGrows
    <3>4. CASE next = "startStatus"
      <4>1. accepted[s] = <<>>
        BY <1>7, <2>1, <3>4 DEF ServiceOK
      <4>2. Len(accepted'[s]) = 1 /\ accepted'[s][1] = order
        BY <2>7, <4>1
      <4>3. accepted'[s][1].start /\ accepted'[s][1].by \in Senders'
        BY <1>3, <1>10, <2>1, <2>6, <3>2, <3>3, <3>4, <4>2
      <4> QED BY <2>3, <3>4, <4>2, <4>3 DEF ServiceOK
    <3>5. CASE next = "stopStatus"
      <4>1. Len(accepted[s]) = 1 /\ accepted[s][1].start /\ x \in Senders
        BY <1>7, <2>1, <3>1, <3>5 DEF ServiceOK
      <4>2. /\ Len(accepted'[s]) = 2 /\ accepted'[s][1] = accepted[s][1]
            /\ accepted'[s][2] = order
        <5>1. PICK log : log = accepted[s]
          OBVIOUS
        <5>2. log \in Seq([by : Publishers, start : BOOLEAN]) /\ Len(log) = 1
          BY <1>6, <4>1, <5>1
        <5>3. /\ Len(Append(log, order)) = Len(log) + 1
              /\ \A i \in 1 .. Len(log) : Append(log, order)[i] = log[i]
              /\ Append(log, order)[Len(log) + 1] = order
          <6> DEFINE Orders == [by : Publishers, start : BOOLEAN]
          <6>1. log \in Seq(Orders) /\ order \in Orders
            BY <2>6, <5>2
          <6> HIDE DEF Orders
          <6> QED BY <6>1, AppendProperties
        <5>4. Len(log) + 1 = 2 /\ 1 \in 1 .. Len(log)
          BY <5>2
        <5> QED BY <2>7, <5>1, <5>3, <5>4
      <4>3. accepted'[s][1].start /\ accepted'[s][1].by \in Senders'
        BY <3>1, <3>3, <4>1, <4>2
      <4>4. Entitled(y, s)
        BY <1>3, <1>10, <2>1, <3>2, <3>5
      <4>5. /\ ~accepted'[s][2].start /\ accepted'[s][2].by = y /\ Entitled(y, s)'
            /\ command'[s].activity = s
        BY <1>5, <2>1, <2>6, <3>2, <3>3, <3>5, <4>2, <4>4
      <4>6. Entitled(accepted[s][2].by, s)'
        BY <4>5 DEF Entitled, Informed
      <4> QED BY <2>3, <3>5, <4>2, <4>3, <4>5, <4>6 DEF ServiceOK
    <3> QED BY <2>1, <3>4, <3>5
  <2> QED BY <1>4, <2>4, <2>8, <2>9, <2>10, <2>11, <2>12, <2>13 DEF Preserved, OwnOK
<1> QED BY <1>2, <1>8, <1>9, <1>10, TakeMeans

(***************************************************************************)
(* A client takes a status or an activity.                                 *)
(***************************************************************************)

(* What the client knows after it.                                          *)
LEMMA WhatIsHeard ==
    ASSUME IInv, NEW c \in Clients, NEW kept,
           \/ kept = Counted(heard[c])
           \/ /\ kept = Noted(heard[c], First(<<c, "Activity">>))
              /\ Has(<<c, "Activity">>)
    PROVE  /\ kept \in [count : Nat, state : States, activity : Activity]
           /\ kept.count >= heard[c].count
           /\ kept.state # "" => kept.activity \in Services
           /\ kept.state = "COMPLETED" => Completed(kept.activity)
<1>1. PICK h : h = heard[c]
  OBVIOUS
<1>2. h \in [count : Nat, state : States, activity : Activity]
  BY <1>1 DEF IInv, DataTyped
<1>3. /\ h.state # "" => h.activity \in Services
      /\ h.state = "COMPLETED" => Completed(h.activity)
  BY <1>1 DEF IInv, FlowOK, ClientOK
<1>4. CASE kept = Counted(h)
  <2>1. /\ kept \in [count : Nat, state : States, activity : Activity]
        /\ kept.count >= h.count /\ kept.state = h.state /\ kept.activity = h.activity
    BY <1>2, <1>4 DEF Counted
  <2> QED BY <1>1, <1>3, <2>1
<1>5. CASE kept = Noted(h, First(<<c, "Activity">>)) /\ Has(<<c, "Activity">>)
  <2>1. PICK m : m = First(<<c, "Activity">>)
    OBVIOUS
  <2>2. m \in Activities
    <3>1. cache[<<c, "Activity">>] \in Seq(Activities)
      BY DemoAssumption DEF IInv, BusOK, Carries
    <3> QED BY <1>5, <2>1, <3>1, HeadTailProperties DEF Has, First
  <2>3. /\ m.activity \in Services /\ m.state \in {"ACTIVE_UNCONSTRAINED", "COMPLETED"}
        /\ m.state = "COMPLETED" => Completed(m.activity)
    BY <2>2 DEF Activities
  <2>4. /\ kept \in [count : Nat, state : States, activity : Activity]
        /\ kept.count = h.count /\ kept.state = m.state /\ kept.activity = m.activity
    BY <1>2, <1>5, <2>1, <2>3 DEF Noted, States, Activity
  <2>5. kept.count >= h.count
    BY <1>2, <2>4
  <2>6. kept.activity \in Services /\ (kept.state = "COMPLETED" => Completed(kept.activity))
    BY <2>3, <2>4
  <2> QED BY <1>1, <2>4, <2>5, <2>6
<1> QED BY <1>1, <1>4, <1>5

(* What a step that counts a status or notes an activity does (TakeAll, the *)
(* counters of waitForClientUpdates and what follows it).                   *)
Updated(c, topic, kept) ==
    /\ \/ topic = "CommandStatus" /\ kept = Counted(heard[c])
       \/ topic = "Activity" /\ kept = Noted(heard[c], First(<<c, "Activity">>))
    /\ Has(<<c, topic>>)
    /\ pc[c] \in {"waitActive", "waitCompleted"}
    /\ cache' = [cache EXCEPT ![<<c, topic>>] = <<>>]
    /\ heard' = [heard EXCEPT ![c] = kept]
    /\ told' = [told EXCEPT ![c] = @ \cup {kept.activity}]
    /\ asb' = asb /\ ends' = ends /\ net' = net /\ overrun' = overrun /\ demo' = demo
    /\ holding' = holding /\ command' = command /\ accepted' = accepted
    /\ trouble' = trouble
    /\ \/ pc' = pc /\ exit' = exit /\ todo' = todo
       \/ /\ pc[c] = "waitActive" /\ HasBoth(kept, Target("waitActive"))
          /\ Goto(c, "sendStop") /\ exit' = exit /\ todo' = todo
       \/ /\ pc[c] = "waitCompleted" /\ HasBoth(kept, Target("waitCompleted"))
          /\ \E steps : Plan(steps, Own(c)) /\ Leave(c, 0, steps)

LEMMA UpdateMeans ==
    ASSUME NEW c \in Clients, UpdateStep(c)
    PROVE  \E topic \in {"CommandStatus", "Activity"} : \E kept : Updated(c, topic, kept)
<1>1. PICK topic, kept, steps :
        /\ topic \in {"CommandStatus", "Activity"}
        /\ Plan(steps, Own(c)) /\ Update(c, topic, kept, steps)
        /\ \/ topic = "CommandStatus" /\ kept = Counted(heard[c])
           \/ topic = "Activity" /\ kept = Noted(heard[c], First(<<c, "Activity">>))
        /\ Has(<<c, topic>>)
  BY DEF UpdateStep, Update
<1> SUFFICES Updated(c, topic, kept)
  BY <1>1
<1> USE DEF Updated
<1>2. pc[c] \in {"waitActive", "waitCompleted"}
  BY DEF UpdateStep
<1>3. PICK label : label = pc[c]
  OBVIOUS
<1>4. CASE ~HasBoth(kept, Target(pc[c]))
  BY <1>1, <1>2, <1>4 DEF Update, TakeAll, flowVars
<1>5. CASE HasBoth(kept, Target(label)) /\ label = "waitActive"
  <2>1. HasBoth(kept, Target("waitActive"))
    BY <1>5
  <2>2. Goto(c, "sendStop") /\ exit' = exit /\ todo' = todo /\ holding' = holding
    BY <1>1, <1>3, <1>5 DEF Update
  <2> QED BY <1>1, <1>2, <1>3, <1>5, <2>1, <2>2 DEF Update, TakeAll
<1>6. CASE HasBoth(kept, Target(label)) /\ label = "waitCompleted"
  <2>1. HasBoth(kept, Target("waitCompleted"))
    BY <1>6
  <2>2. Leave(c, 0, steps) /\ holding' = holding
    BY <1>1, <1>3, <1>6 DEF Update
  <2> QED BY <1>1, <1>2, <1>3, <1>6, <2>1, <2>2 DEF Update, TakeAll
<1> QED BY <1>2, <1>3, <1>4, <1>5, <1>6

LEMMA UpdatePreserves ==
    ASSUME IInv, NEW c \in Clients, UpdateStep(c)
    PROVE  NothingForgotten /\ Preserved(c)
<1>1. PICK topic, kept : topic \in {"CommandStatus", "Activity"} /\ Updated(c, topic, kept)
  BY UpdateMeans
<1> USE DEF Updated
<1>2. /\ kept \in [count : Nat, state : States, activity : Activity]
      /\ kept.count >= heard[c].count
      /\ kept.state # "" => kept.activity \in Services
      /\ kept.state = "COMPLETED" => Completed(kept.activity)
  BY <1>1, WhatIsHeard
<1>3. c \in Apps /\ c \notin Services /\ <<c, topic>> \in Endpoints
  BY <1>1, DemoAssumption DEF Endpoints
<1>4. /\ net = [e \in Endpoints |-> net[e]]
      /\ \A e \in Endpoints : net[e] = [p \in Publishers |-> net[e][p]]
      /\ command \in [Services -> ReceivedCommand]
      /\ heard \in [Clients -> [count : Nat, state : States, activity : Activity]]
      /\ told \in [Clients -> SUBSET Activity]
      /\ accepted \in [Services -> Seq([by : Publishers, start : BOOLEAN])]
  BY DEF IInv, DataTyped
<1>5. ClientOK(c) /\ ProcessOK(c) /\ ProcessesTyped
  BY <1>3 DEF IInv, FlowOK, ExitOK
<1>6. /\ heard' \in [Clients -> [count : Nat, state : States, activity : Activity]]
      /\ heard'[c] = kept
      /\ \A d \in Clients \ {c} : heard'[d] = heard[d]
  BY <1>1, <1>2, <1>4
<1>7. /\ told' \in [Clients -> SUBSET Activity]
      /\ told'[c] = told[c] \cup {kept.activity}
      /\ \A d \in Clients \ {c} : told'[d] = told[d]
  BY <1>1, <1>2, <1>4
<1>7a. heard[c].count \in Nat /\ kept.count \in Nat
  <2>1. heard[c] \in [count : Nat, state : States, activity : Activity]
    BY <1>4
  <2> QED BY <1>2, <2>1
<1>8. holding[c] = "none" /\ exit[c] = -1
  BY <1>1, <1>5 DEF ProcessOK
<1>9. /\ pc' \in [Apps -> Labels] /\ exit' \in [Apps -> {-1, 0, 1}]
      /\ todo' = [b \in Apps |-> todo'[b]]
      /\ \A b \in Apps \ {c} : pc'[b] = pc[b] /\ exit'[b] = exit[b] /\ todo'[b] = todo[b]
      /\ ProcessOK(c)'
      /\ \/ pc'[c] = pc[c] /\ exit'[c] = -1
         \/ pc'[c] = "sendStop" /\ HasBoth(kept, Target("waitActive")) /\ exit'[c] = -1
         \/ pc'[c] = "cleanup" /\ HasBoth(kept, Target("waitCompleted"))
  <2>1. CASE pc' = pc /\ exit' = exit /\ todo' = todo
    <3>1. ProcessOK(c)'
      BY <1>1, <1>5, <2>1 DEF ProcessOK, Live, AllCreated
    <3> QED BY <1>5, <1>8, <2>1, <3>1 DEF ProcessesTyped
  <2>2. CASE /\ pc[c] = "waitActive" /\ HasBoth(kept, Target("waitActive"))
             /\ Goto(c, "sendStop") /\ exit' = exit /\ todo' = todo
    <3>1. "sendStop" \in Labels \ {"off", "cleanup", "ended"}
      BY DEF Labels
    <3>2. /\ pc' \in [Apps -> Labels] /\ pc'[c] = "sendStop"
          /\ \A b \in Apps \ {c} : pc'[b] = pc[b]
          /\ ProcessOK(c)'
      BY <1>1, <1>3, <2>2, <3>1, GoesOn
    <3> QED BY <1>5, <1>8, <2>2, <3>2 DEF ProcessesTyped
  <2>3. CASE /\ pc[c] = "waitCompleted" /\ HasBoth(kept, Target("waitCompleted"))
             /\ \E steps : Plan(steps, Own(c)) /\ Leave(c, 0, steps)
    <3>1. PICK steps : Plan(steps, Own(c)) /\ Leave(c, 0, steps)
      BY <2>3
    <3>2. /\ pc' \in [Apps -> Labels] /\ exit' \in [Apps -> {-1, 0, 1}]
          /\ todo' = [b \in Apps |-> todo'[b]]
          /\ pc'[c] = "cleanup"
          /\ \A b \in Apps \ {c} : pc'[b] = pc[b] /\ exit'[b] = exit[b] /\ todo'[b] = todo[b]
      BY <1>3, <2>3, <3>1, Leaves
    <3>3. ProcessOK(c)'
      BY <1>1, <1>3, <1>8, <2>3, <3>1, Leaves
    <3> QED BY <2>3, <3>2, <3>3
  <2> QED BY <1>1, <2>1, <2>2, <2>3
<1>10. OthersKept(c)
  BY <1>1, <1>3, <1>6, <1>7, <1>9 DEF OthersKept
<1>11. NothingForgotten
  <2>1. pc'[c] # "off"
    BY <1>1, <1>9
  <2>2. told[c] \subseteq told'[c]
    BY <1>7
  <2>3. heard[c].count > 0 => heard'[c].count > 0
    <3>1. kept.count >= heard[c].count /\ heard'[c].count = kept.count
      BY <1>2, <1>6
    <3> QED BY <1>7a, <3>1
  <2> QED BY <1>1, <1>3, <1>5, <1>10, <2>1, <2>2, <2>3, NothingLost
<1>12. BusOK' /\ cache' = [r \in Endpoints |-> cache'[r]]
  BY <1>1, <1>3, <1>11, ReadKeeps
<1>13. ProcessesTyped'
  BY <1>1, <1>5, <1>9 DEF ProcessesTyped
<1>14. DataTyped'
  BY <1>1, <1>4, <1>6, <1>7, <1>12 DEF DataTyped
<1>15. ClientOK(c)'
  <2>1. PICK x : x = kept.activity
    OBVIOUS
  <2>2. x \in Services /\ Completed(x) => Completed(x)'
    BY <1>11 DEF NothingForgotten
  <2>3. kept.state = "COMPLETED" => Completed(heard[c].activity)'
    BY <1>2, <1>6, <2>1, <2>2, <1>3 DEF Completed, States
  <2>4. pc'[c] \in {"sendStop", "waitCompleted"} => kept.count > 0
    <3>1. pc[c] = "waitCompleted" => heard[c].count > 0
      BY <1>5 DEF ClientOK, Informed
    <3>2. HasBoth(kept, Target("waitActive")) => kept.count > 0
      BY <1>7a DEF HasBoth, Target
    <3>3. heard[c].count > 0 => kept.count > 0
      <4>1. kept.count >= heard[c].count
        BY <1>2
      <4> QED BY <1>7a, <4>1
    <3> QED BY <1>1, <1>9, <3>1, <3>2, <3>3
  <2>5. pc'[c] \in {"sendStop", "waitCompleted"} => Informed(c, heard[c].activity)'
    BY <1>6, <1>7, <2>4 DEF Informed
  <2>6. exit'[c] = 0 => pc'[c] = "cleanup" /\ kept.state = "COMPLETED"
    BY <1>9 DEF HasBoth, Target
  <2> QED BY <1>2, <1>6, <2>3, <2>5, <2>6 DEF ClientOK
<1> QED BY <1>3, <1>9, <1>10, <1>11, <1>12, <1>13, <1>14, <1>15 DEF Preserved, OwnOK

(***************************************************************************)
(* A process begins.                                                       *)
(***************************************************************************)

LEMMA EndsMade ==
    ASSUME IInv, NEW a \in Apps, pc[a] = "off", NEW made \in SUBSET Topics, NEW writes,
           CreateEnds(a, made, writes)
    PROVE  /\ ends' \in [Endpoints -> {"none", "writer", "reader", "closed", "gone"}]
           /\ \A b \in Apps \ {a}, t \in Topics : ends'[<<b, t>>] = ends[<<b, t>>]
           /\ Live(a)' = made
           /\ \A t \in Topics \ made : ends'[<<a, t>>] = "none"
<1>1. ends \in [Endpoints -> {"none", "writer", "reader", "closed", "gone"}]
  BY DEF IInv, ProcessesTyped
<1>2. \A t \in Topics : ends[<<a, t>>] = "none"
  BY DEF IInv, ExitOK, ProcessOK
<1>3. ends' = [e \in Endpoints |->
                 IF e[1] = a /\ e[2] \in made
                   THEN IF e[2] \in writes THEN "writer" ELSE "reader"
                   ELSE ends[e]]
  BY DEF CreateEnds
<1>4. \A b \in Apps, t \in Topics : <<b, t>> \in Endpoints
  BY DEF Endpoints
<1>5. ends' \in [Endpoints -> {"none", "writer", "reader", "closed", "gone"}]
  BY <1>1, <1>3
<1>6. \A b \in Apps \ {a}, t \in Topics : ends'[<<b, t>>] = ends[<<b, t>>]
  BY <1>3, <1>4
<1>7. \A t \in made : ends'[<<a, t>>] \in {"writer", "reader"}
  BY <1>3, <1>4
<1>8. \A t \in Topics \ made : ends'[<<a, t>>] = "none"
  BY <1>2, <1>3, <1>4
<1>9. Live(a)' = made
  BY <1>7, <1>8 DEF Live
<1> QED BY <1>5, <1>6, <1>8, <1>9

(* What is common to the ways a process begins.                             *)
LEMMA BeginsKeeps ==
    ASSUME IInv, NEW a \in Apps, pc[a] = "off",
           cache' = cache, net' = net, demo' = demo, holding' = holding,
           command' = command, heard' = heard, told' = told, accepted' = accepted,
           trouble' \in {trouble, trouble + 1},
           asb' \in [Apps -> {"none", "up", "gone"}],
           ends' \in [Endpoints -> {"none", "writer", "reader", "closed", "gone"}],
           pc' \in [Apps -> Labels], exit' \in [Apps -> {-1, 0, 1}],
           todo' = [b \in Apps |-> todo'[b]],
           \A b \in Apps \ {a} : /\ asb'[b] = asb[b] /\ pc'[b] = pc[b] /\ exit'[b] = exit[b]
                                 /\ todo'[b] = todo[b]
                                 /\ \A t \in Topics : ends'[<<b, t>>] = ends[<<b, t>>],
           pc'[a] \in {"capability", "sendStart", "cleanup", "ended"},
           exit'[a] # 0,
           ProcessOK(a)'
    PROVE  NothingForgotten /\ Preserved(a)
<1>1. ProcessesTyped'
  BY DEF IInv, ProcessesTyped
<1>2. DataTyped'
  BY DEF IInv, DataTyped
<1>3. OthersKept(a)
  BY DEF OthersKept
<1>4. NothingForgotten
  BY <1>3, NothingLost DEF IInv
<1>5. BusOK'
  BY <1>4, BusStays DEF IInv
<1>6. ASSUME a \in Services PROVE ServiceOK(a)'
  <2>1. accepted[a] = <<>> /\ (demo = "smti" => ~command[a].received)
    BY <1>6 DEF IInv, FlowOK, ServiceOK
  <2> QED BY <1>4, <1>6, <2>1, ServiceMoves
<1>7. a \in Clients => ClientOK(a)'
  BY <1>4, ClientMoves
<1> QED BY <1>1, <1>2, <1>3, <1>4, <1>5, <1>6, <1>7 DEF Preserved, OwnOK

LEMMA BeginPreserves ==
    ASSUME IInv, NEW a \in Apps, BeginStep(a)
    PROVE  NothingForgotten /\ Preserved(a)
<1>1. /\ pc[a] = "off"
      /\ cache' = cache /\ net' = net /\ demo' = demo /\ holding' = holding
      /\ command' = command /\ heard' = heard /\ told' = told /\ accepted' = accepted
  BY DEF BeginStep, dataVars
<1>2. /\ ProcessesTyped /\ ProcessOK(a)
      /\ asb[a] = "none" /\ exit[a] = -1 /\ holding[a] = "none" /\ demo \in {"amti", "smti"}
      /\ \A t \in Topics : ends[<<a, t>>] = "none"
  BY <1>1 DEF IInv, ExitOK, ProcessOK, ProcessesTyped
<1>3. ToSet(Amti!Ends(a)) = Own(a) /\ Own(a) \subseteq Topics
  BY SameEnds
<1>4. CASE MakeAll(a, Amti!Ends(a), Amti!Writes(a),
                   IF a \in Services THEN "capability" ELSE "sendStart")
  <2>1. PICK next \in {"capability", "sendStart"} :
          MakeAll(a, Amti!Ends(a), Amti!Writes(a), next)
    BY <1>4
  <2>2. /\ asb' = [asb EXCEPT ![a] = "up"] /\ pc' = [pc EXCEPT ![a] = next]
        /\ CreateEnds(a, Own(a), Amti!Writes(a))
        /\ exit' = exit /\ todo' = todo /\ trouble' = trouble
    BY <1>3, <2>1 DEF MakeAll, Connect, Goto
  <2>3. /\ asb' \in [Apps -> {"none", "up", "gone"}] /\ asb'[a] = "up"
        /\ pc' \in [Apps -> Labels] /\ pc'[a] = next
        /\ \A b \in Apps \ {a} : asb'[b] = asb[b] /\ pc'[b] = pc[b]
    BY <1>2, <2>2 DEF ProcessesTyped, Labels
  <2>4. /\ ends' \in [Endpoints -> {"none", "writer", "reader", "closed", "gone"}]
        /\ \A b \in Apps \ {a}, t \in Topics : ends'[<<b, t>>] = ends[<<b, t>>]
        /\ Live(a)' = Own(a)
    BY <1>1, <1>3, <2>2, EndsMade
  <2>5. ProcessOK(a)'
    BY <1>1, <1>2, <2>2, <2>3, <2>4 DEF ProcessOK, Own
  <2> QED BY <1>1, <1>2, <2>2, <2>3, <2>4, <2>5, BeginsKeeps DEF ProcessesTyped
<1>5. CASE \E k \in 0 .. Len(Amti!Ends(a)) - 1 : \E steps :
             LET made == SubSeq(Amti!Ends(a), 1, k) IN
             /\ MakeSome(a, made, Amti!Writes(a), steps)
             /\ IF demo = "amti" THEN steps = <<>> ELSE Plan(steps, ToSet(made))
  <2>1. PICK k, steps :
             /\ k \in 0 .. Len(Amti!Ends(a)) - 1
             /\ LET made == SubSeq(Amti!Ends(a), 1, k) IN
                /\ MakeSome(a, made, Amti!Writes(a), steps)
                /\ IF demo = "amti" THEN steps = <<>> ELSE Plan(steps, ToSet(made))
    BY <1>5
  <2>2. PICK T : T = ToSet(SubSeq(Amti!Ends(a), 1, k))
    OBVIOUS
  <2>3. /\ T \subseteq Own(a) /\ T \in SUBSET Topics
        /\ \E i \in DOMAIN Amti!Ends(a) : Amti!Ends(a)[i] \in Topics \ T
    BY <1>3, <2>1, <2>2, MadeIsOwn
  <2>4. /\ asb' = [asb EXCEPT ![a] = "up"]
        /\ CreateEnds(a, T, Amti!Writes(a))
        /\ exit' = [exit EXCEPT ![a] = 1] /\ todo' = [todo EXCEPT ![a] = steps]
        /\ pc' = [pc EXCEPT ![a] = IF steps = <<>> THEN "ended" ELSE "cleanup"]
        /\ trouble' = trouble + 1
        /\ IF demo = "amti" THEN steps = <<>> ELSE Plan(steps, T)
    BY <2>1, <2>2 DEF MakeSome, Trouble, Connect, Leave, Goto
  <2>5. /\ asb' \in [Apps -> {"none", "up", "gone"}] /\ asb'[a] = "up"
        /\ exit' \in [Apps -> {-1, 0, 1}] /\ exit'[a] = 1
        /\ todo' = [b \in Apps |-> todo'[b]] /\ todo'[a] = steps
        /\ \A b \in Apps \ {a} : /\ asb'[b] = asb[b] /\ exit'[b] = exit[b]
                                 /\ todo'[b] = todo[b]
    BY <1>2, <2>4 DEF ProcessesTyped
  <2>6. /\ pc' \in [Apps -> Labels]
        /\ pc'[a] = IF demo = "amti" THEN "ended" ELSE "cleanup"
        /\ \A b \in Apps \ {a} : pc'[b] = pc[b]
    BY <1>2, <2>4, PlanNotEmpty DEF ProcessesTyped, Labels
  <2>7. /\ ends' \in [Endpoints -> {"none", "writer", "reader", "closed", "gone"}]
        /\ \A b \in Apps \ {a}, t \in Topics : ends'[<<b, t>>] = ends[<<b, t>>]
        /\ Live(a)' = T
        /\ \A t \in Topics \ T : ends'[<<a, t>>] = "none"
    BY <1>1, <2>3, <2>4, EndsMade
  <2>8. ~AllCreated(a)'
    BY <2>3, <2>7 DEF AllCreated
  <2>9. demo # "amti" => Plan(todo[a], Live(a))'
    BY <2>4, <2>5, <2>7
  <2>10. ProcessOK(a)'
    BY <1>1, <1>2, <2>5, <2>6, <2>8, <2>9 DEF ProcessOK
  <2>11. pc'[a] \in {"capability", "sendStart", "cleanup", "ended"} /\ exit'[a] # 0
    BY <2>5, <2>6
  <2>12. \A b \in Apps \ {a} : /\ asb'[b] = asb[b] /\ pc'[b] = pc[b] /\ exit'[b] = exit[b]
                                /\ todo'[b] = todo[b]
                                /\ \A t \in Topics : ends'[<<b, t>>] = ends[<<b, t>>]
    BY <2>5, <2>6, <2>7
  <2>13. /\ asb' \in [Apps -> {"none", "up", "gone"}] /\ pc' \in [Apps -> Labels]
         /\ ends' \in [Endpoints -> {"none", "writer", "reader", "closed", "gone"}]
         /\ exit' \in [Apps -> {-1, 0, 1}] /\ todo' = [b \in Apps |-> todo'[b]]
    BY <2>5, <2>6, <2>7
  <2>14. trouble' \in {trouble, trouble + 1}
    BY <2>4
  <2> QED BY <1>1, <2>10, <2>11, <2>12, <2>13, <2>14, BeginsKeeps
<1>6. CASE MakeNothing(a)
  <2>1. /\ asb' = asb /\ ends' = ends /\ trouble' = trouble + 1
        /\ exit' = [exit EXCEPT ![a] = 1] /\ todo' = [todo EXCEPT ![a] = <<>>]
        /\ pc' = [pc EXCEPT ![a] = "ended"]
    BY <1>6 DEF MakeNothing, Trouble, Leave, Goto
  <2>2. /\ pc' \in [Apps -> Labels] /\ pc'[a] = "ended"
        /\ exit' \in [Apps -> {-1, 0, 1}] /\ exit'[a] = 1
        /\ todo' = [b \in Apps |-> todo'[b]]
        /\ \A b \in Apps \ {a} : pc'[b] = pc[b] /\ exit'[b] = exit[b] /\ todo'[b] = todo[b]
    BY <1>2, <2>1 DEF ProcessesTyped, Labels
  <2>3. Live(a)' = {}
    BY <1>2, <2>1 DEF Live
  <2>4. ProcessOK(a)'
    BY <1>1, <1>2, <2>1, <2>2, <2>3 DEF ProcessOK
  <2> QED BY <1>1, <1>2, <2>1, <2>2, <2>4, BeginsKeeps DEF ProcessesTyped
<1> QED BY <1>4, <1>5, <1>6 DEF BeginStep

(***************************************************************************)
(* A process takes down what it has made.                                  *)
(***************************************************************************)

LEMMA HeadOfPlan ==
    ASSUME NEW steps, NEW live, Plan(steps, live)
    PROVE  \/ steps = <<Disconnect>> /\ live = {}
           \/ \E T \in SUBSET Topics : /\ Head(steps) = Gone(T) /\ Len(steps) # 1
                                       /\ Plan(Tail(steps), live \ T)
           \/ \E T \in SUBSET Topics : /\ Head(steps) = Closed(T) /\ Len(steps) # 1
                                       /\ Plan(Tail(steps), live \cup T)
           \/ Head(steps) = Message /\ Len(steps) # 1 /\ Plan(Tail(steps), live)
<1>1. CASE steps = <<Disconnect>> /\ live = {}
  BY <1>1
<1>2. CASE \E T \in SUBSET Topics :
             /\ live \subseteq T
             /\ steps \in {<<Gone(T), Disconnect>>, <<Closed(T), Gone(T), Disconnect>>}
  <2>1. PICK T \in SUBSET Topics :
             /\ live \subseteq T
             /\ steps \in {<<Gone(T), Disconnect>>, <<Closed(T), Gone(T), Disconnect>>}
    BY <1>2
  <2>2. CASE steps = <<Gone(T), Disconnect>>
    <3>1. Head(steps) = Gone(T) /\ Len(steps) # 1 /\ Tail(steps) = <<Disconnect>>
      BY <2>2
    <3>2. live \ T = {}
      BY <2>1
    <3> QED BY <3>1, <3>2 DEF Plan
  <2>3. CASE steps = <<Closed(T), Gone(T), Disconnect>>
    <3>1. Head(steps) = Closed(T) /\ Len(steps) # 1 /\ Tail(steps) = <<Gone(T), Disconnect>>
      BY <2>3
    <3>2. live \cup T \subseteq T
      BY <2>1
    <3>3. Plan(Tail(steps), live \cup T)
      BY <3>1, <3>2 DEF Plan
    <3> QED BY <3>1, <3>3
  <2> QED BY <2>1, <2>2, <2>3
<1>3. CASE \E T, U \in SUBSET Topics :
             /\ live \subseteq T \cup U
             /\ steps \in {<<Gone(T), Gone(U), Disconnect>>,
                           <<Message, Gone(T), Gone(U), Disconnect>>}
  <2>1. PICK T \in SUBSET Topics, U \in SUBSET Topics :
             /\ live \subseteq T \cup U
             /\ steps \in {<<Gone(T), Gone(U), Disconnect>>,
                           <<Message, Gone(T), Gone(U), Disconnect>>}
    BY <1>3
  <2>2. CASE steps = <<Gone(T), Gone(U), Disconnect>>
    <3>1. Head(steps) = Gone(T) /\ Len(steps) # 1 /\ Tail(steps) = <<Gone(U), Disconnect>>
      BY <2>2
    <3>2. live \ T \subseteq U
      BY <2>1
    <3>3. Plan(Tail(steps), live \ T)
      BY <3>1, <3>2 DEF Plan
    <3> QED BY <3>1, <3>3
  <2>3. CASE steps = <<Message, Gone(T), Gone(U), Disconnect>>
    <3>1. /\ Head(steps) = Message /\ Len(steps) # 1
          /\ Tail(steps) = <<Gone(T), Gone(U), Disconnect>>
      BY <2>3
    <3>2. Plan(Tail(steps), live)
      BY <2>1, <3>1 DEF Plan
    <3> QED BY <3>1, <3>2
  <2> QED BY <2>1, <2>2, <2>3
<1> QED BY <1>1, <1>2, <1>3 DEF Plan

LEMMA EndsOver ==
    ASSUME IInv, NEW a \in Apps, NEW T \in SUBSET Topics, NEW how \in {"closed", "gone"},
           EndEnds(a, T, how)
    PROVE  /\ ends' \in [Endpoints -> {"none", "writer", "reader", "closed", "gone"}]
           /\ \A b \in Apps \ {a}, t \in Topics : ends'[<<b, t>>] = ends[<<b, t>>]
           /\ Live(a)' = IF how = "gone" THEN Live(a) \ T ELSE Live(a) \cup T
           /\ \A t \in Topics : ends[<<a, t>>] # "none" => ends'[<<a, t>>] # "none"
           /\ \A t \in Topics \ T : ends'[<<a, t>>] = ends[<<a, t>>]
           /\ cache' = [e \in Endpoints |-> cache'[e]]
           /\ net' = [e \in Endpoints |-> net'[e]]
           /\ \A e \in Endpoints : net'[e] = [p \in Publishers |-> net'[e][p]]
           /\ \A b \in Apps, t \in {"Command", "Activity"} :
                 /\ cache'[<<b, t>>] \in {cache[<<b, t>>], <<>>}
                 /\ \A p \in Publishers : net'[<<b, t>>][p] \in {net[<<b, t>>][p], <<>>}
<1>1. /\ ends \in [Endpoints -> {"none", "writer", "reader", "closed", "gone"}]
      /\ \A e \in Endpoints : net[e] = [p \in Publishers |-> net[e][p]]
  BY DEF IInv, ProcessesTyped, DataTyped
<1>2. /\ ends' = [e \in Endpoints |-> IF e \in {a} \X T THEN how ELSE ends[e]]
      /\ cache' = [e \in Endpoints |-> IF e \in {a} \X T THEN <<>> ELSE cache[e]]
      /\ net' = [e \in Endpoints |-> IF e \in {a} \X T THEN Quiet ELSE net[e]]
  BY DEF EndEnds
<1>3. \A b \in Apps, t \in Topics : /\ <<b, t>> \in Endpoints
                                    /\ <<b, t>> \in {a} \X T <=> b = a /\ t \in T
  BY DEF Endpoints
<1>4. /\ \A t \in T : ends'[<<a, t>>] = how
      /\ \A t \in Topics \ T : ends'[<<a, t>>] = ends[<<a, t>>]
      /\ \A b \in Apps \ {a}, t \in Topics : ends'[<<b, t>>] = ends[<<b, t>>]
  BY <1>2, <1>3
<1>5. ends' \in [Endpoints -> {"none", "writer", "reader", "closed", "gone"}]
  BY <1>1, <1>2
<1>6. Live(a)' = IF how = "gone" THEN Live(a) \ T ELSE Live(a) \cup T
  BY <1>4 DEF Live
<1>7. cache' = [e \in Endpoints |-> cache'[e]] /\ net' = [e \in Endpoints |-> net'[e]]
  BY <1>2
<1>8. \A e \in Endpoints : net'[e] = Quiet \/ net'[e] = net[e]
  BY <1>2
<1>9. \A e \in Endpoints : net'[e] = [p \in Publishers |-> net'[e][p]]
  BY <1>1, <1>8 DEF Quiet
<1>10. "Command" \in Topics /\ "Activity" \in Topics
  BY DemoAssumption
<1>11. \A b \in Apps, t \in {"Command", "Activity"} :
          /\ cache'[<<b, t>>] \in {cache[<<b, t>>], <<>>}
          /\ \A p \in Publishers : net'[<<b, t>>][p] \in {net[<<b, t>>][p], <<>>}
  BY <1>2, <1>3, <1>8, <1>10 DEF Quiet
<1> QED BY <1>4, <1>5, <1>6, <1>7, <1>9, <1>11

(* One step of it.                                                          *)
LEMMA CleanUpMeans ==
    ASSUME IInv, NEW a \in Apps, CleanUp(a)
    PROVE  /\ pc[a] = "cleanup" /\ Plan(todo[a], Live(a)) /\ asb[a] = "up"
           /\ todo' = [todo EXCEPT ![a] = Tail(@)]
           /\ pc' = [pc EXCEPT ![a] = IF Len(todo[a]) = 1 THEN "ended" ELSE "cleanup"]
           /\ demo' = demo /\ exit' = exit /\ trouble' = trouble
           /\ command' = command /\ heard' = heard /\ told' = told /\ accepted' = accepted
           /\ \/ /\ todo[a] = <<Disconnect>> /\ Live(a) = {}
                 /\ asb' = [asb EXCEPT ![a] = "gone"]
                 /\ ends' = ends /\ cache' = cache /\ net' = net /\ holding' = holding
              \/ /\ Head(todo[a]) = Message /\ Len(todo[a]) # 1
                 /\ Plan(Tail(todo[a]), Live(a))
                 /\ holding' = [holding EXCEPT ![a] = "none"]
                 /\ asb' = asb /\ ends' = ends /\ cache' = cache /\ net' = net
              \/ \E how \in {"closed", "gone"}, T \in SUBSET Topics :
                    /\ Head(todo[a])[1] = how /\ Len(todo[a]) # 1
                    /\ Plan(Tail(todo[a]), IF how = "gone" THEN Live(a) \ T ELSE Live(a) \cup T)
                    /\ EndEnds(a, T, how)
                    /\ asb' = asb /\ holding' = holding
<1>1. /\ pc[a] = "cleanup"
      /\ todo' = [todo EXCEPT ![a] = Tail(@)]
      /\ pc' = [pc EXCEPT ![a] = IF Len(todo[a]) = 1 THEN "ended" ELSE "cleanup"]
      /\ demo' = demo /\ exit' = exit /\ trouble' = trouble
      /\ command' = command /\ heard' = heard /\ told' = told /\ accepted' = accepted
  BY DEF CleanUp, Goto, dataVars
<1>2. Plan(todo[a], Live(a)) /\ asb[a] = "up"
  BY <1>1 DEF IInv, ExitOK, ProcessOK
<1>3. PICK step : step = Head(todo[a])
  OBVIOUS
<1>4. \/ /\ step[1] \in {"closed", "gone"}
         /\ EndEnds(a, step[2], step[1])
         /\ asb' = asb /\ holding' = holding
      \/ /\ step[1] = "message"
         /\ holding' = [holding EXCEPT ![a] = "none"]
         /\ asb' = asb /\ ends' = ends /\ cache' = cache /\ net' = net
      \/ /\ step[1] = "connection"
         /\ asb' = [asb EXCEPT ![a] = "gone"]
         /\ ends' = ends /\ cache' = cache /\ net' = net /\ holding' = holding
  BY <1>3 DEF CleanUp, Release
<1>5. CASE todo[a] = <<Disconnect>> /\ Live(a) = {}
  <2>1. step[1] = "connection"
    BY <1>3, <1>5 DEF Disconnect
  <2> QED BY <1>1, <1>2, <1>4, <1>5, <2>1
<1>6. CASE Head(todo[a]) = Message /\ Len(todo[a]) # 1 /\ Plan(Tail(todo[a]), Live(a))
  <2>1. step[1] = "message"
    BY <1>3, <1>6 DEF Message
  <2> QED BY <1>1, <1>2, <1>4, <1>6, <2>1
<1>7. CASE \E T \in SUBSET Topics : /\ Head(todo[a]) = Gone(T) /\ Len(todo[a]) # 1
                                    /\ Plan(Tail(todo[a]), Live(a) \ T)
  <2>1. PICK T \in SUBSET Topics : /\ Head(todo[a]) = Gone(T) /\ Len(todo[a]) # 1
                                   /\ Plan(Tail(todo[a]), Live(a) \ T)
    BY <1>7
  <2>2. step[1] = "gone" /\ step[2] = T
    BY <1>3, <2>1 DEF Gone
  <2>3. EndEnds(a, T, "gone") /\ asb' = asb /\ holding' = holding
    BY <1>4, <2>2
  <2>4. /\ Head(todo[a])[1] = "gone" /\ Len(todo[a]) # 1
        /\ Plan(Tail(todo[a]), IF "gone" = "gone" THEN Live(a) \ T ELSE Live(a) \cup T)
    BY <1>3, <2>1, <2>2
  <2> QED BY <1>1, <1>2, <2>3, <2>4
<1>8. CASE \E T \in SUBSET Topics : /\ Head(todo[a]) = Closed(T) /\ Len(todo[a]) # 1
                                    /\ Plan(Tail(todo[a]), Live(a) \cup T)
  <2>1. PICK T \in SUBSET Topics : /\ Head(todo[a]) = Closed(T) /\ Len(todo[a]) # 1
                                   /\ Plan(Tail(todo[a]), Live(a) \cup T)
    BY <1>8
  <2>2. step[1] = "closed" /\ step[2] = T
    BY <1>3, <2>1 DEF Closed
  <2>3. EndEnds(a, T, "closed") /\ asb' = asb /\ holding' = holding
    BY <1>4, <2>2
  <2>4. /\ Head(todo[a])[1] = "closed" /\ Len(todo[a]) # 1
        /\ Plan(Tail(todo[a]), IF "closed" = "gone" THEN Live(a) \ T ELSE Live(a) \cup T)
    BY <1>3, <2>1, <2>2
  <2> QED BY <1>1, <1>2, <2>3, <2>4
<1> QED BY <1>2, <1>5, <1>6, <1>7, <1>8, HeadOfPlan

LEMMA CleanUpPreserves ==
    ASSUME IInv, NEW a \in Apps, CleanUp(a)
    PROVE  NothingForgotten /\ Preserved(a)
<1>1. /\ pc[a] = "cleanup" /\ Plan(todo[a], Live(a)) /\ asb[a] = "up"
      /\ todo' = [todo EXCEPT ![a] = Tail(@)]
      /\ pc' = [pc EXCEPT ![a] = IF Len(todo[a]) = 1 THEN "ended" ELSE "cleanup"]
      /\ demo' = demo /\ exit' = exit /\ trouble' = trouble
      /\ command' = command /\ heard' = heard /\ told' = told /\ accepted' = accepted
  BY CleanUpMeans
<1>2. ProcessesTyped /\ DataTyped /\ ProcessOK(a)
  BY DEF IInv, ExitOK
<1>3. /\ pc' \in [Apps -> Labels]
      /\ pc'[a] = IF Len(todo[a]) = 1 THEN "ended" ELSE "cleanup"
      /\ todo' = [b \in Apps |-> todo'[b]] /\ todo'[a] = Tail(todo[a])
      /\ \A b \in Apps \ {a} : pc'[b] = pc[b] /\ todo'[b] = todo[b]
  BY <1>1, <1>2 DEF ProcessesTyped, Labels
<1>4. /\ holding[a] # "none" => exit[a] = 1
      /\ demo = "smti" /\ holding[a] = "ours" => Head(todo[a])[1] = "message"
      /\ demo \in {"amti", "smti"}
  BY <1>2 DEF ProcessOK, ProcessesTyped
<1>5. /\ asb' \in [Apps -> {"none", "up", "gone"}] /\ holding' \in [Apps -> Holders]
      /\ ends' \in [Endpoints -> {"none", "writer", "reader", "closed", "gone"}]
      /\ cache' = [e \in Endpoints |-> cache'[e]] /\ net' = [e \in Endpoints |-> net'[e]]
      /\ \A e \in Endpoints : net'[e] = [p \in Publishers |-> net'[e][p]]
      /\ \A b \in Apps, t \in {"Command", "Activity"} :
            /\ cache'[<<b, t>>] \in {cache[<<b, t>>], <<>>}
            /\ \A p \in Publishers : net'[<<b, t>>][p] \in {net[<<b, t>>][p], <<>>}
      /\ \A b \in Apps \ {a} : /\ asb'[b] = asb[b] /\ holding'[b] = holding[b]
                               /\ \A t \in Topics : ends'[<<b, t>>] = ends[<<b, t>>]
      /\ ProcessOK(a)'
  <2>1. CASE /\ todo[a] = <<Disconnect>> /\ Live(a) = {}
             /\ asb' = [asb EXCEPT ![a] = "gone"]
             /\ ends' = ends /\ cache' = cache /\ net' = net /\ holding' = holding
    <3>1. asb' \in [Apps -> {"none", "up", "gone"}] /\ asb'[a] = "gone"
          /\ \A b \in Apps \ {a} : asb'[b] = asb[b]
      BY <1>2, <2>1 DEF ProcessesTyped
    <3>2. pc'[a] = "ended"
      BY <1>3, <2>1
    <3>3. Live(a)' = {}
      BY <2>1 DEF Live
    <3>4. holding'[a] # "none" => exit[a] = 1 /\ (holding'[a] = "ours" => demo = "amti")
      BY <1>4, <2>1 DEF Disconnect
    <3>5. ProcessOK(a)'
      BY <1>1, <3>1, <3>2, <3>3, <3>4 DEF ProcessOK
    <3> QED BY <1>2, <2>1, <3>1, <3>5 DEF ProcessesTyped, DataTyped
  <2>2. CASE /\ Head(todo[a]) = Message /\ Len(todo[a]) # 1
             /\ Plan(Tail(todo[a]), Live(a))
             /\ holding' = [holding EXCEPT ![a] = "none"]
             /\ asb' = asb /\ ends' = ends /\ cache' = cache /\ net' = net
    <3>1. holding' \in [Apps -> Holders] /\ holding'[a] = "none"
          /\ \A b \in Apps \ {a} : holding'[b] = holding[b]
      BY <1>2, <2>2 DEF ProcessesTyped, Holders
    <3>2. pc'[a] = "cleanup"
      BY <1>3, <2>2
    <3>3. Live(a)' = Live(a)
      BY <2>2 DEF Live
    <3>4. Plan(todo[a], Live(a))'
      BY <1>3, <2>2, <3>3
    <3>5. ProcessOK(a)'
      BY <1>1, <2>2, <3>1, <3>2, <3>4 DEF ProcessOK
    <3> QED BY <1>2, <2>2, <3>1, <3>5 DEF ProcessesTyped, DataTyped
  <2>3. CASE \E how \in {"closed", "gone"}, T \in SUBSET Topics :
               /\ Head(todo[a])[1] = how /\ Len(todo[a]) # 1
               /\ Plan(Tail(todo[a]), IF how = "gone" THEN Live(a) \ T ELSE Live(a) \cup T)
               /\ EndEnds(a, T, how)
               /\ asb' = asb /\ holding' = holding
    <3>1. PICK how \in {"closed", "gone"}, T \in SUBSET Topics :
               /\ Head(todo[a])[1] = how /\ Len(todo[a]) # 1
               /\ Plan(Tail(todo[a]), IF how = "gone" THEN Live(a) \ T ELSE Live(a) \cup T)
               /\ EndEnds(a, T, how)
               /\ asb' = asb /\ holding' = holding
      BY <2>3
    <3>2. /\ ends' \in [Endpoints -> {"none", "writer", "reader", "closed", "gone"}]
          /\ \A b \in Apps \ {a}, t \in Topics : ends'[<<b, t>>] = ends[<<b, t>>]
          /\ Live(a)' = IF how = "gone" THEN Live(a) \ T ELSE Live(a) \cup T
          /\ cache' = [e \in Endpoints |-> cache'[e]]
          /\ net' = [e \in Endpoints |-> net'[e]]
          /\ \A e \in Endpoints : net'[e] = [p \in Publishers |-> net'[e][p]]
          /\ \A b \in Apps, t \in {"Command", "Activity"} :
                /\ cache'[<<b, t>>] \in {cache[<<b, t>>], <<>>}
                /\ \A p \in Publishers : net'[<<b, t>>][p] \in {net[<<b, t>>][p], <<>>}
      BY <3>1, EndsOver
    <3>3. pc'[a] = "cleanup"
      BY <1>3, <3>1
    <3>4. Plan(todo[a], Live(a))'
      BY <1>3, <3>1, <3>2
    <3>5. holding'[a] # "none" => exit[a] = 1 /\ (holding'[a] = "ours" => demo = "amti")
      BY <1>4, <3>1
    <3>6. ProcessOK(a)'
      BY <1>1, <3>1, <3>3, <3>4, <3>5 DEF ProcessOK
    <3> QED BY <1>2, <3>1, <3>2, <3>6 DEF ProcessesTyped
  <2> QED BY <2>1, <2>2, <2>3, CleanUpMeans
<1>6. ProcessesTyped'
  BY <1>1, <1>2, <1>3, <1>5 DEF ProcessesTyped
<1>7. DataTyped'
  BY <1>1, <1>2, <1>5 DEF DataTyped
<1>8. OthersKept(a)
  BY <1>1, <1>3, <1>5 DEF OthersKept
<1>9. NothingForgotten
  BY <1>1, <1>2, <1>3, <1>8, NothingLost
<1>10. BusOK'
  BY <1>5, <1>9, BusStays DEF IInv
<1>11. a \in Services => ServiceOK(a)'
  BY <1>1, <1>3, <1>9, ServiceMoves
<1>12. a \in Clients => ClientOK(a)'
  BY <1>1, <1>3, <1>9, ClientMoves
<1> QED BY <1>5, <1>6, <1>7, <1>8, <1>9, <1>10, <1>11, <1>12 DEF Preserved, OwnOK

(***************************************************************************)
(* The environment.                                                        *)
(***************************************************************************)

(* A sample joins those of a cache, in the place of the last if it is full. *)
LEMMA JoinsCache ==
    ASSUME NEW Bodies, NEW kept \in Seq(Bodies), NEW m \in Bodies
    PROVE  /\ Append(kept, m) \in Seq(Bodies)
           /\ Len(kept) = 1 => Append(Tail(kept), m) \in Seq(Bodies)
<1>1. Append(kept, m) \in Seq(Bodies)
  BY AppendProperties
<1>2. ASSUME Len(kept) = 1 PROVE Append(Tail(kept), m) \in Seq(Bodies)
  <2>1. kept # <<>>
    BY <1>2, EmptySeq
  <2>2. Tail(kept) \in Seq(Bodies)
    BY <2>1, HeadTailProperties
  <2> QED BY <2>2, AppendProperties
<1> QED BY <1>1, <1>2

LEMMA ArrivalKeeps ==
    ASSUME IInv, NEW r \in Endpoints, NEW p \in Publishers, Arrive(r, p),
           NEW t, NEW Bodies, t \in Topics, Carries(t, Bodies)
    PROVE  \A a \in Apps : /\ cache'[<<a, t>>] \in Seq(Bodies)
                           /\ \A q \in Publishers : net'[<<a, t>>][q] \in Seq(Bodies)
<1>1. PICK i \in DOMAIN net[r][p] :
        /\ net' = [net EXCEPT ![r][p] = SubSeq(@, i + 1, Len(@))]
        /\ cache' = [cache EXCEPT ![r] =
                       Append(IF Len(cache[r]) = toReaderQos(CalQos).depth THEN Tail(@) ELSE @,
                              net[r][p][i])]
  BY DEF Arrive
<1>2. toReaderQos(CalQos).depth = 1
  BY DEF toReaderQos, CalQos, HistoryDepth
<1>3. /\ cache = [e \in Endpoints |-> cache[e]]
      /\ net = [e \in Endpoints |-> net[e]]
      /\ \A e \in Endpoints : net[e] = [q \in Publishers |-> net[e][q]]
  BY DEF IInv, DataTyped
<1>4. SUFFICES ASSUME NEW a \in Apps
               PROVE  /\ cache'[<<a, t>>] \in Seq(Bodies)
                      /\ \A q \in Publishers : net'[<<a, t>>][q] \in Seq(Bodies)
  OBVIOUS
<1>5. /\ <<a, t>> \in Endpoints
      /\ cache[<<a, t>>] \in Seq(Bodies)
      /\ \A q \in Publishers : net[<<a, t>>][q] \in Seq(Bodies)
  BY DEF Endpoints, Carries
<1>6. CASE r = <<a, t>>
  <2>1. net[r][p] \in Seq(Bodies) /\ cache[r] \in Seq(Bodies)
    BY <1>5, <1>6
  <2>2. i \in 1 .. Len(net[r][p]) /\ net[r][p][i] \in Bodies
    BY <1>1, <2>1, LenProperties, ElementOfSeq
  <2>3. cache'[r] \in Seq(Bodies)
    <3>1. cache'[r] = Append(IF Len(cache[r]) = 1 THEN Tail(cache[r]) ELSE cache[r], net[r][p][i])
      BY <1>1, <1>2, <1>3
    <3> QED BY <2>1, <2>2, <3>1, JoinsCache
  <2>4. /\ net'[r][p] = SubSeq(net[r][p], i + 1, Len(net[r][p]))
        /\ \A q \in Publishers \ {p} : net'[r][q] = net[r][q]
    <3>1. net'[r] = [net[r] EXCEPT ![p] = SubSeq(@, i + 1, Len(@))]
      BY <1>1, <1>3
    <3> QED BY <1>3, <3>1
  <2>5. net'[r][p] \in Seq(Bodies)
    BY <2>1, <2>2, <2>4, SubSeqProperties, ElementOfSeq
  <2> QED BY <1>5, <1>6, <2>3, <2>4, <2>5
<1>7. CASE r # <<a, t>>
  <2>1. cache'[<<a, t>>] = cache[<<a, t>>] /\ net'[<<a, t>>] = net[<<a, t>>]
    BY <1>1, <1>3, <1>5, <1>7
  <2> QED BY <1>5, <2>1
<1> QED BY <1>6, <1>7

LEMMA DeliveryPreserves ==
    ASSUME IInv, Delivery
    PROVE  IInv'
<1>1. PICK r \in Endpoints, p \in Publishers : Arrive(r, p)
  BY DEF Delivery
<1>2. /\ asb' = asb /\ ends' = ends /\ demo' = demo /\ pc' = pc /\ exit' = exit
      /\ todo' = todo /\ holding' = holding /\ command' = command /\ heard' = heard
      /\ told' = told /\ accepted' = accepted /\ trouble' = trouble
  BY DEF Delivery, Arrive, flowVars, dataVars
<1>3. PICK i \in DOMAIN net[r][p] :
        /\ net' = [net EXCEPT ![r][p] = SubSeq(@, i + 1, Len(@))]
        /\ cache' = [cache EXCEPT ![r] =
                       Append(IF Len(cache[r]) = toReaderQos(CalQos).depth THEN Tail(@) ELSE @,
                              net[r][p][i])]
  BY <1>1 DEF Arrive
<1>4. ProcessesTyped'
  BY <1>2 DEF IInv, ProcessesTyped
<1>5. DataTyped'
  <2>1. DataTyped
    BY DEF IInv
  <2>2. cache' = [e \in Endpoints |-> cache'[e]] /\ net' = [e \in Endpoints |-> net'[e]]
    BY <1>3, <2>1 DEF DataTyped
  <2>3. ASSUME NEW e \in Endpoints PROVE net'[e] = [q \in Publishers |-> net'[e][q]]
    <3>1. net[e] = [q \in Publishers |-> net[e][q]]
      BY <2>1 DEF DataTyped
    <3>2. CASE e = r
      <4>1. net'[e] = [net[e] EXCEPT ![p] = SubSeq(@, i + 1, Len(@))]
        BY <1>3, <2>1, <3>2 DEF DataTyped
      <4> QED BY <3>1, <4>1
    <3>3. CASE e # r
      BY <1>3, <2>1, <3>1, <3>3 DEF DataTyped
    <3> QED BY <3>2, <3>3
  <2> QED BY <1>2, <2>1, <2>2, <2>3 DEF DataTyped
<1>6. BusOK'
  <2>1. Commands' = Commands /\ Activities' = Activities
    BY <1>2 DEF Commands, Activities, Begun, Informed, Completed
  <2>2. "Command" \in Topics /\ "Activity" \in Topics
    BY DemoAssumption
  <2>3. Carries("Command", Commands) /\ Carries("Activity", Activities)
    BY DEF IInv, BusOK
  <2>4. /\ \A a \in Apps : /\ cache'[<<a, "Command">>] \in Seq(Commands)
                           /\ \A q \in Publishers : net'[<<a, "Command">>][q] \in Seq(Commands)
        /\ \A a \in Apps : /\ cache'[<<a, "Activity">>] \in Seq(Activities)
                           /\ \A q \in Publishers : net'[<<a, "Activity">>][q] \in Seq(Activities)
    BY <1>1, <2>2, <2>3, ArrivalKeeps
  <2> QED BY <2>1, <2>4 DEF BusOK, Carries
<1>7. NothingForgotten /\ OthersKept(Stranger)
  BY <1>2 DEF NothingForgotten, OthersKept, Completed
<1>8. \A b \in Apps : OwnOK(b)'
  BY <1>7, OthersOK, DemoAssumption
<1>9. Services \subseteq Apps /\ Clients \subseteq Apps
  BY DemoAssumption
<1> QED BY <1>4, <1>5, <1>6, <1>8, <1>9 DEF IInv, OwnOK, FlowOK, ExitOK

LEMMA ForeignCommandPreserves ==
    ASSUME IInv, ForeignCommand
    PROVE  IInv'
<1>1. PICK s \in Services, m \in ForeignCommands :
        net' = [net EXCEPT ![<<s, "Command">>][Stranger] = Append(@, m)]
  BY DEF ForeignCommand
<1>2. /\ asb' = asb /\ ends' = ends /\ demo' = demo /\ pc' = pc /\ exit' = exit
      /\ todo' = todo /\ holding' = holding /\ command' = command /\ heard' = heard
      /\ told' = told /\ accepted' = accepted /\ trouble' = trouble + 1 /\ cache' = cache
  BY DEF ForeignCommand, Trouble, flowVars, dataVars
<1>3. ProcessesTyped /\ DataTyped
  BY DEF IInv
<1>4. ProcessesTyped'
  BY <1>2, <1>3 DEF ProcessesTyped
<1>5. NothingForgotten /\ OthersKept(Stranger)
  BY <1>2, <1>3 DEF NothingForgotten, OthersKept, Completed, ProcessesTyped
<1>6. /\ \A e \in Endpoints : net[e] = [q \in Publishers |-> net[e][q]]
      /\ net = [e \in Endpoints |-> net[e]]
  BY <1>3 DEF DataTyped
<1>7. PICK here : here = <<s, "Command">>
  OBVIOUS
<1>8. here \in Endpoints /\ Stranger \in Publishers
  BY <1>7, DemoAssumption DEF Endpoints, Publishers
<1>9. /\ net'[here] = [net[here] EXCEPT ![Stranger] = Append(@, m)]
      /\ \A e \in Endpoints \ {here} : net'[e] = net[e]
      /\ net' = [e \in Endpoints |-> net'[e]]
  BY <1>1, <1>6, <1>7, <1>8
<1>10. /\ net'[here][Stranger] = Append(net[here][Stranger], m)
       /\ \A q \in Publishers \ {Stranger} : net'[here][q] = net[here][q]
       /\ net'[here] = [q \in Publishers |-> net'[here][q]]
  BY <1>6, <1>8, <1>9
<1>11. DataTyped'
  BY <1>2, <1>3, <1>6, <1>9, <1>10 DEF DataTyped
<1>12. BusOK'
  <2>1. Commands \subseteq Commands' /\ Activities \subseteq Activities'
    BY <1>5, KnownGrows
  <2>2. Seq(Commands) \subseteq Seq(Commands') /\ Seq(Activities) \subseteq Seq(Activities')
    BY <2>1, SeqMonotonic
  <2>3. m \in Commands'
    <3>1. m \in Strange
      BY <1>1 DEF Strange, ForeignCommands, Announced, Activity
    <3>2. trouble' > 0
      BY <1>2, <1>3 DEF ProcessesTyped
    <3> QED BY <3>1, <3>2 DEF Commands, Strange, Activity, Start, Stop, Unset, Empty
  <2>4. Carries("Command", Commands) /\ Carries("Activity", Activities)
    BY DEF IInv, BusOK
  <2>5. ASSUME NEW a \in Apps
        PROVE  /\ cache'[<<a, "Command">>] \in Seq(Commands')
               /\ \A q \in Publishers : net'[<<a, "Command">>][q] \in Seq(Commands')
    <3>1. /\ cache[<<a, "Command">>] \in Seq(Commands')
          /\ \A q \in Publishers : net[<<a, "Command">>][q] \in Seq(Commands')
      BY <2>2, <2>4 DEF Carries
    <3>2. <<a, "Command">> \in Endpoints
      BY DemoAssumption DEF Endpoints
    <3>3. CASE <<a, "Command">> = here
      <4>1. Append(net[here][Stranger], m) \in Seq(Commands')
        BY <1>8, <2>3, <3>1, <3>3, AppendProperties
      <4> QED BY <1>2, <1>10, <3>1, <3>3, <4>1
    <3>4. CASE <<a, "Command">> # here
      BY <1>2, <1>9, <3>1, <3>2, <3>4
    <3> QED BY <3>3, <3>4
  <2>6. ASSUME NEW a \in Apps
        PROVE  /\ cache'[<<a, "Activity">>] \in Seq(Activities')
               /\ \A q \in Publishers : net'[<<a, "Activity">>][q] \in Seq(Activities')
    <3>1. /\ cache[<<a, "Activity">>] \in Seq(Activities')
          /\ \A q \in Publishers : net[<<a, "Activity">>][q] \in Seq(Activities')
      BY <2>2, <2>4 DEF Carries
    <3>2. <<a, "Activity">> \in Endpoints \ {here}
      BY <1>7, DemoAssumption DEF Endpoints
    <3> QED BY <1>2, <1>9, <3>1, <3>2
  <2> QED BY <2>5, <2>6 DEF BusOK, Carries
<1>13. \A b \in Apps : OwnOK(b)'
  BY <1>5, OthersOK, DemoAssumption
<1>14. Services \subseteq Apps /\ Clients \subseteq Apps
  BY DemoAssumption
<1> QED BY <1>4, <1>11, <1>12, <1>13, <1>14 DEF IInv, OwnOK, FlowOK, ExitOK

(***************************************************************************)
(* The invariant and what follows from it.                                 *)
(***************************************************************************)

LEMMA InitIInv ==
    ASSUME Init
    PROVE  IInv
<1>1. Services \subseteq Apps /\ Clients \subseteq Apps
  BY DemoAssumption
<1>2. \A a \in Apps : pc[a] = "off" /\ exit[a] = -1 /\ holding[a] = "none" /\ asb[a] = "none"
  BY DEF Init, BusInit
<1>3. \A a \in Apps, t \in Topics :
        /\ ends[<<a, t>>] = "none" /\ cache[<<a, t>>] = <<>>
        /\ \A p \in Publishers : net[<<a, t>>][p] = <<>>
  BY DEF Init, BusInit, Quiet, Endpoints
<1>4. ProcessesTyped
  BY DEF Init, BusInit, ProcessesTyped, Labels, Holders
<1>5. DataTyped
  <2>1. Nothing \in [count : Nat, state : States, activity : Activity]
    BY DEF Nothing, States, Activity
  <2>2. command \in [Services -> ReceivedCommand]
    BY NoCommandType DEF Init
  <2>3. heard \in [Clients -> [count : Nat, state : States, activity : Activity]]
    BY <2>1 DEF Init
  <2>4. /\ told \in [Clients -> SUBSET Activity]
        /\ accepted \in [Services -> Seq([by : Publishers, start : BOOLEAN])]
    BY DEF Init
  <2>5. /\ cache = [e \in Endpoints |-> cache[e]]
        /\ net = [e \in Endpoints |-> net[e]]
        /\ \A e \in Endpoints : net[e] = [p \in Publishers |-> net[e][p]]
    BY DEF Init, BusInit, Quiet
  <2> QED BY <2>2, <2>3, <2>4, <2>5 DEF DataTyped
<1>6. BusOK
  <2>1. <<>> \in Seq(Commands) /\ <<>> \in Seq(Activities)
    OBVIOUS
  <2>2. "Command" \in Topics /\ "Activity" \in Topics
    BY DemoAssumption
  <2> QED BY <1>3, <2>1, <2>2 DEF BusOK, Carries
<1>7. \A s \in Services : ServiceOK(s)
  <2>1. \A s \in Services : command[s] = NoCommand /\ accepted[s] = <<>>
    BY DEF Init
  <2> QED BY <1>1, <1>2, <2>1, NoCommandType DEF ServiceOK
<1>8. \A c \in Clients : ClientOK(c)
  <2>1. \A c \in Clients : heard[c] = Nothing
    BY DEF Init
  <2>2. \A c \in Clients : pc[c] = "off" /\ exit[c] = -1
    BY <1>1, <1>2
  <2>3. SUFFICES ASSUME NEW c \in Clients PROVE ClientOK(c)
    OBVIOUS
  <2>4. heard[c].state = "" /\ pc[c] = "off"
    <3>1. Nothing.state = ""
      BY DEF Nothing
    <3>2. heard[c] = Nothing
      BY <2>1
    <3>3. pc[c] = "off"
      BY <2>2
    <3> QED BY <3>1, <3>2, <3>3
  <2>5. heard[c].state # "" => heard[c].activity \in Services
    BY <2>4
  <2>6. heard[c].state = "COMPLETED" => Completed(heard[c].activity)
    BY <2>4
  <2>7. pc[c] \in {"sendStop", "waitCompleted"} => Informed(c, heard[c].activity)
    BY <2>4
  <2>8. exit[c] = 0 => pc[c] \in {"cleanup", "ended"} /\ heard[c].state = "COMPLETED"
    BY <2>2
  <2> QED BY <2>5, <2>6, <2>7, <2>8 DEF ClientOK
<1>9. \A a \in Apps : ProcessOK(a)
  BY <1>2, <1>3 DEF ProcessOK, Live
<1> QED BY <1>4, <1>5, <1>6, <1>7, <1>8, <1>9 DEF IInv, FlowOK, ExitOK

LEMMA StepPreserves ==
    ASSUME IInv, NEW a \in Apps, Begin(a) \/ Step(a) \/ Timeout(a)
    PROVE  IInv'
<1>1. ProcessStep(a)
  BY EveryStep DEF IInv, ProcessesTyped
<1>2. CASE BeginStep(a)
  BY <1>2, BeginPreserves, PreservedSuffices
<1>3. CASE a \in Services /\ ServiceStep(a)
  BY <1>3, TellPreserves, ActivatePreserves, CompletePreserves, TakePreserves,
     PreservedSuffices DEF ServiceStep
<1>4. CASE a \in Clients /\ ClientStep(a)
  BY <1>4, AskPreserves, UpdatePreserves, PreservedSuffices DEF ClientStep
<1>5. CASE ThrowStep(a)
  BY <1>5, ThrowPreserves, PreservedSuffices
<1>6. CASE TimeoutStep(a)
  BY <1>6, TimeoutPreserves, PreservedSuffices
<1>7. CASE CleanUp(a)
  BY <1>7, CleanUpPreserves, PreservedSuffices
<1> QED BY <1>1, <1>2, <1>3, <1>4, <1>5, <1>6, <1>7 DEF ProcessStep

LEMMA StutterPreserves ==
    ASSUME IInv, UNCHANGED vars
    PROVE  IInv'
<1>1. /\ asb' = asb /\ ends' = ends /\ cache' = cache /\ net' = net /\ demo' = demo
      /\ pc' = pc /\ exit' = exit /\ todo' = todo /\ holding' = holding
      /\ command' = command /\ heard' = heard /\ told' = told /\ accepted' = accepted
      /\ trouble' = trouble
  BY DEF vars, busVars, flowVars, dataVars
<1>2. ProcessesTyped' /\ DataTyped'
  BY <1>1 DEF IInv, ProcessesTyped, DataTyped
<1>3. Commands' = Commands /\ Activities' = Activities
  BY <1>1 DEF Commands, Activities, Begun, Informed, Completed
<1>4. BusOK'
  BY <1>1, <1>3 DEF IInv, BusOK, Carries
<1>5. NothingForgotten /\ OthersKept(Stranger)
  BY <1>1 DEF NothingForgotten, OthersKept, Completed
<1>6. \A b \in Apps : OwnOK(b)'
  BY <1>5, OthersOK, DemoAssumption
<1>7. Services \subseteq Apps /\ Clients \subseteq Apps
  BY DemoAssumption
<1> QED BY <1>2, <1>4, <1>6, <1>7 DEF IInv, OwnOK, FlowOK, ExitOK

(* What is on the bus, what the processes know and what they still have to  *)
(* take down agree at all times, in either demo and for any number of       *)
(* services and clients (runService and runClient of both main.cpp).        *)
THEOREM Bookkeeping == Spec => []IInv
<1>1. Init => IInv
  BY InitIInv
<1>2. IInv /\ [Next]_vars => IInv'
  <2>1. ASSUME IInv, Environment PROVE IInv'
    BY <2>1, DeliveryPreserves, ForeignCommandPreserves DEF Environment
  <2>2. ASSUME IInv, \E a \in Apps : Begin(a) \/ Step(a) \/ Timeout(a) PROVE IInv'
    BY <2>2, StepPreserves
  <2>3. ASSUME IInv, UNCHANGED vars PROVE IInv'
    BY <2>3, StutterPreserves
  <2> QED BY <2>1, <2>2, <2>3 DEF Next
<1> QED BY <1>1, <1>2, PTL DEF Spec

(* A service obeys one start and one stop, which names its activity; one of *)
(* the demo's own clients is obeyed only when it has been told of it, by    *)
(* the activity and by a command status (waitForCommand, sendStopCommand    *)
(* and waitForClientUpdates).                                               *)
THEOREM ObeysTheInformed == Spec => []StopFromInformed
<1>1. IInv => StopFromInformed
  <2>1. SUFFICES ASSUME IInv, NEW s \in Services, NEW y, y = accepted[s][2].by
                 PROVE  /\ Len(accepted[s]) <= 2
                        /\ Len(accepted[s]) > 0 => accepted[s][1].start
                        /\ Len(accepted[s]) > 1 =>
                             /\ ~accepted[s][2].start
                             /\ command[s].activity = s
                             /\ y \in Clients \cup {Stranger}
                             /\ y \in Clients => s \in told[y] /\ heard[y].count > 0
    BY DEF StopFromInformed
  <2>2. ServiceOK(s)
    BY <2>1 DEF IInv, FlowOK
  <2>3. ASSUME Entitled(y, s)
        PROVE  /\ y \in Clients \cup {Stranger}
               /\ y \in Clients => s \in told[y] /\ heard[y].count > 0
    BY <2>3, DemoAssumption DEF Entitled, Senders, Begun, Informed
  <2>4. Len(accepted[s]) > 1 => Entitled(y, s)
    BY <2>1, <2>2 DEF ServiceOK
  <2> QED BY <2>2, <2>3, <2>4 DEF ServiceOK
<1> QED BY <1>1, Bookkeeping, PTL

(* A client that returns 0 has seen the service of its activity through to  *)
(* the end; if nobody else has sent commands, on its own start and stop     *)
(* (runClient, waitForClientUpdates).                                       *)
THEOREM SuccessIsTrue == Spec => []ClientSuccess
<1>1. IInv => ClientSuccess
  <2>1. SUFFICES ASSUME IInv, NEW c \in Clients, exit[c] = 0, NEW s, s = heard[c].activity
                 PROVE  /\ s \in Services
                        /\ Len(accepted[s]) = 2
                        /\ pc[s] \in {"cleanup", "ended"}
                        /\ Alone(c) /\ trouble = 0 =>
                             accepted[s] = << [by |-> c, start |-> TRUE],
                                              [by |-> c, start |-> FALSE] >>
    BY DEF ClientSuccess
  <2>2. s \in Services /\ Len(accepted[s]) = 2 /\ pc[s] \in {"cleanup", "ended"}
    BY <2>1 DEF IInv, FlowOK, ClientOK, Completed
  <2>3. PICK log : log = accepted[s]
    OBVIOUS
  <2>4. ServiceOK(s) /\ log \in Seq([by : Publishers, start : BOOLEAN]) /\ Len(log) = 2
    BY <2>1, <2>2, <2>3 DEF IInv, FlowOK, DataTyped
  <2>5. ASSUME Alone(c), trouble = 0
        PROVE  log = << [by |-> c, start |-> TRUE], [by |-> c, start |-> FALSE] >>
    <3>1. Senders \subseteq {c} /\ Begun \subseteq {c}
      BY <2>5 DEF Senders, Begun, Alone
    <3>2. /\ log[1].start /\ log[1].by = c /\ ~log[2].start /\ log[2].by = c
      BY <2>3, <2>4, <3>1 DEF ServiceOK, Entitled
    <3>3. /\ log[1] \in [by : Publishers, start : BOOLEAN]
          /\ log[2] \in [by : Publishers, start : BOOLEAN]
      <4>1. 1 \in 1 .. Len(log) /\ 2 \in 1 .. Len(log)
        BY <2>4
      <4> QED BY <2>4, <4>1, ElementOfSeq
    <3>4. log[1] = [by |-> c, start |-> TRUE] /\ log[2] = [by |-> c, start |-> FALSE]
      BY <3>2, <3>3
    <3>5. log = <<log[1], log[2]>>
      BY <2>4
    <3> QED BY <3>4, <3>5
  <2> QED BY <2>2, <2>3, <2>5
<1> QED BY <1>1, Bookkeeping, PTL

(* Readers and writers go before their connection, and a process that ends  *)
(* leaves none of them behind: on every way out of the SMTI demo (the       *)
(* pointers of uci/utils), and of the AMTI demo once it has made all its    *)
(* entities.  A message object is left behind only by a process that fails: *)
(* its own by the AMTI demo alone, when a write throws, and the one that    *)
(* dispatchOne makes by either demo, when deserializing throws.             *)
THEOREM NothingIsLeft == Spec => []CleanExit
<1>1. IInv => CleanExit
  <2>1. SUFFICES ASSUME IInv, NEW a \in Apps
                 PROVE  /\ asb[a] = "gone" =>
                             \A t \in Topics : ends[<<a, t>>] \in {"none", "gone"}
                        /\ pc[a] = "ended" =>
                             /\ demo = "smti" \/ AllCreated(a) => Released(a)
                             /\ holding[a] # "none" => exit[a] = 1
                             /\ holding[a] = "ours" => demo = "amti"
    BY DEF CleanExit
  <2>2. ProcessOK(a) /\ demo \in {"amti", "smti"}
    BY <2>1 DEF IInv, ExitOK, ProcessesTyped
  <2>3. Live(a) = {} => \A t \in Topics : ends[<<a, t>>] \in {"none", "gone"}
    BY DEF Live
  <2> QED BY <2>2, <2>3 DEF ProcessOK, Released
<1> QED BY <1>1, Bookkeeping, PTL

(***************************************************************************)
(* One sample is enough: with a single service, the samples on their way   *)
(* to a reader never outnumber what it is still owed.                      *)
(***************************************************************************)

Updates == {"CommandStatus", "Activity"}

(* The readers there are, and whose samples each gets.                      *)
Receiving(e) ==
    \/ e[1] \in Services /\ e[2] = "Command"
    \/ e[1] \in Begun /\ e[2] \in Updates
Route(e, p) ==
    \/ e[1] \in Services /\ e[2] = "Command" /\ p \in Senders
    \/ e[1] \in Begun /\ e[2] \in Updates /\ p \in Services

IsSeq(x) == \E S : x \in Seq(S)
Size(x) == Len(x)
SeqsOK == \A e \in Endpoints : /\ IsSeq(cache[e])
                               /\ \A p \in Publishers : IsSeq(net[e][p])
RoutesOK ==
    /\ \A e \in Endpoints :
         /\ ends[e] = "reader" => Receiving(e)
         /\ \A p \in Publishers : net[e][p] # <<>> => Route(e, p)
    /\ \A e \in overrun : e \in Endpoints /\ Receiving(e)

(* The samples of a publisher not yet read; the commands a service has      *)
(* answered with a status and with an activity; the commands a client has   *)
(* sent, at most.                                                           *)
Pending(e, p) == Size(cache[e]) + Size(net[e][p])
Answered(s) == Size(accepted[s]) - (IF pc[s] \in {"startStatus", "stopStatus"} THEN 1 ELSE 0)
Reported(s) == Size(accepted[s])
               - (IF pc[s] \in {"startStatus", "startActivity", "stopStatus", "stopActivity"}
                    THEN 1 ELSE 0)
Asked(c) == CASE pc[c] \in {"off", "sendStart"} -> 0
              [] pc[c] \in {"waitActive", "sendStop"} -> 1
              [] OTHER -> IF heard[c].count > 0 THEN 2 ELSE 1
Knows(c, s) == IF s \in told[c] THEN 1 ELSE 0

UpdatesOK(s) ==
    \A c \in Clients :
        /\ heard[c].count + Pending(<<c, "CommandStatus">>, s) <= Answered(s)
        /\ Knows(c, s) + Pending(<<c, "Activity">>, s) <= Reported(s)
        /\ heard[c].activity = s => s \in told[c]
CommandsOK(s) ==
    \A c \in Clients : Alone(c) /\ trouble = 0 =>
        Size(accepted[s]) + Pending(<<s, "Command">>, c) <= Asked(c)

(* An update that is dropped was for a client the service does not obey.    *)
OverrunOK(s) ==
    /\ \A c \in Clients, t \in Updates :
         <<c, t>> \in overrun => Size(accepted[s]) = 2 /\ accepted[s][2].by # c
    /\ <<s, "Command">> \in overrun => \A c \in Clients : ~(Alone(c) /\ trouble = 0)

Owed(s) == SeqsOK /\ RoutesOK /\ UpdatesOK(s) /\ CommandsOK(s) /\ OverrunOK(s)

(***************************************************************************)
(* Sequences of anything.                                                  *)
(***************************************************************************)

LEMMA EmptyIsSeq == IsSeq(<<>>) /\ Size(<<>>) = 0
BY DEF IsSeq, Size

LEMMA SeqSize ==
    ASSUME NEW x, IsSeq(x)
    PROVE  Size(x) \in Nat /\ (x # <<>> <=> Size(x) >= 1) /\ DOMAIN x = 1 .. Size(x)
<1>1. PICK S : x \in Seq(S)
  BY DEF IsSeq
<1>2. Len(x) \in Nat /\ (x = <<>> <=> Len(x) = 0) /\ DOMAIN x = 1 .. Len(x)
  BY <1>1, LenProperties, EmptySeq
<1>3. Size(x) = Len(x)
  BY DEF Size
<1>4. Size(x) \in Nat /\ (x = <<>> <=> Size(x) = 0) /\ DOMAIN x = 1 .. Size(x)
  BY <1>2, <1>3
<1> QED BY <1>4

LEMMA SeqAppend ==
    ASSUME NEW x, IsSeq(x), NEW v
    PROVE  IsSeq(Append(x, v)) /\ Size(Append(x, v)) = Size(x) + 1
<1>1. PICK S : x \in Seq(S)
  BY DEF IsSeq
<1> DEFINE T == S \cup {v}
<1>2. x \in Seq(T) /\ v \in T
  BY <1>1, SeqMonotonic
<1> HIDE DEF T
<1>3. Append(x, v) \in Seq(T) /\ Len(Append(x, v)) = Len(x) + 1
  BY <1>2, AppendProperties
<1> QED BY <1>3 DEF IsSeq, Size

LEMMA SeqTail ==
    ASSUME NEW x, IsSeq(x), x # <<>>
    PROVE  IsSeq(Tail(x)) /\ Size(Tail(x)) = Size(x) - 1
<1>1. PICK S : x \in Seq(S)
  BY DEF IsSeq
<1>2. Tail(x) \in Seq(S) /\ Len(Tail(x)) = Len(x) - 1
  BY <1>1, HeadTailProperties
<1> QED BY <1>2 DEF IsSeq, Size

LEMMA SeqRest ==
    ASSUME NEW x, IsSeq(x), NEW i \in DOMAIN x
    PROVE  /\ IsSeq(SubSeq(x, i + 1, Len(x)))
           /\ Size(SubSeq(x, i + 1, Len(x))) < Size(x)
<1>1. PICK S : x \in Seq(S)
  BY DEF IsSeq
<1>2. Len(x) \in Nat /\ i \in 1 .. Len(x)
  BY <1>1, LenProperties
<1>3. SubSeq(x, i + 1, Len(x)) \in Seq(S)
  <2>1. \A j \in i + 1 .. Len(x) : x[j] \in S
    BY <1>1, <1>2, ElementOfSeq
  <2> QED BY <1>1, <1>2, <2>1, SubSeqProperties
<1>4. Len(SubSeq(x, i + 1, Len(x))) = IF i + 1 <= Len(x) THEN Len(x) - (i + 1) + 1 ELSE 0
  BY <1>1, <1>2, SubSeqProperties
<1>5. Len(SubSeq(x, i + 1, Len(x))) < Len(x)
  BY <1>2, <1>4
<1> QED BY <1>3, <1>5 DEF IsSeq, Size

(***************************************************************************)
(* The accounts.                                                           *)
(***************************************************************************)

LEMMA Numbers ==
    ASSUME IInv, SeqsOK, NEW s \in Services
    PROVE  /\ Size(accepted[s]) \in 0 .. 2
           /\ Answered(s) \in Int /\ Answered(s) <= Size(accepted[s])
           /\ Reported(s) \in Int /\ Reported(s) <= Size(accepted[s])
           /\ \A c \in Clients : /\ heard[c].count \in Nat /\ Asked(c) \in 0 .. 2
                                 /\ Knows(c, s) \in 0 .. 1
           /\ \A e \in Endpoints, p \in Publishers :
                 /\ Size(cache[e]) \in Nat /\ Size(net[e][p]) \in Nat /\ Pending(e, p) \in Nat
<1>1. Size(accepted[s]) \in 0 .. 2
  <2>1. Len(accepted[s]) <= 2
    BY DEF IInv, FlowOK, ServiceOK
  <2>2. accepted[s] \in Seq([by : Publishers, start : BOOLEAN])
    BY DEF IInv, DataTyped
  <2>3. Len(accepted[s]) \in Nat
    BY <2>2, LenProperties
  <2>4. PICK n : n = Len(accepted[s])
    OBVIOUS
  <2>5. n \in Nat /\ n <= 2
    BY <2>1, <2>3, <2>4
  <2>6. n \in 0 .. 2
    BY <2>5
  <2> QED BY <2>4, <2>6 DEF Size
<1>2. /\ Answered(s) \in Int /\ Answered(s) <= Size(accepted[s])
      /\ Reported(s) \in Int /\ Reported(s) <= Size(accepted[s])
  BY <1>1 DEF Answered, Reported
<1>3. ASSUME NEW c \in Clients
      PROVE  heard[c].count \in Nat /\ Asked(c) \in 0 .. 2 /\ Knows(c, s) \in 0 .. 1
  <2>1. heard[c] \in [count : Nat, state : States, activity : Activity]
    BY DEF IInv, DataTyped
  <2> QED BY <2>1 DEF Asked, Knows
<1>4. ASSUME NEW e \in Endpoints, NEW p \in Publishers
      PROVE  Size(cache[e]) \in Nat /\ Size(net[e][p]) \in Nat /\ Pending(e, p) \in Nat
  <2>1. Size(cache[e]) \in Nat /\ Size(net[e][p]) \in Nat
    BY SeqSize DEF SeqsOK
  <2> QED BY <2>1 DEF Pending
<1> QED BY <1>1, <1>2, <1>3, <1>4

LEMMA NumbersAfter ==
    ASSUME IInv', SeqsOK', NEW s \in Services
    PROVE  /\ Size(accepted'[s]) \in Nat
           /\ Answered(s)' \in Int /\ Reported(s)' \in Int
           /\ \A c \in Clients : /\ heard'[c].count \in Nat /\ Asked(c)' \in 0 .. 2
                                 /\ Knows(c, s)' \in 0 .. 1
           /\ \A e \in Endpoints, p \in Publishers :
                 /\ Size(cache'[e]) \in Nat /\ Size(net'[e][p]) \in Nat /\ Pending(e, p)' \in Nat
<1>1. Size(accepted'[s]) \in Nat
  <2>1. accepted'[s] \in Seq([by : Publishers, start : BOOLEAN])
    BY DEF IInv, DataTyped
  <2>2. Len(accepted'[s]) \in Nat
    BY <2>1, LenProperties
  <2> QED BY <2>2 DEF Size
<1>2. Answered(s)' \in Int /\ Reported(s)' \in Int
  BY <1>1 DEF Answered, Reported
<1>3. ASSUME NEW c \in Clients
      PROVE  heard'[c].count \in Nat /\ Asked(c)' \in 0 .. 2 /\ Knows(c, s)' \in 0 .. 1
  <2>1. heard'[c] \in [count : Nat, state : States, activity : Activity]
    BY DEF IInv, DataTyped
  <2> QED BY <2>1 DEF Asked, Knows
<1>4. ASSUME NEW e \in Endpoints, NEW p \in Publishers
      PROVE  Size(cache'[e]) \in Nat /\ Size(net'[e][p]) \in Nat /\ Pending(e, p)' \in Nat
  <2>1. IsSeq(cache[e])' /\ IsSeq(net[e][p])'
    BY DEF SeqsOK
  <2>2. IsSeq(cache'[e]) /\ IsSeq(net'[e][p])
    BY <2>1 DEF IsSeq
  <2>3. Size(cache'[e]) \in Nat /\ Size(net'[e][p]) \in Nat
    BY <2>2, SeqSize
  <2> QED BY <2>3 DEF Pending
<1> QED BY <1>1, <1>2, <1>3, <1>4

LEMMA TheseAreEndpoints ==
    ASSUME NEW s \in Services, NEW c \in Clients
    PROVE  /\ <<s, "Command">> \in Endpoints
           /\ <<c, "CommandStatus">> \in Endpoints /\ <<c, "Activity">> \in Endpoints
           /\ s \in Publishers /\ c \in Publishers
           /\ s \in Apps /\ c \in Apps /\ s # c
BY DemoAssumption DEF Endpoints, Publishers

(* Who is alone was alone.                                                  *)
LEMMA WasAlone ==
    ASSUME NothingForgotten, NEW c \in Clients, Alone(c)', trouble' = 0, trouble \in Nat
    PROVE  Alone(c) /\ trouble = 0
BY DEF NothingForgotten, Alone

LEMMA Sums ==
    ASSUME NEW h \in Int, NEW p \in Int, NEW q \in Int, NEW a \in Int, NEW b \in Int,
           h + p <= a, q + a <= p + b
    PROVE  h + q <= b
OBVIOUS

(* A step that reads nothing and drops nothing: what it publishes is        *)
(* accounted for.                                                           *)
LEMMA AccountsKept ==
    ASSUME NEW s \in Services, IInv, IInv', NothingForgotten, Owed(s),
           SeqsOK', RoutesOK', overrun' = overrun, accepted' = accepted,
           heard' = heard, told' = told,
           \A c \in Clients :
             /\ Pending(<<c, "CommandStatus">>, s)' + Answered(s)
                  <= Pending(<<c, "CommandStatus">>, s) + Answered(s)'
             /\ Pending(<<c, "Activity">>, s)' + Reported(s)
                  <= Pending(<<c, "Activity">>, s) + Reported(s)'
             /\ Alone(c)' /\ trouble' = 0 =>
                  Pending(<<s, "Command">>, c)' + Asked(c) <= Pending(<<s, "Command">>, c) + Asked(c)'
    PROVE  Owed(s)'
<1>1. /\ Answered(s) \in Int /\ Reported(s) \in Int /\ Size(accepted[s]) \in Nat
      /\ Answered(s)' \in Int /\ Reported(s)' \in Int
  BY Numbers, NumbersAfter DEF Owed
<1>2. ASSUME NEW c \in Clients
      PROVE  /\ heard[c].count \in Int /\ Knows(c, s) \in Int
             /\ Asked(c) \in Int /\ Asked(c)' \in Int
             /\ Pending(<<c, "CommandStatus">>, s) \in Int
             /\ Pending(<<c, "CommandStatus">>, s)' \in Int
             /\ Pending(<<c, "Activity">>, s) \in Int
             /\ Pending(<<c, "Activity">>, s)' \in Int
             /\ Pending(<<s, "Command">>, c) \in Int
             /\ Pending(<<s, "Command">>, c)' \in Int
  <2>1. \A e \in Endpoints, p \in Publishers : Pending(e, p) \in Nat /\ Pending(e, p)' \in Nat
    BY Numbers, NumbersAfter DEF Owed
  <2>2. heard[c].count \in Nat /\ Asked(c) \in 0 .. 2 /\ Knows(c, s) \in 0 .. 1
    BY Numbers DEF Owed
  <2>3. Asked(c)' \in 0 .. 2
    BY NumbersAfter
  <2> QED BY <2>1, <2>2, <2>3, TheseAreEndpoints
<1>3. \A c \in Clients : Knows(c, s)' = Knows(c, s)
  BY DEF Knows
<1>4. UpdatesOK(s)'
  <2>1. SUFFICES ASSUME NEW c \in Clients
                 PROVE  /\ heard'[c].count + Pending(<<c, "CommandStatus">>, s)' <= Answered(s)'
                        /\ Knows(c, s)' + Pending(<<c, "Activity">>, s)' <= Reported(s)'
                        /\ heard'[c].activity = s => s \in told'[c]
    BY DEF UpdatesOK
  <2>2. /\ heard[c].count + Pending(<<c, "CommandStatus">>, s) <= Answered(s)
        /\ Knows(c, s) + Pending(<<c, "Activity">>, s) <= Reported(s)
        /\ heard[c].activity = s => s \in told[c]
    BY DEF Owed, UpdatesOK
  <2>3. heard'[c].count + Pending(<<c, "CommandStatus">>, s)' <= Answered(s)'
    <3>1. heard[c].count \in Int
      BY <1>2
    <3>2. /\ Pending(<<c, "CommandStatus">>, s)' + Answered(s)
                  <= Pending(<<c, "CommandStatus">>, s) + Answered(s)'
          /\ heard[c].count + Pending(<<c, "CommandStatus">>, s) <= Answered(s)
      BY <2>2
    <3>3. /\ Pending(<<c, "CommandStatus">>, s) \in Int
          /\ Pending(<<c, "CommandStatus">>, s)' \in Int
      BY <1>2
    <3>4. heard[c].count + Pending(<<c, "CommandStatus">>, s)' <= Answered(s)'
      BY <1>1, <3>1, <3>2, <3>3, Sums
    <3> QED BY <3>4
  <2>4. Knows(c, s)' + Pending(<<c, "Activity">>, s)' <= Reported(s)'
    <3>1. Knows(c, s) + Pending(<<c, "Activity">>, s)' <= Reported(s)'
      <4>1. Pending(<<c, "Activity">>, s) \in Int /\ Pending(<<c, "Activity">>, s)' \in Int
        BY <1>2
      <4>2. Knows(c, s) \in Int
        BY <1>2
      <4>3. /\ Pending(<<c, "Activity">>, s)' + Reported(s)
                  <= Pending(<<c, "Activity">>, s) + Reported(s)'
            /\ Knows(c, s) + Pending(<<c, "Activity">>, s) <= Reported(s)
        BY <2>2
      <4> QED BY <1>1, <4>1, <4>2, <4>3, Sums
    <3> QED BY <1>3, <3>1
  <2> QED BY <2>2, <2>3, <2>4
<1>5. \A c \in Clients : Alone(c)' /\ trouble' = 0 => Alone(c) /\ trouble = 0
  BY WasAlone DEF IInv, ProcessesTyped
<1>6. CommandsOK(s)'
  <2>1. SUFFICES ASSUME NEW c \in Clients, Alone(c)', trouble' = 0
                 PROVE  Size(accepted'[s]) + Pending(<<s, "Command">>, c)' <= Asked(c)'
    BY DEF CommandsOK
  <2>2. Size(accepted[s]) + Pending(<<s, "Command">>, c) <= Asked(c)
    BY <1>5, <2>1 DEF Owed, CommandsOK
  <2>3. /\ Pending(<<s, "Command">>, c) \in Int /\ Pending(<<s, "Command">>, c)' \in Int
        /\ Asked(c) \in Int /\ Asked(c)' \in Int
    BY <1>2
  <2>4. Pending(<<s, "Command">>, c)' + Asked(c) <= Pending(<<s, "Command">>, c) + Asked(c)'
    BY <2>1
  <2>5. Size(accepted[s]) + Pending(<<s, "Command">>, c)' <= Asked(c)'
    BY <1>1, <2>2, <2>3, <2>4, Sums
  <2> QED BY <2>5
<1>7. OverrunOK(s)'
  BY <1>5 DEF Owed, OverrunOK
<1> QED BY <1>4, <1>6, <1>7 DEF Owed

(***************************************************************************)
(* Steps that publish nothing.                                             *)
(***************************************************************************)

LEMMA RoutesKept ==
    ASSUME RoutesOK, NothingForgotten, overrun' = overrun,
           \A e \in Endpoints :
             /\ ends'[e] = "reader" => ends[e] = "reader" \/ Receiving(e)'
             /\ \A p \in Publishers :
                  net'[e][p] # <<>> => net[e][p] # <<>> \/ Route(e, p) \/ Route(e, p)'
    PROVE  RoutesOK'
<1>1. Begun \subseteq Begun' /\ Senders \subseteq Senders'
  BY KnownGrows
<1>2. \A e : Receiving(e) => Receiving(e)'
  BY <1>1 DEF Receiving
<1>3. \A e, p : Route(e, p) => Route(e, p)'
  BY <1>1 DEF Route
<1>4. \A e \in Endpoints : ends'[e] = "reader" => Receiving(e)'
  BY <1>2 DEF RoutesOK
<1>5. \A e \in Endpoints : \A p \in Publishers : net'[e][p] # <<>> => Route(e, p)'
  BY <1>3 DEF RoutesOK
<1>6. \A e \in overrun' : e \in Endpoints /\ Receiving(e)'
  BY <1>2 DEF RoutesOK
<1> QED BY <1>4, <1>5, <1>6 DEF RoutesOK

(* What has been answered, reported and asked for does not become less.     *)
Onward(a) == \/ pc'[a] = pc[a]
             \/ pc'[a] \in {"cleanup", "ended"}
             \/ pc[a] = "off" /\ pc'[a] \in {"capability", "sendStart"}

LEMMA MovesOn ==
    ASSUME NEW s \in Services, IInv, SeqsOK, accepted' = accepted, heard' = heard,
           \A a \in Apps : Onward(a)
    PROVE  /\ Answered(s)' >= Answered(s) /\ Reported(s)' >= Reported(s)
           /\ \A c \in Clients : Asked(c)' >= Asked(c)
<1>1. Size(accepted[s]) \in Nat /\ \A c \in Clients : heard[c].count \in Nat
  BY Numbers
<1>2. Services \subseteq Apps /\ Clients \subseteq Apps
  BY DemoAssumption
<1>3. Answered(s)' >= Answered(s) /\ Reported(s)' >= Reported(s)
  BY <1>1, <1>2 DEF Answered, Reported, Onward
<1>4. ASSUME NEW c \in Clients PROVE Asked(c)' >= Asked(c)
  BY <1>1, <1>2 DEF Asked, Onward
<1> QED BY <1>3, <1>4

LEMMA NothingPublished ==
    ASSUME NEW s \in Services, IInv, IInv', NothingForgotten, Owed(s),
           overrun' = overrun, accepted' = accepted, heard' = heard, told' = told,
           \A a \in Apps : Onward(a),
           \A e \in Endpoints :
             /\ ends'[e] = "reader" => ends[e] = "reader" \/ Receiving(e)'
             /\ cache'[e] \in {cache[e], <<>>}
             /\ \A p \in Publishers : net'[e][p] \in {net[e][p], <<>>}
    PROVE  Owed(s)'
<1>1. SeqsOK /\ RoutesOK
  BY DEF Owed
<1>2. SeqsOK'
  <2>1. \A e \in Endpoints : /\ IsSeq(cache'[e])
                             /\ \A p \in Publishers : IsSeq(net'[e][p])
    BY <1>1, EmptyIsSeq DEF SeqsOK
  <2> QED BY <2>1 DEF SeqsOK, IsSeq
<1>3. RoutesOK'
  BY <1>1, RoutesKept
<1>4. ASSUME NEW e \in Endpoints, NEW p \in Publishers
      PROVE  Pending(e, p)' <= Pending(e, p)
  <2>1. /\ Size(cache[e]) \in Nat /\ Size(net[e][p]) \in Nat
        /\ Size(cache'[e]) \in Nat /\ Size(net'[e][p]) \in Nat
    BY <1>1, <1>2, Numbers, NumbersAfter
  <2>2. Size(cache'[e]) <= Size(cache[e]) /\ Size(net'[e][p]) <= Size(net[e][p])
    BY <2>1, EmptyIsSeq
  <2> QED BY <2>1, <2>2 DEF Pending
<1>5. /\ Answered(s)' >= Answered(s) /\ Reported(s)' >= Reported(s)
      /\ \A c \in Clients : Asked(c)' >= Asked(c)
  BY <1>1, MovesOn
<1>6. /\ Answered(s) \in Int /\ Answered(s)' \in Int
      /\ Reported(s) \in Int /\ Reported(s)' \in Int
      /\ \A c \in Clients : Asked(c) \in Int /\ Asked(c)' \in Int
      /\ \A e \in Endpoints, p \in Publishers : Pending(e, p) \in Int /\ Pending(e, p)' \in Int
  BY <1>1, <1>2, Numbers, NumbersAfter
<1>7. \A p, q, a, b \in Int : p <= q /\ b >= a => p + a <= q + b
  OBVIOUS
<1>8. ASSUME NEW c \in Clients
      PROVE  /\ Pending(<<c, "CommandStatus">>, s)' + Answered(s)
                  <= Pending(<<c, "CommandStatus">>, s) + Answered(s)'
             /\ Pending(<<c, "Activity">>, s)' + Reported(s)
                  <= Pending(<<c, "Activity">>, s) + Reported(s)'
             /\ Pending(<<s, "Command">>, c)' + Asked(c) <= Pending(<<s, "Command">>, c) + Asked(c)'
  BY <1>4, <1>5, <1>6, <1>7, TheseAreEndpoints
<1> QED BY <1>2, <1>3, <1>8, AccountsKept

LEMMA BeginMeans ==
    ASSUME NEW a \in Apps, BeginStep(a)
    PROVE  /\ pc[a] = "off" /\ cache' = cache /\ net' = net /\ overrun' = overrun
           /\ accepted' = accepted /\ heard' = heard /\ told' = told
           /\ \E l \in {"capability", "sendStart", "cleanup", "ended"} : pc' = [pc EXCEPT ![a] = l]
           /\ \/ ends' = ends
              \/ \E made \in SUBSET Own(a) : CreateEnds(a, made, Amti!Writes(a))
<1>1. /\ pc[a] = "off" /\ cache' = cache /\ net' = net /\ overrun' = overrun
      /\ accepted' = accepted /\ heard' = heard /\ told' = told
  BY DEF BeginStep, dataVars
<1>2. ToSet(Amti!Ends(a)) = Own(a) /\ Own(a) \subseteq Topics
  BY SameEnds
<1>3. CASE MakeAll(a, Amti!Ends(a), Amti!Writes(a),
                   IF a \in Services THEN "capability" ELSE "sendStart")
  BY <1>1, <1>2, <1>3 DEF MakeAll, Goto
<1>4. CASE \E k \in 0 .. Len(Amti!Ends(a)) - 1 : \E steps :
             LET made == SubSeq(Amti!Ends(a), 1, k) IN
             /\ MakeSome(a, made, Amti!Writes(a), steps)
             /\ IF demo = "amti" THEN steps = <<>> ELSE Plan(steps, ToSet(made))
  <2>1. PICK k, steps : /\ k \in 0 .. Len(Amti!Ends(a)) - 1
                        /\ MakeSome(a, SubSeq(Amti!Ends(a), 1, k), Amti!Writes(a), steps)
    BY <1>4
  <2>2. PICK made : made = ToSet(SubSeq(Amti!Ends(a), 1, k))
    OBVIOUS
  <2>3. made \in SUBSET Own(a)
    BY <2>1, <2>2, MadeIsOwn
  <2>4. CreateEnds(a, made, Amti!Writes(a)) /\ Leave(a, 1, steps)
    BY <2>1, <2>2 DEF MakeSome
  <2> QED BY <1>1, <2>3, <2>4 DEF Leave, Goto
<1>5. CASE MakeNothing(a)
  BY <1>1, <1>5 DEF MakeNothing, Leave, Goto
<1> QED BY <1>3, <1>4, <1>5 DEF BeginStep

LEMMA BeginOwes ==
    ASSUME NEW s \in Services, IInv, IInv', NothingForgotten, Owed(s),
           NEW a \in Apps, BeginStep(a)
    PROVE  Owed(s)'
<1>1. /\ pc[a] = "off" /\ cache' = cache /\ net' = net /\ overrun' = overrun
      /\ accepted' = accepted /\ heard' = heard /\ told' = told
  BY BeginMeans
<1>2. PICK l \in {"capability", "sendStart", "cleanup", "ended"} : pc' = [pc EXCEPT ![a] = l]
  BY BeginMeans
<1>3. pc'[a] = l /\ \A b \in Apps \ {a} : pc'[b] = pc[b]
  BY <1>2 DEF IInv, ProcessesTyped
<1>4. \A b \in Apps : Onward(b)
  BY <1>1, <1>2, <1>3 DEF Onward
<1>5. ASSUME NEW e \in Endpoints, ends'[e] = "reader", ends[e] # "reader"
      PROVE  Receiving(e)'
  <2>1. PICK made \in SUBSET Own(a) : CreateEnds(a, made, Amti!Writes(a))
    BY <1>5, BeginMeans
  <2>2. e[1] = a /\ e[2] \in Own(a) \ Amti!Writes(a)
    BY <1>5, <2>1 DEF CreateEnds
  <2>3. CASE a \in Services
    <3>1. Own(a) = Topics
      BY <2>3 DEF Own
    <3>2. Amti!Writes(a) = {"Capability", "CapabilityStatus", "CommandStatus", "Activity"}
      BY <2>3 DEF Amti!Writes, Amti!ServiceWrites
    <3>3. e[2] = "Command"
      BY <2>2, <3>1, <3>2, DemoAssumption
    <3> QED BY <2>2, <2>3, <3>3 DEF Receiving
  <2>4. CASE a \in Clients /\ a \notin Services
    <3>1. Own(a) = {"Command", "CommandStatus", "Activity"} /\ Amti!Writes(a) = {"Command"}
      BY <2>4 DEF Own, Amti!Writes, Amti!ClientWrites
    <3>2. e[2] \in Updates
      BY <2>2, <3>1 DEF Updates
    <3>3. a \in Begun'
      BY <1>2, <1>3, <2>4 DEF Begun
    <3> QED BY <2>2, <3>2, <3>3 DEF Receiving
  <2> QED BY <2>3, <2>4, DemoAssumption
<1> QED BY <1>1, <1>4, <1>5, NothingPublished

LEMMA LeavingOwes ==
    ASSUME NEW s \in Services, IInv, IInv', NothingForgotten, Owed(s),
           NEW a \in Apps, ThrowStep(a) \/ TimeoutStep(a)
    PROVE  Owed(s)'
<1>1. /\ net' = net /\ ends' = ends /\ overrun' = overrun
      /\ accepted' = accepted /\ heard' = heard /\ told' = told
      /\ \E steps : Plan(steps, Own(a)) /\ Leave(a, 1, steps)
      /\ cache' = cache \/ \E topic \in Topics : TakeAll(<<a, topic>>)
  BY DEF ThrowStep, Fails, TimeoutStep, TimesOut, busVars, dataVars
<1>2. pc' = [pc EXCEPT ![a] = "cleanup"]
  BY <1>1, PlanNotEmpty DEF Leave, Goto
<1>3. \A b \in Apps : Onward(b)
  BY <1>2 DEF Onward, IInv, ProcessesTyped
<1>4. \A e \in Endpoints : cache'[e] \in {cache[e], <<>>}
  BY <1>1, ReadEmpties
<1> QED BY <1>1, <1>3, <1>4, NothingPublished

LEMMA CleanUpOwes ==
    ASSUME NEW s \in Services, IInv, IInv', NothingForgotten, Owed(s),
           NEW a \in Apps, CleanUp(a)
    PROVE  Owed(s)'
<1>1. /\ overrun' = overrun /\ accepted' = accepted /\ heard' = heard /\ told' = told
      /\ pc[a] = "cleanup" /\ \E l \in {"cleanup", "ended"} : pc' = [pc EXCEPT ![a] = l]
  BY DEF CleanUp, Goto, dataVars
<1>2. \A b \in Apps : Onward(b)
  BY <1>1 DEF Onward, IInv, ProcessesTyped
<1>3. \/ ends' = ends /\ cache' = cache /\ net' = net
      \/ \E how \in {"closed", "gone"} : \E T : EndEnds(a, T, how)
  <2>1. PICK step : step = Head(todo[a])
    OBVIOUS
  <2>2. \/ step[1] \in {"closed", "gone"} /\ EndEnds(a, step[2], step[1])
        \/ ends' = ends /\ cache' = cache /\ net' = net
    BY <2>1 DEF CleanUp
  <2>3. CASE step[1] \in {"closed", "gone"} /\ EndEnds(a, step[2], step[1])
    BY <2>3
  <2> QED BY <2>2, <2>3
<1>4. ASSUME NEW how \in {"closed", "gone"}, NEW T, EndEnds(a, T, how), NEW e \in Endpoints
      PROVE  /\ ends'[e] = "reader" => ends[e] = "reader"
             /\ cache'[e] \in {cache[e], <<>>}
             /\ \A p \in Publishers : net'[e][p] \in {net[e][p], <<>>}
  <2>1. /\ ends'[e] \in {how, ends[e]}
        /\ cache'[e] \in {cache[e], <<>>}
        /\ net'[e] \in {net[e], Quiet}
    BY <1>4 DEF EndEnds
  <2>2. \A p \in Publishers : Quiet[p] = <<>>
    BY DEF Quiet
  <2> QED BY <2>1, <2>2
<1>5. \A e \in Endpoints : /\ ends'[e] = "reader" => ends[e] = "reader"
                           /\ cache'[e] \in {cache[e], <<>>}
                           /\ \A p \in Publishers : net'[e][p] \in {net[e][p], <<>>}
  BY <1>3, <1>4
<1>6. overrun' = overrun /\ accepted' = accepted /\ heard' = heard /\ told' = told
  BY <1>1
<1> QED BY <1>2, <1>5, <1>6, NothingPublished

(***************************************************************************)
(* Steps that publish.                                                     *)
(***************************************************************************)

LEMMA SentTo ==
    ASSUME IInv, SeqsOK, RoutesOK, NEW a \in Apps, NEW topic, NEW body,
           Publish(a, topic, body)
    PROVE  /\ SeqsOK' /\ cache' = cache /\ ends' = ends /\ overrun' = overrun
           /\ \A e \in Endpoints, p \in Publishers :
                 \/ net'[e][p] = net[e][p]
                 \/ /\ e[2] = topic /\ p = a /\ ends[e] = "reader"
                    /\ Size(net'[e][p]) = Size(net[e][p]) + 1
<1>1. /\ net' = [r \in Endpoints |-> IF r \in Readers(<<a, topic>>)
                                     THEN [net[r] EXCEPT ![a] = Append(@, body)]
                                     ELSE net[r]]
      /\ cache' = cache /\ ends' = ends /\ overrun' = overrun
  BY DEF Publish, Write, Send
<1>2. \A r \in Readers(<<a, topic>>) : r[2] = topic /\ ends[r] = "reader"
  BY DEF Readers
<1>3. \A r \in Endpoints : net[r] = [p \in Publishers |-> net[r][p]]
  BY DEF IInv, DataTyped
<1>4. a \in Publishers
  BY DEF Publishers
<1>5. ASSUME NEW e \in Endpoints, NEW p \in Publishers
      PROVE  net'[e][p] = IF e \in Readers(<<a, topic>>) /\ p = a
                            THEN Append(net[e][p], body) ELSE net[e][p]
  <2>1. CASE e \in Readers(<<a, topic>>)
    <3>1. net'[e] = [net[e] EXCEPT ![a] = Append(@, body)]
      BY <1>1, <2>1
    <3> QED BY <1>3, <1>4, <2>1, <3>1
  <2>2. CASE e \notin Readers(<<a, topic>>)
    BY <1>1, <1>3, <2>2
  <2> QED BY <2>1, <2>2
<1>6. \A e \in Endpoints, p \in Publishers :
        /\ IsSeq(net[e][p]) /\ IsSeq(Append(net[e][p], body))
        /\ Size(Append(net[e][p], body)) = Size(net[e][p]) + 1
  BY SeqAppend DEF SeqsOK
<1>7. SeqsOK'
  <2>1. \A e \in Endpoints : /\ IsSeq(cache'[e])
                             /\ \A p \in Publishers : IsSeq(net'[e][p])
    BY <1>1, <1>5, <1>6 DEF SeqsOK
  <2> QED BY <2>1 DEF SeqsOK, IsSeq
<1>8. \A e \in Endpoints, p \in Publishers :
        \/ net'[e][p] = net[e][p]
        \/ /\ e[2] = topic /\ p = a /\ ends[e] = "reader"
           /\ Size(net'[e][p]) = Size(net[e][p]) + 1
  BY <1>2, <1>5, <1>6
<1> QED BY <1>1, <1>7, <1>8

(* A service tells clients, a client asks services.                         *)
LEMMA PublishOwes ==
    ASSUME NEW s \in Services, Services = {s}, IInv, IInv', NothingForgotten, Owed(s),
           NEW a \in Apps, NEW topic, NEW body, Publish(a, topic, body),
           accepted' = accepted, heard' = heard, told' = told,
           a = s => topic # "Command",
           a # s => topic = "Command" /\ a \in Begun,
           Answered(s)' >= Answered(s) + (IF topic = "CommandStatus" THEN 1 ELSE 0),
           Reported(s)' >= Reported(s) + (IF topic = "Activity" THEN 1 ELSE 0),
           \A c \in Clients : Asked(c)' >= Asked(c) + (IF a = c THEN 1 ELSE 0)
    PROVE  Owed(s)'
<1>1. SeqsOK /\ RoutesOK
  BY DEF Owed
<1>2. /\ SeqsOK' /\ cache' = cache /\ ends' = ends /\ overrun' = overrun
      /\ \A e \in Endpoints, p \in Publishers :
            \/ net'[e][p] = net[e][p]
            \/ /\ e[2] = topic /\ p = a /\ ends[e] = "reader"
               /\ Size(net'[e][p]) = Size(net[e][p]) + 1
  BY <1>1, SentTo
<1>3. \A e \in Endpoints, p \in Publishers :
        net'[e][p] # <<>> => net[e][p] # <<>> \/ Route(e, p)
  <2>1. SUFFICES ASSUME NEW e \in Endpoints, e[2] = topic, ends[e] = "reader"
                 PROVE  Route(e, a)
    BY <1>2
  <2>2. Receiving(e)
    BY <1>1, <2>1 DEF RoutesOK
  <2>3. CASE a = s
    BY <2>1, <2>2, <2>3 DEF Receiving, Route
  <2>4. CASE a # s
    BY <2>1, <2>2, <2>4 DEF Receiving, Route, Senders, Updates
  <2> QED BY <2>3, <2>4
<1>4. RoutesOK'
  BY <1>1, <1>2, <1>3, RoutesKept
<1>5. ASSUME NEW e \in Endpoints, NEW p \in Publishers
      PROVE  Pending(e, p)' <= Pending(e, p) + (IF e[2] = topic /\ p = a THEN 1 ELSE 0)
  <2>1. Size(cache[e]) \in Nat /\ Size(net[e][p]) \in Nat
    BY <1>1, Numbers
  <2>2. Pending(e, p)' = Size(cache[e]) + Size(net'[e][p])
    BY <1>2 DEF Pending
  <2>3. Pending(e, p) = Size(cache[e]) + Size(net[e][p])
    BY DEF Pending
  <2> QED BY <1>2, <2>1, <2>2, <2>3
<1>6. /\ Answered(s) \in Int /\ Answered(s)' \in Int
      /\ Reported(s) \in Int /\ Reported(s)' \in Int
      /\ \A c \in Clients : Asked(c) \in Int /\ Asked(c)' \in Int
      /\ \A e \in Endpoints, p \in Publishers : Pending(e, p) \in Int /\ Pending(e, p)' \in Int
  BY <1>1, <1>2, Numbers, NumbersAfter
<1>7. \A p, q, x, y \in Int : \A i \in {0, 1} : p <= q + i /\ y >= x + i => p + x <= q + y
  OBVIOUS
<1>8. ASSUME NEW c \in Clients
      PROVE  /\ Pending(<<c, "CommandStatus">>, s)' + Answered(s)
                  <= Pending(<<c, "CommandStatus">>, s) + Answered(s)'
             /\ Pending(<<c, "Activity">>, s)' + Reported(s)
                  <= Pending(<<c, "Activity">>, s) + Reported(s)'
             /\ Pending(<<s, "Command">>, c)' + Asked(c) <= Pending(<<s, "Command">>, c) + Asked(c)'
  <2>1. /\ Pending(<<c, "CommandStatus">>, s)'
             <= Pending(<<c, "CommandStatus">>, s) + (IF topic = "CommandStatus" /\ s = a THEN 1 ELSE 0)
        /\ Pending(<<c, "Activity">>, s)'
             <= Pending(<<c, "Activity">>, s) + (IF topic = "Activity" /\ s = a THEN 1 ELSE 0)
        /\ Pending(<<s, "Command">>, c)'
             <= Pending(<<s, "Command">>, c) + (IF topic = "Command" /\ c = a THEN 1 ELSE 0)
    BY <1>5, TheseAreEndpoints
  <2>2. c = a => topic = "Command"
    BY TheseAreEndpoints
  <2>3. s # a => topic \notin Updates
    BY DEF Updates
  <2>4. /\ Pending(<<c, "CommandStatus">>, s) \in Int /\ Pending(<<c, "CommandStatus">>, s)' \in Int
        /\ Pending(<<c, "Activity">>, s) \in Int /\ Pending(<<c, "Activity">>, s)' \in Int
        /\ Pending(<<s, "Command">>, c) \in Int /\ Pending(<<s, "Command">>, c)' \in Int
    BY <1>6, TheseAreEndpoints
  <2>5. Pending(<<c, "CommandStatus">>, s)' + Answered(s)
                  <= Pending(<<c, "CommandStatus">>, s) + Answered(s)'
    BY <1>6, <1>7, <2>1, <2>3, <2>4 DEF Updates
  <2>6. Pending(<<c, "Activity">>, s)' + Reported(s)
                  <= Pending(<<c, "Activity">>, s) + Reported(s)'
    BY <1>6, <1>7, <2>1, <2>3, <2>4 DEF Updates
  <2>7. Pending(<<s, "Command">>, c)' + Asked(c) <= Pending(<<s, "Command">>, c) + Asked(c)'
    BY <1>6, <1>7, <2>1, <2>2, <2>4
  <2> QED BY <2>5, <2>6, <2>7
<1> QED BY <1>2, <1>4, <1>8, AccountsKept

LEMMA TellOwes ==
    ASSUME NEW s \in Services, Services = {s}, IInv, IInv', NothingForgotten, Owed(s),
           TellStep(s)
    PROVE  Owed(s)'
<1>1. PICK topic, body, next :
         /\ topic \in {"Capability", "CapabilityStatus", "CommandStatus"}
         /\ topic = "CommandStatus" <=> pc[s] \in {"startStatus", "stopStatus"}
         /\ PublishThen(s, topic, body, next)
         /\ <<pc[s], next>> \in {<<"capability", "capabilityStatus">>,
                                 <<"capabilityStatus", "waitStart">>,
                                 <<"startStatus", "startActivity">>,
                                 <<"stopStatus", "stopActivity">>}
  BY DEF TellStep
<1>2. /\ Publish(s, topic, body) /\ accepted' = accepted /\ heard' = heard /\ told' = told
      /\ pc' = [pc EXCEPT ![s] = next]
  BY <1>1 DEF PublishThen, Goto, dataVars
<1>3. s \in Apps /\ pc'[s] = next /\ \A b \in Apps \ {s} : pc'[b] = pc[b]
  BY <1>2, DemoAssumption DEF IInv, ProcessesTyped
<1>4. Size(accepted[s]) \in Nat
  BY Numbers DEF Owed
<1>5. /\ Answered(s)' >= Answered(s) + (IF topic = "CommandStatus" THEN 1 ELSE 0)
      /\ Reported(s)' >= Reported(s)
  BY <1>1, <1>2, <1>3, <1>4 DEF Answered, Reported
<1>6. ASSUME NEW c \in Clients PROVE s # c /\ Asked(c)' >= Asked(c)
  <2>1. c \in Apps \ {s}
    BY DemoAssumption
  <2>2. Asked(c)' = Asked(c) /\ Asked(c) \in 0 .. 2
    BY <1>2, <1>3, <2>1, Numbers DEF Asked, Owed
  <2> QED BY <2>1, <2>2
<1>7. /\ Answered(s) \in Int /\ Reported(s) \in Int /\ \A c \in Clients : Asked(c) \in Int
      /\ Reported(s)' \in Int /\ \A c \in Clients : Asked(c)' \in Int
  BY <1>2, <1>3, <1>4, <1>6, Numbers DEF Owed, Reported, Asked
<1>8. /\ Reported(s)' >= Reported(s) + (IF topic = "Activity" THEN 1 ELSE 0)
      /\ \A c \in Clients : Asked(c)' >= Asked(c) + (IF s = c THEN 1 ELSE 0)
  BY <1>1, <1>5, <1>6, <1>7
<1> QED BY <1>1, <1>2, <1>3, <1>5, <1>8, PublishOwes

LEMMA ReportOwes ==
    ASSUME NEW s \in Services, Services = {s}, IInv, IInv', NothingForgotten, Owed(s),
           ActivateStep(s) \/ CompleteStep(s)
    PROVE  Owed(s)'
<1>1. PICK body, next :
        /\ Publish(s, "Activity", body) /\ accepted' = accepted /\ heard' = heard /\ told' = told
        /\ pc' = [pc EXCEPT ![s] = next]
        /\ pc[s] \in {"startActivity", "stopActivity"} /\ next \in {"waitStop", "cleanup"}
  <2>1. CASE ActivateStep(s)
    BY <2>1 DEF ActivateStep, Goto
  <2>2. CASE CompleteStep(s)
    BY <2>2, PlanNotEmpty DEF CompleteStep, Leave, Goto, dataVars
  <2> QED BY <2>1, <2>2
<1>3. s \in Apps /\ pc'[s] = next /\ \A b \in Apps \ {s} : pc'[b] = pc[b]
  BY <1>1, DemoAssumption DEF IInv, ProcessesTyped
<1>4. Size(accepted[s]) \in Nat
  BY Numbers DEF Owed
<1>5. Answered(s)' >= Answered(s) /\ Reported(s)' >= Reported(s) + 1
  BY <1>1, <1>3, <1>4 DEF Answered, Reported
<1>6. ASSUME NEW c \in Clients PROVE s # c /\ Asked(c)' = Asked(c) /\ Asked(c) \in 0 .. 2
  <2>1. c \in Apps \ {s}
    BY DemoAssumption
  <2> QED BY <1>1, <1>3, <2>1, Numbers DEF Asked, Owed
<1>7. Answered(s) \in Int /\ Answered(s)' \in Int
  BY <1>1, <1>3, <1>4 DEF Answered
<1>8. /\ Answered(s)' >= Answered(s) + (IF "Activity" = "CommandStatus" THEN 1 ELSE 0)
      /\ Reported(s)' >= Reported(s) + (IF "Activity" = "Activity" THEN 1 ELSE 0)
      /\ \A c \in Clients : Asked(c)' >= Asked(c) + (IF s = c THEN 1 ELSE 0)
  BY <1>5, <1>6, <1>7
<1> QED BY <1>1, <1>3, <1>8, PublishOwes

LEMMA AskOwes ==
    ASSUME NEW s \in Services, Services = {s}, IInv, IInv', NothingForgotten, Owed(s),
           NEW a \in Clients, AskStep(a)
    PROVE  Owed(s)'
<1>1. PICK body, next :
        /\ Publish(a, "Command", body) /\ accepted' = accepted /\ heard' = heard /\ told' = told
        /\ pc' = [pc EXCEPT ![a] = next]
        /\ <<pc[a], next>> \in {<<"sendStart", "waitActive">>, <<"sendStop", "waitCompleted">>}
  BY DEF AskStep, PublishThen, Goto, dataVars
<1>2. a \in Apps /\ a # s /\ pc'[a] = next /\ \A b \in Apps \ {a} : pc'[b] = pc[b]
  BY <1>1, DemoAssumption DEF IInv, ProcessesTyped
<1>3. a \in Begun
  BY <1>1 DEF Begun
<1>4. pc[a] = "sendStop" => heard[a].count > 0
  BY DEF IInv, FlowOK, ClientOK, Informed
<1>5. Asked(a)' = Asked(a) + 1
  BY <1>1, <1>2, <1>4 DEF Asked
<1>6. ASSUME NEW c \in Clients PROVE Asked(c)' >= Asked(c) + (IF a = c THEN 1 ELSE 0)
  <2>1. Asked(c) \in 0 .. 2
    BY Numbers DEF Owed
  <2>2. CASE c # a
    <3>1. pc'[c] = pc[c]
      BY <1>2, <2>2, DemoAssumption
    <3>2. Asked(c)' = Asked(c)
      BY <1>1, <3>1 DEF Asked
    <3> QED BY <2>1, <2>2, <3>2
  <2>3. CASE c = a
    BY <1>5, <2>1, <2>3
  <2> QED BY <2>2, <2>3
<1>7. Size(accepted[s]) \in Nat /\ pc'[s] = pc[s]
  BY <1>2, Numbers, DemoAssumption DEF Owed
<1>8. /\ Answered(s)' = Answered(s) /\ Reported(s)' = Reported(s)
      /\ Answered(s) \in Int /\ Reported(s) \in Int
  BY <1>1, <1>7 DEF Answered, Reported
<1>9. /\ Answered(s)' >= Answered(s) + (IF "Command" = "CommandStatus" THEN 1 ELSE 0)
      /\ Reported(s)' >= Reported(s) + (IF "Command" = "Activity" THEN 1 ELSE 0)
  BY <1>8
<1> QED BY <1>1, <1>2, <1>3, <1>6, <1>9, PublishOwes

(***************************************************************************)
(* Steps that read.                                                        *)
(***************************************************************************)

(* A read leaves one cache empty.                                           *)
LEMMA ReadOne ==
    ASSUME IInv, SeqsOK, RoutesOK, NothingForgotten, NEW e \in Endpoints, Has(e),
           cache' = [cache EXCEPT ![e] = <<>>], net' = net, ends' = ends, overrun' = overrun
    PROVE  /\ SeqsOK' /\ RoutesOK'
           /\ \A p \in Publishers : Pending(e, p)' <= Pending(e, p) - 1
           /\ \A r \in Endpoints \ {e}, p \in Publishers : Pending(r, p)' = Pending(r, p)
           /\ \A r \in Endpoints, p \in Publishers : Pending(r, p) \in Nat /\ Pending(r, p)' \in Nat
<1>1. cache'[e] = <<>> /\ \A r \in Endpoints \ {e} : cache'[r] = cache[r]
  BY DEF IInv, DataTyped
<1>2. SeqsOK'
  <2>1. \A r \in Endpoints : /\ IsSeq(cache'[r])
                             /\ \A p \in Publishers : IsSeq(net'[r][p])
    BY <1>1, EmptyIsSeq DEF SeqsOK
  <2> QED BY <2>1 DEF SeqsOK, IsSeq
<1>3. RoutesOK'
  BY RoutesKept
<1>4. ASSUME NEW r \in Endpoints, NEW p \in Publishers
      PROVE  Size(cache[r]) \in Nat /\ Size(net[r][p]) \in Nat
  BY SeqSize DEF SeqsOK
<1>5. Size(cache[e]) >= 1 /\ Size(cache'[e]) = 0
  BY <1>1, SeqSize, EmptyIsSeq DEF SeqsOK, Has
<1>6. \A p \in Publishers : Pending(e, p)' <= Pending(e, p) - 1
  BY <1>4, <1>5 DEF Pending
<1>7. \A r \in Endpoints \ {e}, p \in Publishers : Pending(r, p)' = Pending(r, p)
  BY <1>1 DEF Pending
<1>8. \A r \in Endpoints, p \in Publishers : Pending(r, p) \in Nat
  BY <1>4 DEF Pending
<1>9. \A p \in Publishers : Pending(e, p)' \in Nat
  BY <1>4, <1>5 DEF Pending
<1> QED BY <1>2, <1>3, <1>6, <1>7, <1>8, <1>9

LEMMA TakeOwes ==
    ASSUME NEW s \in Services, Services = {s}, IInv, IInv', NothingForgotten, Owed(s),
           TakeStep(s)
    PROVE  Owed(s)'
<1>1. /\ pc[s] \in {"waitStart", "waitStop"} /\ Has(<<s, "Command">>)
      /\ cache' = [cache EXCEPT ![<<s, "Command">>] = <<>>]
      /\ ends' = ends /\ net' = net /\ heard' = heard /\ told' = told /\ trouble' = trouble
  BY TakeMeans
<1>2. overrun' = overrun
  BY DEF TakeStep, TakeCommand
<1>3. PICK here : here = <<s, "Command">>
  OBVIOUS
<1>4. here \in Endpoints /\ s \in Apps
  BY <1>3, DemoAssumption DEF Endpoints
<1>5. /\ SeqsOK' /\ RoutesOK'
      /\ \A p \in Publishers : Pending(here, p)' <= Pending(here, p) - 1
      /\ \A r \in Endpoints \ {here}, p \in Publishers : Pending(r, p)' = Pending(r, p)
      /\ \A r \in Endpoints, p \in Publishers : Pending(r, p) \in Nat /\ Pending(r, p)' \in Nat
  BY <1>1, <1>2, <1>3, <1>4, ReadOne DEF Owed
<1>6. Size(accepted[s]) \in 0 .. 1
  <2>1. Len(accepted[s]) \in {0, 1}
    <3>1. accepted[s] = <<>> \/ Len(accepted[s]) = 1
      BY <1>1 DEF IInv, FlowOK, ServiceOK
    <3> QED BY <3>1
  <2> QED BY <2>1 DEF Size
<1>7. \/ /\ accepted'[s] = accepted[s]
         /\ pc'[s] \in {"waitStart", "waitStop", "cleanup"}
      \/ /\ Size(accepted'[s]) = Size(accepted[s]) + 1
         /\ pc'[s] \in {"startStatus", "stopStatus"}
  <2>1. IsSeq(accepted[s]) /\ accepted = [x \in Services |-> accepted[x]]
    BY DEF IInv, DataTyped, IsSeq
  <2>2. pc = [x \in Apps |-> pc[x]]
    BY DEF IInv, ProcessesTyped
  <2>3. CASE accepted' = accepted /\ pc' = pc
    BY <1>1, <2>3
  <2>4. CASE /\ accepted' = [accepted EXCEPT ![s] = Append(@, Order(Kept(s)))]
             /\ Goto(s, "startStatus") \/ Goto(s, "stopStatus")
    <3>1. accepted'[s] = Append(accepted[s], Order(Kept(s)))
      BY <2>1, <2>4
    <3> QED BY <1>4, <2>1, <2>2, <2>4, <3>1, SeqAppend DEF Goto
  <2>5. CASE \E steps : Plan(steps, Own(s)) /\ Leave(s, 1, steps) /\ accepted' = accepted
    BY <1>4, <2>2, <2>5, PlanNotEmpty DEF Leave, Goto
  <2> QED BY <2>3, <2>4, <2>5, TakeMeans
<1>8. \A b \in Clients : pc'[b] = pc[b]
  BY <1>4, TakePreserves, DemoAssumption DEF Preserved, OthersKept
<1>9. \A c \in Clients : Asked(c)' = Asked(c) /\ Asked(c) \in 0 .. 2
  BY <1>1, <1>8, Numbers DEF Asked, Owed
<1>10. /\ Answered(s)' = Answered(s) /\ Reported(s)' = Reported(s)
  BY <1>1, <1>6, <1>7 DEF Answered, Reported
<1>11. UpdatesOK(s)'
  <2>1. SUFFICES ASSUME NEW c \in Clients
                 PROVE  /\ heard'[c].count + Pending(<<c, "CommandStatus">>, s)' <= Answered(s)'
                        /\ Knows(c, s)' + Pending(<<c, "Activity">>, s)' <= Reported(s)'
                        /\ heard'[c].activity = s => s \in told'[c]
    BY DEF UpdatesOK
  <2>2. /\ heard[c].count + Pending(<<c, "CommandStatus">>, s) <= Answered(s)
        /\ Knows(c, s) + Pending(<<c, "Activity">>, s) <= Reported(s)
        /\ heard[c].activity = s => s \in told[c]
    BY DEF Owed, UpdatesOK
  <2>3. Knows(c, s)' = Knows(c, s)
    BY <1>1 DEF Knows
  <2>4. \A t \in {"CommandStatus", "Activity"} : Pending(<<c, t>>, s)' = Pending(<<c, t>>, s)
    BY <1>3, <1>5, TheseAreEndpoints
  <2>5. /\ Pending(<<c, "CommandStatus">>, s)' = Pending(<<c, "CommandStatus">>, s)
        /\ Pending(<<c, "Activity">>, s)' = Pending(<<c, "Activity">>, s)
    BY <2>4
  <2> QED BY <1>1, <1>10, <2>2, <2>3, <2>5
<1>12. \A c \in Clients : Alone(c)' = Alone(c)
  BY <1>8 DEF Alone
<1>13. CommandsOK(s)'
  <2>1. SUFFICES ASSUME NEW c \in Clients, Alone(c), trouble = 0
                 PROVE  Size(accepted'[s]) + Pending(here, c)' <= Asked(c)
    BY <1>1, <1>3, <1>9, <1>12 DEF CommandsOK
  <2>2. Size(accepted[s]) + Pending(here, c) <= Asked(c)
    BY <1>3, <2>1 DEF Owed, CommandsOK
  <2>3. /\ Pending(here, c)' <= Pending(here, c) - 1
        /\ Pending(here, c) \in Nat /\ Pending(here, c)' \in Nat
    BY <1>4, <1>5, TheseAreEndpoints
  <2>4. Size(accepted'[s]) \in {Size(accepted[s]), Size(accepted[s]) + 1}
    BY <1>7
  <2>5. Asked(c) \in Int
    BY <1>9
  <2>6. \A k, n, p, q, r \in Int : k + p <= r /\ q <= p - 1 /\ n \in {k, k + 1} => n + q <= r
    OBVIOUS
  <2>7. Size(accepted[s]) \in Int /\ Size(accepted'[s]) \in Int
    BY <1>6, <2>4
  <2> QED BY <2>2, <2>3, <2>4, <2>5, <2>6, <2>7
<1>14. OverrunOK(s)'
  <2>1. \A c \in Clients, t \in Updates : <<c, t>> \notin overrun
    <3>1. Size(accepted[s]) # 2
      BY <1>6
    <3> QED BY <3>1 DEF Owed, OverrunOK
  <2>2. \A c \in Clients : Alone(c)' /\ trouble' = 0 => Alone(c) /\ trouble = 0
    BY <1>1, <1>12
  <2> QED BY <1>2, <2>1, <2>2 DEF Owed, OverrunOK
<1> QED BY <1>5, <1>11, <1>13, <1>14 DEF Owed

LEMMA UpdateOwes ==
    ASSUME NEW s \in Services, Services = {s}, IInv, IInv', NothingForgotten, Owed(s),
           NEW a \in Clients, UpdateStep(a)
    PROVE  Owed(s)'
<1>1. PICK topic, kept : topic \in {"CommandStatus", "Activity"} /\ Updated(a, topic, kept)
  BY UpdateMeans
<1>2. /\ Has(<<a, topic>>) /\ cache' = [cache EXCEPT ![<<a, topic>>] = <<>>]
      /\ ends' = ends /\ net' = net /\ overrun' = overrun
      /\ accepted' = accepted /\ trouble' = trouble
      /\ \/ topic = "CommandStatus" /\ kept = Counted(heard[a])
         \/ topic = "Activity" /\ kept = Noted(heard[a], First(<<a, "Activity">>))
      /\ pc[a] \in {"waitActive", "waitCompleted"}
  BY <1>1 DEF Updated
<1>3. PICK here : here = <<a, topic>>
  OBVIOUS
<1>4. here \in Endpoints /\ s \in Publishers /\ a \in Apps /\ a # s
  BY <1>1, <1>3, TheseAreEndpoints
<1>5. /\ SeqsOK' /\ RoutesOK'
      /\ \A p \in Publishers : Pending(here, p)' <= Pending(here, p) - 1
      /\ \A r \in Endpoints \ {here}, p \in Publishers : Pending(r, p)' = Pending(r, p)
      /\ \A r \in Endpoints, p \in Publishers : Pending(r, p) \in Nat /\ Pending(r, p)' \in Nat
  BY <1>2, <1>3, <1>4, ReadOne DEF Owed
<1>6. /\ heard'[a] = kept /\ told'[a] = told[a] \cup {kept.activity}
      /\ \A d \in Clients \ {a} : heard'[d] = heard[d] /\ told'[d] = told[d]
  <2>1. heard' = [heard EXCEPT ![a] = kept] /\ told' = [told EXCEPT ![a] = @ \cup {kept.activity}]
    BY <1>1 DEF Updated
  <2> QED BY <2>1 DEF IInv, DataTyped
<1>7. PICK h : h = heard[a]
  OBVIOUS
<1>8. h \in [count : Nat, state : States, activity : Activity]
  BY <1>7 DEF IInv, DataTyped
<1>9. \/ topic = "CommandStatus" /\ kept.count = h.count + 1 /\ kept.activity = h.activity
      \/ topic = "Activity" /\ kept.count = h.count /\ kept.activity = s
  <2>1. CASE topic = "CommandStatus" /\ kept = Counted(h)
    BY <1>8, <2>1 DEF Counted
  <2>2. CASE topic = "Activity" /\ kept = Noted(h, First(<<a, "Activity">>))
    <3>1. PICK m : m = First(<<a, "Activity">>)
      OBVIOUS
    <3>2. cache[<<a, "Activity">>] \in Seq(Activities)
      BY <1>4 DEF IInv, BusOK, Carries
    <3>3. m \in Activities
      BY <1>2, <2>2, <3>1, <3>2, HeadTailProperties DEF Has, First
    <3>4. m.activity \in Services
      BY <3>3 DEF Activities
    <3> QED BY <1>8, <2>2, <3>1, <3>4 DEF Noted
  <2> QED BY <1>2, <1>7, <2>1, <2>2
<1>10. kept.count \in Nat /\ h.count \in Nat /\ kept.count >= h.count
  BY <1>8, <1>9
<1>11. (s \in told'[a]) <=> (s \in told[a] \/ topic = "Activity")
  <2>1. h.activity = s => s \in told[a]
    BY <1>7 DEF Owed, UpdatesOK
  <2> QED BY <1>6, <1>9, <2>1
<1>12. OthersKept(a) /\ pc'[a] # "off"
  BY UpdatePreserves, <1>2, <1>4 DEF Preserved, NothingForgotten
<1>13. pc'[s] = pc[s] /\ \A d \in Clients \ {a} : pc'[d] = pc[d]
  BY <1>4, <1>12, DemoAssumption DEF OthersKept
<1>14. \A c \in Clients : Alone(c)' <=> Alone(c)
  BY <1>2, <1>12, <1>13 DEF Alone
<1>15. Answered(s)' = Answered(s) /\ Reported(s)' = Reported(s)
  BY <1>2, <1>13 DEF Answered, Reported
<1>16. /\ Answered(s) \in Int /\ Reported(s) \in Int /\ Size(accepted[s]) \in Nat
       /\ \A c \in Clients : heard[c].count \in Nat /\ Asked(c) \in 0 .. 2 /\ Knows(c, s) \in 0 .. 1
       /\ \A c \in Clients : heard'[c].count \in Nat /\ Asked(c)' \in 0 .. 2 /\ Knows(c, s)' \in 0 .. 1
  BY <1>5, Numbers, NumbersAfter DEF Owed
<1>17. \A c \in Clients : Asked(c)' >= Asked(c)
  <2>1. Asked(a)' >= Asked(a)
    <3>1. /\ pc'[a] \in {pc[a], "sendStop", "cleanup"}
          /\ pc'[a] = "sendStop" => pc[a] = "waitActive"
      <4>1. \/ pc' = pc
            \/ pc[a] = "waitActive" /\ Goto(a, "sendStop")
            \/ \E steps : Plan(steps, Own(a)) /\ Leave(a, 0, steps)
        BY <1>1 DEF Updated
      <4>2. pc = [x \in Apps |-> pc[x]]
        BY DEF IInv, ProcessesTyped
      <4>3. CASE \E steps : Plan(steps, Own(a)) /\ Leave(a, 0, steps)
        <5>1. pc' = [pc EXCEPT ![a] = "cleanup"]
          BY <4>3, PlanNotEmpty DEF Leave, Goto
        <5> QED BY <1>4, <4>2, <5>1
      <4>4. CASE pc[a] = "waitActive" /\ Goto(a, "sendStop")
        BY <1>4, <4>2, <4>4 DEF Goto
      <4>5. CASE pc' = pc
        BY <1>2, <4>5
      <4> QED BY <4>1, <4>3, <4>4, <4>5
    <3>2. heard'[a].count = kept.count /\ heard[a].count = h.count
      BY <1>6, <1>7
    <3> QED BY <1>2, <1>10, <3>1, <3>2 DEF Asked
  <2>2. ASSUME NEW c \in Clients \ {a} PROVE Asked(c)' >= Asked(c)
    <3>1. Asked(c)' = Asked(c)
      BY <1>6, <1>13 DEF Asked
    <3> QED BY <1>16, <3>1
  <2> QED BY <2>1, <2>2
<1>18. UpdatesOK(s)'
  <2>1. SUFFICES ASSUME NEW c \in Clients
                 PROVE  /\ heard'[c].count + Pending(<<c, "CommandStatus">>, s)' <= Answered(s)
                        /\ Knows(c, s)' + Pending(<<c, "Activity">>, s)' <= Reported(s)
                        /\ heard'[c].activity = s => s \in told'[c]
    BY <1>15 DEF UpdatesOK
  <2>2. PICK x, y : x = <<c, "CommandStatus">> /\ y = <<c, "Activity">>
    OBVIOUS
  <2>3. /\ heard[c].count + Pending(x, s) <= Answered(s)
        /\ Knows(c, s) + Pending(y, s) <= Reported(s)
        /\ heard[c].activity = s => s \in told[c]
    BY <2>2 DEF Owed, UpdatesOK
  <2>4. x \in Endpoints /\ y \in Endpoints /\ x # y
    BY <2>2, TheseAreEndpoints
  <2>5. /\ Pending(x, s) \in Nat /\ Pending(x, s)' \in Nat
        /\ Pending(y, s) \in Nat /\ Pending(y, s)' \in Nat
    BY <1>4, <1>5, <2>4
  <2>6. CASE c # a
    <3>1. x # here /\ y # here
      BY <1>3, <2>2, <2>6
    <3>2. Pending(x, s)' = Pending(x, s) /\ Pending(y, s)' = Pending(y, s)
      BY <1>4, <1>5, <2>4, <3>1
    <3>3. heard'[c] = heard[c] /\ told'[c] = told[c] /\ Knows(c, s)' = Knows(c, s)
      BY <1>6, <2>6 DEF Knows
    <3> QED BY <2>2, <2>3, <3>2, <3>3
  <2>7. CASE c = a /\ topic = "CommandStatus"
    <3>1. x = here /\ y # here
      BY <1>3, <2>2, <2>7, <2>4
    <3>2. Pending(x, s)' <= Pending(x, s) - 1 /\ Pending(y, s)' = Pending(y, s)
      BY <1>4, <1>5, <2>4, <3>1
    <3>3. heard'[c].count = heard[c].count + 1 /\ Knows(c, s)' = Knows(c, s)
      BY <1>6, <1>7, <1>9, <1>11, <2>7 DEF Knows
    <3>4. heard'[c].activity = s => s \in told'[c]
      BY <1>6, <2>7
    <3>5. heard'[c].count + Pending(x, s)' <= Answered(s)
      BY <1>16, <2>3, <2>5, <3>2, <3>3
    <3>6. Knows(c, s)' + Pending(y, s)' <= Reported(s)
      BY <2>3, <3>2, <3>3
    <3> QED BY <2>2, <3>4, <3>5, <3>6
  <2>8. CASE c = a /\ topic = "Activity"
    <3>1. y = here /\ x # here
      BY <1>3, <2>2, <2>8, <2>4
    <3>2. Pending(y, s)' <= Pending(y, s) - 1 /\ Pending(x, s)' = Pending(x, s)
      BY <1>4, <1>5, <2>4, <3>1
    <3>3. heard'[c].count = heard[c].count /\ Knows(c, s)' = 1
      BY <1>6, <1>7, <1>9, <1>11, <2>8 DEF Knows
    <3>4. heard'[c].activity = s => s \in told'[c]
      BY <1>6, <2>8
    <3>5. heard'[c].count + Pending(x, s)' <= Answered(s)
      BY <2>3, <3>2, <3>3
    <3>6. Knows(c, s)' + Pending(y, s)' <= Reported(s)
      BY <1>16, <2>3, <2>5, <3>2, <3>3
    <3> QED BY <2>2, <3>4, <3>5, <3>6
  <2> QED BY <1>1, <2>6, <2>7, <2>8
<1>19. CommandsOK(s)'
  <2>1. SUFFICES ASSUME NEW c \in Clients, Alone(c), trouble = 0
                 PROVE  Size(accepted[s]) + Pending(<<s, "Command">>, c)' <= Asked(c)'
    BY <1>2, <1>14 DEF CommandsOK
  <2>2. PICK x : x = <<s, "Command">>
    OBVIOUS
  <2>3. Size(accepted[s]) + Pending(x, c) <= Asked(c)
    BY <2>1, <2>2 DEF Owed, CommandsOK
  <2>4. x \in Endpoints /\ x # here /\ c \in Publishers
    BY <1>3, <1>4, <2>2, TheseAreEndpoints
  <2>5. Pending(x, c)' = Pending(x, c) /\ Pending(x, c) \in Nat
    BY <1>5, <2>4
  <2>6. Asked(c)' >= Asked(c) /\ Asked(c) \in Int /\ Asked(c)' \in Int
    BY <1>16, <1>17
  <2>7. Size(accepted[s]) + Pending(x, c)' <= Asked(c)'
    BY <1>16, <2>3, <2>5, <2>6
  <2> QED BY <2>2, <2>7
<1>20. OverrunOK(s)'
  BY <1>2, <1>14 DEF Owed, OverrunOK
<1> QED BY <1>5, <1>18, <1>19, <1>20 DEF Owed

(***************************************************************************)
(* The environment.                                                        *)
(***************************************************************************)

LEMMA OneDeep == toReaderQos(CalQos).depth = 1
BY DEF toReaderQos, CalQos, HistoryDepth

(* What an arrival does to the reader r of a sample of p.                   *)
Arrived(r, p) ==
    /\ net[r][p] # <<>>
    /\ IsSeq(cache'[r]) /\ IsSeq(net'[r][p])
    /\ Size(net'[r][p]) < Size(net[r][p])
    /\ \/ /\ Size(cache[r]) = 1 /\ Size(cache'[r]) = 1
          /\ overrun' = overrun \cup {r}
       \/ Size(cache'[r]) = Size(cache[r]) + 1 /\ overrun' = overrun
    /\ \A e \in Endpoints \ {r} : cache'[e] = cache[e] /\ net'[e] = net[e]
    /\ \A q \in Publishers \ {p} : net'[r][q] = net[r][q]

LEMMA ArriveMeans ==
    ASSUME IInv, SeqsOK, NEW r \in Endpoints, NEW p \in Publishers, Arrive(r, p)
    PROVE  Arrived(r, p)
<1>1. PICK i \in DOMAIN net[r][p] :
        /\ net' = [net EXCEPT ![r][p] = SubSeq(@, i + 1, Len(@))]
        /\ cache' = [cache EXCEPT ![r] = Append(IF Len(cache[r]) = toReaderQos(CalQos).depth
                                                  THEN Tail(@) ELSE @, net[r][p][i])]
        /\ overrun' = IF Len(cache[r]) = toReaderQos(CalQos).depth
                        THEN overrun \cup {r} ELSE overrun
  BY DEF Arrive
<1>2. /\ cache = [e \in Endpoints |-> cache[e]] /\ net = [e \in Endpoints |-> net[e]]
      /\ \A e \in Endpoints : net[e] = [q \in Publishers |-> net[e][q]]
  BY DEF IInv, DataTyped
<1>3. /\ net'[r] = [net[r] EXCEPT ![p] = SubSeq(@, i + 1, Len(@))]
      /\ \A e \in Endpoints \ {r} : net'[e] = net[e]
  BY <1>1, <1>2
<1>4. /\ net'[r][p] = SubSeq(net[r][p], i + 1, Len(net[r][p]))
      /\ \A q \in Publishers \ {p} : net'[r][q] = net[r][q]
  BY <1>2, <1>3
<1>5. PICK queue, v : queue = net[r][p] /\ v = net[r][p][i]
  OBVIOUS
<1>6. IsSeq(cache[r]) /\ IsSeq(queue)
  BY <1>5 DEF SeqsOK
<1>7. IsSeq(net'[r][p]) /\ Size(net'[r][p]) < Size(net[r][p])
  BY <1>1, <1>4, <1>5, <1>6, SeqRest
<1>8. net[r][p] # <<>>
  BY <1>1
<1>9. \A e \in Endpoints \ {r} : cache'[e] = cache[e]
  BY <1>1, <1>2
<1>10. CASE Len(cache[r]) = toReaderQos(CalQos).depth
  <2>1. Size(cache[r]) = 1
    BY <1>10, OneDeep DEF Size
  <2>2. cache'[r] = Append(Tail(cache[r]), v) /\ overrun' = overrun \cup {r}
    BY <1>1, <1>2, <1>5, <1>10
  <2>3. cache[r] # <<>>
    BY <1>6, <2>1, SeqSize
  <2>4. IsSeq(Tail(cache[r])) /\ Size(Tail(cache[r])) = 0
    BY <1>6, <2>1, <2>3, SeqTail
  <2>5. IsSeq(cache'[r]) /\ Size(cache'[r]) = 1
    BY <2>2, <2>4, SeqAppend
  <2> QED BY <1>3, <1>4, <1>7, <1>8, <1>9, <2>1, <2>2, <2>5 DEF Arrived
<1>11. CASE Len(cache[r]) # toReaderQos(CalQos).depth
  <2>1. cache'[r] = Append(cache[r], v) /\ overrun' = overrun
    BY <1>1, <1>2, <1>5, <1>11
  <2>2. IsSeq(cache'[r]) /\ Size(cache'[r]) = Size(cache[r]) + 1
    BY <1>6, <2>1, SeqAppend
  <2> QED BY <1>3, <1>4, <1>7, <1>8, <1>9, <2>1, <2>2 DEF Arrived
<1> QED BY <1>10, <1>11

LEMMA DeliveryOwes ==
    ASSUME NEW s \in Services, Services = {s}, IInv, IInv', Owed(s), Delivery
    PROVE  Owed(s)'
<1>1. PICK r \in Endpoints, p \in Publishers : Arrive(r, p)
  BY DEF Delivery
<1>2. /\ ends' = ends /\ pc' = pc /\ accepted' = accepted /\ heard' = heard /\ told' = told
      /\ trouble' = trouble
  BY <1>1 DEF Delivery, Arrive, flowVars, dataVars
<1>3. SeqsOK /\ RoutesOK
  BY DEF Owed
<1>4. Arrived(r, p)
  BY <1>1, <1>3, ArriveMeans
<1>5. Route(r, p) /\ Receiving(r)
  BY <1>3, <1>4 DEF Arrived, RoutesOK, Route, Receiving
<1>6. SeqsOK'
  <2>1. \A e \in Endpoints : IsSeq(cache'[e])
    BY <1>3, <1>4 DEF SeqsOK, Arrived
  <2>2. \A e \in Endpoints : \A q \in Publishers : IsSeq(net'[e][q])
    BY <1>3, <1>4 DEF SeqsOK, Arrived
  <2> QED BY <2>1, <2>2 DEF SeqsOK, IsSeq
<1>7. RoutesOK'
  <2>1. Begun' = Begun /\ Senders' = Senders
    BY <1>2 DEF Begun, Senders
  <2>2. \A e : (Receiving(e)' <=> Receiving(e)) /\ \A q : (Route(e, q)' <=> Route(e, q))
    BY <2>1 DEF Receiving, Route
  <2>3. \A e \in overrun' : e \in Endpoints /\ Receiving(e)
    BY <1>3, <1>4, <1>5 DEF Arrived, RoutesOK
  <2>4. \A e \in Endpoints : \A q \in Publishers : net'[e][q] # <<>> => Route(e, q)
    <3>1. SUFFICES ASSUME NEW e \in Endpoints, NEW q \in Publishers, net'[e][q] # <<>>
                   PROVE  Route(e, q)
      OBVIOUS
    <3>2. CASE e = r /\ q = p
      BY <1>5, <3>2
    <3>3. CASE e # r \/ q # p
      BY <1>3, <1>4, <3>1, <3>3 DEF Arrived, RoutesOK
    <3> QED BY <3>2, <3>3
  <2> QED BY <1>2, <1>3, <2>2, <2>3, <2>4 DEF RoutesOK
<1>8. /\ \A e \in Endpoints, q \in Publishers : Pending(e, q) \in Nat /\ Pending(e, q)' \in Nat
      /\ Size(cache[r]) \in Nat /\ Size(net[r][p]) \in Nat
      /\ Size(cache'[r]) \in Nat /\ Size(net'[r][p]) \in Nat
  BY <1>3, <1>6, Numbers, NumbersAfter
<1>9. Pending(r, p)' <= Pending(r, p)
  BY <1>4, <1>8 DEF Arrived, Pending
<1>10. \A e \in Endpoints \ {r}, q \in Publishers : Pending(e, q)' = Pending(e, q)
  BY <1>4 DEF Arrived, Pending
<1>11. /\ Answered(s)' = Answered(s) /\ Reported(s)' = Reported(s)
       /\ \A c \in Clients : /\ Asked(c)' = Asked(c) /\ Knows(c, s)' = Knows(c, s)
                             /\ Alone(c)' <=> Alone(c)
  BY <1>2 DEF Answered, Reported, Asked, Knows, Alone
<1>12. /\ Size(accepted[s]) \in 0 .. 2 /\ Answered(s) \in Int /\ Reported(s) \in Int
       /\ Answered(s) <= Size(accepted[s]) /\ Reported(s) <= Size(accepted[s])
       /\ \A c \in Clients : heard[c].count \in Nat /\ Asked(c) \in 0 .. 2 /\ Knows(c, s) \in 0 .. 1
  BY <1>3, Numbers
<1>13. ASSUME NEW c \in Clients, NEW t \in Updates
       PROVE  /\ <<c, t>> \in Endpoints /\ Pending(<<c, t>>, s)' <= Pending(<<c, t>>, s)
              /\ r = <<c, t>> => p = s
  <2>1. PICK e : e = <<c, t>>
    OBVIOUS
  <2>2. e \in Endpoints /\ s \in Publishers
    BY <2>1, TheseAreEndpoints DEF Updates
  <2>3. r = e => p = s
    BY <1>5, <2>1, DemoAssumption DEF Route, Updates
  <2>4. Pending(e, s)' <= Pending(e, s)
    BY <1>8, <1>9, <1>10, <2>2, <2>3
  <2> QED BY <2>1, <2>2, <2>3, <2>4
<1>14. \A c \in Clients : Alone(c) /\ trouble = 0 => Senders \subseteq {c}
  BY DEF Senders, Begun, Alone
<1>15. PICK here : here = <<s, "Command">>
  OBVIOUS
<1>16. r = here => p \in Senders
  BY <1>5, <1>15 DEF Route, Updates
<1>17. UpdatesOK(s)'
  <2>1. SUFFICES ASSUME NEW c \in Clients
                 PROVE  /\ heard[c].count + Pending(<<c, "CommandStatus">>, s)' <= Answered(s)
                        /\ Knows(c, s) + Pending(<<c, "Activity">>, s)' <= Reported(s)
                        /\ heard[c].activity = s => s \in told[c]
    BY <1>2, <1>11 DEF UpdatesOK
  <2>2. PICK x, y : x = <<c, "CommandStatus">> /\ y = <<c, "Activity">>
    OBVIOUS
  <2>3. /\ heard[c].count + Pending(x, s) <= Answered(s)
        /\ Knows(c, s) + Pending(y, s) <= Reported(s)
        /\ heard[c].activity = s => s \in told[c]
    BY <2>2 DEF Owed, UpdatesOK
  <2>4. Pending(x, s)' <= Pending(x, s) /\ Pending(y, s)' <= Pending(y, s)
    BY <1>13, <2>2 DEF Updates
  <2>5. /\ Pending(x, s) \in Nat /\ Pending(x, s)' \in Nat
        /\ Pending(y, s) \in Nat /\ Pending(y, s)' \in Nat
    BY <1>8, <2>2, TheseAreEndpoints
  <2>6. heard[c].count + Pending(x, s)' <= Answered(s)
    BY <1>12, <2>3, <2>4, <2>5
  <2>7. Knows(c, s) + Pending(y, s)' <= Reported(s)
    BY <1>12, <2>3, <2>4, <2>5
  <2> QED BY <2>2, <2>3, <2>6, <2>7
<1>18. CommandsOK(s)'
  <2>1. SUFFICES ASSUME NEW c \in Clients, Alone(c), trouble = 0
                 PROVE  Size(accepted[s]) + Pending(here, c)' <= Asked(c)
    BY <1>2, <1>11, <1>15 DEF CommandsOK
  <2>2. Size(accepted[s]) + Pending(here, c) <= Asked(c)
    BY <1>15, <2>1 DEF Owed, CommandsOK
  <2>3. r = here => p = c
    BY <1>14, <1>16, <2>1
  <2>4. here \in Endpoints /\ c \in Publishers
    BY <1>15, TheseAreEndpoints
  <2>5. Pending(here, c)' <= Pending(here, c)
    BY <1>8, <1>9, <1>10, <2>3, <2>4
  <2> QED BY <1>8, <1>12, <2>2, <2>4, <2>5
<1>19. ASSUME r \in overrun', r \notin overrun
       PROVE  Pending(r, p) >= 2
  <2>1. Size(cache[r]) = 1 /\ Size(net'[r][p]) < Size(net[r][p])
    BY <1>4, <1>19 DEF Arrived
  <2> QED BY <1>8, <2>1 DEF Pending
<1>20. OverrunOK(s)'
  <2>1. overrun' \subseteq overrun \cup {r}
    BY <1>4 DEF Arrived
  <2>2. ASSUME NEW c \in Clients, NEW t \in Updates, <<c, t>> \in overrun'
        PROVE  Size(accepted[s]) = 2 /\ accepted[s][2].by # c
    <3>1. CASE <<c, t>> \in overrun
      BY <3>1 DEF Owed, OverrunOK
    <3>2. CASE <<c, t>> \notin overrun
      <4>1. r = <<c, t>> /\ p = s /\ Pending(<<c, t>>, s) >= 2
        BY <1>13, <1>19, <2>1, <2>2, <3>2
      <4>2. PICK n : n = Pending(<<c, t>>, s)
        OBVIOUS
      <4>3. n \in Nat /\ n >= 2
        BY <1>8, <4>1, <4>2
      <4>4. /\ t = "CommandStatus" => heard[c].count + n <= Answered(s)
            /\ t = "Activity" => Knows(c, s) + n <= Reported(s)
        BY <4>2 DEF Owed, UpdatesOK
      <4>5. Size(accepted[s]) = 2
        BY <1>12, <4>3, <4>4 DEF Updates
      <4>6. heard[c].count = 0 \/ Knows(c, s) = 0
        BY <1>12, <4>3, <4>4 DEF Updates
      <4>7. Len(accepted[s]) = 2
        BY <4>5 DEF Size
      <4>8. Entitled(accepted[s][2].by, s)
        BY <4>7 DEF IInv, FlowOK, ServiceOK
      <4>9. ~Informed(c, s)
        BY <4>6 DEF Informed, Knows
      <4>10. c # Stranger
        BY DemoAssumption
      <4> QED BY <4>5, <4>8, <4>9, <4>10 DEF Entitled
    <3> QED BY <3>1, <3>2
  <2>3. ASSUME here \in overrun', NEW c \in Clients, Alone(c), trouble = 0
        PROVE  FALSE
    <3>1. here \notin overrun
      BY <1>15, <2>3 DEF Owed, OverrunOK
    <3>2. r = here /\ p = c
      BY <1>14, <1>16, <2>1, <2>3, <3>1
    <3>3. Pending(here, c) >= 2 /\ Pending(here, c) \in Nat
      BY <1>8, <1>19, <2>3, <3>1, <3>2
    <3>4. Size(accepted[s]) + Pending(here, c) <= Asked(c)
      BY <1>15, <2>3 DEF Owed, CommandsOK
    <3>5. Size(accepted[s]) = 0 /\ Asked(c) = 2
      BY <1>12, <3>3, <3>4
    <3>6. heard[c].count > 0
      BY <3>5 DEF Asked
    <3>7. heard[c].count + Pending(<<c, "CommandStatus">>, s) <= Answered(s)
      BY DEF Owed, UpdatesOK
    <3>8. Pending(<<c, "CommandStatus">>, s) \in Nat
      BY <1>8, TheseAreEndpoints
    <3> QED BY <1>12, <3>5, <3>6, <3>7, <3>8
  <2> QED BY <1>2, <1>11, <1>15, <2>2, <2>3 DEF OverrunOK
<1> QED BY <1>6, <1>7, <1>17, <1>18, <1>20 DEF Owed

LEMMA ForeignCommandOwes ==
    ASSUME NEW s \in Services, Services = {s}, IInv, IInv', Owed(s), ForeignCommand
    PROVE  Owed(s)'
<1>1. PICK m : net' = [net EXCEPT ![<<s, "Command">>][Stranger] = Append(@, m)]
  BY DEF ForeignCommand
<1>2. /\ ends' = ends /\ pc' = pc /\ cache' = cache /\ overrun' = overrun
      /\ heard' = heard /\ told' = told /\ accepted' = accepted /\ trouble' = trouble + 1
  BY DEF ForeignCommand, Trouble, flowVars, dataVars
<1>3. trouble \in Nat /\ trouble' # 0 /\ trouble' > 0
  BY <1>2 DEF IInv, ProcessesTyped
<1>4. NothingForgotten
  BY <1>2, <1>3 DEF NothingForgotten, Completed
<1>5. SeqsOK /\ RoutesOK
  BY DEF Owed
<1>6. PICK here : here = <<s, "Command">>
  OBVIOUS
<1>7. here \in Endpoints /\ Stranger \in Publishers
  BY <1>6, DemoAssumption DEF Endpoints, Publishers
<1>8. /\ \A e \in Endpoints : net[e] = [q \in Publishers |-> net[e][q]]
      /\ net = [e \in Endpoints |-> net[e]]
  BY DEF IInv, DataTyped
<1>9. /\ net'[here] = [net[here] EXCEPT ![Stranger] = Append(@, m)]
      /\ \A e \in Endpoints \ {here} : net'[e] = net[e]
  BY <1>1, <1>6, <1>7, <1>8
<1>10. /\ net'[here][Stranger] = Append(net[here][Stranger], m)
       /\ \A q \in Publishers \ {Stranger} : net'[here][q] = net[here][q]
  BY <1>7, <1>8, <1>9
<1>11. SeqsOK'
  <2>1. IsSeq(net'[here][Stranger])
    BY <1>5, <1>7, <1>10, SeqAppend DEF SeqsOK
  <2>2. \A e \in Endpoints : \A q \in Publishers : IsSeq(net'[e][q])
    BY <1>5, <1>9, <1>10, <2>1 DEF SeqsOK
  <2>3. \A e \in Endpoints : IsSeq(cache'[e])
    BY <1>2, <1>5 DEF SeqsOK
  <2> QED BY <2>2, <2>3 DEF SeqsOK, IsSeq
<1>12. RoutesOK'
  <2>1. Route(here, Stranger)'
    BY <1>3, <1>6 DEF Route, Senders
  <2>2. \A e \in Endpoints : \A q \in Publishers :
          net'[e][q] # <<>> => net[e][q] # <<>> \/ Route(e, q) \/ Route(e, q)'
    BY <1>9, <1>10, <2>1
  <2> QED BY <1>2, <1>4, <1>5, <2>2, RoutesKept
<1>13. \A c \in Clients : /\ Pending(<<c, "CommandStatus">>, s)' = Pending(<<c, "CommandStatus">>, s)
                          /\ Pending(<<c, "Activity">>, s)' = Pending(<<c, "Activity">>, s)
  BY <1>2, <1>6, <1>9, TheseAreEndpoints DEF Pending
<1>14. Answered(s)' = Answered(s) /\ Reported(s)' = Reported(s)
  BY <1>2 DEF Answered, Reported
<1>15. /\ Answered(s) \in Int /\ Reported(s) \in Int
       /\ \A c \in Clients : /\ Pending(<<c, "CommandStatus">>, s) \in Nat
                             /\ Pending(<<c, "Activity">>, s) \in Nat
  BY <1>5, Numbers, TheseAreEndpoints
<1>16. ASSUME NEW c \in Clients
       PROVE  /\ Pending(<<c, "CommandStatus">>, s)' + Answered(s)
                   <= Pending(<<c, "CommandStatus">>, s) + Answered(s)'
              /\ Pending(<<c, "Activity">>, s)' + Reported(s)
                   <= Pending(<<c, "Activity">>, s) + Reported(s)'
  <2>1. PICK m1, m2, a, b : /\ m1 = Pending(<<c, "CommandStatus">>, s)
                            /\ m2 = Pending(<<c, "Activity">>, s)
                            /\ a = Answered(s) /\ b = Reported(s)
    OBVIOUS
  <2>2. m1 \in Nat /\ m2 \in Nat /\ a \in Int /\ b \in Int
    BY <1>15, <2>1
  <2>3. m1 + a <= m1 + a /\ m2 + b <= m2 + b
    BY <2>2
  <2>4. /\ Pending(<<c, "CommandStatus">>, s)' = m1 /\ Pending(<<c, "Activity">>, s)' = m2
        /\ Answered(s)' = a /\ Reported(s)' = b
    BY <1>13, <1>14, <2>1
  <2> QED BY <2>1, <2>3, <2>4
<1> QED BY <1>2, <1>3, <1>4, <1>11, <1>12, <1>16, AccountsKept

LEMMA InitOwes ==
    ASSUME NEW s \in Services, Init
    PROVE  Owed(s)
<1>1. IInv
  BY InitIInv
<1>2. /\ \A e \in Endpoints : /\ ends[e] = "none" /\ cache[e] = <<>>
                              /\ \A p \in Publishers : net[e][p] = <<>>
      /\ overrun = {} /\ accepted[s] = <<>>
      /\ \A c \in Clients : heard[c] = Nothing /\ told[c] = {}
      /\ \A a \in Apps : pc[a] = "off"
  BY DEF Init, BusInit, Quiet
<1>3. SeqsOK
  BY <1>2, EmptyIsSeq DEF SeqsOK
<1>4. RoutesOK
  BY <1>2 DEF RoutesOK
<1>5. \A e \in Endpoints, p \in Publishers : Pending(e, p) = 0
  BY <1>2, EmptyIsSeq DEF Pending
<1>6. Size(accepted[s]) = 0
  BY <1>2, EmptyIsSeq
<1>7. pc[s] = "off"
  BY <1>2, DemoAssumption
<1>8. Answered(s) = 0 /\ Reported(s) = 0
  <2>1. /\ pc[s] \notin {"startStatus", "stopStatus"}
        /\ pc[s] \notin {"startStatus", "startActivity", "stopStatus", "stopActivity"}
    BY <1>7
  <2>2. Answered(s) = Size(accepted[s]) - 0 /\ Reported(s) = Size(accepted[s]) - 0
    BY <2>1, Zenon DEF Answered, Reported
  <2> QED BY <1>6, <2>2
<1>9. UpdatesOK(s)
  <2>1. SUFFICES ASSUME NEW c \in Clients
                 PROVE  /\ heard[c].count + Pending(<<c, "CommandStatus">>, s) <= Answered(s)
                        /\ Knows(c, s) + Pending(<<c, "Activity">>, s) <= Reported(s)
                        /\ heard[c].activity = s => s \in told[c]
    BY DEF UpdatesOK
  <2>2. /\ Pending(<<c, "CommandStatus">>, s) = 0 /\ Pending(<<c, "Activity">>, s) = 0
    BY <1>5, TheseAreEndpoints
  <2>3. heard[c].count = 0 /\ heard[c].activity # s /\ Knows(c, s) = 0
    <3>1. heard[c].count = 0 /\ heard[c].activity = NoActivity
      <4>1. heard[c] = Nothing
        BY <1>2
      <4>2. Nothing.count = 0 /\ Nothing.activity = NoActivity
        BY DEF Nothing
      <4> QED BY <4>1, <4>2
    <3>2. Knows(c, s) = 0
      BY <1>2 DEF Knows
    <3> QED BY <3>1, <3>2, DemoAssumption
  <2> QED BY <1>8, <2>2, <2>3
<1>10. CommandsOK(s)
  <2>1. SUFFICES ASSUME NEW c \in Clients
                 PROVE  Size(accepted[s]) + Pending(<<s, "Command">>, c) <= Asked(c)
    BY DEF CommandsOK
  <2>2. Pending(<<s, "Command">>, c) = 0 /\ pc[c] = "off"
    BY <1>2, <1>5, TheseAreEndpoints
  <2>3. Asked(c) = 0
    BY <2>2 DEF Asked
  <2> QED BY <1>6, <2>2, <2>3
<1>11. OverrunOK(s)
  BY <1>2 DEF OverrunOK
<1> QED BY <1>3, <1>4, <1>9, <1>10, <1>11 DEF Owed

LEMMA StutterOwes ==
    ASSUME NEW s \in Services, Owed(s), UNCHANGED vars
    PROVE  Owed(s)'
<1>1. /\ ends' = ends /\ cache' = cache /\ net' = net /\ overrun' = overrun /\ pc' = pc
      /\ heard' = heard /\ told' = told /\ accepted' = accepted /\ trouble' = trouble
  BY DEF vars, busVars, flowVars, dataVars
<1>2. SeqsOK'
  BY <1>1 DEF Owed, SeqsOK, IsSeq
<1>3. RoutesOK'
  BY <1>1 DEF Owed, RoutesOK, Receiving, Route, Begun, Senders
<1>4. UpdatesOK(s)'
  BY <1>1 DEF Owed, UpdatesOK, Pending, Answered, Reported, Knows
<1>5. CommandsOK(s)'
  BY <1>1 DEF Owed, CommandsOK, Pending, Asked, Alone
<1>6. OverrunOK(s)'
  BY <1>1 DEF Owed, OverrunOK, Alone
<1> QED BY <1>2, <1>3, <1>4, <1>5, <1>6 DEF Owed

LEMMA StepOwes ==
    ASSUME NEW s \in Services, Services = {s}, IInv, IInv', Owed(s),
           NEW a \in Apps, Begin(a) \/ Step(a) \/ Timeout(a)
    PROVE  Owed(s)'
<1>1. ProcessStep(a)
  BY EveryStep DEF IInv, ProcessesTyped
<1>2. CASE BeginStep(a)
  BY <1>2, BeginPreserves, BeginOwes
<1>3. CASE a \in Services /\ ServiceStep(a)
  <2>1. a = s
    BY <1>3
  <2>2. CASE TellStep(s)
    BY <2>2, TellPreserves, TellOwes
  <2>3. CASE ActivateStep(s)
    BY <2>3, ActivatePreserves, ReportOwes
  <2>4. CASE CompleteStep(s)
    BY <2>4, CompletePreserves, ReportOwes
  <2>5. CASE TakeStep(s)
    BY <2>5, TakePreserves, TakeOwes
  <2> QED BY <1>3, <2>1, <2>2, <2>3, <2>4, <2>5 DEF ServiceStep
<1>4. CASE a \in Clients /\ ClientStep(a)
  <2>1. CASE AskStep(a)
    BY <1>4, <2>1, AskPreserves, AskOwes
  <2>2. CASE UpdateStep(a)
    BY <1>4, <2>2, UpdatePreserves, UpdateOwes
  <2> QED BY <1>4, <2>1, <2>2 DEF ClientStep
<1>5. CASE ThrowStep(a)
  BY <1>5, ThrowPreserves, LeavingOwes
<1>6. CASE TimeoutStep(a)
  BY <1>6, TimeoutPreserves, LeavingOwes
<1>7. CASE CleanUp(a)
  BY <1>7, CleanUpPreserves, CleanUpOwes
<1> QED BY <1>1, <1>2, <1>3, <1>4, <1>5, <1>6, <1>7 DEF ProcessStep

(* With one service running, as the demos are meant to be run, a reader     *)
(* that keeps one sample (CalQos, toReaderQos) loses nothing that matters:  *)
(* no update of the client the service obeys is overwritten before          *)
(* waitForClientUpdates takes it, and a client that is alone overruns no    *)
(* reader at all, whatever the number of clients and the order of delivery. *)
THEOREM OneIsEnough ==
    ASSUME NEW s \in Services, Services = {s}
    PROVE  Spec => []OneSampleIsEnough
<1>1. Init => IInv /\ Owed(s)
  BY InitIInv, InitOwes
<1>2. IInv /\ Owed(s) /\ [Next]_vars => (IInv /\ Owed(s))'
  <2>1. ASSUME IInv, Owed(s), Environment PROVE IInv' /\ Owed(s)'
    BY <2>1, DeliveryPreserves, ForeignCommandPreserves, DeliveryOwes, ForeignCommandOwes
    DEF Environment
  <2>2. ASSUME IInv, Owed(s), NEW a \in Apps, Begin(a) \/ Step(a) \/ Timeout(a)
        PROVE  IInv' /\ Owed(s)'
    BY <2>2, StepPreserves, StepOwes
  <2>3. ASSUME IInv, Owed(s), UNCHANGED vars PROVE IInv' /\ Owed(s)'
    BY <2>3, StutterPreserves, StutterOwes
  <2> QED BY <2>1, <2>2, <2>3 DEF Next
<1>3. IInv /\ Owed(s) => OneSampleIsEnough
  <2>1. SUFFICES ASSUME IInv, Owed(s), NEW c \in Clients
                 PROVE  /\ Len(accepted[s]) = 2 /\ accepted[s][2].by = c
                              => /\ <<c, "CommandStatus">> \notin overrun
                                 /\ <<c, "Activity">> \notin overrun
                        /\ Alone(c) /\ trouble = 0 => overrun = {}
    BY DEF OneSampleIsEnough
  <2>2. \A d \in Clients, t \in Updates :
          <<d, t>> \in overrun => Size(accepted[s]) = 2 /\ accepted[s][2].by # d
    BY <2>1 DEF Owed, OverrunOK
  <2>3. ASSUME Alone(c), trouble = 0, NEW e \in overrun
        PROVE  FALSE
    <3>1. e \in Endpoints /\ Receiving(e)
      BY <2>1, <2>3 DEF Owed, RoutesOK
    <3>2. e = <<e[1], e[2]>>
      BY <3>1 DEF Endpoints
    <3>3. e # <<s, "Command">>
      BY <2>1, <2>3 DEF Owed, OverrunOK
    <3>4. e[1] \in Begun /\ e[2] \in Updates
      BY <3>1, <3>2, <3>3 DEF Receiving
    <3>5. Begun \subseteq {c}
      BY <2>3 DEF Begun, Alone
    <3>6. Size(accepted[s]) = 2 /\ accepted[s][2].by # c
      BY <2>2, <2>3, <3>2, <3>4, <3>5
    <3>7. Len(accepted[s]) = 2
      BY <3>6 DEF Size
    <3>8. Entitled(accepted[s][2].by, s)
      BY <2>1, <3>7 DEF IInv, FlowOK, ServiceOK
    <3>9. accepted[s][2].by \in Begun
      BY <2>3, <3>8 DEF Entitled, Senders
    <3> QED BY <3>5, <3>6, <3>9
  <2> QED BY <2>2, <2>3 DEF Updates
<1> QED BY <1>1, <1>2, <1>3, PTL DEF Spec
=============================================================================
