-------------------------------- MODULE Demo --------------------------------
(***************************************************************************)
(* What the two service demos (examples/amti_service_demo, written to the  *)
(* generated API, and examples/smti_service_demo, written to uci::utils)   *)
(* have in common: their processes, topics and messages, and the           *)
(* environment they run in.  AmtiDemo and SmtiDemo hold the programs;      *)
(* Demos lets either of them run and states the properties.                *)
(*                                                                         *)
(* A message is reduced to what a receiver looks at.  UUIDs that are       *)
(* generated are named after the process that generates them: a service    *)
(* makes one activity, so the service stands for its UUID; a command is    *)
(* known by its kind and the process that sends it.                        *)
(***************************************************************************)
EXTENDS DdsBus

CONSTANTS
    Services,    \* processes run with "service"
    Clients,     \* processes run with "client"
    NoActivity,  \* the nil UUID
    MaxLoad      \* bound: clients started, calls that throw and commands of
                 \* the stranger, together

ASSUME DemoAssumption ==
    /\ Services \cap Clients = {}
    /\ Apps = Services \cup Clients
    /\ Stranger \notin Apps
    /\ NoActivity \notin Services
    /\ Topics = {"Capability", "CapabilityStatus", "Command", "CommandStatus", "Activity"}
    /\ MaxLoad \in Nat

VARIABLES
    demo,      \* which of the two programs is run
    pc,        \* where each process is
    exit,      \* what main returns
    todo,      \* what is still to be taken down
    holding,   \* a message object not yet destroyed: "ours", the program's, or
               \* "reader", the one a read makes for its listener; else "none"
    command,   \* a service: the ReceivedCommand
    heard,     \* a client: what its two listeners have kept
    told,      \* history: the activities it has kept
    accepted,  \* history: the commands a service has accepted
    trouble    \* calls that have thrown, and commands of the stranger

flowVars == <<pc, exit, todo, holding>>
dataVars == <<command, heard, told, accepted>>
vars == <<busVars, demo, flowVars, dataVars, trouble>>


(* AMTI_Command, SMTI_Command: the first of the list of commands, if any,   *)
(* and which variant of its choice is set.                                  *)
Start(by)          == [kind |-> "start", by |-> by, activity |-> NoActivity]
Stop(by, activity) == [kind |-> "stop", by |-> by, activity |-> activity]
Unset == [kind |-> "unset", by |-> Stranger, activity |-> NoActivity]
Empty == [kind |-> "empty", by |-> Stranger, activity |-> NoActivity]

(* What any program can send: the UUID of an activity is known to all from  *)
(* the status that announces it.                                            *)
Announced == {s \in Services : accepted[s] # <<>> /\ pc[s] # "startStatus"}
ForeignCommands ==
    {Start(Stranger), Unset, Empty}
    \cup {Stop(Stranger, activity) : activity \in Announced \cup {NoActivity}}

NoCommand == [received |-> FALSE, start |-> FALSE, by |-> Stranger, activity |-> NoActivity]
Nothing   == [count |-> 0, state |-> "", activity |-> NoActivity]

Init ==
    /\ BusInit
    /\ demo \in {"amti", "smti"}
    /\ pc = [a \in Apps |-> "off"]
    /\ exit = [a \in Apps |-> -1]
    /\ todo = [a \in Apps |-> <<>>]
    /\ holding = [a \in Apps |-> "none"]
    /\ command = [s \in Services |-> NoCommand]
    /\ heard = [c \in Clients |-> Nothing]
    /\ told = [c \in Clients |-> {}]
    /\ accepted = [s \in Services |-> <<>>]
    /\ trouble = 0

Waiting == {"waitStart", "waitStop", "waitActive", "waitCompleted"}

Goto(a, label) == pc' = [pc EXCEPT ![a] = label]

Room == trouble + Cardinality({c \in Clients : pc[c] # "off"}) < MaxLoad

(* A call throws: DDS fails, or no loader has registered the CDR bridge.    *)
Trouble ==
    /\ Room
    /\ trouble' = trouble + 1

-----------------------------------------------------------------------------
(* The environment: a sample arrives; another program publishes a command.  *)
Delivery ==
    /\ \E r \in Endpoints, p \in Publishers : Arrive(r, p)
    /\ UNCHANGED <<demo, flowVars, dataVars, trouble>>

ForeignCommand ==
    /\ Trouble
    /\ \E s \in Services, m \in ForeignCommands :
         /\ ends[<<s, "Command">>] = "reader"
         /\ net' = [net EXCEPT ![<<s, "Command">>][Stranger] = Append(@, m)]
    /\ UNCHANGED <<asb, ends, cache, overrun, demo, flowVars, dataVars>>

Environment == Delivery \/ ForeignCommand

-----------------------------------------------------------------------------
(* Steps of either program.                                                 *)

(* The program has its result; steps is what it still takes down.           *)
Leave(a, code, steps) ==
    /\ exit' = [exit EXCEPT ![a] = code]
    /\ todo' = [todo EXCEPT ![a] = steps]
    /\ Goto(a, IF steps = <<>> THEN "ended" ELSE "cleanup")

(* The connection, then the writers and readers in the order of topics: all *)
(* of them, or those before the one whose creation throws; steps is what    *)
(* the exception still takes down.  A sample published between two          *)
(* creations is one that may never arrive.                                  *)
MakeAll(a, topics, writes, next) ==
    /\ Connect(a)
    /\ CreateEnds(a, ToSet(topics), writes)
    /\ Goto(a, next)
    /\ UNCHANGED <<exit, todo, trouble>>

MakeSome(a, made, writes, steps) ==
    /\ Trouble
    /\ Connect(a)
    /\ CreateEnds(a, ToSet(made), writes)
    /\ Leave(a, 1, steps)

MakeNothing(a) ==
    /\ Trouble
    /\ Leave(a, 1, <<>>)
    /\ UNCHANGED <<asb, ends>>

(* An exception between the creations and the end of the program; lost says *)
(* whose message object exists when it comes.                               *)
Fails(a, lost, steps) ==
    /\ Trouble
    /\ holding' = [holding EXCEPT ![a] = lost]
    /\ Leave(a, 1, steps)
    /\ UNCHANGED <<asb, ends, net, overrun, demo, dataVars>>

Throws(a, lost, steps) == Fails(a, lost, steps) /\ UNCHANGED cache

(* dispatchOne makes a message for the sample it is given and destroys it   *)
(* after the listener: what deserializing throws goes past that.            *)
DispatchThrows(a, topic, steps) ==
    /\ Has(<<a, topic>>)
    /\ TakeAll(<<a, topic>>)
    /\ Fails(a, "reader", steps)

(* The deadline of a wait has passed when its loop comes round.             *)
PastDeadline(a) == pc[a] \in Waiting

TimesOut(a, steps) ==
    /\ PastDeadline(a)
    /\ Leave(a, 1, steps)
    /\ UNCHANGED <<busVars, demo, holding, dataVars, trouble>>

(* A message is made, written and destroyed.                                *)
Publish(a, topic, body) ==
    /\ Write(<<a, topic>>, body)
    /\ UNCHANGED <<asb, ends, cache, overrun, demo, holding, trouble>>

PublishThen(a, topic, body, next) ==
    /\ Publish(a, topic, body)
    /\ Goto(a, next)
    /\ UNCHANGED <<exit, todo, dataVars>>

(* A turn of waitForCommand finds a message, kept is the ReceivedCommand    *)
(* after it.  One that is not wanted ends the service.                      *)
TakeCommand(s, kept, wanted, next, steps) ==
    /\ Has(<<s, "Command">>)
    /\ TakeAll(<<s, "Command">>)
    /\ command' = [command EXCEPT ![s] = kept]
    /\ IF ~kept.received THEN UNCHANGED <<accepted, exit, todo, pc>>
       ELSE IF wanted
         THEN /\ accepted' = [accepted EXCEPT ![s] = Append(@, [by |-> kept.by, start |-> kept.start])]
              /\ Goto(s, next)
              /\ UNCHANGED <<exit, todo>>
         ELSE Leave(s, 1, steps) /\ UNCHANGED accepted
    /\ UNCHANGED <<asb, ends, net, overrun, demo, holding, heard, told, trouble>>

(* waitForClientUpdates reads the statuses and the activities in turn until *)
(* it has what it waits for.  A read that finds nothing leaves everything    *)
(* as it is, and a test that fails too: its turns are the reads that find a *)
(* message, with the test after them.                                       *)
Target(label) == IF label = "waitActive" THEN [count |-> 1, state |-> "ACTIVE_UNCONSTRAINED"]
                 ELSE [count |-> 2, state |-> "COMPLETED"]
StatusWanted(h, t)   == h.count < t.count
ActivityWanted(h, t) == h.state # t.state
HasEither(h, t)      == h.count >= t.count \/ h.state = t.state
HasBoth(h, t)        == h.count >= t.count /\ h.state = t.state

(* The topics a wait reads, and what a read may throw: without a sample, or *)
(* with one at hand.                                                        *)
Polled(a) ==
    IF a \in Services THEN {"Command"}
    ELSE {t \in {"CommandStatus"} : StatusWanted(heard[a], Target(pc[a]))}
         \cup {t \in {"Activity"} : ActivityWanted(heard[a], Target(pc[a]))}

ReadFails(a, steps) ==
    /\ pc[a] \in Waiting
    /\ \/ Throws(a, "none", steps)
       \/ \E topic \in Polled(a) : DispatchThrows(a, topic, steps)

Update(c, topic, kept, steps) ==
    /\ Has(<<c, topic>>)
    /\ TakeAll(<<c, topic>>)
    /\ heard' = [heard EXCEPT ![c] = kept]
    /\ told' = [told EXCEPT ![c] = @ \cup {kept.activity}]
    /\ CASE ~HasBoth(kept, Target(pc[c])) -> UNCHANGED flowVars
         [] HasBoth(kept, Target(pc[c])) /\ pc[c] = "waitActive" ->
              Goto(c, "sendStop") /\ UNCHANGED <<exit, todo, holding>>
         [] OTHER -> Leave(c, 0, steps) /\ UNCHANGED holding
    /\ UNCHANGED <<asb, ends, net, overrun, demo, command, accepted, trouble>>

(* The steps of a clean-up list, in order; then main returns.               *)
CleanUp(a) ==
    /\ pc[a] = "cleanup"
    /\ LET step == Head(todo[a]) IN
         \/ /\ step[1] \in {"closed", "gone"}
            /\ EndEnds(a, step[2], step[1])
            /\ UNCHANGED <<asb, holding>>
         \/ /\ step[1] = "message"
            /\ holding' = [holding EXCEPT ![a] = "none"]
            /\ UNCHANGED <<asb, ends, cache, net>>
         \/ /\ step[1] = "connection"
            /\ Release(a)
            /\ UNCHANGED <<ends, cache, net, holding>>
    /\ todo' = [todo EXCEPT ![a] = Tail(@)]
    /\ Goto(a, IF Len(todo[a]) = 1 THEN "ended" ELSE "cleanup")
    /\ UNCHANGED <<overrun, demo, exit, dataVars, trouble>>
=============================================================================
