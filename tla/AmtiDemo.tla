------------------------------ MODULE AmtiDemo ------------------------------
(***************************************************************************)
(* The AMTI service demo (examples/amti_service_demo/main.cpp): the raw    *)
(* generated API, every entity created, closed and destroyed by hand, in a *)
(* try block that begins after the creations and ends before the clean-up. *)
(***************************************************************************)
EXTENDS Demo

ServiceEnds   == <<"Capability", "CapabilityStatus", "CommandStatus", "Activity", "Command">>
ServiceWrites == {"Capability", "CapabilityStatus", "CommandStatus", "Activity"}
ClientEnds    == <<"Command", "CommandStatus", "Activity">>
ClientWrites  == {"Command"}

(* All are closed, then all are destroyed, then the connection goes.        *)
TakenDown(topics) ==
    << <<"closed", topics>>, <<"gone", topics>>, <<"connection", {}>> >>

ServiceCleanUp == TakenDown(ToSet(ServiceEnds))
ClientCleanUp  == TakenDown(ToSet(ClientEnds))
CleanUpOf(a) == IF a \in Services THEN ServiceCleanUp ELSE ClientCleanUp

(* write throws: the message object is not destroyed.                       *)
WriteThrows(a) == Throws(a, "ours", CleanUpOf(a))
ReadThrows(a)  == ReadFails(a, CleanUpOf(a))
Timeout(a)     == TimesOut(a, CleanUpOf(a))

-----------------------------------------------------------------------------
(* runService and runClient up to the try block.  What throws here leaves   *)
(* what has been created as it is.                                          *)
Ends(a) == IF a \in Services THEN ServiceEnds ELSE ClientEnds
Writes(a) == IF a \in Services THEN ServiceWrites ELSE ClientWrites

Begin(a) ==
    /\ pc[a] = "off"
    /\ a \in Clients => Room
    /\ \/ MakeAll(a, Ends(a), Writes(a), IF a \in Services THEN "capability" ELSE "sendStart")
       \/ \E k \in 0 .. Len(Ends(a)) - 1 :
            MakeSome(a, SubSeq(Ends(a), 1, k), Writes(a), <<>>)
       \/ MakeNothing(a)
    /\ UNCHANGED <<cache, net, overrun, demo, holding, dataVars>>

-----------------------------------------------------------------------------
(* The service.                                                             *)
publishCapability(s) ==
    /\ pc[s] = "capability"
    /\ PublishThen(s, "Capability", s, "capabilityStatus") \/ WriteThrows(s)

publishCapabilityStatus(s) ==
    /\ pc[s] = "capabilityStatus"
    /\ PublishThen(s, "CapabilityStatus", s, "waitStart") \/ WriteThrows(s)

publishCommandStatus(s) ==
    \/ /\ pc[s] = "startStatus"
       /\ \/ PublishThen(s, "CommandStatus", [command |-> command[s].by, activity |-> s], "startActivity")
          \/ WriteThrows(s)
    \/ /\ pc[s] = "stopStatus"
       /\ \/ PublishThen(s, "CommandStatus", [command |-> command[s].by, activity |-> NoActivity],
                  "stopActivity")
          \/ WriteThrows(s)

publishActivity(s) ==
    \/ /\ pc[s] = "startActivity"
       /\ \/ PublishThen(s, "Activity", [activity |-> s, state |-> "ACTIVE_UNCONSTRAINED"], "waitStop")
          \/ WriteThrows(s)
    \/ /\ pc[s] = "stopActivity"
       /\ \/ /\ Publish(s, "Activity", [activity |-> s, state |-> "COMPLETED"])
             /\ Leave(s, 0, CleanUpOf(s))
             /\ UNCHANGED dataVars
          \/ WriteThrows(s)

(* CommandListener: commands without a variant are ignored.                 *)
CommandListener(last, m) ==
    CASE m.kind = "start" -> [received |-> TRUE, start |-> TRUE, by |-> m.by,
                              activity |-> NoActivity]
      [] m.kind = "stop"  -> [received |-> TRUE, start |-> FALSE, by |-> m.by,
                              activity |-> m.activity]
      [] OTHER -> last

(* take() has emptied the listener after the turn before.                   *)
Taken(s) == CommandListener(NoCommand, First(<<s, "Command">>))

AnyStop(s, c)   == ~c.start
WantsStop(s, c) == ~c.start /\ c.activity = s

waitForCommand(s) ==
    \/ /\ pc[s] = "waitStart"
       /\ TakeCommand(s, Taken(s), Taken(s).start, "startStatus", CleanUpOf(s))
    \/ /\ pc[s] = "waitStop"
       /\ TakeCommand(s, Taken(s), WantsStop(s, Taken(s)), "stopStatus", CleanUpOf(s))

-----------------------------------------------------------------------------
(* The client.                                                              *)
sendStartCommand(c) ==
    /\ pc[c] = "sendStart"
    /\ PublishThen(c, "Command", Start(c), "waitActive") \/ WriteThrows(c)

sendStopCommand(c) ==
    /\ pc[c] = "sendStop"
    /\ PublishThen(c, "Command", Stop(c, heard[c].activity), "waitCompleted") \/ WriteThrows(c)

CommandStatusListener(h) == [h EXCEPT !.count = @ + 1]
ActivityListener(h, m)   == [h EXCEPT !.activity = m.activity, !.state = m.state]

waitForClientUpdates(c) ==
    /\ pc[c] \in {"waitActive", "waitCompleted"}
    /\ \/ /\ StatusWanted(heard[c], Target(pc[c]))
          /\ Update(c, "CommandStatus", CommandStatusListener(heard[c]), CleanUpOf(c))
       \/ /\ ActivityWanted(heard[c], Target(pc[c]))
          /\ Update(c, "Activity", ActivityListener(heard[c], First(<<c, "Activity">>)), CleanUpOf(c))

-----------------------------------------------------------------------------
runService(s) ==
    \/ publishCapability(s)
    \/ publishCapabilityStatus(s)
    \/ waitForCommand(s)
    \/ publishCommandStatus(s)
    \/ publishActivity(s)

runClient(c) ==
    \/ sendStartCommand(c)
    \/ waitForClientUpdates(c)
    \/ sendStopCommand(c)

AmtiStep(a) ==
    \/ a \in Services /\ runService(a)
    \/ a \in Clients /\ runClient(a)
    \/ ReadThrows(a)
    \/ CleanUp(a)
=============================================================================
