------------------------------ MODULE SmtiDemo ------------------------------
(***************************************************************************)
(* The SMTI service demo (examples/smti_service_demo/main.cpp), written to *)
(* the helpers of uci/utils: a connection, reader, writer or message is    *)
(* held by a pointer that closes and destroys it when it goes out of       *)
(* scope, in the reverse order of their declarations, on every way out.    *)
(***************************************************************************)
EXTENDS Demo

ServicePtrs   == <<"Capability", "CapabilityStatus", "CommandStatus", "Activity", "Command">>
ClientPtrs    == <<"Command", "CommandStatus", "Activity">>
ServiceWrites == {"Capability", "CapabilityStatus", "CommandStatus", "Activity"}
ClientWrites  == {"Command"}

Ptrs(a)   == IF a \in Services THEN ServicePtrs ELSE ClientPtrs
Writes(a) == IF a \in Services THEN ServiceWrites ELSE ClientWrites

(* The destructor of each kind of pointer lets go of what it holds.  Those  *)
(* of the readers are one step, and those of the writers.                   *)
ResetReaderPtr(topics) == << <<"gone", topics>> >>
ResetWriterPtr(topics) == << <<"gone", topics>> >>
ResetConnectionPtr     == << <<"connection", {}>> >>
ResetMessagePtr        == << <<"message", {}>> >>

(* The end of the scope, for the pointers made: last declared, first reset. *)
ConnectionFirst(a, made) ==
    ResetConnectionPtr \o ResetReaderPtr(made \ Writes(a)) \o ResetWriterPtr(made \cap Writes(a))
ScopeExit(a, made) ==
    ResetReaderPtr(made \ Writes(a)) \o ResetWriterPtr(made \cap Writes(a)) \o ResetConnectionPtr

WholeScope(a) == ScopeExit(a, ToSet(Ptrs(a)))

(* write throws while a MessagePtr holds the message; no pointer holds the  *)
(* message a read makes.                                                    *)
WriteThrows(a) == Throws(a, "ours", ResetMessagePtr \o WholeScope(a))
ReadThrows(a)  == ReadFails(a, WholeScope(a))
Timeout(a)     == TimesOut(a, WholeScope(a))

-----------------------------------------------------------------------------
(* makeConnection, then makeWriter and makeReader for each pointer.         *)
Begin(a) ==
    /\ pc[a] = "off"
    /\ a \in Clients => Room
    /\ \/ MakeAll(a, Ptrs(a), Writes(a), IF a \in Services THEN "capability" ELSE "sendStart")
       \/ \E k \in 0 .. Len(Ptrs(a)) - 1 :
            MakeSome(a, SubSeq(Ptrs(a), 1, k), Writes(a), ScopeExit(a, ToSet(SubSeq(Ptrs(a), 1, k))))
       \/ MakeNothing(a)
    /\ UNCHANGED <<cache, net, overrun, demo, holding, dataVars>>

-----------------------------------------------------------------------------
(* The service.                                                             *)
publishCapability(s) ==
    /\ pc[s] = "capability"
    /\ PublishThen(s, "Capability", s, "capabilityStatus") \/ WriteThrows(s)

publishCapabilityStatus(s) ==
    /\ pc[s] = "capabilityStatus"
    /\ PublishThen(s, "CapabilityStatus", s, "waitStart") \/ WriteThrows(s)

publishCommandStatus(s) ==
    \/ /\ pc[s] = "startStatus"
       /\ \/ PublishThen(s, "CommandStatus", [command |-> command[s].by, activity |-> s], "startActivity")
          \/ WriteThrows(s)
    \/ /\ pc[s] = "stopStatus"
       /\ \/ PublishThen(s, "CommandStatus", [command |-> command[s].by, activity |-> NoActivity],
                  "stopActivity")
          \/ WriteThrows(s)

(* runService empties the ReceivedCommand before it waits again.            *)
publishActivity(s) ==
    \/ /\ pc[s] = "startActivity"
       /\ \/ /\ Publish(s, "Activity", [activity |-> s, state |-> "ACTIVE_UNCONSTRAINED"])
             /\ Goto(s, "waitStop")
             /\ command' = [command EXCEPT ![s] = NoCommand]
             /\ UNCHANGED <<exit, todo, heard, told, accepted>>
          \/ WriteThrows(s)
    \/ /\ pc[s] = "stopActivity"
       /\ \/ /\ Publish(s, "Activity", [activity |-> s, state |-> "COMPLETED"])
             /\ Leave(s, 0, WholeScope(s))
             /\ UNCHANGED dataVars
          \/ WriteThrows(s)

(* The service's MessageListener: a command without a variant counts as     *)
(* received, and is neither a start nor a stop of an activity.              *)
commandListener(last, m) ==
    IF m.kind = "empty" THEN last
    ELSE [received |-> TRUE, start |-> m.kind = "start", by |-> m.by,
          activity |-> IF m.kind = "stop" THEN m.activity ELSE NoActivity]

Taken(s) == commandListener(command[s], First(<<s, "Command">>))

waitForCommand(s) ==
    \/ /\ pc[s] = "waitStart"
       /\ TakeCommand(s, Taken(s), Taken(s).start, "startStatus", WholeScope(s))
    \/ /\ pc[s] = "waitStop"
       /\ TakeCommand(s, Taken(s), ~Taken(s).start /\ Taken(s).activity = s, "stopStatus",
                      WholeScope(s))

-----------------------------------------------------------------------------
(* The client.                                                              *)
sendStartCommand(c) ==
    /\ pc[c] = "sendStart"
    /\ PublishThen(c, "Command", Start(c), "waitActive") \/ WriteThrows(c)

sendStopCommand(c) ==
    /\ pc[c] = "sendStop"
    /\ PublishThen(c, "Command", Stop(c, heard[c].activity), "waitCompleted") \/ WriteThrows(c)

statusListener(h)      == [h EXCEPT !.count = @ + 1]
activityListener(h, m) == [h EXCEPT !.activity = m.activity, !.state = m.state]

waitForClientUpdates(c) ==
    /\ pc[c] \in {"waitActive", "waitCompleted"}
    /\ \/ /\ StatusWanted(heard[c], Target(pc[c]))
          /\ Update(c, "CommandStatus", statusListener(heard[c]), WholeScope(c))
       \/ /\ ActivityWanted(heard[c], Target(pc[c]))
          /\ Update(c, "Activity", activityListener(heard[c], First(<<c, "Activity">>)), WholeScope(c))

-----------------------------------------------------------------------------
runService(s) ==
    \/ publishCapability(s)
    \/ publishCapabilityStatus(s)
    \/ waitForCommand(s)
    \/ publishCommandStatus(s)
    \/ publishActivity(s)

runClient(c) ==
    \/ sendStartCommand(c)
    \/ waitForClientUpdates(c)
    \/ sendStopCommand(c)

SmtiStep(a) ==
    \/ a \in Services /\ runService(a)
    \/ a \in Clients /\ runClient(a)
    \/ ReadThrows(a)
    \/ CleanUp(a)
=============================================================================
