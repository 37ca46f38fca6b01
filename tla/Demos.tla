------------------------------- MODULE Demos -------------------------------
(***************************************************************************)
(* Services and clients of one of the demos on a bus: either program, the  *)
(* environment around it, and what it means that a process has ended well. *)
(***************************************************************************)
EXTENDS Demo

Amti == INSTANCE AmtiDemo
Smti == INSTANCE SmtiDemo

Begin(a) ==
    \/ demo = "amti" /\ Amti!Begin(a)
    \/ demo = "smti" /\ Smti!Begin(a)

Step(a) ==
    \/ demo = "amti" /\ Amti!AmtiStep(a)
    \/ demo = "smti" /\ Smti!SmtiStep(a)

Timeout(a) ==
    \/ demo = "amti" /\ Amti!Timeout(a)
    \/ demo = "smti" /\ Smti!Timeout(a)

Next == Environment \/ \E a \in Apps : Begin(a) \/ Step(a) \/ Timeout(a)

Spec == Init /\ [][Next]_vars

-----------------------------------------------------------------------------
(* A service obeys one start and one stop, and the stop names its activity  *)
(* (README.md of both demos: "accepts a stop command for that activity").   *)
(* Anybody who reads the bus can send such a stop; one of the demo's own    *)
(* clients is obeyed only when it has been told of the activity, by the     *)
(* activity itself and by a command status: not on an update of another     *)
(* service, and not after an update that was lost.                          *)
StopFromInformed ==
    \A s \in Services :
        /\ Len(accepted[s]) <= 2
        /\ Len(accepted[s]) > 0 => accepted[s][1].start
        /\ Len(accepted[s]) > 1 =>
             LET by == accepted[s][2].by IN
             /\ ~accepted[s][2].start
             /\ command[s].activity = s
             /\ by \in Clients \cup {Stranger}
             /\ by \in Clients => s \in told[by] /\ heard[by].count > 0

Alone(a) == \A d \in Clients \ {a} : pc[d] = "off"

(* A client ends with 0 only when the activity it heard of last has been    *)
(* completed: its service has obeyed a stop and is on its way out.  With no *)
(* other publisher of commands, the service did so on the client's own      *)
(* start and stop.  (With another client the start and the stop may be the  *)
(* other's: statuses are counted whatever command they answer.)             *)
ClientSuccess ==
    \A c \in Clients : exit[c] = 0 =>
        LET s == heard[c].activity IN
        /\ s \in Services
        /\ Len(accepted[s]) = 2
        /\ pc[s] \in {"cleanup", "ended"}
        /\ Alone(c) /\ trouble = 0 =>
             accepted[s] = << [by |-> c, start |-> TRUE], [by |-> c, start |-> FALSE] >>

(* The history of one sample of the default QoS is enough for the client a  *)
(* service obeys: no update is dropped from its caches before it is read.   *)
(* A client that is alone overruns nobody.                                  *)
OneSampleIsEnough ==
    \A c \in Clients :
        /\ (\E s \in Services : Len(accepted[s]) = 2 /\ accepted[s][2].by = c)
              => <<c, "CommandStatus">> \notin overrun /\ <<c, "Activity">> \notin overrun
        /\ Alone(c) /\ trouble = 0 => overrun = {}

Released(a) == /\ asb[a] \in {"none", "gone"}
               /\ \A t \in Topics : ends[<<a, t>>] \in {"none", "gone"}

AllCreated(a) == \A i \in DOMAIN Amti!Ends(a) : ends[<<a, Amti!Ends(a)[i]>>] # "none"

(* Readers and writers go before the connection they were made with, and    *)
(* nothing is left of a process that ends: on every way out of the SMTI     *)
(* demo, and of the AMTI demo once it has made all its entities.  A message *)
(* object is left behind only by a failure: the program's own by the AMTI   *)
(* demo alone, when a write throws; the one a read has made for its         *)
(* listener by either, when deserializing throws (DdsReader.h:78-89).       *)
CleanExit ==
    \A a \in Apps :
        /\ asb[a] = "gone" => \A t \in Topics : ends[<<a, t>>] \in {"none", "gone"}
        /\ pc[a] = "ended" => /\ demo = "smti" \/ AllCreated(a) => Released(a)
                              /\ holding[a] # "none" => exit[a] = 1
                              /\ holding[a] = "ours" => demo = "amti"
=============================================================================
