------------------------------ MODULE MCDemos ------------------------------
(***************************************************************************)
(* TLC instance of Demos: one service and two clients.                     *)
(***************************************************************************)
EXTENDS Demos

CONSTANTS s1, c1, c2

MCTopics == {"Capability", "CapabilityStatus", "Command", "CommandStatus", "Activity"}
=============================================================================
