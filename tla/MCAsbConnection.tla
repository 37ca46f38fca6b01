-------------------------- MODULE MCAsbConnection --------------------------
(***************************************************************************)
(* TLC instance of AsbConnection: two application threads and two status   *)
(* listeners, model values that the configurations bind to themselves.     *)
(***************************************************************************)
EXTENDS AsbConnection

CONSTANTS t1, t2, l1, l2
=============================================================================
