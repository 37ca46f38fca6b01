---------------------------- MODULE MCDdsReader ----------------------------
(***************************************************************************)
(* TLC instance of DdsReader: two application threads, two listeners, a    *)
(* history of two samples.  The threads, listeners and NoThread are model  *)
(* values that the configurations bind to themselves.                      *)
(***************************************************************************)
EXTENDS DdsReader

CONSTANTS t1, t2, l1, l2
=============================================================================
