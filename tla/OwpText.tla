------------------------------ MODULE OwpText ------------------------------
(***************************************************************************)
(* The sessions of OwpServer together with the text functions of Protocol  *)
(* that read their commands and match their wildcards.                     *)
(***************************************************************************)
EXTENDS OwpServer, Protocol

(* The functions of Protocol depend on no state; they are looked at while   *)
(* no client is registered.  A wildcard matches exactly what its pattern    *)
(* describes, though globMatch goes back to the last * only                 *)
(* (Protocol.cpp:25-43).                                                    *)
WildcardsMatch == registry = {} => GlobAgrees

(* XUNSUB erases the subscriptions of the stream its line names and of no   *)
(* other: the line is cut into the same fields whichever function cuts it,  *)
(* and the keys tell streams apart (ClientSession.cpp:124, 154, 234).       *)
StreamsApart == registry = {} => FieldsAgree /\ KeysApart
=============================================================================
