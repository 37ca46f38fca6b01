---------------------------- MODULE MCOwpServer ----------------------------
(***************************************************************************)
(* TLC instance of OwpServer: one topic "a" with the messages "ab" and     *)
(* "b".  The clients' wildcards are "* *" and "? *a*", matched by the      *)
(* globMatch of Protocol.                                                  *)
(***************************************************************************)
EXTENDS OwpText

CONSTANTS c1, c2, x1, x2, s1, t1, m1, m2

MCText == [x \in {t1, m1, m2} |-> CASE x = t1 -> <<"a">> [] x = m1 -> <<"a", "b">> [] x = m2 -> <<"b">>]
MCKindsOf(topicPattern, namePattern) ==
    {k \in Kinds : /\ GlobMatch(topicPattern, MCText[k[1]])
                   /\ GlobMatch(namePattern, MCText[k[2]])}
MCPatterns == {MCKindsOf(<<"*">>, <<"*">>), MCKindsOf(<<"?">>, <<"*", "a", "*">>)}
=============================================================================
