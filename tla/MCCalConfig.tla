---------------------------- MODULE MCCalConfig ----------------------------
EXTENDS CalConfig

CONSTANTS h1, h2, X, Y, U1, U2

Text(codes) == [i \in DOMAIN codes |-> Octet(codes[i])]

MCSystemName    == Text(<<115, 121, 115, 116, 101, 109>>)
MCSubsystemName == Text(<<115, 117, 98, 115, 121, 115, 116, 101, 109>>)

A == Text(<<65>>)
B == Text(<<66>>)
(* Seventeen characters: the first and the last share an octet.             *)
Long(first) == Text(<<first>> \o [i \in 1..16 |-> 97])
(* "radar-1", "radar-9"                                                     *)
Radar(digit) == Text(<<114, 97, 100, 97, 114, 45, digit>>)

MCLabels == {A, B, Long(49), Long(113)}
Radars   == {Radar(49), Radar(57)}

aa == [name |-> A, uuid |-> U1]
bb == [name |-> B, uuid |-> U2]

SystemServices == {<<>>, <<aa>>, <<aa, bb>>, <<aa, aa>>, <<bb, Malformed>>, NotArray}
Components     == {<<>>, <<aa>>, <<bb, bb>>}
Subsystems     == [name : {X, Y}, uuid : {U1, U2},
                   services : {<<>>, <<aa>>, <<bb>>, <<Malformed>>},
                   components : {<<>>, <<aa>>}, capabilities : {<<>>}]
First          == {s \in Subsystems : s.name = X /\ s.uuid = U1}
Second         == {s \in Subsystems : s.uuid = U2}

Trees == [name : {X}, uuid : {U1},
          services : SystemServices, components : Components, capabilities : {<<>>, <<aa>>},
          subsystems : {<<>>, NotArray, <<Malformed>>}
                       \cup {<<s>> : s \in First}
                       \cup {<<s, t>> : s \in First, t \in Second}]

Plain(name, uuid, entries) ==
    [name |-> name, uuid |-> uuid, services |-> entries, components |-> <<>>,
     capabilities |-> NotArray, subsystems |-> <<>>]
Whole(name, uuid, entries) == [Plain(name, uuid, entries) EXCEPT !.capabilities = <<>>]
Roots == {Whole(X, U1, <<aa>>), Whole(X, U2, <<bb>>), Whole(Y, U2, <<aa, bb>>),
          Whole(Y, Malformed, <<aa>>), Plain(Y, U1, <<aa>>), Malformed}

File(system, systems) == [path |-> "file", system |-> system, systems |-> systems]
NoFile(path) == [path |-> path, system |-> NoName, systems |-> NotArray]

MCEnvironments ==
    {NoFile("NONE"), NoFile(""), NoFile("unreadable"), NoFile("file")}
    \cup {File(NoName, <<s>>) : s \in Trees}
    \cup {File(n, ss) : n \in {NoName, X, Y}, ss \in SeqOf(Roots, 2)}

NoConfiguration == {NoFile("NONE")}
=============================================================================
