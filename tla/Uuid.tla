-------------------------------- MODULE Uuid --------------------------------
(***************************************************************************)
(* Name-based UUIDs (src/UUID.cpp).  An octet is the set of its bits that  *)
(* are 1, a UUID a function from the positions of its octets, a name the   *)
(* sequence of its characters' octets.                                     *)
(***************************************************************************)
EXTENDS Integers, Sequences

Bits      == 0..7
Positions == 0..15
UUIDs     == [Positions -> SUBSET Bits]

Octet(n) == {b \in Bits : (n \div 2^b) % 2 = 1}

Xor(x, y) == (x \ y) \cup (y \ x)

ShiftLeft(x)  == {b + 1 : b \in x \ {7}}
RotateLeft(x) == {(b + 1) % 8 : b \in x}

NilUUID == [p \in Positions |-> {}]

(* 6ba7b810-9dad-11d1-80b4-00c04fd430c8                                     *)
getNamespaceUUID ==
    LET octets == <<107, 167, 184, 16, 157, 173, 17, 209,
                    128, 180, 0, 192, 79, 212, 48, 200>>
    IN  [p \in Positions |-> Octet(octets[p + 1])]

(* The characters of the name are folded into the octets of the name space, *)
(* each time with a rotation by one bit.                                    *)
MixedIn(ns, name) ==
    LET mixed[i \in 0..Len(name)] ==
          IF i = 0 THEN ns
          ELSE [mixed[i - 1] EXCEPT ![(i - 1) % 16] = RotateLeft(Xor(@, name[i]))]
    IN  mixed[Len(name)]

(* The version and the variant overwrite four bits of octet 6 and two of    *)
(* octet 8.                                                                 *)
Stamp(u) ==
    [p \in Positions |->
       CASE p = 6 -> (u[6] \cap 0..3) \cup {4, 5}
         [] p = 8 -> (u[8] \cap 0..5) \cup {7}
         [] OTHER -> u[p]]

createVersion3UUID(ns, name) == Stamp(MixedIn(ns, name))

getVersion(u) == {b - 4 : b \in u[6] \cap 4..7}

isValid(u) == \E p \in Positions : u[p] # {}
=============================================================================
