-------------------------- MODULE Protocol_proofs --------------------------
(***************************************************************************)
(* globMatch decides what wildcards mean, for every pattern and every text *)
(* without a *.  What makes it right to go back to the last * only: each   *)
(* way to match that remains for an earlier * is one that remains for the  *)
(* last one.                                                               *)
(*                                                                         *)
(* Every line is cut alike by handleLine and by the handlers, and a key of *)
(* concreteSubs says which stream, topic and message it was made of.       *)
(***************************************************************************)
EXTENDS OwpText, SequenceTheorems, SetInduction, TLAPS

(***************************************************************************)
(* The rest of a text fits the rest of a pattern: P and T are the lengths, *)
(* p and t what is behind.                                                 *)
(***************************************************************************)

Piece(pattern, text, cut, i) ==
    IF pattern[i] = "*" THEN cut[i - 1] <= cut[i]
    ELSE /\ cut[i] = cut[i - 1] + 1
         /\ pattern[i] \in {"?", text[cut[i]]}

Fits(pattern, P, text, T, p, t) ==
    \E cut \in [0 .. P -> 0 .. T] :
        /\ cut[p] = t
        /\ cut[P] = T
        /\ \A i \in p + 1 .. P : Piece(pattern, text, cut, i)

LEMMA NoPatternLeft ==
    ASSUME NEW pattern, NEW text, NEW P \in Nat, NEW T \in Nat, NEW t \in 0 .. T
    PROVE  Fits(pattern, P, text, T, P, t) <=> t = T
<1>1. ASSUME t = T PROVE Fits(pattern, P, text, T, P, t)
  <2> DEFINE cut == [i \in 0 .. P |-> T]
  <2>1. cut \in [0 .. P -> 0 .. T] /\ cut[P] = T
    OBVIOUS
  <2>2. \A i \in P + 1 .. P : Piece(pattern, text, cut, i)
    OBVIOUS
  <2> QED BY <1>1, <2>1, <2>2 DEF Fits
<1> QED BY <1>1 DEF Fits

(* Once the text is used up only stars fit.                                 *)
LEMMA NoTextLeft ==
    ASSUME NEW pattern, NEW text, NEW P \in Nat, NEW T \in Nat, NEW p \in 0 .. P
    PROVE  Fits(pattern, P, text, T, p, T) <=> \A i \in p + 1 .. P : pattern[i] = "*"
<1>1. ASSUME \A i \in p + 1 .. P : pattern[i] = "*"
      PROVE  Fits(pattern, P, text, T, p, T)
  <2> DEFINE cut == [i \in 0 .. P |-> T]
  <2>1. cut \in [0 .. P -> 0 .. T] /\ cut[P] = T /\ cut[p] = T
    OBVIOUS
  <2>2. \A i \in p + 1 .. P : Piece(pattern, text, cut, i)
    BY <1>1 DEF Piece
  <2> QED BY <2>1, <2>2 DEF Fits
<1>2. ASSUME Fits(pattern, P, text, T, p, T)
      PROVE  \A i \in p + 1 .. P : pattern[i] = "*"
  <2>1. PICK cut \in [0 .. P -> 0 .. T] :
          cut[p] = T /\ \A i \in p + 1 .. P : Piece(pattern, text, cut, i)
    BY <1>2 DEF Fits
  <2> DEFINE D == {n \in Nat : p + n <= P => cut[p + n] = T}
  <2>2. 0 \in D
    BY <2>1
  <2>3. ASSUME NEW n \in Nat, p + n + 1 <= P, cut[p + n] = T
        PROVE  pattern[p + n + 1] = "*" /\ cut[p + n + 1] = T
    <3>1. /\ p + n + 1 \in p + 1 .. P /\ (p + n + 1) - 1 = p + n
          /\ p + n + 1 \in 0 .. P
      BY <2>3
    <3>2. Piece(pattern, text, cut, p + n + 1)
      BY <2>1, <3>1
    <3>3. cut[p + n + 1] \in 0 .. T
      BY <2>1, <3>1
    <3> QED BY <2>3, <3>1, <3>2, <3>3 DEF Piece
  <2>4. ASSUME NEW n \in D PROVE n + 1 \in D
    <3>1. n \in Nat /\ (p + n <= P => cut[p + n] = T) /\ p + (n + 1) = p + n + 1
      BY <2>4
    <3> QED BY <2>3, <3>1
  <2>5. D = Nat
    <3>1. D \in SUBSET Nat
      OBVIOUS
    <3> HIDE DEF D
    <3> QED BY <2>2, <2>4, <3>1, NatInd
  <2>6. ASSUME NEW i \in p + 1 .. P PROVE pattern[i] = "*"
    <3>1. i - p - 1 \in Nat /\ p + (i - p - 1) + 1 = i /\ p + (i - p - 1) <= P
      BY <2>6
    <3>2. i - p - 1 \in D
      BY <2>5, <3>1
    <3>3. cut[p + (i - p - 1)] = T
      BY <3>1, <3>2
    <3> QED BY <2>3, <3>1, <3>3
  <2> QED BY <2>6
<1> QED BY <1>1, <1>2

(* A character that is no star takes one of the text.                       *)
LEMMA OneCharacter ==
    ASSUME NEW pattern, NEW text, NEW P \in Nat, NEW T \in Nat,
           NEW p \in 0 .. P, p < P, NEW t \in 0 .. T, pattern[p + 1] # "*"
    PROVE  Fits(pattern, P, text, T, p, t)
             <=> /\ t < T
                 /\ pattern[p + 1] \in {"?", text[t + 1]}
                 /\ Fits(pattern, P, text, T, p + 1, t + 1)
<1>1. ASSUME Fits(pattern, P, text, T, p, t)
      PROVE  /\ t < T
             /\ pattern[p + 1] \in {"?", text[t + 1]}
             /\ Fits(pattern, P, text, T, p + 1, t + 1)
  <2>1. PICK cut \in [0 .. P -> 0 .. T] :
          /\ cut[p] = t /\ cut[P] = T
          /\ \A i \in p + 1 .. P : Piece(pattern, text, cut, i)
    BY <1>1 DEF Fits
  <2>2. p + 1 \in p + 1 .. P /\ (p + 1) - 1 = p /\ p + 1 \in 0 .. P
    OBVIOUS
  <2>3. cut[p + 1] = t + 1 /\ pattern[p + 1] \in {"?", text[t + 1]}
    BY <2>1, <2>2 DEF Piece
  <2>4. cut[p + 1] \in 0 .. T
    BY <2>1, <2>2
  <2>5. \A i \in (p + 1) + 1 .. P : i \in p + 1 .. P
    OBVIOUS
  <2>6. Fits(pattern, P, text, T, p + 1, t + 1)
    BY <2>1, <2>3, <2>5 DEF Fits
  <2> QED BY <2>3, <2>4, <2>6
<1>2. ASSUME t < T, pattern[p + 1] \in {"?", text[t + 1]},
             Fits(pattern, P, text, T, p + 1, t + 1)
      PROVE  Fits(pattern, P, text, T, p, t)
  <2>1. PICK cut \in [0 .. P -> 0 .. T] :
          /\ cut[p + 1] = t + 1 /\ cut[P] = T
          /\ \A i \in (p + 1) + 1 .. P : Piece(pattern, text, cut, i)
    BY <1>2 DEF Fits
  <2>2. PICK new : new = [cut EXCEPT ![p] = t]
    OBVIOUS
  <2>3. /\ new \in [0 .. P -> 0 .. T] /\ new[p] = t
        /\ \A i \in p + 1 .. P : new[i] = cut[i]
    BY <2>1, <2>2
  <2>4. new[P] = T /\ new[p + 1] = t + 1
    BY <2>1, <2>3
  <2>5. ASSUME NEW i \in p + 1 .. P PROVE Piece(pattern, text, new, i)
    <3>1. CASE i = p + 1
      <4>1. i - 1 = p
        BY <3>1
      <4> QED BY <1>2, <2>3, <2>4, <3>1, <4>1 DEF Piece
    <3>2. CASE i # p + 1
      <4>1. i \in (p + 1) + 1 .. P /\ i - 1 \in p + 1 .. P
        BY <3>2
      <4>2. new[i] = cut[i] /\ new[i - 1] = cut[i - 1]
        BY <2>3, <4>1
      <4>3. Piece(pattern, text, cut, i)
        BY <2>1, <4>1
      <4> QED BY <4>2, <4>3 DEF Piece
    <3> QED BY <3>1, <3>2
  <2> QED BY <2>3, <2>4, <2>5 DEF Fits
<1> QED BY <1>1, <1>2

(* A star takes any piece of it.                                            *)
LEMMA AnyPiece ==
    ASSUME NEW pattern, NEW text, NEW P \in Nat, NEW T \in Nat,
           NEW p \in 0 .. P, p < P, NEW t \in 0 .. T, pattern[p + 1] = "*"
    PROVE  Fits(pattern, P, text, T, p, t)
             <=> \E m \in t .. T : Fits(pattern, P, text, T, p + 1, m)
<1>1. ASSUME Fits(pattern, P, text, T, p, t)
      PROVE  \E m \in t .. T : Fits(pattern, P, text, T, p + 1, m)
  <2>1. PICK cut \in [0 .. P -> 0 .. T] :
          /\ cut[p] = t /\ cut[P] = T
          /\ \A i \in p + 1 .. P : Piece(pattern, text, cut, i)
    BY <1>1 DEF Fits
  <2>2. p + 1 \in p + 1 .. P /\ (p + 1) - 1 = p /\ p + 1 \in 0 .. P
    OBVIOUS
  <2>3. cut[p + 1] \in t .. T
    <3>1. t <= cut[p + 1] /\ cut[p + 1] \in 0 .. T
      BY <2>1, <2>2 DEF Piece
    <3> QED BY <3>1
  <2>4. \A i \in (p + 1) + 1 .. P : i \in p + 1 .. P
    OBVIOUS
  <2>5. Fits(pattern, P, text, T, p + 1, cut[p + 1])
    BY <2>1, <2>4 DEF Fits
  <2> QED BY <2>3, <2>5
<1>2. ASSUME NEW m \in t .. T, Fits(pattern, P, text, T, p + 1, m)
      PROVE  Fits(pattern, P, text, T, p, t)
  <2>1. PICK cut \in [0 .. P -> 0 .. T] :
          /\ cut[p + 1] = m /\ cut[P] = T
          /\ \A i \in (p + 1) + 1 .. P : Piece(pattern, text, cut, i)
    BY <1>2 DEF Fits
  <2>2. PICK new : new = [cut EXCEPT ![p] = t]
    OBVIOUS
  <2>3. /\ new \in [0 .. P -> 0 .. T] /\ new[p] = t
        /\ \A i \in p + 1 .. P : new[i] = cut[i]
    BY <2>1, <2>2
  <2>4. new[P] = T /\ new[p + 1] = m
    BY <2>1, <2>3
  <2>5. ASSUME NEW i \in p + 1 .. P PROVE Piece(pattern, text, new, i)
    <3>1. CASE i = p + 1
      <4>1. i - 1 = p /\ t <= m
        BY <3>1
      <4> QED BY <1>2, <2>3, <2>4, <3>1, <4>1 DEF Piece
    <3>2. CASE i # p + 1
      <4>1. i \in (p + 1) + 1 .. P /\ i - 1 \in p + 1 .. P
        BY <3>2
      <4>2. new[i] = cut[i] /\ new[i - 1] = cut[i - 1]
        BY <2>3, <4>1
      <4>3. Piece(pattern, text, cut, i)
        BY <2>1, <4>1
      <4> QED BY <4>2, <4>3 DEF Piece
    <3> QED BY <3>1, <3>2
  <2> QED BY <2>3, <2>4, <2>5 DEF Fits
<1> QED BY <1>1, <1>2

(***************************************************************************)
(* The loop.                                                               *)
(***************************************************************************)

(* A later try of the last star would do.                                   *)
Later(pattern, P, text, T, at) ==
    /\ at.star # -1
    /\ \E m \in at.match + 1 .. T : Fits(pattern, P, text, T, at.star + 1, m)

(* What is between the last star and p has taken as much of the text as it  *)
(* would take anywhere else; the whole fits if the rest does, or a later    *)
(* try of the last star.                                                    *)
LoopOK(pattern, P, text, T, at) ==
    /\ at \in [p : 0 .. P, t : 0 .. T, star : -1 .. P - 1, match : 0 .. T]
    /\ at.star = -1 => at.match = 0
    /\ at.star # -1 =>
         /\ at.star + 1 <= at.p
         /\ at.p - at.star - 1 = at.t - at.match
         /\ \A m \in 0 .. T : Fits(pattern, P, text, T, at.star + 1, m) =>
              /\ m + at.t - at.match <= T
              /\ Fits(pattern, P, text, T, at.p, m + at.t - at.match)
    /\ Fits(pattern, P, text, T, 0, 0)
         <=> Fits(pattern, P, text, T, at.p, at.t) \/ Later(pattern, P, text, T, at)

(* What grows with every turn.                                              *)
Progress(P, at) == at.match * (P + 1) + at.p

LEMMA Products ==
    ASSUME NEW P \in Nat, NEW m \in Nat, NEW n \in Nat
    PROVE  /\ m * (P + 1) \in Nat
           /\ (m + 1) * (P + 1) = m * (P + 1) + P + 1
           /\ m <= n => m * (P + 1) <= n * (P + 1)
<1>1. m * (P + 1) \in Nat /\ n * (P + 1) \in Nat
  OBVIOUS
<1>2. (m + 1) * (P + 1) = m * (P + 1) + P + 1
  OBVIOUS
<1>3. ASSUME m <= n PROVE m * (P + 1) <= n * (P + 1)
  <2>1. PICK d \in Nat : n = m + d
    BY <1>3
  <2>2. n * (P + 1) = m * (P + 1) + d * (P + 1) /\ d * (P + 1) \in Nat
    BY <2>1
  <2> QED BY <1>1, <2>2
<1> QED BY <1>1, <1>2, <1>3

LEMMA Begins ==
    ASSUME NEW pattern, NEW text, NEW P \in Nat, NEW T \in Nat
    PROVE  LoopOK(pattern, P, text, T, Beginning) /\ Progress(P, Beginning) >= 0
<1>1. /\ Beginning \in [p : 0 .. P, t : 0 .. T, star : -1 .. P - 1, match : 0 .. T]
      /\ Beginning.p = 0 /\ Beginning.t = 0 /\ Beginning.star = -1 /\ Beginning.match = 0
  BY DEF Beginning
<1>2. ~Later(pattern, P, text, T, Beginning)
  BY <1>1 DEF Later
<1>3. LoopOK(pattern, P, text, T, Beginning)
  BY <1>1, <1>2 DEF LoopOK
<1>4. Progress(P, Beginning) = 0 * (P + 1) + 0
  BY <1>1 DEF Progress
<1>5. 0 * (P + 1) + 0 >= 0
  OBVIOUS
<1> QED BY <1>3, <1>4, <1>5

(* The character fits: both go on.                                          *)
LEMMA SameTurn ==
    ASSUME NEW pattern, NEW text, NEW P \in Nat, NEW T \in Nat, NEW at,
           LoopOK(pattern, P, text, T, at), at.t < T, at.p < P,
           pattern[at.p + 1] \in {"?", text[at.t + 1]}, text[at.t + 1] # "*",
           NEW new, new = [at EXCEPT !.p = at.p + 1, !.t = at.t + 1]
    PROVE  LoopOK(pattern, P, text, T, new) /\ Progress(P, new) >= Progress(P, at) + 1
<1>1. at \in [p : 0 .. P, t : 0 .. T, star : -1 .. P - 1, match : 0 .. T]
  BY DEF LoopOK
<1>2. /\ new \in [p : 0 .. P, t : 0 .. T, star : -1 .. P - 1, match : 0 .. T]
      /\ new.p = at.p + 1 /\ new.t = at.t + 1 /\ new.star = at.star /\ new.match = at.match
  <2>1. new = [p |-> at.p + 1, t |-> at.t + 1, star |-> at.star, match |-> at.match]
    BY <1>1
  <2>2. at.p + 1 \in 0 .. P /\ at.t + 1 \in 0 .. T
    BY <1>1
  <2> QED BY <1>1, <2>1, <2>2
<1>3. pattern[at.p + 1] # "*"
  OBVIOUS
<1>4. \A u \in 0 .. T :
        Fits(pattern, P, text, T, at.p, u)
          <=> /\ u < T /\ pattern[at.p + 1] \in {"?", text[u + 1]}
              /\ Fits(pattern, P, text, T, at.p + 1, u + 1)
  BY <1>1, <1>3, OneCharacter
<1>5. Fits(pattern, P, text, T, at.p, at.t) <=> Fits(pattern, P, text, T, new.p, new.t)
  BY <1>1, <1>2, <1>4
<1>6. Later(pattern, P, text, T, new) <=> Later(pattern, P, text, T, at)
  BY <1>2 DEF Later
<1>7. ASSUME at.star # -1
      PROVE  /\ new.star + 1 <= new.p
             /\ new.p - new.star - 1 = new.t - new.match
             /\ \A m \in 0 .. T : Fits(pattern, P, text, T, new.star + 1, m) =>
                  /\ m + new.t - new.match <= T
                  /\ Fits(pattern, P, text, T, new.p, m + new.t - new.match)
  <2>1. at.star + 1 <= at.p /\ at.p - at.star - 1 = at.t - at.match
    BY <1>7 DEF LoopOK
  <2>2. ASSUME NEW m \in 0 .. T, Fits(pattern, P, text, T, at.star + 1, m)
        PROVE  /\ m + (at.t + 1) - at.match <= T
               /\ Fits(pattern, P, text, T, at.p + 1, m + (at.t + 1) - at.match)
    <3>1. /\ m + at.t - at.match <= T
          /\ Fits(pattern, P, text, T, at.p, m + at.t - at.match)
      BY <1>7, <2>2 DEF LoopOK
    <3>2. m + at.t - at.match \in 0 .. T
      BY <1>1, <2>1, <3>1
    <3>3. /\ m + at.t - at.match < T
          /\ Fits(pattern, P, text, T, at.p + 1, (m + at.t - at.match) + 1)
      BY <1>4, <3>1, <3>2
    <3>4. (m + at.t - at.match) + 1 = m + (at.t + 1) - at.match
      BY <1>1
    <3> QED BY <1>1, <3>2, <3>3, <3>4
  <2> QED BY <1>1, <1>2, <2>1, <2>2
<1>8. LoopOK(pattern, P, text, T, new)
  BY <1>2, <1>5, <1>6, <1>7 DEF LoopOK
<1>9. Progress(P, new) = at.match * (P + 1) + (at.p + 1) /\ Progress(P, at) = at.match * (P + 1) + at.p
  BY <1>2 DEF Progress
<1>10. at.match * (P + 1) \in Nat /\ at.p \in Nat
  BY <1>1, Products
<1> QED BY <1>8, <1>9, <1>10

(* A star is met: it is the one to go back to from now on, and what an      *)
(* earlier one could still do it can do as well.                            *)
LEMMA StarTurn ==
    ASSUME NEW pattern, NEW text, NEW P \in Nat, NEW T \in Nat, NEW at,
           LoopOK(pattern, P, text, T, at), at.t < T, at.p < P, pattern[at.p + 1] = "*",
           NEW new, new = [at EXCEPT !.p = at.p + 1, !.star = at.p, !.match = at.t]
    PROVE  LoopOK(pattern, P, text, T, new) /\ Progress(P, new) >= Progress(P, at) + 1
<1>1. at \in [p : 0 .. P, t : 0 .. T, star : -1 .. P - 1, match : 0 .. T]
  BY DEF LoopOK
<1>2. /\ new \in [p : 0 .. P, t : 0 .. T, star : -1 .. P - 1, match : 0 .. T]
      /\ new.p = at.p + 1 /\ new.t = at.t /\ new.star = at.p /\ new.match = at.t
  <2>1. new = [p |-> at.p + 1, t |-> at.t, star |-> at.p, match |-> at.t]
    BY <1>1
  <2>2. at.p + 1 \in 0 .. P /\ at.p \in -1 .. P - 1
    BY <1>1
  <2> QED BY <1>1, <2>1, <2>2
<1>3. new.star # -1
  BY <1>1, <1>2
<1>4. \A u \in 0 .. T :
        Fits(pattern, P, text, T, at.p, u)
          <=> \E m \in u .. T : Fits(pattern, P, text, T, at.p + 1, m)
  BY <1>1, AnyPiece
<1>5. Fits(pattern, P, text, T, at.p, at.t)
        <=> Fits(pattern, P, text, T, new.p, new.t) \/ Later(pattern, P, text, T, new)
  <2>1. \A m : m \in at.t .. T <=> m = at.t \/ m \in at.t + 1 .. T
    BY <1>1
  <2> QED BY <1>1, <1>2, <1>3, <1>4, <2>1 DEF Later
<1>6. Later(pattern, P, text, T, at) => Fits(pattern, P, text, T, at.p, at.t)
  <2>1. SUFFICES ASSUME at.star # -1, NEW m \in at.match + 1 .. T,
                        Fits(pattern, P, text, T, at.star + 1, m)
                 PROVE  Fits(pattern, P, text, T, at.p, at.t)
    BY DEF Later
  <2>2. m \in 0 .. T
    BY <1>1
  <2>3. /\ at.star + 1 <= at.p /\ at.p - at.star - 1 = at.t - at.match
        /\ m + at.t - at.match <= T
        /\ Fits(pattern, P, text, T, at.p, m + at.t - at.match)
    BY <2>1, <2>2 DEF LoopOK
  <2>4. PICK u : u = m + at.t - at.match
    OBVIOUS
  <2>5. u \in 0 .. T /\ u >= at.t
    BY <1>1, <2>2, <2>3, <2>4
  <2>6. PICK k \in u .. T : Fits(pattern, P, text, T, at.p + 1, k)
    BY <1>4, <2>3, <2>4, <2>5
  <2>7. k \in at.t .. T
    BY <1>1, <2>5
  <2> QED BY <1>1, <1>4, <2>6, <2>7
<1>7. /\ new.star + 1 <= new.p
      /\ new.p - new.star - 1 = new.t - new.match
      /\ \A m \in 0 .. T : Fits(pattern, P, text, T, new.star + 1, m) =>
           /\ m + new.t - new.match <= T
           /\ Fits(pattern, P, text, T, new.p, m + new.t - new.match)
  <2>1. \A m \in 0 .. T : m + at.t - at.t = m
    BY <1>1
  <2> QED BY <1>1, <1>2, <2>1
<1>8. Fits(pattern, P, text, T, 0, 0)
        <=> Fits(pattern, P, text, T, at.p, at.t) \/ Later(pattern, P, text, T, at)
  BY DEF LoopOK
<1>9. LoopOK(pattern, P, text, T, new)
  BY <1>2, <1>3, <1>5, <1>6, <1>7, <1>8 DEF LoopOK
<1>10. at.match <= at.t
  BY <1>1 DEF LoopOK
<1>11. Progress(P, new) = at.t * (P + 1) + (at.p + 1) /\ Progress(P, at) = at.match * (P + 1) + at.p
  BY <1>2 DEF Progress
<1>12. /\ at.match * (P + 1) \in Nat /\ at.t * (P + 1) \in Nat /\ at.p \in Nat
       /\ at.match * (P + 1) <= at.t * (P + 1)
  BY <1>1, <1>10, Products
<1> QED BY <1>9, <1>11, <1>12

(* Nothing fits here: the last star takes one character more.               *)
LEMMA BackTurn ==
    ASSUME NEW pattern, NEW text, NEW P \in Nat, NEW T \in Nat, NEW at,
           LoopOK(pattern, P, text, T, at), at.t < T, at.star # -1,
           ~Fits(pattern, P, text, T, at.p, at.t),
           NEW new,
           new = [at EXCEPT !.p = at.star + 1, !.t = at.match + 1, !.match = at.match + 1]
    PROVE  LoopOK(pattern, P, text, T, new) /\ Progress(P, new) >= Progress(P, at) + 1
<1>1. at \in [p : 0 .. P, t : 0 .. T, star : -1 .. P - 1, match : 0 .. T]
  BY DEF LoopOK
<1>2. at.star + 1 <= at.p /\ at.match <= at.t
  BY <1>1 DEF LoopOK
<1>3. /\ new \in [p : 0 .. P, t : 0 .. T, star : -1 .. P - 1, match : 0 .. T]
      /\ new.p = at.star + 1 /\ new.t = at.match + 1 /\ new.star = at.star
      /\ new.match = at.match + 1
  <2>1. new = [p |-> at.star + 1, t |-> at.match + 1, star |-> at.star, match |-> at.match + 1]
    BY <1>1
  <2>2. at.star + 1 \in 0 .. P /\ at.match + 1 \in 0 .. T /\ at.star \in -1 .. P - 1
    BY <1>1, <1>2
  <2> QED BY <2>1, <2>2
<1>4. Later(pattern, P, text, T, at)
        <=> Fits(pattern, P, text, T, new.p, new.t) \/ Later(pattern, P, text, T, new)
  <2>1. \A m : m \in at.match + 1 .. T <=> m = at.match + 1 \/ m \in (at.match + 1) + 1 .. T
    BY <1>1, <1>2
  <2> QED BY <1>1, <1>3, <2>1 DEF Later
<1>5. Fits(pattern, P, text, T, 0, 0) <=> Later(pattern, P, text, T, at)
  BY DEF LoopOK
<1>6. /\ new.star + 1 <= new.p
      /\ new.p - new.star - 1 = new.t - new.match
      /\ \A m \in 0 .. T : Fits(pattern, P, text, T, new.star + 1, m) =>
           /\ m + new.t - new.match <= T
           /\ Fits(pattern, P, text, T, new.p, m + new.t - new.match)
  <2>1. \A m \in 0 .. T : m + (at.match + 1) - (at.match + 1) = m
    BY <1>1
  <2> QED BY <1>1, <1>3, <2>1
<1>7. LoopOK(pattern, P, text, T, new)
  BY <1>3, <1>4, <1>5, <1>6 DEF LoopOK
<1>8. /\ Progress(P, new) = (at.match + 1) * (P + 1) + (at.star + 1)
      /\ Progress(P, at) = at.match * (P + 1) + at.p
  BY <1>3 DEF Progress
<1>9. /\ at.match * (P + 1) \in Nat
      /\ (at.match + 1) * (P + 1) = at.match * (P + 1) + P + 1
  BY <1>1, Products
<1> QED BY <1>1, <1>2, <1>7, <1>8, <1>9

(* A turn keeps the invariant.  One that changes nothing has used up the    *)
(* text, or there is no way to match.                                       *)
LEMMA EveryTurn ==
    ASSUME NEW pattern, NEW text, NEW P \in Nat, P = Len(pattern), NEW T \in Nat, T = Len(text),
           \A i \in 1 .. T : text[i] # "*",
           NEW at, LoopOK(pattern, P, text, T, at), NEW new, new = Turn(pattern, text, at)
    PROVE  /\ LoopOK(pattern, P, text, T, new)
           /\ \/ Progress(P, new) >= Progress(P, at) + 1
              \/ new = at /\ (at.t = T \/ ~Fits(pattern, P, text, T, 0, 0))
<1>1. at \in [p : 0 .. P, t : 0 .. T, star : -1 .. P - 1, match : 0 .. T]
  BY DEF LoopOK
<1> DEFINE more == at.t < T
           same == at.p < P /\ pattern[at.p + 1] \in {"?", text[at.t + 1]}
           wild == at.p < P /\ pattern[at.p + 1] = "*"
<1>2. new = CASE more /\ same ->
                   [at EXCEPT !.p = at.p + 1, !.t = at.t + 1]
              [] more /\ ~same /\ wild ->
                   [at EXCEPT !.p = at.p + 1, !.star = at.p, !.match = at.t]
              [] more /\ ~same /\ ~wild /\ at.star # -1 ->
                   [at EXCEPT !.p = at.star + 1, !.t = at.match + 1, !.match = at.match + 1]
              [] OTHER -> at
  BY DEF Turn
<1>3. ASSUME more, ~same, ~wild
      PROVE  ~Fits(pattern, P, text, T, at.p, at.t)
  <2>1. CASE at.p = P
    BY <1>1, <1>3, <2>1, NoPatternLeft
  <2>2. CASE at.p # P
    <3>1. at.p < P /\ at.p \in 0 .. P /\ at.t \in 0 .. T
      BY <1>1, <2>2
    <3>2. pattern[at.p + 1] # "*" /\ pattern[at.p + 1] \notin {"?", text[at.t + 1]}
      BY <1>3, <3>1
    <3> QED BY <3>1, <3>2, OneCharacter
  <2> QED BY <2>1, <2>2
<1>4. CASE more /\ same
  <2>1. at.t + 1 \in 1 .. T
    BY <1>1, <1>4
  <2>2. text[at.t + 1] # "*"
    BY <2>1
  <2>3. new = [at EXCEPT !.p = at.p + 1, !.t = at.t + 1]
    BY <1>2, <1>4
  <2> QED BY <1>4, <2>2, <2>3, SameTurn
<1>5. CASE more /\ ~same /\ wild
  <2>1. new = [at EXCEPT !.p = at.p + 1, !.star = at.p, !.match = at.t]
    BY <1>2, <1>5
  <2> QED BY <1>5, <2>1, StarTurn
<1>6. CASE more /\ ~same /\ ~wild /\ at.star # -1
  <2>1. new = [at EXCEPT !.p = at.star + 1, !.t = at.match + 1, !.match = at.match + 1]
    BY <1>2, <1>6
  <2> QED BY <1>3, <1>6, <2>1, BackTurn
<1>7. CASE more /\ ~same /\ ~wild /\ at.star = -1
  <2>1. new = at
    BY <1>2, <1>7
  <2>2. ~Fits(pattern, P, text, T, 0, 0)
    BY <1>3, <1>7 DEF LoopOK, Later
  <2> QED BY <2>1, <2>2
<1>8. CASE ~more
  <2>1. new = at
    BY <1>2, <1>8
  <2>2. at.t = T
    BY <1>1, <1>8
  <2> QED BY <2>1, <2>2
<1> QED BY <1>4, <1>5, <1>6, <1>7, <1>8

(* Where the loop has used up the text the answer is right.                 *)
LEMMA Answer ==
    ASSUME NEW pattern, NEW text, NEW P \in Nat, NEW T \in Nat,
           NEW at, LoopOK(pattern, P, text, T, at), at.t = T
    PROVE  Fits(pattern, P, text, T, 0, 0) <=> \A i \in at.p + 1 .. P : pattern[i] = "*"
<1>1. at \in [p : 0 .. P, t : 0 .. T, star : -1 .. P - 1, match : 0 .. T]
  BY DEF LoopOK
<1>2. ~Later(pattern, P, text, T, at)
  <2>1. SUFFICES ASSUME at.star # -1, NEW m \in at.match + 1 .. T,
                        Fits(pattern, P, text, T, at.star + 1, m)
                 PROVE  FALSE
    BY DEF Later
  <2>2. m \in 0 .. T
    BY <1>1
  <2>3. m + at.t - at.match <= T
    BY <2>1, <2>2 DEF LoopOK
  <2> QED BY <1>1, <2>3
<1>3. Fits(pattern, P, text, T, at.p, T) <=> \A i \in at.p + 1 .. P : pattern[i] = "*"
  <2>1. PICK p \in 0 .. P : p = at.p
    BY <1>1
  <2>2. Fits(pattern, P, text, T, p, T) <=> \A i \in p + 1 .. P : pattern[i] = "*"
    BY NoTextLeft, Zenon
  <2> QED BY <2>1, <2>2
<1> QED BY <1>2, <1>3 DEF LoopOK

(* The states of the loop: the recursive function of GlobMatch exists.      *)
Runs(f, pattern, text, turns) ==
    f = [n \in 0 .. turns |-> IF n = 0 THEN Beginning ELSE Turn(pattern, text, f[n - 1])]

LEMMA LoopDef ==
    ASSUME NEW pattern, NEW text, NEW turns \in Nat
    PROVE  \E f : Runs(f, pattern, text, turns)
<1> DEFINE Step(v) == Turn(pattern, text, v)
           Solves(g, n) == g = [i \in 0 .. n |-> IF i = 0 THEN Beginning ELSE Step(g[i - 1])]
           D == {n \in Nat : \E g : Solves(g, n)}
<1>1. 0 \in D
  <2> DEFINE g == [i \in 0 .. 0 |-> Beginning]
  <2> HIDE DEF Step
  <2>1. Solves(g, 0)
    OBVIOUS
  <2> QED BY <2>1
<1>2. ASSUME NEW n \in D PROVE n + 1 \in D
  <2>1. n \in Nat /\ \E g : Solves(g, n)
    BY <1>2
  <2>2. PICK g : Solves(g, n)
    BY <2>1
  <2> DEFINE h == [i \in 0 .. n + 1 |-> IF i = n + 1 THEN Step(g[n]) ELSE g[i]]
  <2> HIDE DEF Step
  <2>3. ASSUME NEW i \in 0 .. n + 1
        PROVE h[i] = IF i = 0 THEN Beginning ELSE Step(h[i - 1])
    <3>1. CASE i = 0
      BY <2>2, <3>1
    <3>2. CASE i = n + 1
      <4>1. h[n + 1] = Step(g[n]) /\ h[n] = g[n]
        BY <2>1
      <4>2. (n + 1) - 1 = n /\ n + 1 # 0
        BY <2>1
      <4> HIDE DEF h
      <4> QED BY <3>2, <4>1, <4>2
    <3>3. CASE i \in 1 .. n
      <4>1. h[i] = g[i] /\ h[i - 1] = g[i - 1]
        BY <2>1, <3>3
      <4>2. g[i] = Step(g[i - 1])
        BY <2>2, <3>3
      <4> QED BY <4>1, <4>2, <3>3, <2>1
    <3> QED BY <3>1, <3>2, <3>3
  <2>4. Solves(h, n + 1)
    BY <2>3
  <2> HIDE DEF Solves, h
  <2> QED BY <2>1, <2>4
<1>3. D = Nat
  <2> HIDE DEF D
  <2>1. D \in SUBSET Nat
    BY DEF D
  <2> QED BY <1>1, <1>2, <2>1, NatInd
<1>4. PICK g : Solves(g, turns)
  BY <1>3
<1> QED BY <1>4 DEF Runs

(* globMatch says that a text without a * matches a pattern exactly when it *)
(* can be cut into one piece per character of the pattern, whatever their   *)
(* lengths, though it only ever goes back to the last * (Protocol.cpp).     *)
THEOREM GlobMatchDecides ==
    ASSUME NEW S, NEW pattern \in Seq(S), NEW text \in Seq(S), "*" \notin Range(text)
    PROVE  GlobMatch(pattern, text) <=> Matches(pattern, text)
<1>1. PICK P \in Nat : P = Len(pattern) /\ DOMAIN pattern = 1 .. P
  BY LenProperties
<1>2. PICK T \in Nat : T = Len(text) /\ DOMAIN text = 1 .. T
  BY LenProperties
<1>3. \A i \in 1 .. T : text[i] # "*"
  BY <1>2 DEF Range
<1>4. Matches(pattern, text) <=> Fits(pattern, P, text, T, 0, 0)
  <2>1. 0 + 1 = 1
    OBVIOUS
  <2> QED BY <1>1, <1>2, <2>1 DEF Matches, Fits, Piece
<1>5. PICK turns : turns = (P + 1) * (T + 1)
  OBVIOUS
<1>6. turns \in Nat
  BY <1>5
<1> DEFINE Loop == CHOOSE f : Runs(f, pattern, text, turns)
<1>7. Runs(Loop, pattern, text, turns)
  BY <1>6, LoopDef
<1>8. GlobMatch(pattern, text) <=> Loop[turns].t = T /\ OnlyStars(pattern, Loop[turns].p)
  BY <1>1, <1>2, <1>5 DEF GlobMatch, Runs
<1> HIDE DEF Loop
<1> DEFINE Done(at) == Turn(pattern, text, at) = at
           Good(n) == /\ LoopOK(pattern, P, text, T, Loop[n])
                      /\ Done(Loop[n]) \/ n <= Progress(P, Loop[n])
           D == {n \in Nat : n <= turns => Good(n)}
<1>9. 0 \in D
  <2>1. Loop[0] = Beginning
    BY <1>6, <1>7 DEF Runs
  <2> QED BY <2>1, Begins
<1>10. ASSUME NEW n \in Nat, LoopOK(pattern, P, text, T, Loop[n]) PROVE Progress(P, Loop[n]) \in Nat
  <2>1. Loop[n].match \in Nat /\ Loop[n].p \in Nat
    BY <1>10 DEF LoopOK
  <2>2. Loop[n].match * (P + 1) \in Nat
    BY <2>1, Products
  <2> QED BY <2>1, <2>2 DEF Progress
<1>11. ASSUME NEW n \in D PROVE n + 1 \in D
  <2>1. n \in Nat /\ (n <= turns => Good(n))
    BY <1>11
  <2>2. SUFFICES ASSUME n + 1 <= turns PROVE Good(n + 1)
    BY <2>1
  <2>3. Good(n)
    BY <1>6, <2>1, <2>2
  <2>4. Loop[n + 1] = Turn(pattern, text, Loop[n])
    <3>1. n + 1 \in 0 .. turns /\ n + 1 # 0 /\ (n + 1) - 1 = n
      BY <1>6, <2>1, <2>2
    <3> QED BY <1>7, <3>1 DEF Runs
  <2>5. CASE Done(Loop[n])
    BY <2>3, <2>4, <2>5
  <2>6. CASE ~Done(Loop[n])
    <3>1. /\ LoopOK(pattern, P, text, T, Loop[n + 1])
          /\ Progress(P, Loop[n + 1]) >= Progress(P, Loop[n]) + 1
      BY <1>1, <1>2, <1>3, <2>3, <2>4, <2>6, EveryTurn
    <3>2. n <= Progress(P, Loop[n])
      BY <2>3, <2>6
    <3>3. Progress(P, Loop[n]) \in Nat /\ Progress(P, Loop[n + 1]) \in Nat
      BY <1>10, <2>1, <2>3, <3>1
    <3>4. n + 1 <= Progress(P, Loop[n + 1])
      BY <2>1, <3>1, <3>2, <3>3
    <3> QED BY <3>1, <3>4
  <2> QED BY <2>5, <2>6
<1>12. D = Nat
  <2> HIDE DEF D
  <2>1. D \in SUBSET Nat
    BY DEF D
  <2> QED BY <1>9, <1>11, <2>1, NatInd
<1>13. PICK at : at = Loop[turns]
  OBVIOUS
<1>14. Good(turns)
  <2>1. turns \in D
    BY <1>6, <1>12
  <2> QED BY <1>6, <2>1
<1>15. LoopOK(pattern, P, text, T, at) /\ (Done(at) \/ turns <= Progress(P, at))
  BY <1>13, <1>14
<1>16. Done(at)
  <2>1. Progress(P, at) < turns
    <3>1. at.match \in 0 .. T /\ at.p \in 0 .. P
      BY <1>15 DEF LoopOK
    <3>2. /\ at.match * (P + 1) \in Nat /\ T * (P + 1) \in Nat
          /\ at.match * (P + 1) <= T * (P + 1)
          /\ (T + 1) * (P + 1) = T * (P + 1) + P + 1
      <4>1. at.match \in Nat /\ at.match <= T
        BY <3>1
      <4> QED BY <4>1, Products
    <3>3. turns = (T + 1) * (P + 1)
      BY <1>5
    <3>4. Progress(P, at) = at.match * (P + 1) + at.p
      BY DEF Progress
    <3> QED BY <3>1, <3>2, <3>3, <3>4
  <2>2. Progress(P, at) \in Nat
    BY <1>6, <1>10, <1>13, <1>15
  <2> QED BY <1>6, <1>15, <2>1, <2>2
<1>17. at.t = T \/ ~Fits(pattern, P, text, T, 0, 0)
  <2>1. Progress(P, at) \in Nat
    BY <1>6, <1>10, <1>13, <1>15
  <2>2. ~(Progress(P, at) >= Progress(P, at) + 1)
    BY <2>1
  <2> QED BY <1>1, <1>2, <1>3, <1>15, <1>16, <2>2, EveryTurn
<1>18. OnlyStars(pattern, at.p) <=> \A i \in at.p + 1 .. P : pattern[i] = "*"
  BY <1>1 DEF OnlyStars
<1>19. CASE at.t = T
  BY <1>4, <1>8, <1>13, <1>15, <1>18, <1>19, Answer
<1>20. CASE at.t # T
  BY <1>4, <1>8, <1>13, <1>17, <1>20
<1> QED BY <1>19, <1>20

(* A wildcard matches the topics and messages its pattern describes, and no *)
(* other (globMatch in TopicMonitor::onSample).                             *)
THEOREM WildcardsDecided == Spec => []WildcardsMatch
<1>1. \A S, n : \A x \in Texts(S, n) : n \in Nat => x \in Seq(S)
  BY DEF Texts
<1>2. GlobAgrees
  <2>1. SUFFICES ASSUME NEW pattern \in Texts({"a", "b", "?", "*"}, 3),
                        NEW text \in Texts({"a", "b"}, 4)
                 PROVE  GlobMatch(pattern, text) <=> Matches(pattern, text)
    BY DEF GlobAgrees
  <2>2. PICK S : S = {"a", "b", "?", "*"}
    OBVIOUS
  <2>3. pattern \in Seq(S) /\ text \in Seq({"a", "b"})
    BY <1>1, <2>2
  <2>4. text \in Seq(S)
    BY <2>2, <2>3, SeqMonotonic
  <2>5. "*" \notin Range(text)
    <3>1. \A i \in DOMAIN text : text[i] \in {"a", "b"}
      BY <2>3
    <3> QED BY <3>1 DEF Range
  <2> QED BY <2>3, <2>4, <2>5, GlobMatchDecides
<1>3. WildcardsMatch
  BY <1>2 DEF WildcardsMatch
<1> QED BY <1>3, PTL

(***************************************************************************)
(* Fields.  f is what SplitFields has after each character of s.           *)
(***************************************************************************)

Reading(S) == [fields : Seq(Seq(S)), field : Seq(S)]

Scans(f, s, S) ==
    /\ f \in [0 .. Len(s) -> Reading(S)]
    /\ f[0].fields = <<>> /\ f[0].field = <<>>
    /\ \A i \in 1 .. Len(s) : f[i] = Read(f[i - 1], s[i])

(* Facts with \o or Append are named, or the provers do not instantiate     *)
(* what is said of them.                                                    *)
Joined(u, v) == u \o v
Longer(u, x) == Append(u, x)

LEMMA ReadType ==
    ASSUME NEW S, NEW at \in Reading(S), NEW char \in S
    PROVE  /\ Finish(at) \in Seq(Seq(S))
           /\ Read(at, char) \in Reading(S)
           /\ char \in Separators => /\ Read(at, char).fields = Finish(at)
                                     /\ Read(at, char).field = <<>>
           /\ char \notin Separators => /\ Read(at, char).fields = at.fields
                                        /\ Read(at, char).field = Longer(at.field, char)
<1>1. at.fields \in Seq(Seq(S)) /\ at.field \in Seq(S)
  BY DEF Reading
<1>2. Finish(at) \in Seq(Seq(S))
  BY <1>1, AppendProperties DEF Finish
<1>3. Append(at.field, char) \in Seq(S) /\ <<>> \in Seq(S)
  BY <1>1
<1>4. CASE char \in Separators
  <2>1. Read(at, char) = [fields |-> Finish(at), field |-> <<>>]
    BY <1>4 DEF Read
  <2> QED BY <1>2, <1>3, <1>4, <2>1 DEF Reading
<1>5. CASE char \notin Separators
  <2>1. Read(at, char) = [fields |-> at.fields, field |-> Append(at.field, char)]
    BY <1>5 DEF Read
  <2> QED BY <1>1, <1>2, <1>3, <1>5, <2>1 DEF Reading, Longer
<1> QED BY <1>4, <1>5

(* The recursive function of SplitFields exists.                            *)
LEMMA SplitDef ==
    ASSUME NEW S, NEW s \in Seq(S)
    PROVE  \E f : Scans(f, s, S) /\ SplitFields(s) = Finish(f[Len(s)])
<1> DEFINE Start == [fields |-> <<>>, field |-> <<>>]
           Step(v, i) == Read(v, s[i])
           Solves(g, k) == g = [i \in 0 .. k |-> IF i = 0 THEN Start ELSE Step(g[i - 1], i)]
           D == {k \in Nat : \E g : Solves(g, k)}
<1> HIDE DEF Start, Step
<1>1. 0 \in D
  <2> DEFINE g == [i \in 0 .. 0 |-> Start]
  <2>1. Solves(g, 0)
    OBVIOUS
  <2> QED BY <2>1
<1>2. ASSUME NEW k \in D PROVE k + 1 \in D
  <2>1. k \in Nat /\ \E g : Solves(g, k)
    BY <1>2
  <2>2. PICK g : Solves(g, k)
    BY <2>1
  <2> DEFINE h == [i \in 0 .. k + 1 |-> IF i = k + 1 THEN Step(g[k], k + 1) ELSE g[i]]
  <2>3. ASSUME NEW i \in 0 .. k + 1
        PROVE h[i] = IF i = 0 THEN Start ELSE Step(h[i - 1], i)
    <3>1. CASE i = 0
      BY <2>2, <3>1
    <3>2. CASE i = k + 1
      <4>1. h[k + 1] = Step(g[k], k + 1) /\ h[k] = g[k]
        BY <2>1
      <4>2. (k + 1) - 1 = k /\ k + 1 # 0
        BY <2>1
      <4> HIDE DEF h
      <4> QED BY <3>2, <4>1, <4>2
    <3>3. CASE i \in 1 .. k
      <4>1. h[i] = g[i] /\ h[i - 1] = g[i - 1]
        BY <2>1, <3>3
      <4>2. g[i] = Step(g[i - 1], i)
        BY <2>2, <3>3
      <4> QED BY <4>1, <4>2, <3>3, <2>1
    <3> QED BY <3>1, <3>2, <3>3
  <2>4. Solves(h, k + 1)
    BY <2>3
  <2> HIDE DEF Solves, h
  <2> QED BY <2>1, <2>4
<1>3. D = Nat
  <2> HIDE DEF D
  <2>1. D \in SUBSET Nat
    BY DEF D
  <2> QED BY <1>1, <1>2, <2>1, NatInd
<1>4. PICK n \in Nat : n = Len(s) /\ \A i \in 1 .. n : s[i] \in S
  BY LenProperties
<1> DEFINE f == CHOOSE g : Solves(g, n)
<1>5. Solves(f, n)
  <2> HIDE DEF Solves
  <2>1. n \in D
    BY <1>3
  <2> QED BY <2>1
<1>6. SplitFields(s) = Finish(f[n])
  BY <1>4 DEF SplitFields, Start, Step
<1> HIDE DEF f
<1>7. f = [i \in 0 .. n |-> f[i]]
  BY <1>5
<1>8. f[0] = Start /\ \A i \in 1 .. n : f[i] = Read(f[i - 1], s[i])
  <2>1. \A i \in 1 .. n : i \in 0 .. n /\ i # 0
    OBVIOUS
  <2> QED BY <1>5, <2>1 DEF Step
<1> HIDE DEF D, Solves
<1>9. f[0].fields = <<>> /\ f[0].field = <<>> /\ f[0] \in Reading(S)
  <2>1. Start \in Reading(S) /\ Start.fields = <<>> /\ Start.field = <<>>
    BY DEF Start, Reading
  <2> QED BY <1>8, <2>1
<1> DEFINE E == {k \in Nat : k <= n => f[k] \in Reading(S)}
<1>10. 0 \in E
  BY <1>9
<1>11. ASSUME NEW k \in E PROVE k + 1 \in E
  <2>1. k \in Nat /\ (k <= n => f[k] \in Reading(S))
    BY <1>11
  <2>2. SUFFICES ASSUME k + 1 <= n PROVE f[k + 1] \in Reading(S)
    BY <2>1
  <2>3. k <= n /\ k + 1 \in 1 .. n /\ (k + 1) - 1 = k
    BY <2>1, <2>2
  <2>4. f[k + 1] = Read(f[k], s[k + 1]) /\ s[k + 1] \in S /\ f[k] \in Reading(S)
    BY <1>4, <1>8, <2>1, <2>3
  <2> QED BY <2>4, ReadType
<1>12. E = Nat
  <2> HIDE DEF E
  <2>1. E \in SUBSET Nat
    BY DEF E
  <2> QED BY <1>10, <1>11, <2>1, NatInd
<1>13. \A i \in 0 .. n : f[i] \in Reading(S)
  <2> SUFFICES ASSUME NEW i \in 0 .. n PROVE f[i] \in Reading(S)
    OBVIOUS
  <2>1. i \in E /\ i <= n
    BY <1>12
  <2> QED BY <2>1
<1>14. f \in [0 .. n -> Reading(S)]
  BY <1>7, <1>13
<1>15. Scans(f, s, S)
  BY <1>4, <1>8, <1>9, <1>14 DEF Scans
<1> QED BY <1>4, <1>6, <1>15

(* Separators between or after the fields change no field.                  *)
LEMMA SeparatorRun ==
    ASSUME NEW S, NEW s \in Seq(S), NEW f, Scans(f, s, S),
           NEW n \in Nat, n = Len(s), NEW a \in 0 .. n, NEW b \in a .. n,
           \A i \in a + 1 .. b : s[i] \in Separators
    PROVE  /\ Finish(f[b]) = Finish(f[a])
           /\ f[a].field = <<>> => f[b].field = <<>> /\ f[b].fields = f[a].fields
<1> DEFINE Same(k) == /\ Finish(f[a + k]) = Finish(f[a])
                      /\ f[a].field = <<>> => /\ f[a + k].field = <<>>
                                              /\ f[a + k].fields = f[a].fields
           D == {k \in Nat : a + k <= b => Same(k)}
<1>1. 0 \in D
  <2>1. a + 0 = a
    OBVIOUS
  <2> QED BY <2>1
<1>2. ASSUME NEW k \in D PROVE k + 1 \in D
  <2>1. k \in Nat /\ (a + k <= b => Same(k))
    BY <1>2
  <2>2. SUFFICES ASSUME a + (k + 1) <= b PROVE Same(k + 1)
    BY <2>1
  <2>3. PICK c \in Nat : c = a + k
    BY <2>1
  <2>4. c <= b /\ a + (k + 1) = c + 1 /\ c + 1 \in a + 1 .. b /\ c + 1 \in 1 .. n /\ c \in 0 .. n
    BY <2>1, <2>2, <2>3
  <2>5. (c + 1) - 1 = c
    OBVIOUS
  <2>6. /\ f[c] \in Reading(S) /\ s[c + 1] \in S /\ s[c + 1] \in Separators
        /\ f[c + 1] = Read(f[c], s[c + 1])
    BY <2>4, <2>5, LenProperties DEF Scans
  <2>7. f[c + 1].fields = Finish(f[c]) /\ f[c + 1].field = <<>>
    <3>1. PICK at \in Reading(S) : at = f[c]
      BY <2>6
    <3>2. PICK char \in S : char = s[c + 1]
      BY <2>6
    <3>3. Read(at, char).fields = Finish(at) /\ Read(at, char).field = <<>>
      BY <2>6, <3>2, ReadType
    <3> QED BY <2>6, <3>1, <3>2, <3>3
  <2>8. Finish(f[c + 1]) = Finish(f[c])
    BY <2>7 DEF Finish
  <2>9. f[c].field = <<>> => Finish(f[c]) = f[c].fields
    BY DEF Finish
  <2> QED BY <2>1, <2>3, <2>4, <2>7, <2>8, <2>9
<1>3. D = Nat
  <2> HIDE DEF D
  <2>1. D \in SUBSET Nat
    BY DEF D
  <2> QED BY <1>1, <1>2, <2>1, NatInd
<1>4. PICK k \in Nat : a + k = b
  <2>1. b - a \in Nat /\ a + (b - a) = b
    OBVIOUS
  <2> QED BY <2>1
<1>5. Same(k)
  <2>1. k \in D
    <3> HIDE DEF D
    <3> QED BY <1>3
  <2>2. a + k <= b
    BY <1>4
  <2> QED BY <2>1, <2>2
<1> QED BY <1>4, <1>5

LEMMA AppendLater ==
    ASSUME NEW T, NEW u \in Seq(T), NEW v \in Seq(T), NEW x \in T
    PROVE  Longer(Joined(u, v), x) = Joined(u, Longer(v, x))
<1>0. <<x>> \in Seq(T)
  OBVIOUS
<1>1. PICK w \in Seq(T) : w = <<x>>
  BY <1>0
<1>2. u \o v \in Seq(T)
  BY ConcatProperties
<1>3. Append(u \o v, x) = (u \o v) \o w /\ Append(v, x) = v \o w
  BY <1>1, <1>2, AppendIsConcat
<1>4. (u \o v) \o w = u \o (v \o w)
  BY ConcatAssociative
<1> QED BY <1>3, <1>4 DEF Joined, Longer

LEMMA FinishLater ==
    ASSUME NEW S, NEW F \in Seq(Seq(S)), NEW x \in Reading(S), NEW y \in Reading(S),
           x.field = y.field, x.fields = F \o y.fields
    PROVE  Finish(x) = F \o Finish(y)
<1>1. y.fields \in Seq(Seq(S)) /\ y.field \in Seq(S)
  BY DEF Reading
<1>3. PICK T : T = Seq(S)
  OBVIOUS
<1>4. F \in Seq(T) /\ y.fields \in Seq(T) /\ y.field \in T
  BY <1>1, <1>3
<1>5. PICK Y \in Seq(T) : Y = y.fields
  BY <1>4
<1>6. PICK c \in T : c = y.field
  BY <1>4
<1>7. Longer(Joined(F, Y), c) = Joined(F, Longer(Y, c))
  BY <1>4, AppendLater
<1>8. Append(F \o Y, c) = F \o Append(Y, c)
  BY <1>7 DEF Joined, Longer
<1> QED BY <1>5, <1>6, <1>8 DEF Finish

(* A text that stands within another, after a separator, adds its fields.   *)
Copies(S, s, n, r, m, a) ==
    /\ s \in Seq(S) /\ n \in Nat /\ n = Len(s)
    /\ r \in Seq(S) /\ m \in Nat /\ m = Len(r)
    /\ a \in 0 .. n /\ a + m <= n
    /\ \A i \in 1 .. m : r[i] = s[a + i]

LEMMA CopyRun ==
    ASSUME NEW S, NEW s, NEW n, NEW r, NEW m, NEW a, Copies(S, s, n, r, m, a),
           NEW f, Scans(f, s, S), f[a].field = <<>>, NEW g, Scans(g, r, S)
    PROVE  Finish(f[a + m]) = Joined(f[a].fields, Finish(g[m]))
<1> /\ s \in Seq(S) /\ n \in Nat /\ n = Len(s)
    /\ r \in Seq(S) /\ m \in Nat /\ m = Len(r)
    /\ a \in 0 .. n /\ a + m <= n
  BY DEF Copies
<1>0. PICK F \in Seq(Seq(S)) : F = f[a].fields
  BY DEF Scans, Reading
<1>00. ASSUME NEW x \in Reading(S), NEW y \in Reading(S),
              x.field = y.field, x.fields = F \o y.fields
       PROVE  Finish(x) = F \o Finish(y)
  BY <1>00, FinishLater
<1> DEFINE Same(k) == /\ f[a + k].field = g[k].field
                      /\ f[a + k].fields = F \o g[k].fields
           D == {k \in Nat : k <= m => Same(k)}
<1>1. 0 \in D
  <2>1. a + 0 = a /\ g[0].fields = <<>> /\ g[0].field = <<>>
    BY DEF Scans
  <2>2. F \o <<>> = F
    BY ConcatEmptySeq
  <2> QED BY <1>0, <2>1, <2>2
<1>2. ASSUME NEW k \in D PROVE k + 1 \in D
  <2>1. k \in Nat /\ (k <= m => Same(k))
    BY <1>2
  <2>2. SUFFICES ASSUME k + 1 <= m PROVE Same(k + 1)
    BY <2>1
  <2>3. PICK c \in Nat : c = a + k
    BY <2>1
  <2>4. /\ k <= m /\ k \in 0 .. m /\ k + 1 \in 1 .. m /\ (k + 1) - 1 = k
        /\ a + (k + 1) = c + 1 /\ c \in 0 .. n /\ c + 1 \in 1 .. n /\ (c + 1) - 1 = c
    BY <2>1, <2>2, <2>3
  <2>5. PICK x \in Reading(S) : x = f[c] /\ f[c + 1] = Read(x, s[c + 1])
    BY <2>4 DEF Scans
  <2>6. PICK y \in Reading(S) : y = g[k] /\ g[k + 1] = Read(y, r[k + 1])
    BY <2>4 DEF Scans
  <2>7. PICK char \in S : char = s[c + 1] /\ char = r[k + 1]
    BY <2>4, LenProperties DEF Copies
  <2>8. x.field = y.field /\ x.fields = F \o y.fields
    BY <2>1, <2>3, <2>4, <2>5, <2>6
  <2>9. Finish(x) = F \o Finish(y)
    BY <1>00, <2>8
  <2>10. /\ Read(x, char).field = Read(y, char).field
         /\ Read(x, char).fields = F \o Read(y, char).fields
    <3>1. CASE char \in Separators
      <4>1. Read(x, char).fields = Finish(x) /\ Read(x, char).field = <<>>
        BY <3>1, ReadType
      <4>2. Read(y, char).fields = Finish(y) /\ Read(y, char).field = <<>>
        BY <3>1, ReadType
      <4> QED BY <2>9, <4>1, <4>2
    <3>2. CASE char \notin Separators
      <4>1. Read(x, char).fields = x.fields /\ Read(x, char).field = Longer(x.field, char)
        BY <3>2, ReadType
      <4>2. Read(y, char).fields = y.fields /\ Read(y, char).field = Longer(y.field, char)
        BY <3>2, ReadType
      <4> QED BY <2>8, <4>1, <4>2
    <3> QED BY <3>1, <3>2
  <2> QED BY <2>4, <2>5, <2>6, <2>7, <2>10
<1>3. D = Nat
  <2> HIDE DEF D
  <2>1. D \in SUBSET Nat
    BY DEF D
  <2> QED BY <1>1, <1>2, <2>1, NatInd
<1>4. Same(m)
  <2>1. m \in D
    BY <1>3
  <2> QED BY <2>1
<1>5. PICK x \in Reading(S), y \in Reading(S) : x = f[a + m] /\ y = g[m]
  <2>1. a + m \in 0 .. n /\ m \in 0 .. m
    OBVIOUS
  <2>2. f[a + m] \in Reading(S) /\ g[m] \in Reading(S)
    BY <2>1 DEF Scans
  <2> QED BY <2>2
<1> QED BY <1>0, <1>00, <1>4, <1>5 DEF Joined

LEMMA PieceFields ==
    ASSUME NEW S, NEW s, NEW n, NEW r, NEW m, NEW a, Copies(S, s, n, r, m, a),
           NEW f, Scans(f, s, S), f[a].field = <<>>
    PROVE  Finish(f[a + m]) = Joined(f[a].fields, SplitFields(r))
<1>1. PICK g : Scans(g, r, S) /\ SplitFields(r) = Finish(g[m])
  <2>1. r \in Seq(S) /\ m = Len(r)
    BY DEF Copies
  <2> QED BY <2>1, SplitDef
<1>2. Finish(f[a + m]) = Joined(f[a].fields, Finish(g[m]))
  BY <1>1, CopyRun
<1> QED BY <1>1, <1>2

LEMMA OneMore ==
    ASSUME NEW S, NEW s \in Seq(S), NEW j \in Nat, j + 1 <= Len(s)
    PROVE  SubSeq(s, 1, j + 1) = SubSeq(s, 1, j) \o <<s[j + 1]>>
<1>1. 1 \in 1 .. Len(s) /\ j + 1 \in 1 .. Len(s) /\ (j + 1) - 1 = j
  BY LenProperties
<1>2. PICK m \in 1 .. Len(s) : m = 1
  BY <1>1
<1>3. PICK k \in m .. Len(s) : k = j + 1
  BY <1>1, <1>2
<1>4. SubSeq(s, m, k) = SubSeq(s, m, k - 1) \o <<s[k]>>
  BY SubSeqRecursiveSecond
<1> QED BY <1>1, <1>2, <1>3, <1>4

LEMMA TokenRun ==
    ASSUME NEW S, NEW s \in Seq(S), NEW f, Scans(f, s, S),
           NEW n \in Nat, n = Len(s), NEW k \in 0 .. n,
           \A i \in 1 .. k : s[i] \notin Separators
    PROVE  f[k].fields = <<>> /\ f[k].field = SubSeq(s, 1, k)
<1> DEFINE Same(j) == f[j].fields = <<>> /\ f[j].field = SubSeq(s, 1, j)
           D == {j \in Nat : j <= k => Same(j)}
<1>1. 0 \in D
  <2>1. SubSeq(s, 1, 0) = <<>>
    BY SubSeqEmpty
  <2> QED BY <2>1 DEF Scans
<1>2. ASSUME NEW j \in D PROVE j + 1 \in D
  <2>1. j \in Nat /\ (j <= k => Same(j))
    BY <1>2
  <2>2. SUFFICES ASSUME j + 1 <= k PROVE Same(j + 1)
    BY <2>1
  <2>4. j <= k /\ j \in 0 .. n /\ j + 1 \in 1 .. n /\ (j + 1) - 1 = j /\ j + 1 \in 1 .. k
    BY <2>1, <2>2
  <2>5. /\ f[j] \in Reading(S) /\ s[j + 1] \in S /\ s[j + 1] \notin Separators
        /\ f[j + 1] = Read(f[j], s[j + 1])
    BY <2>4, LenProperties DEF Scans
  <2>6. f[j + 1].fields = f[j].fields /\ f[j + 1].field = Append(f[j].field, s[j + 1])
    <3> HIDE DEF Same, D
    <3>0. PICK at \in Reading(S) : at = f[j]
      BY <2>5
    <3>1. PICK char \in S : char = s[j + 1] /\ char \notin Separators
      BY <2>5
    <3>3. Read(at, char) = [fields |-> at.fields, field |-> Append(at.field, char)]
      BY <3>1 DEF Read
    <3>2. Read(at, char).fields = at.fields /\ Read(at, char).field = Append(at.field, char)
      BY <3>3
    <3> QED BY <2>5, <3>0, <3>1, <3>2
  <2>7. SubSeq(s, 1, j + 1) = SubSeq(s, 1, j) \o <<s[j + 1]>>
    <3>1. j + 1 <= Len(s) /\ j \in Nat
      BY <2>1, <2>4
    <3> HIDE DEF Same, D
    <3> QED BY <3>1, OneMore
  <2>8. f[j].field \in Seq(S)
    BY <2>5 DEF Reading
  <2>9. Append(f[j].field, s[j + 1]) = f[j].field \o <<s[j + 1]>>
    BY <2>5, <2>8, AppendIsConcat
  <2> QED BY <2>1, <2>4, <2>6, <2>7, <2>9
<1>3. D = Nat
  <2> HIDE DEF D
  <2>1. D \in SUBSET Nat
    BY DEF D
  <2> QED BY <1>1, <1>2, <2>1, NatInd
<1>4. k \in D
  BY <1>3
<1> QED BY <1>4

(* Trim leaves out blanks at both ends and nothing else.                    *)
LEMMA TrimWorks ==
    ASSUME NEW S, NEW s \in Seq(S), NEW n \in Nat, n = Len(s)
    PROVE  \/ Trim(s) = <<>> /\ \A i \in 1 .. n : s[i] \in Blanks
           \/ \E m \in 1 .. n : \E k \in m .. n :
                /\ Trim(s) = SubSeq(s, m, k)
                /\ s[m] \notin Blanks /\ s[k] \notin Blanks
                /\ \A i \in 1 .. m - 1 : s[i] \in Blanks
                /\ \A i \in k + 1 .. n : s[i] \in Blanks
<1> DEFINE ink == {i \in 1 .. n : s[i] \notin Blanks}
<1>1. DOMAIN s = 1 .. n
  BY LenProperties
<1>2. CASE ink = {}
  <2>1. Trim(s) = <<>>
    BY <1>1, <1>2 DEF Trim
  <2>2. \A i \in 1 .. n : s[i] \in Blanks
    BY <1>2
  <2> QED BY <2>1, <2>2
<1>3. CASE ink # {}
  <2>1. ink \in SUBSET Nat /\ ink \in SUBSET (0 .. n)
    OBVIOUS
  <2>2. Trim(s) = SubSeq(s, Min(ink), Max(ink))
    BY <1>1, <1>3 DEF Trim
  <2> HIDE DEF ink
  <2>3. Min(ink) \in ink /\ \A y \in ink : Min(ink) <= y
    BY <1>3, <2>1, Least DEF Min
  <2>4. Max(ink) \in ink /\ \A y \in ink : Max(ink) >= y
    BY <1>3, <2>1, Greatest DEF Max
  <2>5. PICK m \in ink : m = Min(ink) /\ \A y \in ink : m <= y
    BY <2>3
  <2>6. PICK k \in ink : k = Max(ink) /\ \A y \in ink : k >= y
    BY <2>4
  <2>7. m \in 1 .. n /\ k \in m .. n /\ s[m] \notin Blanks /\ s[k] \notin Blanks
    BY <2>5, <2>6 DEF ink
  <2>8. \A i \in 1 .. m - 1 : s[i] \in Blanks
    BY <2>5, <2>7 DEF ink
  <2>9. \A i \in k + 1 .. n : s[i] \in Blanks
    BY <2>6, <2>7 DEF ink
  <2> QED BY <2>2, <2>5, <2>6, <2>7, <2>8, <2>9
<1> QED BY <1>2, <1>3

LEMMA Part ==
    ASSUME NEW S, NEW s \in Seq(S), NEW n \in Nat, n = Len(s), NEW m \in 1 .. n + 1, NEW k \in m - 1 .. n,
           NEW r, r = SubSeq(s, m, k)
    PROVE  r \in Seq(S) /\ Len(r) = k - m + 1 /\ \A i \in 1 .. k - m + 1 : r[i] = s[m - 1 + i]
<1>1. \A i \in m .. k : s[i] \in S
  BY LenProperties
<1>2. m \in Int /\ k \in Int
  OBVIOUS
<1>3. /\ r \in Seq(S) /\ Len(r) = (IF m <= k THEN k - m + 1 ELSE 0)
      /\ \A i \in 1 .. k - m + 1 : r[i] = s[m + i - 1]
  BY <1>1, <1>2, SubSeqProperties
<1>4. (IF m <= k THEN k - m + 1 ELSE 0) = k - m + 1
  OBVIOUS
<1>5. \A i \in 1 .. k - m + 1 : m + i - 1 = m - 1 + i
  OBVIOUS
<1> QED BY <1>3, <1>4, <1>5

LEMMA NothingSplit == SplitFields(<<>>) = <<>>
<1>1. PICK S : S = {"a"}
  OBVIOUS
<1>2. <<>> \in Seq(S) /\ Len(<<>>) = 0
  OBVIOUS
<1>3. PICK f : Scans(f, <<>>, S) /\ SplitFields(<<>>) = Finish(f[0])
  BY <1>2, SplitDef
<1> QED BY <1>3 DEF Scans, Finish

LEMMA BlanksSeparate == \A c : c \in Blanks => c \in Separators
BY DEF Separators

(* Trim changes no field.                                                   *)
LEMMA TrimKeepsFields ==
    ASSUME NEW S, NEW s \in Seq(S)
    PROVE  Trim(s) \in Seq(S) /\ SplitFields(Trim(s)) = SplitFields(s)
<1>1. PICK n \in Nat : n = Len(s)
  BY LenProperties
<1>2. PICK f : Scans(f, s, S) /\ SplitFields(s) = Finish(f[n])
  BY <1>1, SplitDef
<1>3. f[0].fields = <<>> /\ f[0].field = <<>> /\ Finish(f[0]) = <<>>
  BY <1>2 DEF Scans, Finish
<1>4. CASE Trim(s) = <<>> /\ \A i \in 1 .. n : s[i] \in Blanks
  <2>1. 0 \in 0 .. n /\ n \in 0 .. n /\ 0 + 1 = 1
    OBVIOUS
  <2>2. \A i \in 0 + 1 .. n : s[i] \in Separators
    BY <1>4, BlanksSeparate
  <2>3. Finish(f[n]) = Finish(f[0])
    BY <1>1, <1>2, <2>1, <2>2, SeparatorRun
  <2>4. <<>> \in Seq(S)
    OBVIOUS
  <2> QED BY <1>2, <1>3, <1>4, <2>3, <2>4, NothingSplit
<1>5. ASSUME NEW m \in 1 .. n, NEW k \in m .. n, Trim(s) = SubSeq(s, m, k),
             \A i \in 1 .. m - 1 : s[i] \in Blanks, \A i \in k + 1 .. n : s[i] \in Blanks
      PROVE  Trim(s) \in Seq(S) /\ SplitFields(Trim(s)) = SplitFields(s)
  <2>1. PICK r : r = Trim(s)
    OBVIOUS
  <2>2. PICK a \in Nat : a = m - 1
    OBVIOUS
  <2>3. PICK l \in Nat : l = k - m + 1
    <3>1. k - m + 1 \in Nat
      BY <1>5
    <3> QED BY <3>1
  <2>4. /\ m \in 1 .. n + 1 /\ k \in m - 1 .. n /\ a \in 0 .. n /\ a + l = k /\ a + l <= n
        /\ k \in 0 .. n /\ 0 \in 0 .. n /\ a \in 0 .. n /\ n \in k .. n /\ 0 + 1 = 1
    BY <1>5, <2>2, <2>3
  <2>5. r \in Seq(S) /\ Len(r) = l /\ \A i \in 1 .. l : r[i] = s[a + i]
    BY <1>1, <1>5, <2>1, <2>2, <2>3, <2>4, Part
  <2>6. PICK g : Scans(g, r, S) /\ SplitFields(r) = Finish(g[l])
    BY <2>5, SplitDef
  <2>7. f[a].field = <<>> /\ f[a].fields = <<>>
    <3>1. \A i \in 0 + 1 .. a : s[i] \in Separators
      BY <1>5, <2>2, BlanksSeparate
    <3> QED BY <1>1, <1>2, <1>3, <2>4, <3>1, SeparatorRun
  <2>8. Finish(f[a + l]) = Joined(f[a].fields, SplitFields(r))
    <3>1. Copies(S, s, n, r, l, a)
      BY <1>1, <2>4, <2>5 DEF Copies
    <3> QED BY <1>2, <2>7, <3>1, PieceFields
  <2>9. Finish(f[n]) = Finish(f[k])
    <3>1. \A i \in k + 1 .. n : s[i] \in Separators
      BY <1>5, BlanksSeparate
    <3>2. k \in 0 .. n /\ n \in k .. n
      BY <2>4
    <3> QED BY <1>1, <1>2, <3>1, <3>2, SeparatorRun
  <2>10. l \in 0 .. Len(r) /\ \A i \in 0 .. Len(r) : g[i] \in Reading(S)
    BY <2>5, <2>6 DEF Scans
  <2>11. Finish(g[l]) \in Seq(Seq(S))
    <3>1. g[l].fields \in Seq(Seq(S)) /\ g[l].field \in Seq(S)
      BY <2>10 DEF Reading
    <3> QED BY <3>1, AppendProperties DEF Finish
  <2>12. <<>> \o Finish(g[l]) = Finish(g[l])
    BY <2>11, ConcatEmptySeq
  <2> QED BY <1>2, <2>1, <2>4, <2>5, <2>6, <2>7, <2>8, <2>9, <2>12 DEF Joined
<1> QED BY <1>1, <1>4, <1>5, TrimWorks

(* Behind a separator the fields are those of what is left.                 *)
LEMMA RestOfFields ==
    ASSUME NEW S, NEW s \in Seq(S), NEW f, Scans(f, s, S), NEW n \in Nat, n = Len(s),
           NEW a \in 0 .. n, f[a].field = <<>>
    PROVE  Finish(f[n]) = Joined(f[a].fields, SplitFields(SubSeq(s, a + 1, n)))
<1>1. PICK r : r = SubSeq(s, a + 1, n)
  OBVIOUS
<1>2. PICK l \in Nat : l = n - a
  <2>1. n - a \in Nat
    OBVIOUS
  <2> QED BY <2>1
<1>3. a + l = n /\ a + l <= n
  BY <1>2
<1>4. r \in Seq(S) /\ Len(r) = l /\ \A i \in 1 .. l : r[i] = s[a + i]
  <2>1. PICK b \in 1 .. n + 1 : b = a + 1
    <3>1. a + 1 \in 1 .. n + 1
      OBVIOUS
    <3> QED BY <3>1
  <2>2. n \in b - 1 .. n /\ r = SubSeq(s, b, n) /\ l = n - b + 1 /\ a = b - 1
    BY <1>1, <1>2, <2>1
  <2>3. /\ r \in Seq(S) /\ Len(r) = n - b + 1
        /\ \A i \in 1 .. n - b + 1 : r[i] = s[b - 1 + i]
    BY <2>2, Part
  <2> QED BY <2>2, <2>3
<1>5. Copies(S, s, n, r, l, a)
  BY <1>3, <1>4 DEF Copies
<1>6. Finish(f[a + l]) = Joined(f[a].fields, SplitFields(r))
  BY <1>5, PieceFields
<1> QED BY <1>1, <1>3, <1>6

Unbroken(s, k) == \A i \in 1 .. k : s[i] \notin Separators

(* Without blanks before it, the first field is what stands before the      *)
(* first separator; the others are those of what stands behind that.       *)
LEMMA FirstOfFields ==
    ASSUME NEW S, NEW s \in Seq(S), NEW n \in Nat, n = Len(s), NEW k \in 1 .. n,
           Unbroken(s, k)
    PROVE  /\ k = n => SplitFields(s) = <<SubSeq(s, 1, k)>>
           /\ k < n /\ s[k + 1] \in Separators
                => SplitFields(s) = <<SubSeq(s, 1, k)>> \o SplitFields(SubSeq(s, k + 2, n))
<1>1. PICK f : Scans(f, s, S) /\ SplitFields(s) = Finish(f[n])
  BY SplitDef
<1>2. PICK op \in Seq(S) : op = SubSeq(s, 1, k) /\ Len(op) = k
  <2>1. 1 \in 1 .. n + 1 /\ k \in 1 - 1 .. n /\ k - 1 + 1 = k
    OBVIOUS
  <2>2. SubSeq(s, 1, k) \in Seq(S) /\ Len(SubSeq(s, 1, k)) = k
    BY <2>1, Part
  <2> QED BY <2>2
<1>3. op # <<>>
  BY <1>2
<1>4. f[k].fields = <<>> /\ f[k].field = op
  <2>1. k \in 0 .. n
    OBVIOUS
  <2> QED BY <1>1, <1>2, <2>1, TokenRun DEF Unbroken
<1>5. Finish(f[k]) = <<op>>
  BY <1>3, <1>4 DEF Finish
<1>6. ASSUME k < n, s[k + 1] \in Separators
      PROVE  SplitFields(s) = <<SubSeq(s, 1, k)>> \o SplitFields(SubSeq(s, k + 2, n))
  <2>1. PICK a \in 1 .. n : a = k + 1 /\ a - 1 = k /\ a \in 0 .. n /\ a + 1 = k + 2
    <3>1. k + 1 \in 1 .. n /\ k + 1 \in 0 .. n /\ (k + 1) - 1 = k /\ (k + 1) + 1 = k + 2
      BY <1>6
    <3> QED BY <3>1
  <2>2. f[a].fields = <<op>> /\ f[a].field = <<>>
    <3>1. f[a] = Read(f[k], s[a])
      BY <1>1, <2>1 DEF Scans
    <3>2. f[a] = [fields |-> Finish(f[k]), field |-> <<>>]
      BY <1>6, <2>1, <3>1 DEF Read
    <3> QED BY <1>5, <3>2
  <2>3. Finish(f[n]) = Joined(f[a].fields, SplitFields(SubSeq(s, a + 1, n)))
    BY <1>1, <2>1, <2>2, RestOfFields
  <2> QED BY <1>1, <1>2, <2>1, <2>2, <2>3 DEF Joined
<1> QED BY <1>1, <1>2, <1>5, <1>6

LEMMA CutWorks ==
    ASSUME NEW S, NEW t \in Seq(S), NEW n \in Nat, n = Len(t)
    PROVE  \/ Cut(t) = [op |-> t, rest |-> <<>>]
           \/ \E b \in 1 .. n :
                /\ t[b] = "sp"
                /\ Cut(t) = [op |-> SubSeq(t, 1, b - 1), rest |-> Trim(SubSeq(t, b + 1, n))]
<1> DEFINE blank == {i \in 1 .. n : t[i] = "sp"}
<1>1. DOMAIN t = 1 .. n
  BY LenProperties
<1>2. CASE blank = {}
  BY <1>1, <1>2 DEF Cut
<1>3. CASE blank # {}
  <2>1. Cut(t) = [op |-> SubSeq(t, 1, Min(blank) - 1), rest |-> Trim(SubSeq(t, Min(blank) + 1, n))]
    BY <1>1, <1>3 DEF Cut
  <2>2. blank \in SUBSET Nat
    OBVIOUS
  <2> HIDE DEF blank
  <2>3. Min(blank) \in blank
    BY <1>3, <2>2, Least DEF Min
  <2>4. Min(blank) \in 1 .. n /\ t[Min(blank)] = "sp"
    BY <2>3 DEF blank
  <2> QED BY <2>1, <2>4
<1> QED BY <1>2, <1>3

(* handleLine cuts a line where the first space is, after trim, and the     *)
(* handlers split the rest at any white space (Protocol.cpp:54-72,          *)
(* ClientSession.cpp:232-235): for every line, whatever blanks are in it,   *)
(* both see the same fields, and only a line without fields is ignored.     *)
THEOREM LinesCutAlike ==
    ASSUME NEW S, NEW line \in Seq(S)
    PROVE  CutAlike(line)
<1>1. PICK t \in Seq(S) : t = Trim(line) /\ SplitFields(t) = SplitFields(line)
  BY TrimKeepsFields
<1>2. PICK n \in Nat : n = Len(t)
  BY LenProperties
<1>3. PICK first : first = FirstField(line) /\ first = Cut(t)
  BY <1>1 DEF FirstField
<1>4. t = <<>> \/ (n # 0 /\ t[1] # "sp")
  <2>1. PICK l \in Nat : l = Len(line)
    BY LenProperties
  <2>2. ASSUME NEW m \in 1 .. l, NEW k \in m .. l, t = SubSeq(line, m, k), line[m] \notin Blanks
        PROVE  n # 0 /\ t[1] # "sp"
    <3>1. m \in 1 .. l + 1 /\ k \in m - 1 .. l
      BY <2>2
    <3>2. Len(t) = k - m + 1 /\ \A i \in 1 .. k - m + 1 : t[i] = line[m - 1 + i]
      BY <2>1, <2>2, <3>1, Part
    <3>3. 1 \in 1 .. k - m + 1 /\ (m - 1) + 1 = m
      BY <2>2
    <3>4. t[1] = line[m] /\ n # 0
      BY <1>2, <3>2, <3>3
    <3> QED BY <2>2, <3>4 DEF Blanks
  <2> QED BY <1>1, <2>1, <2>2, TrimWorks
<1>5. CASE first = [op |-> t, rest |-> <<>>]
  <2>1. first.op = t /\ first.rest = <<>>
    BY <1>5
  <2>2. t = <<>> => SplitFields(line) = <<>>
    BY <1>1, NothingSplit
  <2>3. ASSUME ValidToken(t) PROVE SplitFields(line) = <<t>> \o <<>>
    <3>1. t # <<>> /\ n \in 1 .. n
      BY <1>2, <2>3 DEF ValidToken
    <3>2. Unbroken(t, n)
      BY <1>2, <2>3, LenProperties DEF ValidToken, Unbroken, TokenChars, Separators, Blanks
    <3>3. SplitFields(t) = <<SubSeq(t, 1, n)>>
      BY <1>2, <3>1, <3>2, FirstOfFields
    <3>4. SubSeq(t, 1, n) = t
      BY <1>2, SubSeqFull
    <3>5. <<t>> \o <<>> = <<t>>
      OBVIOUS
    <3> QED BY <1>1, <3>3, <3>4, <3>5
  <2> QED BY <1>3, <2>1, <2>2, <2>3, NothingSplit DEF CutAlike
<1>6. ASSUME NEW b \in 1 .. n, t[b] = "sp",
             first = [op |-> SubSeq(t, 1, b - 1), rest |-> Trim(SubSeq(t, b + 1, n))]
      PROVE  CutAlike(line)
  <2>1. PICK op : op = SubSeq(t, 1, b - 1)
    OBVIOUS
  <2>2. PICK after : after = SubSeq(t, b + 1, n)
    OBVIOUS
  <2>3. first.op = op /\ first.rest = Trim(after)
    BY <1>6, <2>1, <2>2
  <2>4. PICK k \in 1 .. n : k = b - 1 /\ k < n /\ k + 1 = b /\ k + 2 = b + 1
    <3>1. n # 0 /\ t # <<>>
      BY <1>2, <1>6
    <3>2. b # 1
      BY <1>4, <1>6, <3>1
    <3>3. b - 1 \in 1 .. n /\ b - 1 < n /\ (b - 1) + 1 = b /\ (b - 1) + 2 = b + 1
      BY <3>2
    <3> QED BY <3>3
  <2>5. op \in Seq(S) /\ Len(op) = k /\ \A i \in 1 .. k : op[i] = t[i]
    <3>1. 1 \in 1 .. n + 1 /\ k \in 1 - 1 .. n /\ k - 1 + 1 = k /\ op = SubSeq(t, 1, k)
      BY <2>1, <2>4
    <3>2. /\ op \in Seq(S) /\ Len(op) = k - 1 + 1
          /\ \A i \in 1 .. k - 1 + 1 : op[i] = t[1 - 1 + i]
      BY <1>2, <3>1, Part
    <3>3. \A i \in 1 .. k : 1 - 1 + i = i
      OBVIOUS
    <3> QED BY <3>1, <3>2, <3>3
  <2>6. op # <<>>
    BY <2>4, <2>5
  <2>7. ASSUME ValidToken(op) PROVE SplitFields(line) = <<op>> \o SplitFields(Trim(after))
    <3>1. Unbroken(t, k)
      BY <2>5, <2>7, LenProperties DEF ValidToken, Unbroken, TokenChars, Separators, Blanks
    <3>2. t[k + 1] \in Separators
      BY <1>6, <2>4 DEF Separators, Blanks
    <3>3. SplitFields(t) = <<SubSeq(t, 1, k)>> \o SplitFields(SubSeq(t, k + 2, n))
      BY <1>2, <2>4, <3>1, <3>2, FirstOfFields
    <3>4. after \in Seq(S)
      <4>1. PICK c \in 1 .. n + 1 : c = b + 1 /\ n \in c - 1 .. n
        <5>1. b + 1 \in 1 .. n + 1 /\ n \in (b + 1) - 1 .. n
          OBVIOUS
        <5> QED BY <5>1
      <4>2. after = SubSeq(t, c, n)
        BY <2>2, <4>1
      <4> QED BY <1>2, <4>1, <4>2, Part
    <3>5. SplitFields(Trim(after)) = SplitFields(after)
      BY <3>4, TrimKeepsFields
    <3> QED BY <1>1, <2>1, <2>2, <2>4, <3>3, <3>5
  <2> QED BY <1>3, <2>3, <2>6, <2>7 DEF CutAlike
<1>7. \/ first = [op |-> t, rest |-> <<>>]
      \/ \E b \in 1 .. n :
            /\ t[b] = "sp"
            /\ first = [op |-> SubSeq(t, 1, b - 1), rest |-> Trim(SubSeq(t, b + 1, n))]
  BY <1>2, <1>3, CutWorks
<1> QED BY <1>5, <1>6, <1>7

(***************************************************************************)
(* Keys of concreteSubs.                                                   *)
(***************************************************************************)

Feed == <<"lf">>
LineAnd(u, v) == Joined(Joined(u, Feed), v)
OneLine(u) == \A i \in 1 .. Len(u) : u[i] # "lf"

(* The first line feed behind position o is where it is.                    *)
LEMMA FirstFeed ==
    ASSUME NEW key, NEW o \in Nat, NEW a \in Nat, NEW b \in Nat,
           key[o + a + 1] = "lf", key[o + b + 1] = "lf",
           \A i \in 1 .. a : key[o + i] # "lf", \A i \in 1 .. b : key[o + i] # "lf"
    PROVE  a = b
<1>1. ~(a < b)
  <2>1. a < b => a + 1 \in 1 .. b /\ o + (a + 1) = o + a + 1
    OBVIOUS
  <2> QED BY <2>1
<1>2. ~(b < a)
  <2>1. b < a => b + 1 \in 1 .. a /\ o + (b + 1) = o + b + 1
    OBVIOUS
  <2> QED BY <2>1
<1> QED BY <1>1, <1>2

LEMMA JoinedIs ==
    ASSUME NEW S, NEW u \in Seq(S), NEW v \in Seq(S)
    PROVE  /\ Joined(u, v) \in Seq(S) /\ Len(Joined(u, v)) = Len(u) + Len(v)
           /\ \A i \in 1 .. Len(u) + Len(v) :
                 Joined(u, v)[i] = IF i <= Len(u) THEN u[i] ELSE v[i - Len(u)]
BY ConcatProperties DEF Joined

(* What stands where in u, a line feed and v.                               *)
Laid(w, u, v) ==
    /\ Len(w) = Len(u) + 1 + Len(v)
    /\ \A i \in 1 .. Len(u) : w[i] = u[i]
    /\ w[Len(u) + 1] = "lf"
    /\ \A i \in 1 .. Len(v) : w[Len(u) + 1 + i] = v[i]

LEMMA Line ==
    ASSUME NEW S, "lf" \in S, NEW u \in Seq(S), NEW v \in Seq(S)
    PROVE  LineAnd(u, v) \in Seq(S) /\ Laid(LineAnd(u, v), u, v)
<1>1. PICK a \in Nat : a = Len(u)
  BY LenProperties
<1>2. PICK b \in Nat : b = Len(v)
  BY LenProperties
<1>3. Feed \in Seq(S) /\ Len(Feed) = 1 /\ Feed[1] = "lf"
  BY DEF Feed
<1>4. PICK feed \in Seq(S) : feed = Feed /\ Len(feed) = 1 /\ feed[1] = "lf"
  BY <1>3
<1>5. PICK x \in Seq(S) : /\ x = Joined(u, feed) /\ Len(x) = a + 1
                          /\ \A i \in 1 .. a + 1 : x[i] = IF i <= a THEN u[i] ELSE feed[i - a]
  <2>1. PICK x \in Seq(S) : x = Joined(u, feed)
    BY JoinedIs
  <2>2. /\ Len(x) = Len(u) + Len(feed)
        /\ \A i \in 1 .. Len(u) + Len(feed) : x[i] = IF i <= Len(u) THEN u[i] ELSE feed[i - Len(u)]
    BY <2>1, JoinedIs
  <2>3. Len(u) + Len(feed) = a + 1
    BY <1>1, <1>4
  <2>4. /\ Len(x) = a + 1
        /\ \A i \in 1 .. a + 1 : x[i] = IF i <= a THEN u[i] ELSE feed[i - a]
    BY <1>1, <2>2, <2>3
  <2> QED BY <2>1, <2>4
<1>6. PICK w \in Seq(S) :
        /\ w = Joined(x, v) /\ Len(w) = a + 1 + b
        /\ \A i \in 1 .. a + 1 + b : w[i] = IF i <= a + 1 THEN x[i] ELSE v[i - (a + 1)]
  <2>1. PICK w \in Seq(S) : w = Joined(x, v)
    BY JoinedIs
  <2>2. /\ Len(w) = Len(x) + Len(v)
        /\ \A i \in 1 .. Len(x) + Len(v) : w[i] = IF i <= Len(x) THEN x[i] ELSE v[i - Len(x)]
    BY <2>1, JoinedIs
  <2>3. Len(x) = a + 1 /\ Len(x) + Len(v) = a + 1 + b
    BY <1>2, <1>5
  <2>4. /\ Len(w) = a + 1 + b
        /\ \A i \in 1 .. a + 1 + b : w[i] = IF i <= a + 1 THEN x[i] ELSE v[i - (a + 1)]
    BY <2>2, <2>3
  <2> QED BY <2>1, <2>4
<1>7. w = LineAnd(u, v)
  BY <1>4, <1>5, <1>6 DEF LineAnd
<1>9. ASSUME NEW i \in 1 .. a PROVE w[i] = u[i]
  <2>1. i \in 1 .. a + 1 + b /\ i \in 1 .. a + 1 /\ i <= a + 1 /\ i <= a
    OBVIOUS
  <2> QED BY <1>5, <1>6, <2>1
<1>10. w[a + 1] = "lf"
  <2>1. /\ a + 1 \in 1 .. a + 1 + b /\ a + 1 \in 1 .. a + 1 /\ a + 1 <= a + 1 /\ ~(a + 1 <= a)
        /\ (a + 1) - a = 1
    OBVIOUS
  <2> QED BY <1>4, <1>5, <1>6, <2>1
<1>11. ASSUME NEW i \in 1 .. b PROVE w[a + 1 + i] = v[i]
  <2>1. a + 1 + i \in 1 .. a + 1 + b /\ ~(a + 1 + i <= a + 1) /\ (a + 1 + i) - (a + 1) = i
    OBVIOUS
  <2> QED BY <1>6, <2>1
<1>12. Laid(w, u, v)
  BY <1>1, <1>2, <1>6, <1>9, <1>10, <1>11 DEF Laid
<1> QED BY <1>6, <1>7, <1>12

(* A line and what follows it can be read back.                             *)
LEMMA LineReadBack ==
    ASSUME NEW S, "lf" \in S, NEW u1 \in Seq(S), NEW u2 \in Seq(S), OneLine(u1), OneLine(u2),
           NEW v1 \in Seq(S), NEW v2 \in Seq(S),
           LineAnd(u1, v1) = LineAnd(u2, v2)
    PROVE  u1 = u2 /\ v1 = v2
<1>0. Laid(LineAnd(u1, v1), u1, v1) /\ Laid(LineAnd(u2, v2), u2, v2)
  BY Line
<1>1. PICK w : Laid(w, u1, v1) /\ Laid(w, u2, v2)
  BY <1>0
<1>2. PICK a \in Nat : a = Len(u1)
  BY LenProperties
<1>3. PICK b \in Nat : b = Len(u2)
  BY LenProperties
<1>4. /\ Len(w) = a + 1 + Len(v1) /\ w[a + 1] = "lf"
      /\ \A i \in 1 .. a : w[i] = u1[i]
      /\ \A i \in 1 .. Len(v1) : w[a + 1 + i] = v1[i]
  BY <1>1, <1>2 DEF Laid
<1>5. /\ Len(w) = b + 1 + Len(v2) /\ w[b + 1] = "lf"
      /\ \A i \in 1 .. b : w[i] = u2[i]
      /\ \A i \in 1 .. Len(v2) : w[b + 1 + i] = v2[i]
  BY <1>1, <1>3 DEF Laid
<1>6. a = b
  <2>1. /\ \A i \in 1 .. a : w[i] # "lf"
        /\ \A i \in 1 .. b : w[i] # "lf"
    BY <1>2, <1>3, <1>4, <1>5 DEF OneLine
  <2>2. /\ 0 + a + 1 = a + 1 /\ 0 + b + 1 = b + 1
        /\ \A i \in 1 .. a : 0 + i = i
        /\ \A i \in 1 .. b : 0 + i = i
    OBVIOUS
  <2> QED BY <1>4, <1>5, <2>1, <2>2, FirstFeed
<1>7. u1 = u2
  BY <1>2, <1>3, <1>4, <1>5, <1>6, SeqEqual
<1>8. Len(v1) = Len(v2)
  BY <1>4, <1>5, <1>6, LenProperties
<1>9. v1 = v2
  BY <1>4, <1>5, <1>6, <1>8, SeqEqual
<1> QED BY <1>7, <1>9

(* What stands before the first line feed is the stream.                    *)
LEMMA StreamReadBack ==
    ASSUME NEW S, "lf" \in S, NEW u1 \in Seq(S), NEW u2 \in Seq(S), OneLine(u1), OneLine(u2),
           NEW v \in Seq(S), NEW w \in Seq(S), Laid(w, u1, v)
    PROVE  IsOfStream(u2, w) <=> u1 = u2
<1>1. PICK a \in Nat : a = Len(u1)
  BY LenProperties
<1>2. PICK b \in Nat : b = Len(u2)
  BY LenProperties
<1>3. PICK l \in Nat : l = Len(v)
  BY LenProperties
<1>4. /\ w \in Seq(S) /\ Len(w) = a + 1 + l /\ w[a + 1] = "lf"
      /\ \A i \in 1 .. a : w[i] = u1[i]
  BY <1>1, <1>3 DEF Laid
<1>5. PICK x : x = u2 \o <<"lf">>
  OBVIOUS
<1>6. /\ x \in Seq(S) /\ Len(x) = b + 1 /\ x[b + 1] = "lf"
      /\ \A i \in 1 .. b : x[i] = u2[i]
  <2>0. <<"lf">> \in Seq(S) /\ Len(<<"lf">>) = 1 /\ <<"lf">>[1] = "lf"
    OBVIOUS
  <2>1. PICK feed \in Seq(S) : feed = <<"lf">> /\ Len(feed) = 1 /\ feed[1] = "lf"
    BY <2>0
  <2>2. /\ x \in Seq(S) /\ Len(x) = b + 1
        /\ \A i \in 1 .. b + 1 : x[i] = IF i <= b THEN u2[i] ELSE feed[i - b]
    BY <1>2, <1>5, <2>1, ConcatProperties
  <2>3. b + 1 \in 1 .. b + 1 /\ ~(b + 1 <= b) /\ (b + 1) - b = 1
    OBVIOUS
  <2>4. \A i \in 1 .. b : i \in 1 .. b + 1 /\ i <= b
    OBVIOUS
  <2> QED BY <2>1, <2>2, <2>3, <2>4
<1>7. IsOfStream(u2, w) <=> b + 1 <= a + 1 + l /\ SubSeq(x, 1, b + 1) = SubSeq(w, 1, b + 1)
  BY <1>4, <1>5, <1>6 DEF IsOfStream, IsPrefix
<1>8. SubSeq(x, 1, b + 1) = x
  BY <1>6, SubSeqFull
<1>9. b + 1 <= a + 1 + l => /\ SubSeq(w, 1, b + 1) \in Seq(S) /\ Len(SubSeq(w, 1, b + 1)) = b + 1
                            /\ \A i \in 1 .. b + 1 : SubSeq(w, 1, b + 1)[i] = w[i]
  <2> SUFFICES ASSUME b + 1 <= a + 1 + l
               PROVE  /\ SubSeq(w, 1, b + 1) \in Seq(S) /\ Len(SubSeq(w, 1, b + 1)) = b + 1
                      /\ \A i \in 1 .. b + 1 : SubSeq(w, 1, b + 1)[i] = w[i]
    OBVIOUS
  <2>1. PICK n \in Nat : n = a + 1 + l /\ n = Len(w)
    BY <1>4
  <2>2. PICK k \in 1 - 1 .. n : k = b + 1
    <3>1. b + 1 \in 1 - 1 .. n
      BY <2>1
    <3> QED BY <3>1
  <2>3. PICK m \in 1 .. n + 1 : m = 1
    <3>1. 1 \in 1 .. n + 1
      OBVIOUS
    <3> QED BY <3>1
  <2>4. PICK r : r = SubSeq(w, m, k)
    OBVIOUS
  <2>5. k \in m - 1 .. n
    BY <2>2, <2>3
  <2>6. /\ r \in Seq(S) /\ Len(r) = k - m + 1
        /\ \A i \in 1 .. k - m + 1 : r[i] = w[m - 1 + i]
    BY <1>4, <2>1, <2>4, <2>5, Part
  <2>7. k - m + 1 = b + 1 /\ \A i \in 1 .. b + 1 : m - 1 + i = i
    BY <2>2, <2>3
  <2> QED BY <2>2, <2>3, <2>4, <2>6, <2>7
<1>10. ASSUME IsOfStream(u2, w) PROVE u1 = u2
  <2>1. \A i \in 1 .. b + 1 : x[i] = w[i]
    BY <1>7, <1>8, <1>9, <1>10
  <2>2. b + 1 \in 1 .. b + 1 /\ \A i \in 1 .. b : i \in 1 .. b + 1
    OBVIOUS
  <2>3. w[b + 1] = "lf" /\ \A i \in 1 .. b : w[i] = u2[i]
    BY <1>6, <2>1, <2>2
  <2>4. a = b
    <3>1. /\ \A i \in 1 .. a : w[i] # "lf"
          /\ \A i \in 1 .. b : w[i] # "lf"
      BY <1>1, <1>2, <1>4, <2>3 DEF OneLine
    <3>2. /\ 0 + a + 1 = a + 1 /\ 0 + b + 1 = b + 1
          /\ \A i \in 1 .. a : 0 + i = i
          /\ \A i \in 1 .. b : 0 + i = i
      OBVIOUS
    <3> QED BY <1>4, <2>3, <3>1, <3>2, FirstFeed
  <2> QED BY <1>1, <1>2, <1>4, <2>3, <2>4, SeqEqual
<1>11. ASSUME u1 = u2 PROVE IsOfStream(u2, w)
  <2>1. a = b /\ b + 1 <= a + 1 + l
    BY <1>1, <1>2, <1>11
  <2>2. ASSUME NEW i \in 1 .. b + 1 PROVE x[i] = w[i]
    <3>1. i \in 1 .. b \/ i = b + 1
      OBVIOUS
    <3> QED BY <1>4, <1>6, <1>11, <2>1, <3>1
  <2>3. PICK r \in Seq(S) : r = SubSeq(w, 1, b + 1) /\ Len(r) = b + 1 /\ \A i \in 1 .. b + 1 : r[i] = w[i]
    BY <1>9, <2>1
  <2>4. x = r
    BY <1>6, <2>2, <2>3, SeqEqual
  <2> QED BY <1>7, <1>8, <2>1, <2>3, <2>4
<1> QED BY <1>10, <1>11

LEMMA JoinedTwice ==
    ASSUME NEW S, NEW u \in Seq(S), NEW v \in Seq(S), NEW w \in Seq(S)
    PROVE  Joined(Joined(u, v), w) = Joined(u, Joined(v, w))
BY ConcatAssociative DEF Joined

(* For any stream-ids, topics and messages of which a stream-id and a topic *)
(* have no line feed, the key says which they are, and what XUNSUB compares *)
(* a key with, which stream it is of (ClientSession.cpp:124, 154).          *)
THEOREM KeysTellApart ==
    ASSUME NEW S, "lf" \in S,
           NEW s1 \in Seq(S), NEW t1 \in Seq(S), NEW n1 \in Seq(S), OneLine(s1), OneLine(t1),
           NEW s2 \in Seq(S), NEW t2 \in Seq(S), NEW n2 \in Seq(S), OneLine(s2), OneLine(t2)
    PROVE  /\ IsOfStream(s2, KeyText(s1, t1, n1)) <=> s1 = s2
           /\ KeyText(s1, t1, n1) = KeyText(s2, t2, n2) => s1 = s2 /\ t1 = t2 /\ n1 = n2
<1>1. ASSUME NEW u \in Seq(S), NEW t \in Seq(S), NEW n \in Seq(S)
      PROVE  KeyText(u, t, n) = LineAnd(u, LineAnd(t, n))
  <2>0. <<"lf">> \in Seq(S)
    OBVIOUS
  <2>1. PICK feed \in Seq(S) : feed = <<"lf">>
    BY <2>0
  <2>2. PICK x \in Seq(S) : x = Joined(u, feed)
    BY JoinedIs
  <2>3. PICK y \in Seq(S) : y = Joined(t, feed)
    BY JoinedIs
  <2>4. KeyText(u, t, n) = Joined(Joined(Joined(x, t), feed), n)
    BY <2>1, <2>2 DEF KeyText, Joined
  <2>5. Joined(Joined(x, t), feed) = Joined(x, y)
    BY <2>3, JoinedTwice
  <2>6. Joined(Joined(x, y), n) = Joined(x, Joined(y, n))
    BY JoinedTwice
  <2>7. LineAnd(u, LineAnd(t, n)) = Joined(x, Joined(y, n))
    BY <2>1, <2>2, <2>3 DEF LineAnd, Feed
  <2> QED BY <2>4, <2>5, <2>6, <2>7
<1>2. PICK v1 \in Seq(S) : v1 = LineAnd(t1, n1)
  BY Line
<1>3. PICK v2 \in Seq(S) : v2 = LineAnd(t2, n2)
  BY Line
<1>4. PICK k1 \in Seq(S) : k1 = LineAnd(s1, v1) /\ Laid(k1, s1, v1)
  BY Line
<1>5. KeyText(s1, t1, n1) = k1
  BY <1>1, <1>2, <1>4
<1>6. KeyText(s2, t2, n2) = LineAnd(s2, v2)
  BY <1>1, <1>3
<1>7. IsOfStream(s2, k1) <=> s1 = s2
  BY <1>4, StreamReadBack
<1>8. ASSUME k1 = LineAnd(s2, v2) PROVE s1 = s2 /\ t1 = t2 /\ n1 = n2
  <2>1. LineAnd(s1, v1) = LineAnd(s2, v2)
    BY <1>4, <1>8
  <2>2. s1 = s2 /\ v1 = v2
    BY <2>1, LineReadBack
  <2>3. LineAnd(t1, n1) = LineAnd(t2, n2)
    BY <1>2, <1>3, <2>2
  <2> QED BY <2>2, <2>3, LineReadBack
<1> QED BY <1>5, <1>6, <1>7, <1>8

(* However a line of XUNSUB is blanked, handleLine and its handler take the *)
(* same stream-id from it, and the keys of that stream are the ones erased  *)
(* (handleXUnsub): FieldsAgree and KeysApart are what LinesCutAlike         *)
(* and KeysTellApart say of the texts a run tries.                          *)
THEOREM StreamsToldApart == Spec => []StreamsApart
<1>1. \A S, n : \A x \in Texts(S, n) : n \in Nat => x \in Seq(S)
  BY DEF Texts
<1>2. FieldsAgree
  <2>1. SUFFICES ASSUME NEW line \in Texts({"a", "sp", "tab", "vt"}, 5)
                 PROVE  CutAlike(line)
    BY DEF FieldsAgree
  <2>2. PICK S : S = {"a", "sp", "tab", "vt"}
    OBVIOUS
  <2>3. line \in Seq(S)
    BY <1>1, <2>2
  <2> QED BY <2>3, LinesCutAlike
<1>3. PICK S : S = {"a", "b", "sp", "lf"}
  OBVIOUS
<1>4. \A x \in Seq({"a", "b"}) : x \in Seq(S)
  BY <1>3, SeqMonotonic
<1>5. ASSUME NEW x \in Texts({"a", "b", "sp", "lf"}, 2), ValidToken(x)
      PROVE  x \in Seq(S) /\ OneLine(x)
  <2>1. x \in Seq(S)
    BY <1>1, <1>3
  <2>2. \A i \in 1 .. Len(x) : x[i] \in TokenChars
    BY <1>5, <2>1 DEF ValidToken
  <2> QED BY <2>1, <2>2 DEF OneLine, TokenChars
<1>6. ASSUME NEW x \in {<<"a">>, <<"a", "b">>}
      PROVE  x \in Seq(S) /\ OneLine(x)
  <2>1. x \in Seq({"a", "b"})
    <3>1. <<"a">> \in Seq({"a", "b"})
      OBVIOUS
    <3>2. <<"a", "b">> \in Seq({"a", "b"})
      OBVIOUS
    <3> QED BY <3>1, <3>2
  <2>2. \A i \in 1 .. Len(x) : x[i] \in {"a", "b"}
    BY <2>1
  <2> QED BY <1>4, <2>1, <2>2 DEF OneLine
<1>7. ASSUME NEW x \in Texts({"a", "b"}, 2) PROVE x \in Seq(S)
  BY <1>1, <1>4
<1>8. KeysApart
  <2> DEFINE Ids == {s \in Texts({"a", "b", "sp", "lf"}, 2) : ValidToken(s)}
             Subjects == {<<"a">>, <<"a", "b">>}
             Name == Texts({"a", "b"}, 2)
             Made == Ids \X Subjects \X Name
             Text(k) == KeyText(k[1], k[2], k[3])
  <2>1. \A s \in Ids : s \in Seq(S) /\ OneLine(s)
    BY <1>5
  <2>2. \A t \in Subjects : t \in Seq(S) /\ OneLine(t)
    BY <1>6
  <2>3. \A n \in Name : n \in Seq(S)
    BY <1>7
  <2>4. \A k \in Made : /\ k = <<k[1], k[2], k[3]>>
                       /\ k[1] \in Ids /\ k[2] \in Subjects /\ k[3] \in Name
    OBVIOUS
  <2>5. \A k \in Made : /\ k = <<k[1], k[2], k[3]>>
                       /\ k[1] \in Ids /\ k[1] \in Seq(S) /\ OneLine(k[1])
                       /\ k[2] \in Seq(S) /\ OneLine(k[2]) /\ k[3] \in Seq(S)
    <3> HIDE DEF Ids, Subjects, Name, Made
    <3> QED BY <2>1, <2>2, <2>3, <2>4
  <2>6. "lf" \in S
    BY <1>3
  <2> HIDE DEF Ids, Subjects, Name, Made
  <2>7. ASSUME NEW k \in Made, NEW s \in Ids PROVE IsOfStream(s, Text(k)) <=> k[1] = s
    <3>1. PICK u, t, n : u = k[1] /\ t = k[2] /\ n = k[3]
      OBVIOUS
    <3>2. /\ u \in Seq(S) /\ OneLine(u) /\ t \in Seq(S) /\ OneLine(t) /\ n \in Seq(S)
          /\ s \in Seq(S) /\ OneLine(s)
      BY <2>1, <2>5, <3>1
    <3>3. IsOfStream(s, KeyText(u, t, n)) <=> u = s
      BY <2>6, <3>2, KeysTellApart
    <3> QED BY <3>1, <3>3
  <2>8. ASSUME NEW k1 \in Made, NEW k2 \in Made, Text(k1) = Text(k2) PROVE k1 = k2
    <3>1. PICK u1, t1, n1 : u1 = k1[1] /\ t1 = k1[2] /\ n1 = k1[3]
      OBVIOUS
    <3>2. PICK u2, t2, n2 : u2 = k2[1] /\ t2 = k2[2] /\ n2 = k2[3]
      OBVIOUS
    <3>3. /\ u1 \in Seq(S) /\ OneLine(u1) /\ t1 \in Seq(S) /\ OneLine(t1) /\ n1 \in Seq(S)
          /\ u2 \in Seq(S) /\ OneLine(u2) /\ t2 \in Seq(S) /\ OneLine(t2) /\ n2 \in Seq(S)
          /\ k1 = <<u1, t1, n1>> /\ k2 = <<u2, t2, n2>>
      BY <2>5, <3>1, <3>2
    <3>4. KeyText(u1, t1, n1) = KeyText(u2, t2, n2)
      BY <2>8, <3>1, <3>2
    <3>5. u1 = u2 /\ t1 = t2 /\ n1 = n2
      BY <2>6, <3>3, <3>4, KeysTellApart
    <3> QED BY <3>3, <3>5
  <2> QED BY <2>7, <2>8 DEF KeysApart, Ids, Subjects, Name, Made
<1>9. StreamsApart
  BY <1>2, <1>8 DEF StreamsApart
<1> QED BY <1>9, PTL
=============================================================================
