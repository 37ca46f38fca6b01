-------------------------- MODULE CalConfig_proofs --------------------------
(***************************************************************************)
(* Proofs about CalConfig, for any labels and documents: the UUIDs made    *)
(* from two labels that differ in one character differ, and configured     *)
(* mode is strict.                                                         *)
(***************************************************************************)
EXTENDS CalConfig, SetInduction, SequenceTheorems

(***************************************************************************)
(* Octets.                                                                 *)
(***************************************************************************)

LEMMA RotateInjective ==
    ASSUME NEW x \in SUBSET Bits, NEW y \in SUBSET Bits, x # y
    PROVE  RotateLeft(x) # RotateLeft(y)
<1>1. ASSUME NEW u \in SUBSET Bits, NEW v \in SUBSET Bits, NEW b \in u \ v
      PROVE  RotateLeft(u) # RotateLeft(v)
  <2>1. (b + 1) % 8 \in RotateLeft(u)
    BY DEF RotateLeft
  <2>2. (b + 1) % 8 \notin RotateLeft(v)
    <3>1. ASSUME NEW w \in v, (w + 1) % 8 = (b + 1) % 8
          PROVE  FALSE
      <4>1. w \in 0..7 /\ b \in 0..7 /\ w # b
        BY <1>1 DEF Bits
      <4> QED BY <3>1, <4>1
    <3> QED BY <3>1 DEF RotateLeft
  <2> QED BY <2>1, <2>2
<1>2. (\E b : b \in x \ y) \/ (\E b : b \in y \ x)
  OBVIOUS
<1> QED BY <1>1, <1>2

LEMMA XorInjective ==
    ASSUME NEW x, NEW y, NEW z, x # y
    PROVE  Xor(x, z) # Xor(y, z) /\ Xor(z, x) # Xor(z, y)
BY DEF Xor

LEMMA OctetTypes ==
    ASSUME NEW x \in SUBSET Bits, NEW y \in SUBSET Bits
    PROVE  /\ Xor(x, y) \in SUBSET Bits
           /\ RotateLeft(x) \in SUBSET Bits
<1>1. \A b \in Bits : (b + 1) % 8 \in Bits
  BY DEF Bits
<1> QED BY <1>1 DEF Xor, RotateLeft

LEMMA OctetIsSetOfBits == \A n : Octet(n) \in SUBSET Bits
BY DEF Octet

LEMMA NamespaceType == getNamespaceUUID \in UUIDs
BY OctetIsSetOfBits DEF getNamespaceUUID, UUIDs

(***************************************************************************)
(* MixedIn.                                                                *)
(***************************************************************************)

(* What one character, the i-th, does to the octets mixed so far.           *)
Mix(u, i, c) == [u EXCEPT ![(i - 1) % 16] = RotateLeft(Xor(@, c))]

LEMMA MixType ==
    ASSUME NEW u \in UUIDs, NEW i \in Nat \ {0}, NEW c \in SUBSET Bits
    PROVE  /\ (i - 1) % 16 \in Positions
           /\ Mix(u, i, c) \in UUIDs
           /\ Mix(u, i, c)[(i - 1) % 16] = RotateLeft(Xor(u[(i - 1) % 16], c))
           /\ \A p \in Positions : p # (i - 1) % 16 => Mix(u, i, c)[p] = u[p]
<1>1. (i - 1) % 16 \in Positions
  BY DEF Positions
<1> DEFINE k == (i - 1) % 16
<1>2. k \in Positions
  BY <1>1
<1>3. u[k] \in SUBSET Bits
  BY <1>2 DEF UUIDs
<1>4. RotateLeft(Xor(u[k], c)) \in SUBSET Bits
  BY <1>3, OctetTypes
<1>5. Mix(u, i, c) = [u EXCEPT ![k] = RotateLeft(Xor(u[k], c))]
  BY DEF Mix
<1> HIDE DEF k
<1>6. /\ Mix(u, i, c) \in UUIDs
      /\ Mix(u, i, c)[k] = RotateLeft(Xor(u[k], c))
      /\ \A p \in Positions : p # k => Mix(u, i, c)[p] = u[p]
  BY <1>2, <1>4, <1>5 DEF UUIDs
<1> QED BY <1>1, <1>6 DEF k

(* The recursive function that defines it exists.                           *)
LEMMA MixedInDef ==
    ASSUME NEW ns \in UUIDs, NEW name \in Seq(SUBSET Bits)
    PROVE  \E f : /\ f = [i \in 0..Len(name) |-> IF i = 0 THEN ns
                                                 ELSE Mix(f[i - 1], i, name[i])]
                  /\ MixedIn(ns, name) = f[Len(name)]
<1> DEFINE Solves(g, n) == g = [i \in 0..n |-> IF i = 0 THEN ns
                                               ELSE Mix(g[i - 1], i, name[i])]
           D == {n \in Nat : \E g : Solves(g, n)}
<1>1. 0 \in D
  <2> DEFINE g == [i \in 0..0 |-> ns]
  <2>1. Solves(g, 0)
    OBVIOUS
  <2> QED BY <2>1
<1>2. ASSUME NEW n \in D PROVE n + 1 \in D
  <2>1. n \in Nat /\ \E g : Solves(g, n)
    BY <1>2
  <2>2. PICK g : Solves(g, n)
    BY <2>1
  <2> DEFINE last == Mix(g[n], n + 1, name[n + 1])
             h == [i \in 0..n+1 |-> IF i = n + 1 THEN last ELSE g[i]]
  <2> HIDE DEF last
  <2>3. ASSUME NEW i \in 0..n+1
        PROVE h[i] = IF i = 0 THEN ns ELSE Mix(h[i - 1], i, name[i])
    <3>1. CASE i = 0
      BY <2>2, <3>1
    <3>2. CASE i = n + 1
      <4>1. h[n + 1] = last
        BY <2>1
      <4>2. h[n] = g[n]
        BY <2>1
      <4>3. (n + 1) - 1 = n /\ n + 1 # 0
        BY <2>1
      <4> HIDE DEF h
      <4> QED BY <3>2, <4>1, <4>2, <4>3 DEF last
    <3>3. CASE i \in 1..n
      <4>1. h[i] = g[i] /\ h[i - 1] = g[i - 1]
        BY <2>1, <3>3
      <4>2. g[i] = Mix(g[i - 1], i, name[i])
        BY <2>2, <3>3
      <4> QED BY <4>1, <4>2, <3>3, <2>1
    <3> QED BY <3>1, <3>2, <3>3
  <2>4. Solves(h, n + 1)
    BY <2>3
  <2> HIDE DEF Solves, h
  <2> QED BY <2>1, <2>4
<1>3. D = Nat
  <2> HIDE DEF D
  <2>1. D \in SUBSET Nat
    BY DEF D
  <2> QED BY <1>1, <1>2, <2>1, NatInd
<1>4. Len(name) \in Nat
  BY LenProperties
<1>5. PICK g : Solves(g, Len(name))
  BY <1>3, <1>4
<1> DEFINE f == CHOOSE h : Solves(h, Len(name))
<1>6. Solves(f, Len(name))
  <2> HIDE DEF Solves
  <2> QED BY <1>5
<1>7. MixedIn(ns, name) = f[Len(name)]
  BY DEF MixedIn, Mix
<1> QED BY <1>6, <1>7

LEMMA MixedInType ==
    ASSUME NEW ns \in UUIDs, NEW name \in Seq(SUBSET Bits)
    PROVE  MixedIn(ns, name) \in UUIDs
<1>1. PICK f : /\ f = [i \in 0..Len(name) |-> IF i = 0 THEN ns
                                              ELSE Mix(f[i - 1], i, name[i])]
               /\ MixedIn(ns, name) = f[Len(name)]
  BY MixedInDef
<1>2. Len(name) \in Nat /\ \A i \in 1..Len(name) : name[i] \in SUBSET Bits
  BY LenProperties, ElementOfSeq
<1> DEFINE D == {n \in Nat : n <= Len(name) => f[n] \in UUIDs}
<1>3. 0 \in D
  BY <1>1, <1>2
<1>4. ASSUME NEW n \in D PROVE n + 1 \in D
  <2>1. n \in Nat /\ (n <= Len(name) => f[n] \in UUIDs)
    BY <1>4
  <2>2. SUFFICES ASSUME n + 1 <= Len(name) PROVE f[n + 1] \in UUIDs
    BY <2>1
  <2>3. /\ n + 1 \in 0..Len(name) /\ n + 1 \in 1..Len(name)
        /\ n + 1 # 0 /\ (n + 1) - 1 = n /\ f[n] \in UUIDs
    BY <1>2, <2>1, <2>2
  <2>4. f[n + 1] = Mix(f[n], n + 1, name[n + 1])
    BY <1>1, <2>3
  <2>5. n + 1 \in Nat \ {0} /\ name[n + 1] \in SUBSET Bits
    BY <1>2, <2>1, <2>3
  <2> QED BY <2>3, <2>4, <2>5, MixType
<1>5. D = Nat
  <2> HIDE DEF D
  <2>1. D \in SUBSET Nat
    BY DEF D
  <2> QED BY <1>3, <1>4, <2>1, NatInd
<1>6. Len(name) \in D
  BY <1>2, <1>5
<1> QED BY <1>1, <1>2, <1>6

(* Before the character in which two names differ, the octets mixed from    *)
(* them are equal; from it on they differ at the octet it was folded into:  *)
(* later characters there are equal, and neither loses a bit.               *)
LEMMA MixedInApart ==
    ASSUME NEW ns \in UUIDs,
           NEW x \in Seq(SUBSET Bits), NEW y \in Seq(SUBSET Bits), Len(x) = Len(y),
           NEW at \in 1..Len(x), x[at] # y[at],
           \A j \in 1..Len(x) : j # at => x[j] = y[j]
    PROVE  MixedIn(ns, x)[(at - 1) % 16] # MixedIn(ns, y)[(at - 1) % 16]
<1>1. PICK f : /\ f = [i \in 0..Len(x) |-> IF i = 0 THEN ns ELSE Mix(f[i - 1], i, x[i])]
               /\ MixedIn(ns, x) = f[Len(x)]
  BY MixedInDef
<1>2. PICK g : /\ g = [i \in 0..Len(y) |-> IF i = 0 THEN ns ELSE Mix(g[i - 1], i, y[i])]
               /\ MixedIn(ns, y) = g[Len(y)]
  BY MixedInDef
<1>3. /\ Len(x) \in Nat
      /\ \A i \in 1..Len(x) : x[i] \in SUBSET Bits /\ y[i] \in SUBSET Bits
  BY LenProperties, ElementOfSeq
<1>4. at \in Nat \ {0} /\ at <= Len(x)
  BY <1>3
<1> DEFINE q == (at - 1) % 16
           Apart(n) == /\ f[n] \in UUIDs /\ g[n] \in UUIDs
                       /\ n < at => f[n] = g[n]
                       /\ n >= at => f[n][q] # g[n][q]
           D == {n \in Nat : n <= Len(x) => Apart(n)}
<1>5. q \in Positions
  BY <1>3, <1>4, MixType
<1> HIDE DEF q
<1>6. 0 \in D
  <2>1. f[0] = ns /\ g[0] = ns
    BY <1>1, <1>2, <1>3
  <2>2. Apart(0)
    BY <1>4, <2>1
  <2> QED BY <2>2
<1>7. ASSUME NEW n \in D PROVE n + 1 \in D
  <2>1. n \in Nat /\ (n <= Len(x) => Apart(n))
    BY <1>7
  <2>2. SUFFICES ASSUME n + 1 <= Len(x) PROVE Apart(n + 1)
    <3> HIDE DEF Apart
    <3> QED BY <2>1
  <2> DEFINE k == ((n + 1) - 1) % 16
  <2>3. /\ n + 1 \in 0..Len(x) /\ n + 1 \in 1..Len(x)
        /\ n + 1 # 0 /\ (n + 1) - 1 = n /\ n + 1 \in Nat \ {0} /\ n <= Len(x)
    BY <1>3, <2>1, <2>2
  <2>4. Apart(n)
    BY <2>1, <2>3
  <2>5. /\ f[n + 1] = Mix(f[n], n + 1, x[n + 1])
        /\ g[n + 1] = Mix(g[n], n + 1, y[n + 1])
    BY <1>1, <1>2, <2>3
  <2>6. x[n + 1] \in SUBSET Bits /\ y[n + 1] \in SUBSET Bits
    BY <1>3, <2>3
  <2>7. /\ k \in Positions
        /\ f[n + 1] \in UUIDs /\ g[n + 1] \in UUIDs
        /\ f[n + 1][k] = RotateLeft(Xor(f[n][k], x[n + 1]))
        /\ g[n + 1][k] = RotateLeft(Xor(g[n][k], y[n + 1]))
        /\ \A p \in Positions : p # k => f[n + 1][p] = f[n][p] /\ g[n + 1][p] = g[n][p]
    <3> DEFINE m == n + 1
    <3>1. m \in Nat \ {0} /\ f[n] \in UUIDs /\ g[n] \in UUIDs
      BY <2>3, <2>4
    <3>2. x[m] \in SUBSET Bits /\ y[m] \in SUBSET Bits
      BY <2>6
    <3> HIDE DEF m
    <3>3. /\ (m - 1) % 16 \in Positions /\ Mix(f[n], m, x[m]) \in UUIDs
          /\ Mix(f[n], m, x[m])[(m - 1) % 16] = RotateLeft(Xor(f[n][(m - 1) % 16], x[m]))
          /\ \A p \in Positions : p # (m - 1) % 16 => Mix(f[n], m, x[m])[p] = f[n][p]
      BY <3>1, <3>2, MixType
    <3>4. /\ Mix(g[n], m, y[m]) \in UUIDs
          /\ Mix(g[n], m, y[m])[(m - 1) % 16] = RotateLeft(Xor(g[n][(m - 1) % 16], y[m]))
          /\ \A p \in Positions : p # (m - 1) % 16 => Mix(g[n], m, y[m])[p] = g[n][p]
      BY <3>1, <3>2, MixType
    <3> QED BY <2>5, <3>3, <3>4 DEF m
  <2>8. f[n][k] \in SUBSET Bits /\ g[n][k] \in SUBSET Bits
    BY <2>4, <2>7 DEF UUIDs
  <2>9. /\ Xor(f[n][k], x[n + 1]) \in SUBSET Bits
        /\ Xor(g[n][k], y[n + 1]) \in SUBSET Bits
    BY <2>6, <2>8, OctetTypes
  <2> HIDE DEF k
  <2>10. CASE n + 1 < at
    <3>1. n < at /\ n + 1 # at /\ ~(n + 1 >= at)
      BY <2>1, <2>10, <1>4
    <3>2. x[n + 1] = y[n + 1] /\ f[n] = g[n]
      BY <2>3, <2>4, <3>1
    <3>3. f[n + 1] = g[n + 1]
      BY <2>5, <3>2
    <3> QED BY <2>7, <3>1, <3>3
  <2>11. CASE n + 1 = at
    <3>1. n < at /\ ~(n + 1 < at) /\ k = q
      BY <2>1, <2>11, <1>4 DEF k, q
    <3>2. x[n + 1] # y[n + 1] /\ f[n] = g[n]
      BY <2>4, <2>11, <3>1
    <3>3. Xor(f[n][k], x[n + 1]) # Xor(g[n][k], y[n + 1])
      BY <3>2, XorInjective
    <3>4. f[n + 1][q] # g[n + 1][q]
      BY <2>7, <2>9, <3>1, <3>3, RotateInjective
    <3> QED BY <2>7, <3>1, <3>4
  <2>12. CASE n + 1 > at
    <3>1. n >= at /\ n + 1 # at /\ ~(n + 1 < at)
      BY <2>1, <2>12, <1>4
    <3>2. x[n + 1] = y[n + 1] /\ f[n][q] # g[n][q]
      BY <2>3, <2>4, <3>1
    <3>3. CASE q = k
      <4>1. Xor(f[n][k], x[n + 1]) # Xor(g[n][k], y[n + 1])
        BY <3>2, <3>3, XorInjective
      <4>2. f[n + 1][q] # g[n + 1][q]
        BY <2>7, <2>9, <3>3, <4>1, RotateInjective
      <4> QED BY <2>7, <3>1, <4>2
    <3>4. CASE q # k
      <4>1. f[n + 1][q] # g[n + 1][q]
        BY <1>5, <2>7, <3>2, <3>4
      <4> QED BY <2>7, <3>1, <4>1
    <3> QED BY <3>3, <3>4
  <2> QED BY <2>1, <1>4, <2>10, <2>11, <2>12
<1>8. D = Nat
  <2> HIDE DEF D
  <2>1. D \in SUBSET Nat
    BY DEF D
  <2> QED BY <1>6, <1>7, <2>1, NatInd
<1>9. Len(x) \in D
  BY <1>3, <1>8
<1>10. f[Len(x)][q] # g[Len(x)][q]
  BY <1>3, <1>4, <1>9
<1> QED BY <1>1, <1>2, <1>10 DEF q

(***************************************************************************)
(* UUIDs made from names.                                                  *)
(***************************************************************************)

(* Stamping overwrites bits of octets 6 and 8 only.                         *)
LEMMA VersionApart ==
    ASSUME NEW x \in Seq(SUBSET Bits), NEW y \in Seq(SUBSET Bits), OneCharacterApart(x, y),
           NEW ns \in UUIDs
    PROVE  createVersion3UUID(ns, x) # createVersion3UUID(ns, y)
<1>1. Len(x) = Len(y) /\ Len(x) \in Nat /\ DOMAIN x = 1..Len(x)
  BY LenProperties DEF OneCharacterApart
<1>2. PICK at \in DOMAIN x : /\ x[at] # y[at]
                             /\ (at - 1) % 16 \notin {6, 8}
                             /\ \A j \in DOMAIN x \ {at} : x[j] = y[j]
  BY DEF OneCharacterApart
<1> DEFINE q == (at - 1) % 16
<1>3. q \in Positions
  BY <1>1, MixType DEF Positions
<1>4. MixedIn(ns, x)[q] # MixedIn(ns, y)[q]
  <2>1. at \in 1..Len(x) /\ \A j \in 1..Len(x) : j # at => x[j] = y[j]
    BY <1>1, <1>2
  <2>2. Len(x) = Len(y) /\ x[at] # y[at]
    BY <1>1, <1>2
  <2> QED BY <2>1, <2>2, MixedInApart
<1> HIDE DEF q
<1>5. q # 6 /\ q # 8
  BY <1>2 DEF q
<1>6. ASSUME NEW u PROVE Stamp(u)[q] = u[q]
  BY <1>3, <1>5 DEF Stamp
<1> QED BY <1>4, <1>6 DEF createVersion3UUID

(***************************************************************************)
(* Every connection has the identity that the environment gives its label. *)
(***************************************************************************)

Resolved ==
    \A h \in Handles : conns[h] # Closed =>
        \E label \in Labels : /\ resolveCalIdentity(env, label).ok
                              /\ conns[h] = resolveCalIdentity(env, label).identity

OnlyFailures == \A label \in refused : ~resolveCalIdentity(env, label).ok

ConnsAreHandles == conns = [h \in Handles |-> conns[h]]

IInv == env \in Environments /\ ConnsAreHandles /\ Resolved /\ OnlyFailures

(* A connection keeps, while other connections come and go, the identity    *)
(* resolveCalIdentity gave its label, and none is made where that throws    *)
(* (CalConfig.cpp, resolveCalIdentity).                                     *)
THEOREM Resolution == Spec => []IInv
<1>1. Init => IInv
  BY DEF Init, IInv, ConnsAreHandles, Resolved, OnlyFailures
<1>2. ASSUME IInv, [Next]_vars PROVE IInv'
  <2> USE DEF IInv
  <2>1. ASSUME NEW h \in Handles, NEW label \in Labels, Get(h, label)
        PROVE  IInv'
    <3> DEFINE resolved == resolveCalIdentity(env, label)
    <3>1. env' = env
      BY <2>1 DEF Get
    <3>2. CASE ~resolved.ok
      <4>1. conns' = conns /\ refused' = refused \cup {label}
        BY <2>1, <3>2 DEF Get
      <4> QED BY <1>2, <3>1, <3>2, <4>1 DEF ConnsAreHandles, Resolved, OnlyFailures
    <3>3. CASE resolved.ok
      <4>1. conns' = [conns EXCEPT ![h] = resolved.identity] /\ refused' = refused
        BY <2>1, <3>3 DEF Get
      <4> HIDE DEF resolved
      <4>2. ConnsAreHandles'
        BY <1>2, <4>1 DEF ConnsAreHandles
      <4>3. ASSUME NEW g \in Handles
            PROVE  conns'[g] = IF g = h THEN resolved.identity ELSE conns[g]
        BY <1>2, <4>1 DEF ConnsAreHandles
      <4>4. Resolved'
        BY <1>2, <3>1, <3>3, <4>3 DEF Resolved, resolved
      <4>5. OnlyFailures'
        BY <1>2, <3>1, <4>1 DEF OnlyFailures
      <4> QED BY <1>2, <3>1, <4>2, <4>4, <4>5
    <3> QED BY <3>2, <3>3
  <2>2. ASSUME NEW h \in Handles, Destroy(h)
        PROVE  IInv'
    <3>1. env' = env /\ refused' = refused /\ conns' = [conns EXCEPT ![h] = Closed]
      BY <2>2 DEF Destroy
    <3>2. ConnsAreHandles'
      BY <1>2, <3>1 DEF ConnsAreHandles
    <3>3. ASSUME NEW g \in Handles
          PROVE  conns'[g] = IF g = h THEN Closed ELSE conns[g]
      BY <1>2, <3>1 DEF ConnsAreHandles
    <3>4. Resolved'
      BY <1>2, <3>1, <3>3 DEF Resolved
    <3>5. OnlyFailures'
      BY <1>2, <3>1 DEF OnlyFailures
    <3> QED BY <1>2, <3>1, <3>2, <3>4, <3>5
  <2>3. CASE UNCHANGED vars
    BY <1>2, <2>3 DEF vars, ConnsAreHandles, Resolved, OnlyFailures
  <2> QED BY <1>2, <2>1, <2>2, <2>3 DEF Next
<1> QED BY <1>1, <1>2, PTL DEF Spec

(* Without a configuration a service's UUID is made from its label.         *)
LEMMA FallbackService ==
    ASSUME NEW e, NEW label, resolveCalIdentity(e, label).ok,
           ~resolveCalIdentity(e, label).identity.configured
    PROVE  e.path = "NONE"
<1> SUFFICES ASSUME e.path # "NONE" PROVE FALSE
  OBVIOUS
<1>1. ~Refused.ok
  BY DEF Refused
<1>2. PICK system : resolveCalIdentity(e, label) = Configured(system, label)
  BY <1>1 DEF resolveCalIdentity
<1>3. Configured(system, label).ok
  BY <1>2
<1>4. Configured(system, label).identity.configured = TRUE
  BY <1>1, <1>3 DEF Configured, Given
<1> QED BY <1>2, <1>4

(* CalConfig.cpp makes a service's UUID from its label when ARCAL_CONFIG is *)
(* NONE, and UUID.cpp folds the label into the name space's octets: two     *)
(* connections whose labels differ in one character that keeps its bits     *)
(* never share a service UUID.                                              *)
THEOREM LabelsTellApart == Spec => []NamesTellApart
<1>1. ASSUME IInv PROVE NamesTellApart
  <2> SUFFICES ASSUME NEW g \in Handles, NEW h \in Handles,
                      conns[g] # Closed, conns[h] # Closed, ~conns[g].configured,
                      OneCharacterApart(conns[g].label, conns[h].label)
               PROVE  conns[g].service # conns[h].service
    BY DEF NamesTellApart
  <2>1. PICK x \in Labels : /\ resolveCalIdentity(env, x).ok
                            /\ conns[g] = resolveCalIdentity(env, x).identity
    BY <1>1 DEF IInv, Resolved
  <2>2. PICK y \in Labels : conns[h] = resolveCalIdentity(env, y).identity
    BY <1>1 DEF IInv, Resolved
  <2>3. env.path = "NONE"
    BY <2>1, FallbackService
  <2>4. conns[g] = makeFallbackIdentity(x) /\ conns[h] = makeFallbackIdentity(y)
    BY <2>1, <2>2, <2>3 DEF resolveCalIdentity, Given
  <2>5. /\ conns[g].label = x /\ conns[g].service = createVersion3UUID(getNamespaceUUID, x)
        /\ conns[h].label = y /\ conns[h].service = createVersion3UUID(getNamespaceUUID, y)
    BY <2>4 DEF makeFallbackIdentity
  <2>6. x \in Seq(SUBSET Bits) /\ y \in Seq(SUBSET Bits)
    BY LabelAssumption
  <2> QED BY <2>5, <2>6, VersionApart, NamespaceType
<1> QED BY <1>1, Resolution, PTL

(***************************************************************************)
(* Reading the arrays of a document.                                       *)
(***************************************************************************)

(* What is found, while nothing was thrown, is a map.                       *)
IsMap(known) ==
    /\ known = [ok |-> TRUE, found |-> known.found]
    /\ known.found = [x \in DOMAIN known.found |-> known.found[x]]

IsArray(a) == a = NotArray \/ a \in Seq(ToSet(a))

LEMMA EnterWorks ==
    ASSUME NEW known, IsMap(known), NEW item, NEW owner, NEW new, new = Enter(known, item, owner)
    PROVE  /\ new.ok <=> item # Malformed /\ item.name \notin DOMAIN known.found
           /\ new.ok => /\ IsMap(new)
                        /\ DOMAIN new.found = DOMAIN known.found \cup {item.name}
                        /\ \A x \in DOMAIN known.found : new.found[x] = known.found[x]
                        /\ new.found[item.name] = Value(item, owner)
<1>1. known.ok
  BY DEF IsMap
<1>2. CASE item = Malformed \/ item.name \in DOMAIN known.found
  <2>1. new = Thrown
    BY <1>2 DEF Enter, Repeated
  <2>2. Thrown.ok = FALSE
    BY DEF Thrown
  <2> QED BY <1>2, <2>1, <2>2
<1>3. CASE item # Malformed /\ item.name \notin DOMAIN known.found
  <2>1. PICK map : map = [n \in DOMAIN known.found \cup {item.name} |->
                            IF n = item.name THEN Value(item, owner) ELSE known.found[n]]
    OBVIOUS
  <2>3. new = [ok |-> TRUE, found |-> map]
    BY <1>1, <1>3, <2>1 DEF Enter, Repeated
  <2>5. new.found = map /\ new.ok = TRUE
    BY <2>3
  <2>6. IsMap(new)
    BY <2>3, <2>1, <2>5 DEF IsMap
  <2> QED BY <1>3, <2>1, <2>5, <2>6
<1> QED BY <1>2, <1>3

(* The recursive function of Parse exists.                                  *)
ParseRun(f, entries, known, owner, n) ==
    f = [i \in 0 .. n |-> IF i = 0 THEN known ELSE Enter(f[i - 1], entries[i], owner)]

LEMMA ParseDef ==
    ASSUME NEW entries, NEW known, NEW owner, NEW n \in Nat
    PROVE  \E f : ParseRun(f, entries, known, owner, n)
<1> DEFINE Step(v, i) == Enter(v, entries[i], owner)
           Solves(g, k) == g = [i \in 0 .. k |-> IF i = 0 THEN known ELSE Step(g[i - 1], i)]
           D == {k \in Nat : \E g : Solves(g, k)}
<1>1. 0 \in D
  <2> DEFINE g == [i \in 0 .. 0 |-> known]
  <2> HIDE DEF Step
  <2>1. Solves(g, 0)
    OBVIOUS
  <2> QED BY <2>1
<1>2. ASSUME NEW k \in D PROVE k + 1 \in D
  <2>1. k \in Nat /\ \E g : Solves(g, k)
    BY <1>2
  <2>2. PICK g : Solves(g, k)
    BY <2>1
  <2> DEFINE h == [i \in 0 .. k + 1 |-> IF i = k + 1 THEN Step(g[k], k + 1) ELSE g[i]]
  <2> HIDE DEF Step
  <2>3. ASSUME NEW i \in 0 .. k + 1
        PROVE h[i] = IF i = 0 THEN known ELSE Step(h[i - 1], i)
    <3>1. CASE i = 0
      BY <2>2, <3>1
    <3>2. CASE i = k + 1
      <4>1. h[k + 1] = Step(g[k], k + 1) /\ h[k] = g[k]
        BY <2>1
      <4>2. (k + 1) - 1 = k /\ k + 1 # 0
        BY <2>1
      <4> HIDE DEF h
      <4> QED BY <3>2, <4>1, <4>2
    <3>3. CASE i \in 1 .. k
      <4>1. h[i] = g[i] /\ h[i - 1] = g[i - 1]
        BY <2>1, <3>3
      <4>2. g[i] = Step(g[i - 1], i)
        BY <2>2, <3>3
      <4> QED BY <4>1, <4>2, <3>3, <2>1
    <3> QED BY <3>1, <3>2, <3>3
  <2>4. Solves(h, k + 1)
    BY <2>3
  <2> HIDE DEF Solves, h
  <2> QED BY <2>1, <2>4
<1>3. D = Nat
  <2> HIDE DEF D
  <2>1. D \in SUBSET Nat
    BY DEF D
  <2> QED BY <1>1, <1>2, <2>1, NatInd
<1>4. PICK g : Solves(g, n)
  BY <1>3
<1> QED BY <1>4 DEF ParseRun

(* The first n entries are good, and added to what was known.               *)
EntriesOK(entries, known, n) ==
    /\ \A i \in 1 .. n : entries[i] # Malformed /\ entries[i].name \notin DOMAIN known.found
    /\ \A i, j \in 1 .. n : entries[i].name = entries[j].name => i = j
Added(entries, known, owner, n, new) ==
    /\ IsMap(new)
    /\ DOMAIN new.found = DOMAIN known.found \cup {entries[i].name : i \in 1 .. n}
    /\ \A x \in DOMAIN known.found : new.found[x] = known.found[x]
    /\ \A i \in 1 .. n : new.found[entries[i].name] = Value(entries[i], owner)

LEMMA ParseStep ==
    ASSUME NEW entries, NEW known, NEW owner, NEW n \in Nat, NEW old, NEW new,
           new = Enter(old, entries[n + 1], owner),
           old.ok <=> EntriesOK(entries, known, n),
           old.ok => Added(entries, known, owner, n, old)
    PROVE  /\ new.ok <=> EntriesOK(entries, known, n + 1)
           /\ new.ok => Added(entries, known, owner, n + 1, new)
<1>1. PICK item : item = entries[n + 1]
  OBVIOUS
<1>2. \A i : i \in 1 .. n + 1 <=> i \in 1 .. n \/ i = n + 1
  OBVIOUS
<1>3. n + 1 \notin 1 .. n
  OBVIOUS
<1>4. CASE ~old.ok
  <2>1. new = Thrown
    BY <1>4 DEF Enter
  <2>2. Thrown.ok = FALSE
    BY DEF Thrown
  <2>3. ~EntriesOK(entries, known, n + 1)
    BY <1>2, <1>4 DEF EntriesOK
  <2> QED BY <2>1, <2>2, <2>3
<1>5. CASE old.ok
  <2>1. /\ EntriesOK(entries, known, n) /\ IsMap(old)
        /\ DOMAIN old.found = DOMAIN known.found \cup {entries[i].name : i \in 1 .. n}
        /\ \A x \in DOMAIN known.found : old.found[x] = known.found[x]
        /\ \A i \in 1 .. n : old.found[entries[i].name] = Value(entries[i], owner)
    BY <1>5 DEF Added
  <2>2. /\ new.ok <=> item # Malformed /\ item.name \notin DOMAIN old.found
        /\ new.ok => /\ IsMap(new)
                     /\ DOMAIN new.found = DOMAIN old.found \cup {item.name}
                     /\ \A x \in DOMAIN old.found : new.found[x] = old.found[x]
                     /\ new.found[item.name] = Value(item, owner)
    BY <1>1, <2>1, EnterWorks
  <2>3. new.ok <=> EntriesOK(entries, known, n + 1)
    <3>1. ASSUME new.ok PROVE EntriesOK(entries, known, n + 1)
      <4>1. /\ item # Malformed /\ item.name \notin DOMAIN known.found
            /\ \A i \in 1 .. n : item.name # entries[i].name
        BY <2>1, <2>2, <3>1
      <4> QED BY <1>1, <1>2, <2>1, <4>1 DEF EntriesOK
    <3>2. ASSUME EntriesOK(entries, known, n + 1) PROVE new.ok
      <4>1. item # Malformed /\ item.name \notin DOMAIN known.found
        BY <1>1, <1>2, <3>2 DEF EntriesOK
      <4>2. \A i \in 1 .. n : item.name # entries[i].name
        BY <1>1, <1>2, <1>3, <3>2 DEF EntriesOK
      <4> QED BY <2>1, <2>2, <4>1, <4>2
    <3> QED BY <3>1, <3>2
  <2>4. ASSUME new.ok PROVE Added(entries, known, owner, n + 1, new)
    <3>1. /\ IsMap(new) /\ DOMAIN new.found = DOMAIN old.found \cup {item.name}
          /\ \A x \in DOMAIN old.found : new.found[x] = old.found[x]
          /\ new.found[item.name] = Value(item, owner)
      BY <2>2, <2>4
    <3>2. {entries[i].name : i \in 1 .. n + 1} = {entries[i].name : i \in 1 .. n} \cup {item.name}
      BY <1>1, <1>2
    <3>3. DOMAIN new.found = DOMAIN known.found \cup {entries[i].name : i \in 1 .. n + 1}
      BY <2>1, <3>1, <3>2
    <3>4. \A x \in DOMAIN known.found : new.found[x] = known.found[x]
      BY <2>1, <3>1
    <3>5. \A i \in 1 .. n : entries[i].name \in DOMAIN old.found
      BY <2>1
    <3>6. \A i \in 1 .. n : new.found[entries[i].name] = Value(entries[i], owner)
      BY <2>1, <3>1, <3>5
    <3>7. \A i \in 1 .. n + 1 : new.found[entries[i].name] = Value(entries[i], owner)
      BY <1>1, <1>2, <3>1, <3>6
    <3> QED BY <3>1, <3>3, <3>4, <3>7 DEF Added
  <2> QED BY <2>3, <2>4
<1> QED BY <1>4, <1>5

(* Parse throws unless every entry is well formed and of a new name.        *)
LEMMA ParseWorks ==
    ASSUME NEW entries, IsArray(entries), NEW known, IsMap(known), NEW owner,
           NEW new, new = Parse(entries, known, owner)
    PROVE  /\ new.ok <=> entries # NotArray /\ EntriesOK(entries, known, Len(entries))
           /\ new.ok => /\ Added(entries, known, owner, Len(entries), new)
                        /\ Len(entries) \in Nat /\ DOMAIN entries = 1 .. Len(entries)
<1>1. known.ok
  BY DEF IsMap
<1>2. CASE entries = NotArray
  <2>1. new = Thrown
    BY <1>2 DEF Parse
  <2>2. Thrown.ok = FALSE
    BY DEF Thrown
  <2> QED BY <1>2, <2>1, <2>2
<1>3. CASE entries # NotArray
  <2>1. entries \in Seq(ToSet(entries))
    BY <1>3 DEF IsArray
  <2>2. PICK n \in Nat : n = Len(entries) /\ DOMAIN entries = 1 .. n
    BY <2>1, LenProperties
  <2> DEFINE f == CHOOSE f : ParseRun(f, entries, known, owner, n)
  <2>3. ParseRun(f, entries, known, owner, n)
    BY <2>2, ParseDef
  <2>4. new = f[n]
    BY <1>1, <1>3, <2>2 DEF Parse, ParseRun
  <2> HIDE DEF f
  <2> DEFINE Fine(k) == /\ f[k].ok <=> EntriesOK(entries, known, k)
                        /\ f[k].ok => Added(entries, known, owner, k, f[k])
             D == {k \in Nat : k <= n => Fine(k)}
  <2>5. 0 \in D
    <3>1. f[0] = known
      BY <2>3 DEF ParseRun
    <3>2. 1 .. 0 = {}
      OBVIOUS
    <3>3. EntriesOK(entries, known, 0)
      BY <3>2 DEF EntriesOK
    <3>4. Added(entries, known, owner, 0, known)
      BY <3>2 DEF Added
    <3> QED BY <1>1, <3>1, <3>3, <3>4
  <2>6. ASSUME NEW k \in D PROVE k + 1 \in D
    <3>1. k \in Nat /\ (k <= n => Fine(k))
      BY <2>6
    <3>2. SUFFICES ASSUME k + 1 <= n PROVE Fine(k + 1)
      BY <3>1
    <3>3. k <= n /\ k + 1 \in 0 .. n /\ k + 1 # 0 /\ (k + 1) - 1 = k
      BY <3>1, <3>2
    <3>4. f[k + 1] = Enter(f[k], entries[k + 1], owner)
      BY <2>3, <3>3 DEF ParseRun
    <3> QED BY <3>1, <3>3, <3>4, ParseStep
  <2>7. D = Nat
    <3> HIDE DEF D
    <3>1. D \in SUBSET Nat
      BY DEF D
    <3> QED BY <2>5, <2>6, <3>1, NatInd
  <2>8. Fine(n)
    <3>1. n \in D
      BY <2>7
    <3> QED BY <3>1
  <2> QED BY <1>3, <2>2, <2>4, <2>8
<1> QED BY <1>2, <1>3

(***************************************************************************)
(* The arrays of a kind, that of the system (0) and those of its           *)
(* subsystems, are read one after the other.                               *)
(***************************************************************************)

(* The first n arrays have good entries only, no two of a name.             *)
ArraysOK(arrays, n) ==
    /\ \A j \in 0 .. n - 1 : /\ arrays[j] # NotArray
                             /\ \A i \in DOMAIN arrays[j] : arrays[j][i] # Malformed
    /\ \A j, k \in 0 .. n - 1 : \A i \in DOMAIN arrays[j], l \in DOMAIN arrays[k] :
         arrays[j][i].name = arrays[k][l].name => j = k /\ i = l

(* Their entries are what is known.                                         *)
Holds(arrays, owners, n, known) ==
    /\ IsMap(known)
    /\ \A x : x \in DOMAIN known.found
                <=> \E j \in 0 .. n - 1 : \E i \in DOMAIN arrays[j] : x = arrays[j][i].name
    /\ \A j \in 0 .. n - 1 : \A i \in DOMAIN arrays[j] :
         known.found[arrays[j][i].name] = Value(arrays[j][i], owners[j])

LEMMA NoArraysYet ==
    ASSUME NEW arrays, NEW owners
    PROVE  ArraysOK(arrays, 0) /\ Holds(arrays, owners, 0, NoneFound)
<1>1. 0 .. 0 - 1 = {}
  OBVIOUS
<1>2. NoneFound = [ok |-> TRUE, found |-> NoneFound.found] /\ NoneFound.found = <<>>
  BY DEF NoneFound
<1>3. DOMAIN NoneFound.found = {} /\ NoneFound.found = [x \in {} |-> NoneFound.found[x]]
  BY <1>2
<1> QED BY <1>1, <1>2, <1>3 DEF ArraysOK, Holds, IsMap

LEMMA NextArray ==
    ASSUME NEW arrays, NEW owners, NEW n \in Nat, IsArray(arrays[n]),
           NEW old, ArraysOK(arrays, n), Holds(arrays, owners, n, old),
           NEW new, new = Parse(arrays[n], old, owners[n])
    PROVE  /\ new.ok <=> ArraysOK(arrays, n + 1)
           /\ new.ok => Holds(arrays, owners, n + 1, new)
<1>1. PICK a : a = arrays[n]
  OBVIOUS
<1>2. \A j : j \in 0 .. (n + 1) - 1 <=> j \in 0 .. n - 1 \/ j = n
  OBVIOUS
<1>3. n \notin 0 .. n - 1
  OBVIOUS
<1>4. IsMap(old)
  BY DEF Holds
<1>5. /\ new.ok <=> a # NotArray /\ EntriesOK(a, old, Len(a))
      /\ new.ok => /\ Added(a, old, owners[n], Len(a), new)
                   /\ Len(a) \in Nat /\ DOMAIN a = 1 .. Len(a)
  BY <1>1, <1>4, ParseWorks
<1>6. ASSUME new.ok PROVE ArraysOK(arrays, n + 1)
  <2>1. a # NotArray /\ EntriesOK(a, old, Len(a)) /\ DOMAIN a = 1 .. Len(a)
    BY <1>5, <1>6
  <2>2. /\ \A i \in DOMAIN a : a[i] # Malformed /\ a[i].name \notin DOMAIN old.found
        /\ \A i, j \in DOMAIN a : a[i].name = a[j].name => i = j
    BY <2>1 DEF EntriesOK
  <2>3. \A j \in 0 .. n - 1 : \A i \in DOMAIN arrays[j], l \in DOMAIN a :
          arrays[j][i].name # a[l].name
    BY <2>2 DEF Holds
  <2>4. \A j \in 0 .. (n + 1) - 1 : /\ arrays[j] # NotArray
                                    /\ \A i \in DOMAIN arrays[j] : arrays[j][i] # Malformed
    BY <1>1, <1>2, <2>1, <2>2 DEF ArraysOK
  <2>5. ASSUME NEW j \in 0 .. (n + 1) - 1, NEW k \in 0 .. (n + 1) - 1,
               NEW i \in DOMAIN arrays[j], NEW l \in DOMAIN arrays[k],
               arrays[j][i].name = arrays[k][l].name
        PROVE  j = k /\ i = l
    <3>1. CASE j # n /\ k # n
      BY <1>2, <2>5, <3>1 DEF ArraysOK
    <3>2. CASE j = n /\ k # n
      BY <1>1, <1>2, <2>3, <2>5, <3>2
    <3>3. CASE j # n /\ k = n
      BY <1>1, <1>2, <2>3, <2>5, <3>3
    <3>4. CASE j = n /\ k = n
      BY <1>1, <2>2, <2>5, <3>4
    <3> QED BY <3>1, <3>2, <3>3, <3>4
  <2> QED BY <2>4, <2>5 DEF ArraysOK
<1>7. ASSUME ArraysOK(arrays, n + 1) PROVE new.ok
  <2>1. n \in 0 .. (n + 1) - 1
    OBVIOUS
  <2>2. a # NotArray /\ \A i \in DOMAIN a : a[i] # Malformed
    BY <1>1, <1>7, <2>1 DEF ArraysOK
  <2>3. \A i, l \in DOMAIN a : a[i].name = a[l].name => i = l
    BY <1>1, <1>7, <2>1 DEF ArraysOK
  <2>4. \A j \in 0 .. n - 1 : \A i \in DOMAIN arrays[j], l \in DOMAIN a :
          arrays[j][i].name # a[l].name
    BY <1>1, <1>2, <1>3, <1>7, <2>1 DEF ArraysOK
  <2>5. \A l \in DOMAIN a : a[l].name \notin DOMAIN old.found
    BY <2>4 DEF Holds
  <2>6. DOMAIN a = 1 .. Len(a)
    BY <1>1, <2>2, LenProperties DEF IsArray
  <2>7. EntriesOK(a, old, Len(a))
    BY <2>2, <2>3, <2>5, <2>6 DEF EntriesOK
  <2> QED BY <1>5, <2>2, <2>7
<1>8. ASSUME new.ok PROVE Holds(arrays, owners, n + 1, new)
  <2>1. /\ IsMap(new) /\ DOMAIN a = 1 .. Len(a)
        /\ DOMAIN new.found = DOMAIN old.found \cup {a[i].name : i \in DOMAIN a}
        /\ \A x \in DOMAIN old.found : new.found[x] = old.found[x]
        /\ \A i \in DOMAIN a : new.found[a[i].name] = Value(a[i], owners[n])
    BY <1>5, <1>8 DEF Added
  <2>2. ASSUME NEW x
        PROVE  x \in DOMAIN new.found
                 <=> \E j \in 0 .. (n + 1) - 1 : \E i \in DOMAIN arrays[j] : x = arrays[j][i].name
    <3>1. x \in DOMAIN old.found
            <=> \E j \in 0 .. n - 1 : \E i \in DOMAIN arrays[j] : x = arrays[j][i].name
      BY DEF Holds
    <3>2. x \in DOMAIN new.found <=> x \in DOMAIN old.found \/ \E i \in DOMAIN a : x = a[i].name
      BY <2>1
    <3> QED BY <1>1, <1>2, <3>1, <3>2
  <2>3. ASSUME NEW j \in 0 .. (n + 1) - 1, NEW i \in DOMAIN arrays[j]
        PROVE  new.found[arrays[j][i].name] = Value(arrays[j][i], owners[j])
    <3>1. CASE j = n
      BY <1>1, <2>1, <2>3, <3>1
    <3>2. CASE j # n
      <4>1. j \in 0 .. n - 1
        BY <1>2, <3>2
      <4>2. arrays[j][i].name \in DOMAIN old.found
        BY <2>3, <4>1 DEF Holds
      <4>3. old.found[arrays[j][i].name] = Value(arrays[j][i], owners[j])
        BY <2>3, <4>1 DEF Holds
      <4> QED BY <2>1, <4>2, <4>3
    <3> QED BY <3>1, <3>2
  <2> QED BY <2>1, <2>2, <2>3 DEF Holds
<1> QED BY <1>6, <1>7, <1>8

(***************************************************************************)
(* A system and its subsystems.                                            *)
(***************************************************************************)

Parts == Kinds \cup {"subsystems"}

(* The arrays of each kind, and what is kept of their owners.               *)
OwnerOf(system, kind, j) ==
    IF kind # "services" THEN <<>>
    ELSE <<IF j = 0 THEN NilUUID ELSE system.subsystems[j].uuid>>
ArraysOf(system, kind) == [j \in Nat |-> Owner(system, j)[kind]]
OwnersOf(system, kind) == [j \in Nat |-> OwnerOf(system, kind, j)]

(* As the documents are: arrays are arrays.                                 *)
IsSystem(system) ==
    /\ IsArray(system.subsystems)
    /\ \A kind \in Kinds : IsArray(system[kind])
    /\ system.subsystems # NotArray =>
         \A j \in 1 .. Len(system.subsystems) : system.subsystems[j] # Malformed =>
            \A kind \in Kinds : IsArray(system.subsystems[j][kind])

LevelsOK(system, n) ==
    /\ \A kind \in Kinds : ArraysOK(ArraysOf(system, kind), n + 1)
    /\ EntriesOK(system.subsystems, NoneFound, n)
LevelsHeld(system, n, known) ==
    /\ \A kind \in Kinds : Holds(ArraysOf(system, kind), OwnersOf(system, kind), n + 1, known[kind])
    /\ Added(system.subsystems, NoneFound, <<>>, n, known.subsystems)

(* What the recursion of AllLevels keeps.                                   *)
LevelFine(system, n, known) ==
    /\ DOMAIN known = Parts
    /\ ~Broken(known) <=> LevelsOK(system, n)
    /\ ~Broken(known) => LevelsHeld(system, n, known)

LEMMA FirstLevel ==
    ASSUME NEW system, IsSystem(system), system.subsystems # NotArray
    PROVE  LevelFine(system, 0, SystemLevel(system))
<1>1. PICK known : known = SystemLevel(system)
  OBVIOUS
<1>2. /\ DOMAIN known = Parts
      /\ known.services = Parse(system.services, NoneFound, <<NilUUID>>)
      /\ known.components = Parse(system.components, NoneFound, <<>>)
      /\ known.capabilities = Parse(system.capabilities, NoneFound, <<>>)
      /\ known.subsystems = NoneFound
  BY <1>1 DEF SystemLevel, ParseServices, ParseNamed, Parts, Kinds
<1>3. ASSUME NEW kind \in Kinds
      PROVE  /\ known[kind].ok <=> ArraysOK(ArraysOf(system, kind), 0 + 1)
             /\ known[kind].ok => Holds(ArraysOf(system, kind), OwnersOf(system, kind), 0 + 1, known[kind])
  <2>1. /\ ArraysOf(system, kind)[0] = system[kind]
        /\ OwnersOf(system, kind)[0] = IF kind = "services" THEN <<NilUUID>> ELSE <<>>
    BY DEF ArraysOf, OwnersOf, OwnerOf, Owner, Kinds
  <2>2. known[kind] = Parse(ArraysOf(system, kind)[0], NoneFound, OwnersOf(system, kind)[0])
    BY <1>2, <2>1 DEF Kinds
  <2>3. IsArray(ArraysOf(system, kind)[0])
    BY <2>1 DEF IsSystem
  <2>4. 0 \in Nat
    OBVIOUS
  <2> QED BY <2>2, <2>3, <2>4, NoArraysYet, NextArray
<1>4. 1 .. 0 = {}
  OBVIOUS
<1>5. EntriesOK(system.subsystems, NoneFound, 0)
  BY <1>4 DEF EntriesOK
<1>6. Added(system.subsystems, NoneFound, <<>>, 0, NoneFound)
  <2>1. IsMap(NoneFound)
    BY NoArraysYet DEF Holds
  <2> QED BY <1>4, <2>1 DEF Added
<1>7. NoneFound.ok
  BY DEF NoneFound
<1>8. ~Broken(known) <=> \A kind \in Kinds : known[kind].ok
  BY <1>2, <1>7 DEF Broken, Parts
<1> QED BY <1>1, <1>2, <1>3, <1>5, <1>6, <1>8 DEF LevelFine, LevelsOK, LevelsHeld

LEMMA NextLevel ==
    ASSUME NEW system, IsSystem(system), system.subsystems # NotArray, NEW n \in Nat,
           n + 1 \in 1 .. Len(system.subsystems), NEW known, LevelFine(system, n, known)
    PROVE  LevelFine(system, n + 1, AddSubsystem(known, system.subsystems[n + 1]))
<1>1. PICK sub : sub = system.subsystems[n + 1]
  OBVIOUS
<1>2. PICK new : new = AddSubsystem(known, sub)
  OBVIOUS
<1>3. CASE Broken(known) \/ sub = Malformed
  <2>1. new = [known EXCEPT !.subsystems = Thrown]
    BY <1>2, <1>3 DEF AddSubsystem
  <2>2. DOMAIN new = Parts /\ new.subsystems = Thrown
    BY <2>1 DEF LevelFine, Parts
  <2>3. Thrown.ok = FALSE
    BY DEF Thrown
  <2>4. Broken(new)
    BY <2>2, <2>3 DEF Broken, Parts
  <2>5. ASSUME LevelsOK(system, n + 1) PROVE LevelsOK(system, n) /\ sub # Malformed
    <3>1. \A j \in 0 .. (n + 1) - 1 : j \in 0 .. ((n + 1) + 1) - 1
      OBVIOUS
    <3>2. \A kind \in Kinds : ArraysOK(ArraysOf(system, kind), n + 1)
      <4>1. SUFFICES ASSUME NEW arrays, ArraysOK(arrays, (n + 1) + 1) PROVE ArraysOK(arrays, n + 1)
        BY <2>5 DEF LevelsOK
      <4> QED BY <3>1, <4>1 DEF ArraysOK
    <3>3. n + 1 \in 1 .. n + 1 /\ \A j \in 1 .. n : j \in 1 .. n + 1
      OBVIOUS
    <3>4. EntriesOK(system.subsystems, NoneFound, n) /\ sub # Malformed
      BY <1>1, <2>5, <3>3 DEF LevelsOK, EntriesOK
    <3> QED BY <3>2, <3>4 DEF LevelsOK
  <2> QED BY <1>1, <1>2, <1>3, <2>2, <2>4, <2>5 DEF LevelFine
<1>4. CASE ~Broken(known) /\ sub # Malformed
  <2>1. /\ DOMAIN new = Parts
        /\ new.services = Parse(sub.services, known.services, <<sub.uuid>>)
        /\ new.components = Parse(sub.components, known.components, <<>>)
        /\ new.capabilities = Parse(sub.capabilities, known.capabilities, <<>>)
        /\ new.subsystems = Enter(known.subsystems, sub, <<>>)
    BY <1>2, <1>4 DEF AddSubsystem, ParseServices, ParseNamed, Parts, Kinds
  <2>2. LevelsOK(system, n) /\ LevelsHeld(system, n, known)
    BY <1>4 DEF LevelFine
  <2>3. ASSUME NEW kind \in Kinds
        PROVE  /\ new[kind].ok <=> ArraysOK(ArraysOf(system, kind), (n + 1) + 1)
               /\ new[kind].ok => Holds(ArraysOf(system, kind), OwnersOf(system, kind),
                                        (n + 1) + 1, new[kind])
    <3>0. n + 1 \in Nat /\ n + 1 # 0
      OBVIOUS
    <3>1. /\ ArraysOf(system, kind)[n + 1] = sub[kind]
          /\ OwnersOf(system, kind)[n + 1] = IF kind = "services" THEN <<sub.uuid>> ELSE <<>>
      BY <1>1, <3>0 DEF ArraysOf, OwnersOf, OwnerOf, Owner, Kinds
    <3>2. new[kind] = Parse(ArraysOf(system, kind)[n + 1], known[kind], OwnersOf(system, kind)[n + 1])
      BY <2>1, <3>1 DEF Kinds
    <3>3. IsArray(ArraysOf(system, kind)[n + 1])
      BY <1>1, <1>4, <3>1 DEF IsSystem
    <3>4. /\ ArraysOK(ArraysOf(system, kind), n + 1)
          /\ Holds(ArraysOf(system, kind), OwnersOf(system, kind), n + 1, known[kind])
      BY <2>2 DEF LevelsOK, LevelsHeld
    <3> QED BY <3>0, <3>2, <3>3, <3>4, NextArray
  <2>4. /\ EntriesOK(system.subsystems, NoneFound, n)
        /\ Added(system.subsystems, NoneFound, <<>>, n, known.subsystems)
    BY <2>2 DEF LevelsOK, LevelsHeld
  <2>5. known.subsystems.ok
    BY <2>4 DEF Added, IsMap
  <2>6. /\ new.subsystems.ok <=> EntriesOK(system.subsystems, NoneFound, n + 1)
        /\ new.subsystems.ok => Added(system.subsystems, NoneFound, <<>>, n + 1, new.subsystems)
    BY <1>1, <2>1, <2>4, <2>5, ParseStep
  <2>7. ~Broken(new) <=> (\A kind \in Kinds : new[kind].ok) /\ new.subsystems.ok
    BY <2>1 DEF Broken, Parts
  <2> QED BY <1>1, <1>2, <2>1, <2>3, <2>6, <2>7 DEF LevelFine, LevelsOK, LevelsHeld
<1> QED BY <1>3, <1>4

(* The recursive function of AllLevels exists.                              *)
LevelRun(f, system, n) ==
    f = [j \in 0 .. n |-> IF j = 0 THEN SystemLevel(system)
                          ELSE AddSubsystem(f[j - 1], system.subsystems[j])]

LEMMA LevelDef ==
    ASSUME NEW system, NEW n \in Nat
    PROVE  \E f : LevelRun(f, system, n)
<1> DEFINE First == SystemLevel(system)
           Step(v, i) == AddSubsystem(v, system.subsystems[i])
           Solves(g, k) == g = [i \in 0 .. k |-> IF i = 0 THEN First ELSE Step(g[i - 1], i)]
           D == {k \in Nat : \E g : Solves(g, k)}
<1> HIDE DEF First, Step
<1>1. 0 \in D
  <2> DEFINE g == [i \in 0 .. 0 |-> First]
  <2>1. Solves(g, 0)
    OBVIOUS
  <2> QED BY <2>1
<1>2. ASSUME NEW k \in D PROVE k + 1 \in D
  <2>1. k \in Nat /\ \E g : Solves(g, k)
    BY <1>2
  <2>2. PICK g : Solves(g, k)
    BY <2>1
  <2> DEFINE h == [i \in 0 .. k + 1 |-> IF i = k + 1 THEN Step(g[k], k + 1) ELSE g[i]]
  <2>3. ASSUME NEW i \in 0 .. k + 1
        PROVE h[i] = IF i = 0 THEN First ELSE Step(h[i - 1], i)
    <3>1. CASE i = 0
      BY <2>2, <3>1
    <3>2. CASE i = k + 1
      <4>1. h[k + 1] = Step(g[k], k + 1) /\ h[k] = g[k]
        BY <2>1
      <4>2. (k + 1) - 1 = k /\ k + 1 # 0
        BY <2>1
      <4> HIDE DEF h
      <4> QED BY <3>2, <4>1, <4>2
    <3>3. CASE i \in 1 .. k
      <4>1. h[i] = g[i] /\ h[i - 1] = g[i - 1]
        BY <2>1, <3>3
      <4>2. g[i] = Step(g[i - 1], i)
        BY <2>2, <3>3
      <4> QED BY <4>1, <4>2, <3>3, <2>1
    <3> QED BY <3>1, <3>2, <3>3
  <2>4. Solves(h, k + 1)
    BY <2>3
  <2> HIDE DEF Solves, h
  <2> QED BY <2>1, <2>4
<1>3. D = Nat
  <2> HIDE DEF D
  <2>1. D \in SUBSET Nat
    BY DEF D
  <2> QED BY <1>1, <1>2, <2>1, NatInd
<1>4. PICK g : Solves(g, n)
  BY <1>3
<1> QED BY <1>4 DEF LevelRun, First, Step

LEMMA AllLevelsWork ==
    ASSUME NEW system, IsSystem(system), NEW known, known = AllLevels(system)
    PROVE  /\ ~Broken(known) <=> /\ system.subsystems # NotArray
                                 /\ LevelsOK(system, Len(system.subsystems))
           /\ ~Broken(known) => LevelsHeld(system, Len(system.subsystems), known)
<1>1. CASE system.subsystems = NotArray
  <2>1. known = SystemLevel(system)
    BY <1>1 DEF AllLevels
  <2>2. known.subsystems = Thrown /\ "subsystems" \in DOMAIN known
    BY <1>1, <2>1 DEF SystemLevel
  <2>3. Thrown.ok = FALSE
    BY DEF Thrown
  <2>4. Broken(known)
    BY <2>2, <2>3 DEF Broken
  <2> QED BY <1>1, <2>4
<1>2. CASE system.subsystems # NotArray
  <2>1. system.subsystems \in Seq(ToSet(system.subsystems))
    BY <1>2 DEF IsSystem, IsArray
  <2>2. PICK n \in Nat : n = Len(system.subsystems)
    BY <2>1, LenProperties
  <2> DEFINE f == CHOOSE f : LevelRun(f, system, n)
  <2>3. LevelRun(f, system, n)
    BY <2>2, LevelDef
  <2>4. known = f[n]
    BY <1>2, <2>2 DEF AllLevels, LevelRun
  <2> HIDE DEF f
  <2> DEFINE D == {k \in Nat : k <= n => LevelFine(system, k, f[k])}
  <2>5. 0 \in D
    <3>1. f[0] = SystemLevel(system)
      BY <2>3 DEF LevelRun
    <3> QED BY <1>2, <3>1, FirstLevel
  <2>6. ASSUME NEW k \in D PROVE k + 1 \in D
    <3>1. k \in Nat /\ (k <= n => LevelFine(system, k, f[k]))
      BY <2>6
    <3>2. SUFFICES ASSUME k + 1 <= n PROVE LevelFine(system, k + 1, f[k + 1])
      BY <3>1
    <3>3. /\ k <= n /\ k + 1 \in 0 .. n /\ k + 1 # 0 /\ (k + 1) - 1 = k
          /\ k + 1 \in 1 .. Len(system.subsystems)
      BY <2>2, <3>1, <3>2
    <3>4. f[k + 1] = AddSubsystem(f[k], system.subsystems[k + 1])
      BY <2>3, <3>3 DEF LevelRun
    <3> QED BY <1>2, <3>1, <3>3, <3>4, NextLevel
  <2>7. D = Nat
    <3> HIDE DEF D
    <3>1. D \in SUBSET Nat
      BY DEF D
    <3> QED BY <2>5, <2>6, <3>1, NatInd
  <2>8. LevelFine(system, n, f[n])
    <3>1. n \in D
      BY <2>7
    <3> QED BY <3>1
  <2> QED BY <1>2, <2>2, <2>4, <2>8 DEF LevelFine
<1> QED BY <1>1, <1>2

(* Positions are pairs.                                                     *)
LEMMA PositionOf ==
    ASSUME NEW system, NEW n \in Nat, NEW subs, subs = system.subsystems, n = Len(subs), NEW kind,
           NEW a, a = ArraysOf(system, kind), NEW p \in At(system, kind)
    PROVE  \E j \in 0 .. n : \E i \in DOMAIN a[j] : p = <<j, i>> /\ Entry(system, kind, p) = a[j][i]
<1>1. \A j \in 0 .. n : a[j] = Owner(system, j)[kind]
  BY DEF ArraysOf
<1>2. \E j \in 0 .. n : \E i \in DOMAIN Owner(system, j)[kind] : p = <<j, i>>
  BY DEF At
<1>3. PICK j \in 0 .. n : \E i \in DOMAIN Owner(system, j)[kind] : p = <<j, i>>
  BY <1>2
<1>4. PICK i \in DOMAIN Owner(system, j)[kind] : p = <<j, i>>
  BY <1>3
<1>5. Entry(system, kind, p) = Owner(system, j)[kind][i]
  BY <1>4 DEF Entry
<1> QED BY <1>1, <1>4, <1>5

LEMMA PositionAt ==
    ASSUME NEW system, NEW n \in Nat, NEW subs, subs = system.subsystems, n = Len(subs), NEW kind,
           NEW a, a = ArraysOf(system, kind), NEW j \in 0 .. n, NEW i \in DOMAIN a[j]
    PROVE  <<j, i>> \in At(system, kind) /\ Entry(system, kind, <<j, i>>) = a[j][i]
<1>1. a[j] = Owner(system, j)[kind]
  BY DEF ArraysOf
<1> QED BY <1>1 DEF At, Entry

LEMMA WellFormedDecided ==
    ASSUME NEW system, IsSystem(system), system.subsystems # NotArray
    PROVE  WellFormed(system) <=> /\ system.uuid # Malformed
                                  /\ LevelsOK(system, Len(system.subsystems))
<1>1. system.subsystems \in Seq(ToSet(system.subsystems))
  BY DEF IsSystem, IsArray
<1>2. PICK n \in Nat : n = Len(system.subsystems) /\ DOMAIN system.subsystems = 1 .. n
  BY <1>1, LenProperties
<1>3. 0 .. (n + 1) - 1 = 0 .. n
  BY <1>2
<1>4. DOMAIN NoneFound.found = {}
  BY DEF NoneFound
<1>5. EntriesOK(system.subsystems, NoneFound, n)
        <=> /\ \A j \in DOMAIN system.subsystems : system.subsystems[j] # Malformed
            /\ \A j, k \in DOMAIN system.subsystems :
                 system.subsystems[j].name = system.subsystems[k].name => j = k
  BY <1>2, <1>4 DEF EntriesOK
<1>6. ASSUME NEW kind \in Kinds
      PROVE  ArraysOK(ArraysOf(system, kind), n + 1)
               <=> /\ \A j \in 0 .. n :
                        /\ Owner(system, j)[kind] # NotArray
                        /\ \A i \in DOMAIN Owner(system, j)[kind] :
                             Owner(system, j)[kind][i] # Malformed
                   /\ \A p, q \in At(system, kind) :
                        Entry(system, kind, p).name = Entry(system, kind, q).name => p = q
  <2>1. \A j \in 0 .. n : ArraysOf(system, kind)[j] = Owner(system, j)[kind]
    BY DEF ArraysOf
  <2> DEFINE a == ArraysOf(system, kind)
             Apart == \A j, k \in 0 .. n : \A i \in DOMAIN a[j], l \in DOMAIN a[k] :
                         a[j][i].name = a[k][l].name => j = k /\ i = l
             Good == \A j \in 0 .. n : a[j] # NotArray /\ \A i \in DOMAIN a[j] : a[j][i] # Malformed
  <2>2. ArraysOK(a, n + 1) <=> Good /\ Apart
    BY <1>3 DEF ArraysOK
  <2>3. ASSUME Apart, NEW p \in At(system, kind), NEW q \in At(system, kind),
               Entry(system, kind, p).name = Entry(system, kind, q).name
        PROVE  p = q
    <3>0. \A r \in At(system, kind) : \E j \in 0 .. n : \E i \in DOMAIN a[j] :
             r = <<j, i>> /\ Entry(system, kind, r) = a[j][i]
      <4>1. SUFFICES ASSUME NEW r \in At(system, kind)
                     PROVE  \E j \in 0 .. n : \E i \in DOMAIN a[j] :
                              r = <<j, i>> /\ Entry(system, kind, r) = a[j][i]
        OBVIOUS
      <4> HIDE DEF a
      <4>2. a = ArraysOf(system, kind)
        BY DEF a
      <4> QED BY <1>2, <4>2, PositionOf
    <3> HIDE DEF a
    <3>1. PICK j \in 0 .. n : \E i \in DOMAIN a[j] : p = <<j, i>> /\ Entry(system, kind, p) = a[j][i]
      BY <3>0
    <3>2. PICK i \in DOMAIN a[j] : p = <<j, i>> /\ Entry(system, kind, p) = a[j][i]
      BY <3>1
    <3>3. PICK k \in 0 .. n : \E l \in DOMAIN a[k] : q = <<k, l>> /\ Entry(system, kind, q) = a[k][l]
      BY <3>0
    <3>4. PICK l \in DOMAIN a[k] : q = <<k, l>> /\ Entry(system, kind, q) = a[k][l]
      BY <3>3
    <3>5. j = k /\ i = l
      BY <2>3, <3>2, <3>4
    <3> QED BY <3>2, <3>4, <3>5
  <2>4. ASSUME \A p, q \in At(system, kind) :
                 Entry(system, kind, p).name = Entry(system, kind, q).name => p = q
        PROVE  Apart
    <3> SUFFICES ASSUME NEW j \in 0 .. n, NEW k \in 0 .. n,
                        NEW i \in DOMAIN a[j], NEW l \in DOMAIN a[k],
                        a[j][i].name = a[k][l].name
                 PROVE  j = k /\ i = l
      OBVIOUS
    <3> HIDE DEF a
    <3>0. a = ArraysOf(system, kind)
      BY DEF a
    <3>1. /\ <<j, i>> \in At(system, kind) /\ Entry(system, kind, <<j, i>>) = a[j][i]
          /\ <<k, l>> \in At(system, kind) /\ Entry(system, kind, <<k, l>>) = a[k][l]
      BY <1>2, <3>0, PositionAt
    <3>2. <<j, i>> = <<k, l>>
      BY <2>4, <3>1
    <3> QED BY <3>2
  <2>5. Good <=> \A j \in 0 .. n : /\ Owner(system, j)[kind] # NotArray
                                   /\ \A i \in DOMAIN Owner(system, j)[kind] :
                                        Owner(system, j)[kind][i] # Malformed
    BY <2>1
  <2> HIDE DEF a, Good, Apart
  <2> QED BY <2>2, <2>3, <2>4, <2>5 DEF a
<1> QED BY <1>2, <1>5, <1>6 DEF WellFormed, LevelsOK

(***************************************************************************)
(* The system that is selected.                                            *)
(***************************************************************************)

LEMMA LeastOne ==
    ASSUME NEW S \in SUBSET Nat, S # {}
    PROVE  Min(S) \in S /\ \A y \in S : Min(S) <= y
BY Least DEF Min

LEMMA SystemSelected ==
    ASSUME NEW e \in Environments, e.systems # NotArray,
           NEW i, i = selectSystem(e.systems, e.system)
    PROVE  /\ i # 0 => /\ i \in DOMAIN e.systems /\ e.systems[i] # Malformed
                       /\ Means(e, e.systems[i])
           /\ \A s : s # Malformed /\ Means(e, s) => i # 0 /\ s = e.systems[i]
<1>1. PICK systems : systems = e.systems
  OBVIOUS
<1>2. systems \in Seq(ToSet(systems))
  BY <1>1, DocumentAssumption DEF Arrays
<1>3. PICK n \in Nat : n = Len(systems) /\ DOMAIN systems = 1 .. n
  BY <1>2, LenProperties
<1>4. CASE e.system = NoName
  <2>1. i = IF n = 1 /\ systems[1] # Malformed THEN 1 ELSE 0
    BY <1>1, <1>3, <1>4 DEF selectSystem
  <2>2. n = 1 => systems = <<systems[1]>>
    BY <1>2, <1>3
  <2>3. \A s : systems = <<s>> => n = 1 /\ s = systems[1]
    BY <1>3
  <2>4. \A s : Means(e, s) <=> systems = <<s>>
    BY <1>1, <1>4 DEF Means
  <2> QED BY <1>1, <1>3, <2>1, <2>2, <2>3, <2>4
<1>5. CASE e.system # NoName
  <2> DEFINE stops == {k \in DOMAIN systems : systems[k] = Malformed \/ systems[k].name = e.system}
  <2>1. stops \in SUBSET Nat /\ 0 \notin stops
    BY <1>3
  <2>2. \A s : Means(e, s) <=> \E k \in DOMAIN systems :
                 /\ systems[k] = s /\ s.name = e.system
                 /\ \A j \in 1 .. k - 1 : systems[j] # Malformed /\ systems[j].name # e.system
    BY <1>1, <1>5 DEF Means
  <2>3. CASE stops = {}
    <3>1. FirstMatch(systems, e.system) = 0
      BY <2>3 DEF FirstMatch
    <3>2. i = 0
      BY <1>1, <1>5, <3>1 DEF selectSystem
    <3> QED BY <2>2, <2>3, <3>2
  <2>4. CASE stops # {}
    <3>1. PICK m : m = Min(stops)
      OBVIOUS
    <3>2. m \in stops /\ \A y \in stops : m <= y
      BY <2>1, <2>4, <3>1, LeastOne
    <3>3. FirstMatch(systems, e.system) = m
      BY <2>4, <3>1 DEF FirstMatch
    <3>4. m \in DOMAIN systems /\ m # 0 /\ (systems[m] = Malformed \/ systems[m].name = e.system)
      BY <2>1, <3>2
    <3>5. i = IF systems[m] = Malformed THEN 0 ELSE m
      BY <1>1, <1>5, <3>3, <3>4 DEF selectSystem
    <3>6. ASSUME NEW j \in 1 .. m - 1
          PROVE  systems[j] # Malformed /\ systems[j].name # e.system
      <4>1. j \in DOMAIN systems /\ ~(m <= j)
        BY <1>3, <3>4
      <4> QED BY <3>2, <4>1
    <3>7. ASSUME NEW s, s # Malformed, Means(e, s) PROVE s = systems[m]
      <4>1. PICK k \in DOMAIN systems :
                 /\ systems[k] = s /\ s.name = e.system
                 /\ \A j \in 1 .. k - 1 : systems[j] # Malformed /\ systems[j].name # e.system
        BY <2>2, <3>7
      <4>2. m <= k
        BY <3>2, <4>1
      <4>3. m \notin 1 .. k - 1
        BY <3>4, <4>1
      <4>4. m = k
        BY <1>3, <3>4, <4>2, <4>3
      <4> QED BY <4>1, <4>4
    <3>8. systems[m] # Malformed => Means(e, systems[m])
      BY <2>2, <3>4, <3>6
    <3> QED BY <1>1, <3>4, <3>5, <3>7, <3>8
  <2> QED BY <2>3, <2>4
<1> QED BY <1>4, <1>5

LEMMA DocumentSystem ==
    ASSUME NEW e \in Environments, e.systems # NotArray,
           NEW i \in DOMAIN e.systems, e.systems[i] # Malformed
    PROVE  IsSystem(e.systems[i])
<1>1. PICK system : system = e.systems[i]
  OBVIOUS
<1>2. system \in Objects(e.systems)
  BY <1>1 DEF Objects, ToSet
<1>3. /\ Arrays(system, Kinds \cup {"subsystems"})
      /\ \A sub \in Objects(system.subsystems) : Arrays(sub, Kinds)
  BY <1>2, DocumentAssumption
<1>4. IsArray(system.subsystems) /\ \A kind \in Kinds : IsArray(system[kind])
  BY <1>3 DEF Arrays, IsArray
<1>5. ASSUME system.subsystems # NotArray, NEW j \in 1 .. Len(system.subsystems),
             system.subsystems[j] # Malformed, NEW kind \in Kinds
      PROVE  IsArray(system.subsystems[j][kind])
  <2>1. DOMAIN system.subsystems = 1 .. Len(system.subsystems)
    BY <1>4, <1>5, LenProperties DEF IsArray
  <2>2. system.subsystems[j] \in Objects(system.subsystems)
    BY <1>5, <2>1 DEF Objects, ToSet
  <2> QED BY <1>3, <2>2 DEF Arrays, IsArray
<1> QED BY <1>1, <1>4, <1>5 DEF IsSystem

(***************************************************************************)
(* resolveCalIdentity does what a configuration means.                     *)
(***************************************************************************)

(* The names of a kind with their UUIDs.                                    *)
Listed(s, kind) ==
    [n \in {Entry(s, kind, q).name : q \in At(s, kind)} |->
       Entry(s, kind, CHOOSE q \in At(s, kind) : Entry(s, kind, q).name = n).uuid]

(* What the reference says an identity in configured mode is.               *)
IsIdentity(s, label, p, id) ==
    /\ Lists(s, label, p)
    /\ id.label = label
    /\ id.system = s.uuid
    /\ id.service = Entry(s, "services", p).uuid
    /\ id.subsystem = IF p[1] = 0 THEN NilUUID ELSE Owner(s, p[1]).uuid
    /\ \A kind \in {"components", "capabilities"} : id[kind] = Listed(s, kind)

LEMMA NamedMap ==
    ASSUME NEW system, IsSystem(system), WellFormed(system), NEW known, known = AllLevels(system),
           ~Broken(known), NEW kind \in {"components", "capabilities"}
    PROVE  known[kind].found = Listed(system, kind)
<1>1. system.subsystems \in Seq(ToSet(system.subsystems))
  BY DEF WellFormed, IsSystem, IsArray
<1>2. PICK n \in Nat : n = Len(system.subsystems)
  BY <1>1, LenProperties
<1>3. 0 .. (n + 1) - 1 = 0 .. n
  BY <1>2
<1>4. kind \in Kinds /\ kind # "services"
  BY DEF Kinds
<1>5. PICK a : a = ArraysOf(system, kind)
  OBVIOUS
<1>6. Holds(a, OwnersOf(system, kind), n + 1, known[kind])
  BY <1>2, <1>4, <1>5, AllLevelsWork DEF LevelsHeld
<1>7. \A j \in 0 .. n : OwnersOf(system, kind)[j] = <<>>
  BY <1>4 DEF OwnersOf, OwnerOf
<1>8. PICK found : found = known[kind].found
  OBVIOUS
<1>9. /\ found = [x \in DOMAIN found |-> found[x]]
      /\ \A x : x \in DOMAIN found <=> \E j \in 0 .. n : \E i \in DOMAIN a[j] : x = a[j][i].name
      /\ \A j \in 0 .. n : \A i \in DOMAIN a[j] : found[a[j][i].name] = a[j][i].uuid
  <2>1. found = [x \in DOMAIN found |-> found[x]]
    BY <1>6, <1>8 DEF Holds, IsMap
  <2>2. \A x : x \in DOMAIN found <=> \E j \in 0 .. n : \E i \in DOMAIN a[j] : x = a[j][i].name
    BY <1>3, <1>6, <1>8 DEF Holds
  <2>3. \A j \in 0 .. n : \A i \in DOMAIN a[j] :
           found[a[j][i].name] = Value(a[j][i], OwnersOf(system, kind)[j])
    BY <1>3, <1>6, <1>8 DEF Holds
  <2>4. \A item : Value(item, <<>>) = item.uuid
    BY DEF Value
  <2> QED BY <1>7, <2>1, <2>2, <2>3, <2>4
<1>10. ASSUME NEW p \in At(system, kind)
       PROVE  Entry(system, kind, p).name \in DOMAIN found
              /\ found[Entry(system, kind, p).name] = Entry(system, kind, p).uuid
  <2>1. PICK j \in 0 .. n : \E i \in DOMAIN a[j] : p = <<j, i>> /\ Entry(system, kind, p) = a[j][i]
    BY <1>2, <1>5, PositionOf
  <2> QED BY <1>9, <2>1
<1>11. ASSUME NEW x \in DOMAIN found
       PROVE  \E q \in At(system, kind) : x = Entry(system, kind, q).name
  <2>1. PICK j \in 0 .. n : \E i \in DOMAIN a[j] : x = a[j][i].name
    BY <1>9
  <2>2. PICK i \in DOMAIN a[j] : x = a[j][i].name
    BY <2>1
  <2>3. <<j, i>> \in At(system, kind) /\ Entry(system, kind, <<j, i>>) = a[j][i]
    BY <1>2, <1>5, PositionAt
  <2> QED BY <2>2, <2>3
<1>12. \A q \in At(system, kind) : found[Entry(system, kind, q).name] = Entry(system, kind, q).uuid
  BY <1>10
<1>13. DOMAIN found = {Entry(system, kind, q).name : q \in At(system, kind)}
  BY <1>10, <1>11
<1> DEFINE Chosen(x) ==
             Entry(system, kind, CHOOSE q \in At(system, kind) : Entry(system, kind, q).name = x).uuid
<1>14. ASSUME NEW x \in DOMAIN found PROVE found[x] = Chosen(x)
  <2>1. \E q \in At(system, kind) : Entry(system, kind, q).name = x
    BY <1>13, <1>14
  <2>2. PICK q : q = CHOOSE r \in At(system, kind) : Entry(system, kind, r).name = x
    OBVIOUS
  <2>3. q \in At(system, kind) /\ Entry(system, kind, q).name = x
    BY <2>1, <2>2
  <2> QED BY <1>12, <2>2, <2>3
<1>15. PICK D : D = {Entry(system, kind, q).name : q \in At(system, kind)}
  OBVIOUS
<1>16. Listed(system, kind) = [x \in D |-> Chosen(x)]
  BY <1>15 DEF Listed
<1> HIDE DEF Chosen
<1>17. DOMAIN found = D
  BY <1>13, <1>15
<1>18. [x \in D |-> found[x]] = [x \in D |-> Chosen(x)]
  BY <1>14, <1>17
<1>19. found = [x \in D |-> found[x]]
  BY <1>9, <1>17
<1> QED BY <1>8, <1>16, <1>18, <1>19

LEMMA ConfiguredWorks ==
    ASSUME NEW system, IsSystem(system), NEW label, NEW r, r = Configured(system, label)
    PROVE  /\ r.ok => /\ WellFormed(system)
                      /\ \E p \in At(system, "services") : IsIdentity(system, label, p, r.identity)
           /\ WellFormed(system) /\ (\E p \in At(system, "services") : Lists(system, label, p)) => r.ok
<1>1. PICK known : known = AllLevels(system)
  OBVIOUS
<1>2. WellFormed(system) <=> system.uuid # Malformed /\ ~Broken(known)
  BY <1>1, AllLevelsWork, WellFormedDecided DEF WellFormed
<1>3. Refused.ok = FALSE
  BY DEF Refused
<1>4. CASE ~WellFormed(system)
  <2>1. r = Refused
    BY <1>1, <1>2, <1>4 DEF Configured
  <2> QED BY <1>3, <1>4, <2>1
<1>5. CASE WellFormed(system)
  <2>1. system.subsystems \in Seq(ToSet(system.subsystems))
    BY <1>5 DEF WellFormed, IsSystem, IsArray
  <2>2. PICK n \in Nat : n = Len(system.subsystems)
    BY <2>1, LenProperties
  <2>3. 0 .. (n + 1) - 1 = 0 .. n
    BY <2>2
  <2>4. PICK found : found = known.services.found
    OBVIOUS
  <2>5. PICK a : a = ArraysOf(system, "services")
    OBVIOUS
  <2>6. Holds(a, OwnersOf(system, "services"), n + 1, known.services)
    BY <1>1, <1>2, <1>5, <2>2, <2>5, AllLevelsWork DEF LevelsHeld, Kinds
  <2>7. /\ \A x : x \in DOMAIN found <=> \E j \in 0 .. n : \E i \in DOMAIN a[j] : x = a[j][i].name
        /\ \A j \in 0 .. n : \A i \in DOMAIN a[j] :
             found[a[j][i].name] = Value(a[j][i], OwnersOf(system, "services")[j])
    BY <2>3, <2>4, <2>6 DEF Holds
  <2>8. ASSUME NEW p \in At(system, "services")
        PROVE  \E j \in 0 .. n : \E i \in DOMAIN a[j] : Entry(system, "services", p) = a[j][i]
    BY <2>2, <2>5, PositionOf
  <2>9. CASE label \notin DOMAIN found
    <3>1. r = Refused
      BY <1>1, <1>2, <1>5, <2>4, <2>9 DEF Configured
    <3>2. \A p \in At(system, "services") : ~Lists(system, label, p)
      BY <2>7, <2>8, <2>9 DEF Lists
    <3> QED BY <1>3, <3>1, <3>2
  <2>10. CASE label \in DOMAIN found
    <3>1. PICK id : id = [configured |-> TRUE, system |-> system.uuid, label |-> label,
                          service |-> found[label].serviceUUID,
                          subsystem |-> found[label].subsystemUUID,
                          components |-> known.components.found,
                          capabilities |-> known.capabilities.found]
      OBVIOUS
    <3>2. r = [ok |-> TRUE, identity |-> id]
      BY <1>1, <1>2, <1>5, <2>4, <2>10, <3>1 DEF Configured, Given
    <3>3. r.ok = TRUE /\ r.identity = id
      BY <3>2
    <3>4. PICK j \in 0 .. n : \E i \in DOMAIN a[j] : label = a[j][i].name
      BY <2>7, <2>10
    <3>5. PICK i \in DOMAIN a[j] : label = a[j][i].name
      BY <3>4
    <3>6. PICK u : u = IF j = 0 THEN NilUUID ELSE Owner(system, j).uuid
      OBVIOUS
    <3>7. OwnersOf(system, "services")[j] = <<u>>
      BY <3>6 DEF OwnersOf, OwnerOf, Owner
    <3>8. <<u>> # <<>> /\ <<u>>[1] = u
      OBVIOUS
    <3>9. Value(a[j][i], <<u>>) = [serviceUUID |-> a[j][i].uuid, subsystemUUID |-> u]
      BY <3>8 DEF Value
    <3>10. found[label] = [serviceUUID |-> a[j][i].uuid, subsystemUUID |-> u]
      BY <2>7, <3>5, <3>7, <3>9
    <3>11. id.service = a[j][i].uuid /\ id.subsystem = u
      BY <3>1, <3>10
    <3>12. PICK p : p = <<j, i>>
      OBVIOUS
    <3>13. p \in At(system, "services") /\ Entry(system, "services", p) = a[j][i] /\ p[1] = j
      BY <2>2, <2>5, <3>12, PositionAt
    <3>14. id.components = known["components"].found /\ id.capabilities = known["capabilities"].found
      BY <3>1
    <3>15. ASSUME NEW kind \in {"components", "capabilities"}
           PROVE  id[kind] = Listed(system, kind)
      <4>1. id[kind] = known[kind].found
        BY <3>14
      <4> QED BY <1>1, <1>2, <1>5, <4>1, NamedMap
    <3>16. id.label = label /\ id.system = system.uuid
      BY <3>1
    <3>17. Lists(system, label, p)
      BY <3>5, <3>13 DEF Lists
    <3>18. IsIdentity(system, label, p, id)
      BY <3>6, <3>11, <3>13, <3>15, <3>16, <3>17 DEF IsIdentity
    <3> QED BY <1>5, <3>3, <3>13, <3>18
  <2> QED BY <2>9, <2>10
<1> QED BY <1>4, <1>5

LEMMA ResolveWorks ==
    ASSUME NEW e \in Environments, e.path # "NONE", NEW label, NEW r, r = resolveCalIdentity(e, label)
    PROVE  /\ r.ok => \E s \in Candidates(e) : \E p \in At(s, "services") :
                         IsIdentity(s, label, p, r.identity)
           /\ (\E s \in Candidates(e) : \E p \in At(s, "services") : Lists(s, label, p)) => r.ok
<1>1. Refused.ok = FALSE
  BY DEF Refused
<1>2. CASE e.path # "file"
  <2>1. r = Refused /\ Candidates(e) = {}
    BY <1>2 DEF resolveCalIdentity, Candidates
  <2> QED BY <1>1, <2>1
<1>3. CASE e.path = "file" /\ e.systems = NotArray
  <2>1. selectSystem(e.systems, e.system) = 0
    BY <1>3 DEF selectSystem
  <2>2. r = Refused /\ Candidates(e) = {}
    BY <1>3, <2>1 DEF resolveCalIdentity, Candidates
  <2> QED BY <1>1, <2>2
<1>4. CASE e.path = "file" /\ e.systems # NotArray
  <2>1. PICK i : i = selectSystem(e.systems, e.system)
    OBVIOUS
  <2>2. /\ i # 0 => /\ i \in DOMAIN e.systems /\ e.systems[i] # Malformed
                    /\ Means(e, e.systems[i])
        /\ \A s : s # Malformed /\ Means(e, s) => i # 0 /\ s = e.systems[i]
    BY <1>4, <2>1, SystemSelected
  <2>3. \A s : s \in Candidates(e) <=> /\ \E k \in DOMAIN e.systems : s = e.systems[k]
                                       /\ s # Malformed /\ Means(e, s) /\ WellFormed(s)
    BY <1>4 DEF Candidates
  <2>4. r = IF i = 0 THEN Refused ELSE Configured(e.systems[i], label)
    BY <1>4, <2>1 DEF resolveCalIdentity
  <2>5. CASE i = 0
    BY <1>1, <2>2, <2>3, <2>4, <2>5
  <2>6. CASE i # 0
    <3>1. PICK system : system = e.systems[i]
      OBVIOUS
    <3>2. IsSystem(system)
      BY <1>4, <2>2, <2>6, <3>1, DocumentSystem
    <3>3. r = Configured(system, label)
      BY <2>4, <2>6, <3>1
    <3>4. /\ r.ok => /\ WellFormed(system)
                     /\ \E p \in At(system, "services") : IsIdentity(system, label, p, r.identity)
          /\ WellFormed(system) /\ (\E p \in At(system, "services") : Lists(system, label, p)) => r.ok
      BY <3>2, <3>3, ConfiguredWorks
    <3>5. \A s : s \in Candidates(e) <=> s = system /\ WellFormed(system)
      BY <2>2, <2>3, <2>6, <3>1
    <3> QED BY <3>4, <3>5
  <2> QED BY <2>5, <2>6
<1> QED BY <1>2, <1>3, <1>4

(* README.md:363-378, "Configured mode is strict", for every document:      *)
(* whatever its arrays hold, resolveCalIdentity (CalConfig.cpp) throws      *)
(* unless the system asked for is there and nothing in it is malformed or   *)
(* listed twice, and a connection has the UUIDs of its entry.               *)
THEOREM StrictMode == Spec => []ConfiguredModeIsStrict
<1>1. ASSUME IInv PROVE ConfiguredModeIsStrict
  <2> SUFFICES ASSUME env.path # "NONE" PROVE ConfiguredModeIsStrict
    BY DEF ConfiguredModeIsStrict
  <2>0. env \in Environments
    BY <1>1 DEF IInv
  <2>1. ASSUME NEW label \in refused, NEW s \in Candidates(env), NEW p \in At(s, "services")
        PROVE  ~Lists(s, label, p)
    <3>1. ~resolveCalIdentity(env, label).ok
      BY <1>1 DEF IInv, OnlyFailures
    <3> QED BY <2>0, <3>1, ResolveWorks
  <2>2. ASSUME NEW h \in Handles, conns[h] # Closed
        PROVE  \E s \in Candidates(env) : \E p \in At(s, "services") :
                 IsIdentity(s, conns[h].label, p, conns[h])
    <3>1. PICK label \in Labels : /\ resolveCalIdentity(env, label).ok
                                  /\ conns[h] = resolveCalIdentity(env, label).identity
      BY <1>1, <2>2 DEF IInv, Resolved
    <3>2. PICK s \in Candidates(env) : \E p \in At(s, "services") :
                 IsIdentity(s, label, p, conns[h])
      BY <2>0, <3>1, ResolveWorks
    <3>3. PICK p \in At(s, "services") : IsIdentity(s, label, p, conns[h])
      BY <3>2
    <3>4. conns[h].label = label
      BY <3>3 DEF IsIdentity
    <3> QED BY <3>3, <3>4
  <2> QED BY <2>1, <2>2 DEF ConfiguredModeIsStrict, IsIdentity, Listed
<1> QED BY <1>1, Resolution, PTL
=============================================================================
