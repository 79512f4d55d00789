----------------------------- MODULE ListProofs -----------------------------
(***************************************************************************)
(* Induction over the naturals in a form that needs no operator as a       *)
(* parameter, and with it what Keep returns for every list.                *)
(***************************************************************************)
EXTENDS Lists, TLAPS, SequenceTheorems, WellFoundedInduction

\* A set with 0 in it, and with n + 1 when n is, has every number.
LEMMA SetInduction ==
    ASSUME NEW T, 0 \in T, \A n \in Nat : n \in T => n + 1 \in T
    PROVE  \A n \in Nat : n \in T
<1> DEFINE R == OpToRel(<, Nat)
           Bad == Nat \ T
<1> SUFFICES ASSUME Bad # {} PROVE FALSE
  OBVIOUS
<1>1. PICK x \in Bad : \A y \in Bad : <<y, x>> \notin R
  <2>1. IsWellFoundedOn(R, Nat) /\ Bad \subseteq Nat
    BY NatLessThanWellFounded
  <2> HIDE DEF R, Bad
  <2> QED BY <2>1, WFMin
<1>2. x - 1 \in Nat /\ x - 1 \in Bad /\ x \in Nat
  OBVIOUS
<1>3. <<x - 1, x>> \in R
  BY <1>2 DEF OpToRel
<1> QED BY <1>1, <1>2, <1>3

-----------------------------------------------------------------------------
(* The function in Keep, up to n                                           *)

Kept(f, q, S, n) ==
    f = [i \in 0 .. n |-> IF i = 0 THEN <<>>
                          ELSE IF q[i] \in S THEN Append(f[i - 1], q[i]) ELSE f[i - 1]]

LEMMA KeptStep ==
    ASSUME NEW q, NEW S, NEW n \in Nat, NEW f, Kept(f, q, S, n), NEW i \in 1 .. n
    PROVE  f[i] = IF q[i] \in S THEN Append(f[i - 1], q[i]) ELSE f[i - 1]
<1>1. i \in 0 .. n /\ i # 0
  OBVIOUS
<1> QED BY <1>1, Zenon DEF Kept

LEMMA KeptExists ==
    ASSUME NEW q, NEW S
    PROVE  \A n \in Nat : \E f : Kept(f, q, S, n)
<1> DEFINE T == {n \in Nat : \E f : Kept(f, q, S, n)}
<1>1. 0 \in T
  <2>1. Kept([i \in {0} |-> <<>>], q, S, 0)
    BY DEF Kept
  <2> QED BY <2>1
<1>2. ASSUME NEW n \in Nat, n \in T PROVE n + 1 \in T
  <2>1. PICK f : Kept(f, q, S, n)
    BY <1>2
  <2> DEFINE last == IF q[n + 1] \in S THEN Append(f[n], q[n + 1]) ELSE f[n]
             g == [i \in 0 .. n + 1 |-> IF i = n + 1 THEN last ELSE f[i]]
  <2>2. ASSUME NEW i \in 0 .. n + 1
        PROVE  g[i] = IF i = 0 THEN <<>>
                      ELSE IF q[i] \in S THEN Append(g[i - 1], q[i]) ELSE g[i - 1]
    <3>1. CASE i = n + 1
      BY <3>1
    <3>2. CASE i = 0
      BY <2>1, <3>2 DEF Kept
    <3>3. CASE i \in 1 .. n
      <4>1. f[i] = IF q[i] \in S THEN Append(f[i - 1], q[i]) ELSE f[i - 1]
        BY <2>1, <3>3, KeptStep
      <4>2. g[i] = f[i] /\ g[i - 1] = f[i - 1] /\ i # 0
        BY <3>3
      <4> QED BY <4>1, <4>2
    <3> QED BY <3>1, <3>2, <3>3
  <2>3. g = [i \in 0 .. n + 1 |-> g[i]]
    OBVIOUS
  <2>4. Kept(g, q, S, n + 1)
    <3> HIDE DEF g
    <3> QED BY <2>2, <2>3 DEF Kept
  <2> QED BY <2>4
<1> HIDE DEF T
<1>3. \A n \in Nat : n \in T
  BY <1>1, <1>2, SetInduction
<1> QED BY <1>3 DEF T

LEMMA KeptIsOne ==
    ASSUME NEW q, NEW S, NEW n \in Nat, NEW f, NEW g, Kept(f, q, S, n), Kept(g, q, S, n)
    PROVE  f = g
<1> DEFINE T == {i \in Nat : i <= n => f[i] = g[i]}
<1>1. 0 \in T
  BY DEF Kept
<1>2. ASSUME NEW i \in Nat, i \in T PROVE i + 1 \in T
  <2> SUFFICES ASSUME i + 1 <= n PROVE f[i + 1] = g[i + 1]
    OBVIOUS
  <2>1. i + 1 \in 1 .. n /\ (i + 1) - 1 = i /\ f[i] = g[i]
    BY <1>2
  <2>2. PICK j : j = i + 1
    OBVIOUS
  <2>3. j \in 0 .. n /\ j # 0 /\ j - 1 = i
    BY <2>1, <2>2
  <2>4. f[j] = IF q[j] \in S THEN Append(f[j - 1], q[j]) ELSE f[j - 1]
    BY <2>3, Zenon DEF Kept
  <2>5. g[j] = IF q[j] \in S THEN Append(g[j - 1], q[j]) ELSE g[j - 1]
    BY <2>3, Zenon DEF Kept
  <2> QED BY <2>1, <2>2, <2>3, <2>4, <2>5
<1> HIDE DEF T
<1>3. \A i \in Nat : i \in T
  BY <1>1, <1>2, SetInduction
<1>4. \A i \in 0 .. n : f[i] = g[i]
  BY <1>3 DEF T
<1>5. DOMAIN f = 0 .. n /\ DOMAIN g = 0 .. n /\ f = [i \in DOMAIN f |-> f[i]]
      /\ g = [i \in DOMAIN g |-> g[i]]
  BY DEF Kept
<1> QED BY <1>4, <1>5

LEMMA KeepIsKept ==
    ASSUME NEW q, NEW S, Len(q) \in Nat, NEW f, Kept(f, q, S, Len(q))
    PROVE  Keep(q, S) = f[Len(q)]
<1>1. Kept(CHOOSE g : Kept(g, q, S, Len(q)), q, S, Len(q))
  BY KeptExists
<1>2. Keep(q, S) = (CHOOSE g : Kept(g, q, S, Len(q)))[Len(q)]
  BY DEF Keep, Kept
<1> QED BY <1>1, <1>2, KeptIsOne

\* Where the kept ones were: in their order, and all of S that there is.
Places(e, k, q, n, S) ==
    /\ k \in Seq(S) /\ e \in [1 .. Len(k) -> 1 .. n]
    /\ \A i, j \in 1 .. Len(k) : i < j => e[i] < e[j]
    /\ \A i \in 1 .. Len(k) : k[i] = q[e[i]]
    /\ \A j \in 1 .. n : q[j] \in S => \E i \in 1 .. Len(k) : e[i] = j

LEMMA PlacesGrow ==
    ASSUME NEW q, NEW S, NEW n \in Nat, NEW k, NEW e, Places(e, k, q, n, S)
    PROVE  \E d : Places(d, IF q[n + 1] \in S THEN Append(k, q[n + 1]) ELSE k, q, n + 1, S)
<1>1. /\ k \in Seq(S) /\ Len(k) \in Nat /\ e \in [1 .. Len(k) -> 1 .. n]
      /\ \A i, j \in 1 .. Len(k) : i < j => e[i] < e[j]
      /\ \A i \in 1 .. Len(k) : k[i] = q[e[i]]
      /\ \A j \in 1 .. n : q[j] \in S => \E i \in 1 .. Len(k) : e[i] = j
  BY DEF Places
<1>2. CASE q[n + 1] \notin S
  <2>1. Places(e, k, q, n + 1, S)
    BY <1>1, <1>2 DEF Places
  <2> QED BY <1>2, <2>1
<1>3. CASE q[n + 1] \in S
  <2> DEFINE z == Append(k, q[n + 1])
             d == [i \in 1 .. Len(k) + 1 |-> IF i = Len(k) + 1 THEN n + 1 ELSE e[i]]
  <2>1. z \in Seq(S) /\ Len(z) = Len(k) + 1
    BY <1>1, <1>3
  <2>2. d \in [1 .. Len(z) -> 1 .. n + 1]
    BY <1>1, <2>1
  <2>3. ASSUME NEW i \in 1 .. Len(z), NEW j \in 1 .. Len(z), i < j PROVE d[i] < d[j]
    <3>1. i \in 1 .. Len(k) /\ d[i] = e[i] /\ e[i] \in 1 .. n
      BY <1>1, <2>1, <2>3
    <3>2. CASE j = Len(k) + 1
      BY <3>1, <3>2
    <3>3. CASE j # Len(k) + 1
      <4>1. j \in 1 .. Len(k) /\ d[j] = e[j]
        BY <1>1, <2>1, <3>3
      <4> QED BY <1>1, <2>3, <3>1, <4>1
    <3> QED BY <3>2, <3>3
  <2>4. ASSUME NEW i \in 1 .. Len(z) PROVE z[i] = q[d[i]]
    <3>1. CASE i = Len(k) + 1
      BY <1>1, <1>3, <2>1, <3>1
    <3>2. CASE i # Len(k) + 1
      <4>1. i \in 1 .. Len(k)
        BY <1>1, <2>1, <3>2
      <4> QED BY <1>1, <1>3, <4>1
    <3> QED BY <3>1, <3>2
  <2>5. ASSUME NEW j \in 1 .. n + 1, q[j] \in S PROVE \E i \in 1 .. Len(z) : d[i] = j
    <3>1. CASE j = n + 1
      <4>1. Len(k) + 1 \in 1 .. Len(z) /\ d[Len(k) + 1] = j
        BY <1>1, <2>1, <3>1
      <4> QED BY <4>1
    <3>2. CASE j # n + 1
      <4>1. j \in 1 .. n
        BY <3>2
      <4>2. PICK i \in 1 .. Len(k) : e[i] = j
        BY <1>1, <2>5, <4>1
      <4>3. i \in 1 .. Len(z) /\ d[i] = j
        BY <1>1, <2>1, <4>2
      <4> QED BY <4>3
    <3> QED BY <3>1, <3>2
  <2> HIDE DEF z, d
  <2>6. Places(d, z, q, n + 1, S)
    BY <2>1, <2>2, <2>3, <2>4, <2>5 DEF Places
  <2> QED BY <1>3, <2>6 DEF z
<1> QED BY <1>2, <1>3

LEMMA KeepPlaces ==
    ASSUME NEW T, NEW q \in Seq(T), NEW S
    PROVE  \E e : Places(e, Keep(q, S), q, Len(q), S)
<1> DEFINE f == CHOOSE f : Kept(f, q, S, Len(q))
<1>1. Len(q) \in Nat
  OBVIOUS
<1>2. Kept(f, q, S, Len(q))
  BY <1>1, KeptExists
<1>3. Keep(q, S) = f[Len(q)]
  BY DEF Keep, Kept
<1> HIDE DEF f
<1> DEFINE Good == {n \in Nat : n <= Len(q) => \E e : Places(e, f[n], q, n, S)}
<1>4. 0 \in Good
  <2>1. f[0] = <<>>
    BY <1>1, <1>2 DEF Kept
  <2>2. Places(<<>>, <<>>, q, 0, S)
    BY DEF Places
  <2> QED BY <2>1, <2>2
<1>5. ASSUME NEW n \in Nat, n \in Good PROVE n + 1 \in Good
  <2> SUFFICES ASSUME n + 1 <= Len(q) PROVE \E e : Places(e, f[n + 1], q, n + 1, S)
    OBVIOUS
  <2>1. PICK e : Places(e, f[n], q, n, S)
    BY <1>1, <1>5
  <2>2. n + 1 \in 1 .. Len(q) /\ (n + 1) - 1 = n
    BY <1>1
  <2>3. f[n + 1] = IF q[n + 1] \in S THEN Append(f[n], q[n + 1]) ELSE f[n]
    BY <1>1, <1>2, <2>2, KeptStep
  <2>4. PICK k : k = f[n]
    OBVIOUS
  <2>5. \E d : Places(d, IF q[n + 1] \in S THEN Append(k, q[n + 1]) ELSE k, q, n + 1, S)
    BY <2>1, <2>4, PlacesGrow
  <2> QED BY <2>3, <2>4, <2>5
<1> HIDE DEF Good
<1>6. \A n \in Nat : n \in Good
  BY <1>4, <1>5, SetInduction
<1> QED BY <1>1, <1>3, <1>6 DEF Good

-----------------------------------------------------------------------------
(* What follows.                                                           *)

\* What is kept are the members of the list that are in the set.
LEMMA KeepMembers ==
    ASSUME NEW T, NEW q \in Seq(T), NEW S
    PROVE  /\ Keep(q, S) \in Seq(T \cap S) /\ Len(Keep(q, S)) <= Len(q)
           /\ \A i \in DOMAIN Keep(q, S) : \E j \in DOMAIN q : Keep(q, S)[i] = q[j]
           /\ \A j \in DOMAIN q :
                q[j] \in S => \E i \in DOMAIN Keep(q, S) : Keep(q, S)[i] = q[j]
<1>1. PICK e : Places(e, Keep(q, S), q, Len(q), S)
  BY KeepPlaces
<1>2. PICK k : k = Keep(q, S)
  OBVIOUS
<1>3. /\ k \in Seq(S) /\ e \in [1 .. Len(k) -> 1 .. Len(q)]
      /\ \A i, j \in 1 .. Len(k) : i < j => e[i] < e[j]
      /\ \A i \in 1 .. Len(k) : k[i] = q[e[i]]
      /\ \A j \in 1 .. Len(q) : q[j] \in S => \E i \in 1 .. Len(k) : e[i] = j
  BY <1>1, <1>2 DEF Places
<1>4. /\ DOMAIN k = 1 .. Len(k) /\ DOMAIN q = 1 .. Len(q)
      /\ Len(k) \in Nat /\ Len(q) \in Nat
  BY <1>3
<1>5. \A i \in DOMAIN k : \E j \in DOMAIN q : k[i] = q[j]
  BY <1>3, <1>4
<1>6. \A j \in DOMAIN q : q[j] \in S => \E i \in DOMAIN k : k[i] = q[j]
  BY <1>3, <1>4
<1>7. k \in Seq(T \cap S)
  <2>1. \A i \in 1 .. Len(k) : k[i] \in T \cap S
    BY <1>3, <1>4
  <2>2. k = [i \in 1 .. Len(k) |-> k[i]]
    BY <1>3
  <2> QED BY <1>4, <2>1, <2>2, IsASeq
<1>8. Len(k) <= Len(q)
  <2> DEFINE G == {n \in Nat : n \in 1 .. Len(k) => e[n] >= n}
  <2>1. 0 \in G
    OBVIOUS
  <2>2. ASSUME NEW n \in Nat, n \in G PROVE n + 1 \in G
    <3>1. CASE n + 1 \in 1 .. Len(k) /\ n > 0
      <4>0. n \in 1 .. Len(k) /\ n < n + 1
        BY <1>4, <3>1
      <4>1. n \in 1 .. Len(k) /\ n < n + 1 /\ e[n] \in Nat /\ e[n + 1] \in Nat
        BY <1>3, <3>1, <4>0
      <4>2. e[n] < e[n + 1] /\ e[n] >= n
        BY <1>3, <2>2, <3>1, <4>1
      <4> QED BY <4>1, <4>2
    <3>2. CASE n = 0
      BY <1>3, <3>2
    <3> QED BY <3>1, <3>2
  <2> HIDE DEF G
  <2>3. \A n \in Nat : n \in G
    BY <2>1, <2>2, SetInduction
  <2>4. CASE Len(k) = 0
    BY <1>4, <2>4
  <2>5. CASE Len(k) > 0
    <3>1. Len(k) \in 1 .. Len(k) /\ Len(k) \in Nat
      BY <1>4, <2>5
    <3>2. e[Len(k)] >= Len(k) /\ e[Len(k)] \in 1 .. Len(q)
      BY <1>3, <2>3, <3>1 DEF G
    <3> QED BY <1>4, <3>1, <3>2
  <2> QED BY <1>4, <2>4, <2>5
<1> QED BY <1>2, <1>5, <1>6, <1>7, <1>8

\* No member comes twice where none came twice before.
LEMMA KeepOnce ==
    ASSUME NEW T, NEW q \in Seq(T), NEW S, \A i, j \in DOMAIN q : q[i] = q[j] => i = j
    PROVE  \A i, j \in DOMAIN Keep(q, S) : Keep(q, S)[i] = Keep(q, S)[j] => i = j
<1>1. PICK e : Places(e, Keep(q, S), q, Len(q), S)
  BY KeepPlaces
<1>2. PICK k : k = Keep(q, S)
  OBVIOUS
<1>3. /\ k \in Seq(S) /\ e \in [1 .. Len(k) -> 1 .. Len(q)]
      /\ \A i, j \in 1 .. Len(k) : i < j => e[i] < e[j]
      /\ \A i \in 1 .. Len(k) : k[i] = q[e[i]]
  BY <1>1, <1>2 DEF Places
<1>4. DOMAIN k = 1 .. Len(k) /\ DOMAIN q = 1 .. Len(q) /\ Len(k) \in Nat /\ Len(q) \in Nat
  BY <1>3
<1>5. ASSUME NEW i \in DOMAIN k, NEW j \in DOMAIN k, k[i] = k[j] PROVE i = j
  <2>1. e[i] = e[j]
    BY <1>3, <1>4, <1>5
  <2>2. e[i] \in Int /\ i \in Int /\ j \in Int
    BY <1>3, <1>4
  <2>3. ~(i < j) /\ ~(j < i)
    BY <1>3, <1>4, <2>1, <2>2
  <2> QED BY <2>2, <2>3
<1> QED BY <1>2, <1>5

\* What is kept begins with the first that is in the set.
LEMMA KeepFirst ==
    ASSUME NEW T, NEW q \in Seq(T), NEW S
    PROVE  /\ Keep(q, S) = <<>> <=> \A j \in DOMAIN q : q[j] \notin S
           /\ Keep(q, S) # <<>> =>
                \E j \in DOMAIN q : /\ Head(Keep(q, S)) = q[j] /\ q[j] \in S
                                    /\ \A i \in 1 .. j - 1 : q[i] \notin S
<1>1. PICK e : Places(e, Keep(q, S), q, Len(q), S)
  BY KeepPlaces
<1>2. PICK k : k = Keep(q, S)
  OBVIOUS
<1>3. /\ k \in Seq(S) /\ e \in [1 .. Len(k) -> 1 .. Len(q)]
      /\ \A i, j \in 1 .. Len(k) : i < j => e[i] < e[j]
      /\ \A i \in 1 .. Len(k) : k[i] = q[e[i]]
      /\ \A j \in 1 .. Len(q) : q[j] \in S => \E i \in 1 .. Len(k) : e[i] = j
  BY <1>1, <1>2 DEF Places
<1>4. /\ DOMAIN k = 1 .. Len(k) /\ DOMAIN q = 1 .. Len(q)
      /\ Len(k) \in Nat /\ Len(q) \in Nat
  BY <1>3
<1>5. k = <<>> <=> Len(k) = 0
  BY <1>3
<1>6. CASE Len(k) = 0
  BY <1>2, <1>3, <1>4, <1>5, <1>6
<1>7. CASE Len(k) # 0
  <2>1. 1 \in 1 .. Len(k) /\ Head(k) = k[1] /\ e[1] \in 1 .. Len(q) /\ k[1] = q[e[1]]
        /\ k[1] \in S
    BY <1>3, <1>4, <1>5, <1>7
  <2>2. ASSUME NEW i \in 1 .. e[1] - 1, q[i] \in S PROVE FALSE
    <3>1. i \in 1 .. Len(q) /\ i < e[1]
      BY <1>4, <2>1
    <3>2. PICK j \in 1 .. Len(k) : e[j] = i
      BY <1>3, <2>2, <3>1
    <3>3. j = 1 \/ 1 < j
      BY <3>2
    <3>4. 1 < j => e[1] < e[j]
      BY <1>3, <2>1, <3>2
    <3> QED BY <2>1, <3>1, <3>2, <3>3, <3>4
  <2>3. k # <<>>
    BY <1>5, <1>7
  <2> QED BY <1>2, <1>4, <2>1, <2>2, <2>3
<1> QED BY <1>6, <1>7

\* One more at the end is kept at the end, or not.
LEMMA KeepAppend ==
    ASSUME NEW T, NEW q \in Seq(T), NEW x \in T, NEW S
    PROVE  Keep(Append(q, x), S) = IF x \in S THEN Append(Keep(q, S), x) ELSE Keep(q, S)
<1> DEFINE n == Len(q)
           z == Append(q, x)
<1>1. n \in Nat /\ Len(z) = n + 1 /\ z[n + 1] = x /\ \A i \in 1 .. n : z[i] = q[i]
  OBVIOUS
<1> HIDE DEF z
<1>2. PICK g : Kept(g, q, S, n)
  BY <1>1, KeptExists
<1>3. PICK f : Kept(f, z, S, n + 1)
  BY <1>1, KeptExists
<1>4. \A i \in Nat : i <= n => f[i] = g[i]
  <2> DEFINE G == {i \in Nat : i <= n => f[i] = g[i]}
  <2>1. 0 \in G
    <3>1. f[0] = <<>> /\ g[0] = <<>>
      BY <1>1, <1>2, <1>3 DEF Kept
    <3> QED BY <3>1
  <2>2. ASSUME NEW i \in Nat, i \in G PROVE i + 1 \in G
    <3> SUFFICES ASSUME i + 1 <= n PROVE f[i + 1] = g[i + 1]
      OBVIOUS
    <3>1. i + 1 \in 1 .. n /\ i + 1 \in 1 .. n + 1 /\ (i + 1) - 1 = i /\ f[i] = g[i]
          /\ n + 1 \in Nat
      BY <1>1, <2>2
    <3>2. g[i + 1] = IF q[i + 1] \in S THEN Append(g[i], q[i + 1]) ELSE g[i]
      BY <1>1, <1>2, <3>1, KeptStep
    <3>3. f[i + 1] = IF z[i + 1] \in S THEN Append(f[i], z[i + 1]) ELSE f[i]
      BY <1>1, <1>3, <3>1, KeptStep
    <3> QED BY <1>1, <3>1, <3>2, <3>3
  <2> HIDE DEF G
  <2>3. \A i \in Nat : i \in G
    BY <2>1, <2>2, SetInduction
  <2> QED BY <2>3 DEF G
<1>5. f[n + 1] = IF x \in S THEN Append(g[n], x) ELSE g[n]
  <2>1. PICK j : j = n + 1
    OBVIOUS
  <2>2. j \in 0 .. n + 1 /\ j # 0 /\ j - 1 = n
    BY <1>1, <2>1
  <2>3. f[j] = IF z[j] \in S THEN Append(f[j - 1], z[j]) ELSE f[j - 1]
    BY <1>3, <2>2, Zenon DEF Kept
  <2> QED BY <1>1, <1>4, <2>1, <2>2, <2>3
<1>6. Keep(q, S) = g[n]
  BY <1>1, <1>2, KeepIsKept
<1>7. Keep(z, S) = f[n + 1]
  BY <1>1, <1>3, KeepIsKept
<1> QED BY <1>5, <1>6, <1>7 DEF z
=============================================================================
