------------------------------ MODULE Induction ------------------------------
(***************************************************************************)
(* Induction on the naturals for the proofs of this project, and what it   *)
(* gives: a function defined by recursion on a natural number exists.  The *)
(* library's own theorems on induction take a predicate as a parameter;    *)
(* these take a set, and follow from the well-foundedness of < on Nat.     *)
(***************************************************************************)
EXTENDS Integers, TLAPS, WellFoundedInduction

(* A set of naturals has a least element.                                  *)
LEMMA LeastNatural ==
  ASSUME NEW T, T \subseteq Nat, T # {}
  PROVE  \E x \in T : \A y \in T : x <= y
<1> DEFINE R == {ss \in Nat \X Nat : ss[1] < ss[2]}
<1>1. IsWellFoundedOn(R, Nat)
  BY NatLessThanWellFounded, Zenon DEF OpToRel
<1> HIDE DEF R
<1>2. PICK x \in T : \A y \in T : ~(<<y, x>> \in R)
  BY <1>1, WFMin
<1>3. ASSUME NEW y \in T PROVE x <= y
  <2>1. x \in Nat /\ y \in Nat
    OBVIOUS
  <2>2. ~(y < x)
    BY <1>2, <2>1 DEF R
  <2>3. QED
    BY <2>1, <2>2
<1>4. QED
  BY <1>3

(* Induction: a set that has 0, and with n also n + 1, has every natural.  *)
LEMMA SetInduction ==
  ASSUME NEW S, 0 \in S, \A n \in Nat : n \in S => n + 1 \in S
  PROVE  \A n \in Nat : n \in S
<1> SUFFICES ASSUME NEW m \in Nat, m \notin S PROVE FALSE
  OBVIOUS
<1>1. PICK x \in Nat \ S : \A y \in Nat \ S : x <= y
  BY LeastNatural
<1>2. x # 0 /\ x - 1 \in Nat
  OBVIOUS
<1>3. x - 1 \in S
  BY <1>1, <1>2
<1>4. QED
  BY <1>2, <1>3

(* Recursion: what starts as r and goes on by F is a function on Nat.      *)
LEMMA RecursionExists ==
  ASSUME NEW U, NEW r \in U, NEW F \in [U -> U]
  PROVE  \E f \in [Nat -> U] : f[0] = r /\ \A n \in Nat : f[n + 1] = F[f[n]]
<1> DEFINE Start(n) == {g \in [0 .. n -> U] :
                          g[0] = r /\ \A i \in 0 .. n - 1 : g[i + 1] = F[g[i]]}
<1>1. \A n \in Nat : Start(n) # {}
  <2> DEFINE S == {n \in Nat : Start(n) # {}}
  <2>1. 0 \in S
    <3>1. [i \in 0 .. 0 |-> r] \in Start(0)
      OBVIOUS
    <3>2. QED
      BY <3>1
  <2>2. ASSUME NEW n \in S PROVE n + 1 \in S
    <3>1. PICK g \in Start(n) : TRUE
      OBVIOUS
    <3> DEFINE h == [i \in 0 .. n + 1 |-> IF i = n + 1 THEN F[g[n]] ELSE g[i]]
    <3>2. n \in Nat /\ n \in 0 .. n /\ g \in [0 .. n -> U]
      OBVIOUS
    <3>3. h \in [0 .. n + 1 -> U] /\ h[0] = r
      BY <3>1, <3>2
    <3>4. ASSUME NEW i \in 0 .. n PROVE h[i + 1] = F[h[i]]
      <4>1. CASE i = n
        BY <3>2, <4>1
      <4>2. CASE i # n
        BY <3>1, <3>2, <4>2
      <4>3. QED
        BY <4>1, <4>2
    <3>5. n + 1 - 1 = n /\ n + 1 \in Nat
      BY <3>2
    <3>6. h \in Start(n + 1)
      BY <3>3, <3>4, <3>5
    <3>7. QED
      BY <3>5, <3>6
  <2>3. QED
    <3> HIDE DEF Start
    <3>1. \A n \in Nat : n \in S => n + 1 \in S
      BY <2>2
    <3>2. \A n \in Nat : n \in S
      BY <2>1, <3>1, SetInduction
    <3>3. QED
      BY <3>2
<1>2. ASSUME NEW n \in Nat, NEW g \in Start(n), NEW h \in Start(n + 1)
      PROVE  g[n] = h[n]
  <2> DEFINE S == {i \in Nat : i <= n => g[i] = h[i]}
  <2>1. 0 \in S
    OBVIOUS
  <2>2. ASSUME NEW i \in S PROVE i + 1 \in S
    <3>1. CASE i + 1 <= n
      <4>1. i \in Nat /\ i \in 0 .. n - 1 /\ i \in 0 .. n + 1 - 1 /\ i <= n
        BY <3>1
      <4>2. g[i] = h[i] /\ g[i + 1] = F[g[i]] /\ h[i + 1] = F[h[i]]
        BY <4>1
      <4>3. QED
        BY <4>1, <4>2
    <3>2. QED
      BY <3>1
  <2> HIDE DEF Start
  <2>3. \A i \in Nat : i \in S => i + 1 \in S
    BY <2>2
  <2>4. \A i \in Nat : i \in S
    BY <2>1, <2>3, SetInduction
  <2>5. QED
    BY <2>4
<1> DEFINE part == [n \in Nat |-> CHOOSE g \in Start(n) : TRUE]
<1>3. \A n \in Nat : part[n] \in Start(n)
  BY <1>1
<1> HIDE DEF part
<1> DEFINE f == [n \in Nat |-> part[n][n]]
<1>4. f \in [Nat -> U]
  <2>1. ASSUME NEW n \in Nat PROVE part[n][n] \in U
    <3>1. part[n] \in [0 .. n -> U] /\ n \in 0 .. n
      BY <1>3
    <3>2. QED
      BY <3>1
  <2>2. QED
    BY <2>1
<1>5. f[0] = r
  BY <1>3
<1>6. ASSUME NEW n \in Nat PROVE f[n + 1] = F[f[n]]
  <2>1. part[n] \in Start(n) /\ part[n + 1] \in Start(n + 1) /\ n + 1 \in Nat
    BY <1>3
  <2>2. part[n + 1][n + 1] = F[part[n + 1][n]]
    <3>1. n \in 0 .. (n + 1) - 1
      OBVIOUS
    <3>2. QED
      BY <2>1, <3>1
  <2>3. part[n][n] = part[n + 1][n]
    <3> HIDE DEF Start
    <3>1. QED
      BY <1>2, <2>1
  <2>4. QED
    BY <2>1, <2>2, <2>3
<1>7. QED
  BY <1>4, <1>5, <1>6

(* The same for a definition that goes up to a limit, with the equation in *)
(* the form of a recursive definition.                                     *)
LEMMA BoundedRecursion ==
  ASSUME NEW U, NEW r \in U, NEW F \in [U -> U], NEW limit \in Nat
  PROVE  \E f \in [0 .. limit -> U] :
           f = [n \in 0 .. limit |-> IF n = 0 THEN r ELSE F[f[n - 1]]]
<1>1. PICK g \in [Nat -> U] : g[0] = r /\ \A n \in Nat : g[n + 1] = F[g[n]]
  BY RecursionExists
<1> DEFINE f == [n \in 0 .. limit |-> g[n]]
<1>2. ASSUME NEW n \in 0 .. limit PROVE f[n] = IF n = 0 THEN r ELSE F[f[n - 1]]
  <2>1. CASE n = 0
    BY <1>1, <2>1
  <2>2. CASE n # 0
    <3>1. n - 1 \in Nat /\ (n - 1) + 1 = n /\ n - 1 \in 0 .. limit
      BY <2>2
    <3>2. QED
      BY <1>1, <2>2, <3>1
  <2>3. QED
    BY <2>1, <2>2
<1>3. f \in [0 .. limit -> U]
  BY <1>1
<1>4. QED
  BY <1>2, <1>3

(* Induction on a rank: what holds of an element when it holds of all those*)
(* of lower rank holds of all.                                             *)
LEMMA RankedInduction ==
  ASSUME NEW X, NEW rank \in [X -> Nat], NEW S,
         \A x \in X : (\A y \in X : rank[y] < rank[x] => y \in S) => x \in S
  PROVE  X \subseteq S
<1> SUFFICES ASSUME NEW z \in X \ S PROVE FALSE
  OBVIOUS
<1> DEFINE Ranks == {rank[x] : x \in X \ S}
<1>1. PICK n \in Ranks : \A m \in Ranks : n <= m
  <2>1. Ranks \subseteq Nat /\ Ranks # {}
    OBVIOUS
  <2>2. QED
    BY <2>1, LeastNatural
<1>2. PICK x \in X \ S : rank[x] = n
  BY <1>1
<1>3. ASSUME NEW y \in X, rank[y] < rank[x] PROVE y \in S
  <2> SUFFICES ASSUME y \notin S PROVE FALSE
    OBVIOUS
  <2>1. rank[x] <= rank[y]
    BY <1>1, <1>2
  <2>2. rank[x] \in Nat /\ rank[y] \in Nat
    OBVIOUS
  <2>3. QED
    BY <1>3, <2>1, <2>2
<1>4. QED
  BY <1>2, <1>3

(* Recursion on a rank: a definition that refers to itself for lower ranks *)
(* only is that of a function.                                             *)
Descends(G, W, X, rank) ==
  \A f, g \in W : \A x \in X :
    (\A y \in X : rank[y] < rank[x] => f[y] = g[y]) => G[f][x] = G[g][x]

HasFixedPoint(G, W) == \E h \in W : h = G[h]

LEMMA RankedRecursion ==
  ASSUME NEW X, NEW rank, rank \in [X -> Nat], NEW V, NEW W, W = [X -> V],
         NEW G, G \in [W -> W], NEW start, start \in W,
         Descends(G, W, X, rank)
  PROVE  HasFixedPoint(G, W)
<1>1. PICK g \in [Nat -> W] : g[0] = start /\ \A n \in Nat : g[n + 1] = G[g[n]]
  <2>1. start \in W /\ G \in [W -> W]
    OBVIOUS
  <2>2. QED
    BY ONLY <2>1, RecursionExists
<1>2. \A n \in Nat : g[n] \in W
  BY <1>1
<1> DEFINE Settled(n) == \A m \in Nat, x \in X : rank[x] < n /\ n <= m => g[m][x] = g[n][x]
           S == {n \in Nat : Settled(n)}
<1>3. 0 \in S
  <2>1. ASSUME NEW x \in X PROVE ~(rank[x] < 0)
    OBVIOUS
  <2>2. QED
    BY <2>1
<1>4. ASSUME NEW n \in Nat, n \in S PROVE n + 1 \in S
  <2>1. ASSUME NEW m \in Nat, NEW x \in X, rank[x] < n + 1, n + 1 <= m
        PROVE  g[m][x] = g[n + 1][x]
    <3>1. m - 1 \in Nat /\ (m - 1) + 1 = m /\ n <= m - 1
      BY <2>1
    <3>2. g[m] = G[g[m - 1]] /\ g[n + 1] = G[g[n]]
      BY <1>1, <3>1
    <3>3. ASSUME NEW y \in X, rank[y] < rank[x] PROVE g[m - 1][y] = g[n][y]
      <4>1. rank[y] \in Nat /\ rank[x] \in Nat
        OBVIOUS
      <4>2. rank[y] < n
        BY <2>1, <3>3, <4>1
      <4>3. Settled(n)
        BY <1>4
      <4>4. QED
        BY <3>1, <4>2, <4>3
    <3>4. g[m - 1] \in W /\ g[n] \in W
      BY <1>2, <3>1
    <3>5. G[g[m - 1]][x] = G[g[n]][x]
      BY <3>3, <3>4 DEF Descends
    <3>6. QED
      BY <3>2, <3>5
  <2>2. QED
    BY <2>1
<1>5. \A n \in Nat : Settled(n)
  <2>1. \A n \in Nat : n \in S => n + 1 \in S
    BY <1>4
  <2> HIDE DEF S
  <2>2. \A n \in Nat : n \in S
    BY <1>3, <2>1, SetInduction
  <2>3. QED
    BY <2>2 DEF S
<1> DEFINE h == [x \in X |-> g[rank[x] + 1][x]]
<1>6. h \in W
  <2>1. ASSUME NEW x \in X PROVE g[rank[x] + 1][x] \in V
    <3>1. rank[x] + 1 \in Nat
      OBVIOUS
    <3>2. g[rank[x] + 1] \in [X -> V]
      BY <1>2, <3>1
    <3>3. QED
      BY <3>2
  <2>2. QED
    BY <2>1
<1>7. ASSUME NEW x \in X PROVE h[x] = G[h][x]
  <2>1. rank[x] \in Nat /\ h[x] = G[g[rank[x]]][x]
    BY <1>1
  <2>2. ASSUME NEW y \in X, rank[y] < rank[x] PROVE h[y] = g[rank[x]][y]
    <3>1. rank[y] \in Nat /\ rank[y] + 1 \in Nat /\ rank[y] < rank[y] + 1 /\ rank[y] + 1 <= rank[x]
      BY <2>1, <2>2
    <3>2. Settled(rank[y] + 1)
      BY <1>5, <3>1
    <3>3. g[rank[x]][y] = g[rank[y] + 1][y]
      BY <2>1, <3>1, <3>2
    <3>4. QED
      BY <3>3
  <2>3. g[rank[x]] \in W
    BY <1>2, <2>1
  <2> HIDE DEF h, Settled
  <2>4. G[h][x] = G[g[rank[x]]][x]
    BY <1>6, <2>2, <2>3 DEF Descends
  <2>5. QED
    BY <2>1, <2>4
<1>8. G[h] \in W
  BY <1>6
<1> HIDE DEF h
<1>9. h = G[h]
  BY <1>6, <1>7, <1>8
<1>10. QED
  BY <1>6, <1>9 DEF HasFixedPoint
=============================================================================
