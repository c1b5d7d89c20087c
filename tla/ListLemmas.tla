----------------------------- MODULE ListLemmas -----------------------------
(***************************************************************************)
(* Lists without repetitions: what adding at either end and removing the   *)
(* first do to the set of their elements; and induction, which every       *)
(* recursive function needs, over a set of numbers rather than over a      *)
(* predicate.                                                              *)
(***************************************************************************)
EXTENDS Integers, Sequences, FiniteSetTheorems, WellFoundedInduction, TLAPS

Elems(s) == {s[i] : i \in DOMAIN s}
Distinct(s) == \A i, j \in DOMAIN s : s[i] = s[j] => i = j

\* Adding an element that is not on the list.
LEMMA AppendLemma ==
    ASSUME NEW S, NEW s \in Seq(S), NEW x \in S, Distinct(s), x \notin Elems(s)
    PROVE  /\ Distinct(Append(s, x))
           /\ Elems(Append(s, x)) = Elems(s) \union {x}
<1>1. /\ DOMAIN Append(s, x) = 1 .. Len(s) + 1
      /\ DOMAIN s = 1 .. Len(s)
      /\ Len(s) \in Nat
      /\ \A i \in 1 .. Len(s) : Append(s, x)[i] = s[i]
      /\ Append(s, x)[Len(s) + 1] = x
  OBVIOUS
<1> QED
  BY <1>1 DEF Distinct, Elems

\* Adding an element at the front.
LEMMA PrependLemma ==
    ASSUME NEW S, NEW s \in Seq(S), NEW x \in S, Distinct(s), x \notin Elems(s)
    PROVE  /\ Distinct(<<x>> \o s)
           /\ Elems(<<x>> \o s) = Elems(s) \union {x}
<1> DEFINE t == <<x>> \o s
<1>1. /\ DOMAIN t = 1 .. Len(s) + 1
      /\ DOMAIN s = 1 .. Len(s)
      /\ Len(s) \in Nat
      /\ t[1] = x
      /\ \A i \in 2 .. Len(s) + 1 : t[i] = s[i - 1]
  OBVIOUS
<1>2. \A i \in 1 .. Len(s) : i + 1 \in 2 .. Len(s) + 1 /\ t[i + 1] = s[i]
  BY <1>1
<1> HIDE DEF t
<1>3. Distinct(t)
  <2> SUFFICES ASSUME NEW i \in 1 .. Len(s) + 1, NEW j \in 1 .. Len(s) + 1, t[i] = t[j]
               PROVE  i = j
    BY <1>1 DEF Distinct
  <2>1. CASE i = 1 /\ j # 1
    <3>1. j - 1 \in DOMAIN s /\ s[j - 1] = x
      BY <1>1, <2>1
    <3> QED
      BY <3>1 DEF Elems
  <2>2. CASE i # 1 /\ j = 1
    <3>1. i - 1 \in DOMAIN s /\ s[i - 1] = x
      BY <1>1, <2>2
    <3> QED
      BY <3>1 DEF Elems
  <2>3. CASE i # 1 /\ j # 1
    <3>1. i - 1 \in DOMAIN s /\ j - 1 \in DOMAIN s /\ s[i - 1] = s[j - 1]
      BY <1>1, <2>3
    <3>2. i - 1 = j - 1
      BY <3>1 DEF Distinct
    <3> QED
      BY <3>2
  <2> QED
    BY <2>1, <2>2, <2>3
<1>4. ASSUME NEW i \in DOMAIN t PROVE t[i] \in Elems(s) \union {x}
  <2>1. CASE i = 1
    BY <1>1, <2>1
  <2>2. CASE i # 1
    <3>1. i - 1 \in DOMAIN s /\ t[i] = s[i - 1]
      BY <1>1, <2>2
    <3> QED
      BY <3>1 DEF Elems
  <2> QED
    BY <2>1, <2>2
<1>5. x \in Elems(t)
  <2>1. 1 \in DOMAIN t
    BY <1>1
  <2> QED
    BY <1>1, <2>1 DEF Elems
<1>6. ASSUME NEW i \in DOMAIN s PROVE s[i] \in Elems(t)
  <2>1. i + 1 \in DOMAIN t /\ t[i + 1] = s[i]
    BY <1>1, <1>2
  <2> QED
    BY <2>1 DEF Elems
<1>7. Elems(t) = Elems(s) \union {x}
  BY <1>4, <1>5, <1>6 DEF Elems
<1> QED
  BY <1>3, <1>7 DEF t

\* Removing the first element.
LEMMA TailLemma ==
    ASSUME NEW S, NEW s \in Seq(S), s # <<>>, Distinct(s)
    PROVE  /\ Head(s) \in Elems(s)
           /\ Distinct(Tail(s))
           /\ Elems(Tail(s)) = Elems(s) \ {Head(s)}
<1>1. /\ DOMAIN s = 1 .. Len(s)
      /\ Len(s) \in Nat \ {0}
      /\ DOMAIN Tail(s) = 1 .. Len(s) - 1
      /\ \A i \in 1 .. Len(s) - 1 : Tail(s)[i] = s[i + 1]
      /\ Head(s) = s[1]
  OBVIOUS
<1>2. Head(s) \in Elems(s)
  BY <1>1 DEF Elems
<1>3. Distinct(Tail(s))
  <2> SUFFICES ASSUME NEW i \in 1 .. Len(s) - 1, NEW j \in 1 .. Len(s) - 1,
                      Tail(s)[i] = Tail(s)[j]
               PROVE  i = j
    BY <1>1 DEF Distinct
  <2>1. i + 1 \in DOMAIN s /\ j + 1 \in DOMAIN s /\ s[i + 1] = s[j + 1]
    BY <1>1
  <2> QED
    BY <2>1, <1>1 DEF Distinct
<1>4. ASSUME NEW i \in DOMAIN Tail(s) PROVE Tail(s)[i] \in Elems(s) \ {Head(s)}
  <2>1. i + 1 \in DOMAIN s /\ 1 \in DOMAIN s /\ i + 1 # 1 /\ Tail(s)[i] = s[i + 1]
    BY <1>1
  <2> QED
    BY <2>1, <1>1 DEF Distinct, Elems
<1>5. ASSUME NEW i \in DOMAIN s, s[i] # Head(s) PROVE s[i] \in Elems(Tail(s))
  <2>1. i - 1 \in DOMAIN Tail(s) /\ s[i] = Tail(s)[i - 1]
    BY <1>1, <1>5
  <2> QED
    BY <2>1 DEF Elems
<1> QED
  BY <1>2, <1>3, <1>4, <1>5 DEF Elems

LEMMA ElemsType == ASSUME NEW S, NEW s \in Seq(S) PROVE Elems(s) \subseteq S
  BY DEF Elems
\* The positions of r on one list.
ListAt(s, tag, r) == {<<tag, i>> : i \in {j \in DOMAIN s : s[j] = r}}

LEMMA ListPositions ==
    ASSUME NEW s, NEW tag, NEW r, Distinct(s)
    PROVE  IF r \in Elems(s) THEN \E x : ListAt(s, tag, r) = {x}
                             ELSE ListAt(s, tag, r) = {}
<1>1. CASE r \in Elems(s)
  <2>1. PICK k \in DOMAIN s : s[k] = r
    BY <1>1 DEF Elems
  <2>2. {j \in DOMAIN s : s[j] = r} = {k}
    BY <2>1 DEF Distinct
  <2>3. ListAt(s, tag, r) = {<<tag, k>>}
    BY <2>2 DEF ListAt
  <2> QED
    BY <1>1, <2>3
<1>2. CASE r \notin Elems(s)
  BY <1>2 DEF Elems, ListAt
<1> QED
  BY <1>1, <1>2

\* Two lists that share nothing, one after the other.
LEMMA ConcatLemma ==
    ASSUME NEW S, NEW s \in Seq(S), NEW t \in Seq(S), Distinct(s), Distinct(t),
           Elems(s) \cap Elems(t) = {}
    PROVE  /\ Distinct(s \o t)
           /\ Elems(s \o t) = Elems(s) \union Elems(t)
<1> DEFINE c == s \o t
           m == Len(s)
           n == Len(t)
<1>1. /\ m \in Nat /\ n \in Nat
      /\ DOMAIN s = 1 .. m /\ DOMAIN t = 1 .. n /\ DOMAIN c = 1 .. m + n
      /\ \A i \in 1 .. m + n : c[i] = IF i <= m THEN s[i] ELSE t[i - m]
  OBVIOUS
<1> HIDE DEF c, m, n
<1>2. \A i \in 1 .. m : i \in 1 .. m + n /\ c[i] = s[i]
  BY <1>1
<1>3. \A i \in 1 .. n : i + m \in 1 .. m + n /\ c[i + m] = t[i]
  BY <1>1
<1>4. ASSUME NEW i \in 1 .. m + n
      PROVE  \/ i \in 1 .. m /\ c[i] = s[i]
             \/ i - m \in 1 .. n /\ c[i] = t[i - m]
  BY <1>1
<1>5. Distinct(c)
  <2> SUFFICES ASSUME NEW i \in 1 .. m + n, NEW j \in 1 .. m + n, c[i] = c[j] PROVE i = j
    BY <1>1 DEF Distinct
  <2>1. CASE i \in 1 .. m /\ c[i] = s[i] /\ j \in 1 .. m /\ c[j] = s[j]
    BY <1>1, <2>1 DEF Distinct
  <2>2. CASE i - m \in 1 .. n /\ c[i] = t[i - m] /\ j - m \in 1 .. n /\ c[j] = t[j - m]
    <3>1. i - m = j - m
      BY <1>1, <2>2 DEF Distinct
    <3> QED
      BY <1>1, <3>1
  <2>3. CASE i \in 1 .. m /\ c[i] = s[i] /\ j - m \in 1 .. n /\ c[j] = t[j - m]
    BY <1>1, <2>3 DEF Elems
  <2>4. CASE i - m \in 1 .. n /\ c[i] = t[i - m] /\ j \in 1 .. m /\ c[j] = s[j]
    BY <1>1, <2>4 DEF Elems
  <2> QED
    BY <1>4, <2>1, <2>2, <2>3, <2>4
<1>6. Elems(c) \subseteq Elems(s) \union Elems(t)
  BY <1>1, <1>4 DEF Elems
<1>7. Elems(s) \subseteq Elems(c) /\ Elems(t) \subseteq Elems(c)
  BY <1>1, <1>2, <1>3 DEF Elems
<1> QED
  BY <1>5, <1>6, <1>7 DEF c

-----------------------------------------------------------------------------
(* Induction. *)

\* Every set of natural numbers that is not empty has a least one: the intervals
\* below its members are finite, and strict inclusion is well founded on those.
LEMMA LeastNat ==
  ASSUME NEW T \in SUBSET Nat, T # {}
  PROVE \E x \in T : \A y \in T : x <= y
<1> DEFINE B == {0 .. x - 1 : x \in T}
<1>1. B \subseteq FiniteSubsetsOf(Nat) /\ B # {}
  <2>1. ASSUME NEW x \in T PROVE 0 .. x - 1 \subseteq Nat /\ IsFiniteSet(0 .. x - 1)
    BY FS_Interval
  <2> QED
    BY <2>1 DEF FiniteSubsetsOf
<1>2. IsWellFoundedOn(StrictSubsetOrdering(Nat), FiniteSubsetsOf(Nat))
  BY FS_StrictSubsetOrderingWellFounded
<1>3. PICK b \in B : \A c \in B : <<c, b>> \notin StrictSubsetOrdering(Nat)
  BY <1>1, <1>2, WFMin
<1>4. PICK x \in T : b = 0 .. x - 1
  BY <1>3
<1>5. ASSUME NEW y \in T, y < x PROVE FALSE
  <2>1. 0 .. y - 1 \in B /\ 0 .. y - 1 \subseteq 0 .. x - 1 /\ y \in 0 .. x - 1
    BY <1>5
  <2>2. <<0 .. y - 1, b>> \in StrictSubsetOrdering(Nat)
    BY <1>4, <2>1 DEF StrictSubsetOrdering
  <2> QED
    BY <1>3, <2>1, <2>2
<1> QED
  BY <1>5

\* A set with 0 in it and the successor of each of its members has every number.
LEMMA SetInduction ==
  ASSUME NEW T \in SUBSET Nat, 0 \in T, \A n \in T : n + 1 \in T
  PROVE T = Nat
<1> SUFFICES ASSUME Nat \ T # {} PROVE FALSE
  OBVIOUS
<1>1. PICK x \in Nat \ T : \A y \in Nat \ T : x <= y
  <2>1. Nat \ T \in SUBSET Nat
    OBVIOUS
  <2> QED
    BY <2>1, LeastNat
<1>2. x # 0 /\ x - 1 \in Nat
  BY <1>1
<1>3. x - 1 \in T
  BY <1>1, <1>2
<1> QED
  BY <1>1, <1>2, <1>3

\* Induction up to a bound: the form in which the positions of a sequence need it.
LEMMA UpTo ==
  ASSUME NEW N \in Nat, NEW T, 0 \in T, \A n \in 1 .. N : n - 1 \in T => n \in T
  PROVE  0 .. N \subseteq T
<1> DEFINE U == {n \in Nat : n <= N => n \in T}
<1>1. 0 \in U /\ \A n \in U : n + 1 \in U
  <2>1. ASSUME NEW n \in U PROVE n + 1 \in U
    <3>1. n + 1 <= N => (n + 1) - 1 \in T /\ n + 1 \in 1 .. N
      OBVIOUS
    <3> QED
      BY <3>1
  <2> QED
    BY <2>1
<1>2. U = Nat
  <2>1. U \in SUBSET Nat
    OBVIOUS
  <2> HIDE DEF U
  <2> QED
    BY <1>1, <2>1, SetInduction
<1> QED
  BY <1>2

\* A sequence of values that starts in V and never steps out of it.
LEMMA StaysIn ==
  ASSUME NEW V, NEW N \in Nat, NEW f, f[0] \in V,
         \A n \in 1 .. N : f[n - 1] \in V => f[n] \in V
  PROVE  \A n \in 0 .. N : f[n] \in V
<1> DEFINE T == {n \in 0 .. N : f[n] \in V}
<1>1. 0 \in T
  OBVIOUS
<1>2. ASSUME NEW n \in 1 .. N, n - 1 \in T PROVE n \in T
  BY <1>2
<1>3. 0 .. N \subseteq T
  <2> HIDE DEF T
  <2> QED
    BY <1>1, <1>2, UpTo
<1> QED
  BY <1>3

\* A step on V for each position, and the function that takes them from b.
Steps(V, N) == [1 .. N -> [V -> V]]
Follows(f, b, F, N) == f[0] = b /\ \A n \in 1 .. N : f[n] = F[n][f[n - 1]]

\* A start value and a step for each position define a function on 0 .. N.
LEMMA Recursion ==
  ASSUME NEW V, NEW b \in V, NEW N \in Nat, NEW F \in Steps(V, N)
  PROVE  \E f \in [0 .. N -> V] : Follows(f, b, F, N)
<1> DEFINE Reaches(k, f) == f[0] = b /\ \A n \in 1 .. k : f[n] = F[n][f[n - 1]]
           T == {k \in 0 .. N : \E f \in [0 .. k -> V] : Reaches(k, f)}
<1>1. 0 \in T
  <2> DEFINE f == [n \in 0 .. 0 |-> b]
  <2>1. f \in [0 .. 0 -> V] /\ f[0] = b
    OBVIOUS
  <2>2. Reaches(0, f)
    BY <2>1
  <2> HIDE DEF f
  <2> QED
    BY <2>1, <2>2
<1>2. ASSUME NEW k \in 1 .. N, k - 1 \in T PROVE k \in T
  <2>1. PICK g \in [0 .. k - 1 -> V] : Reaches(k - 1, g)
    BY <1>2
  <2> DEFINE f == [n \in 0 .. k |-> IF n = k THEN F[k][g[k - 1]] ELSE g[n]]
  <2>2. k \in Nat \ {0} /\ F[k][g[k - 1]] \in V
    BY DEF Steps
  <2>3. f \in [0 .. k -> V]
    BY <2>2
  <2>4. f[0] = b
    BY <2>1, <2>2
  <2>5. \A n \in 1 .. k : f[n] = F[n][f[n - 1]]
    <3> SUFFICES ASSUME NEW n \in 1 .. k PROVE f[n] = F[n][f[n - 1]]
      OBVIOUS
    <3>1. n - 1 \in 0 .. k - 1 /\ f[n - 1] = g[n - 1]
      BY <2>2
    <3>2. CASE n = k
      <4>1. f[k] = F[k][g[k - 1]]
        BY <2>2
      <4>2. f[k - 1] = g[k - 1]
        BY <3>1, <3>2
      <4> HIDE DEF f
      <4> QED
        BY <2>2, <3>2, <4>1, <4>2
    <3>3. CASE n # k
      <4>1. n \in 1 .. k - 1 /\ f[n] = g[n]
        BY <2>2, <3>3
      <4> QED
        BY <2>1, <3>1, <4>1
    <3> QED
      BY <3>2, <3>3
  <2> HIDE DEF f
  <2> QED
    BY <2>3, <2>4, <2>5
<1>3. N \in T
  <2> HIDE DEF T
  <2> QED
    BY <1>1, <1>2, UpTo
<1> QED
  BY <1>3 DEF Follows

\* Of numbers that go by 1 .. N, some chosen ones have a greatest.
LEMMA GreatestOf ==
  ASSUME NEW N \in Nat, NEW f, NEW J \in SUBSET (1 .. N), J # {},
         \A n \in 1 .. N : f[n] \in Nat
  PROVE  \E i \in J : \A j \in J : f[j] <= f[i]
<1> DEFINE Top(n) == \E i \in J : i <= n /\ \A j \in J : j <= n => f[j] <= f[i]
           T == {n \in 0 .. N : (\E i \in J : i <= n) => Top(n)}
<1>1. 0 \in T
  OBVIOUS
<1>2. ASSUME NEW n \in 1 .. N, n - 1 \in T PROVE n \in T
  <2>1. n \in 0 .. N
    OBVIOUS
  <2>2. \A j \in J : j <= n <=> (j <= n - 1 \/ j = n)
    OBVIOUS
  <2>3. \A j \in J : f[j] \in Nat
    OBVIOUS
  <2>4. CASE n \notin J
    BY <1>2, <2>1, <2>2, <2>4
  <2>5. CASE n \in J /\ ~\E i \in J : i <= n - 1
    <3>1. \A j \in J : j <= n => j = n
      BY <2>2, <2>5
    <3>2. Top(n)
      BY <2>1, <2>3, <2>5, <3>1
    <3> QED
      BY <2>1, <3>2
  <2>6. CASE n \in J /\ \E i \in J : i <= n - 1
    <3>1. PICK i \in J : i <= n - 1 /\ \A j \in J : j <= n - 1 => f[j] <= f[i]
      BY <1>2, <2>6
    <3>2. CASE f[n] <= f[i]
      <4>1. i <= n /\ \A j \in J : j <= n => f[j] <= f[i]
        BY <2>2, <3>1, <3>2
      <4> QED
        BY <2>1, <4>1
    <3>3. CASE ~(f[n] <= f[i])
      <4>1. \A j \in J : j <= n - 1 => f[j] <= f[n]
        BY <2>3, <2>6, <3>1, <3>3
      <4>2. n <= n /\ \A j \in J : j <= n => f[j] <= f[n]
        BY <2>2, <2>3, <2>6, <4>1
      <4> QED
        BY <2>1, <2>6, <4>2
    <3> QED
      BY <3>2, <3>3
  <2> QED
    BY <2>4, <2>5, <2>6
<1>3. N \in T
  <2> HIDE DEF T
  <2>1. 0 .. N \subseteq T /\ N \in 0 .. N
    BY <1>1, <1>2, UpTo
  <2> QED
    BY <2>1
<1>4. \A j \in J : j <= N
  OBVIOUS
<1> QED
  BY <1>3, <1>4
=============================================================================
