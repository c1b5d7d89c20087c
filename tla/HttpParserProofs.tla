-------------------------- MODULE HttpParserProofs --------------------------
(***************************************************************************)
(* Proofs about the HTTP parsers, for messages of any number of fields and *)
(* chunks, cut anywhere.                                                   *)
(***************************************************************************)
EXTENDS HttpParser, SequenceTheorems, ListLemmas, TLAPS

-----------------------------------------------------------------------------
(* Sequences one after another. *)

\* Where the elements of two sequences are, one after the other.
LEMMA JoinLemma ==
  ASSUME NEW S, NEW s \in Seq(S), NEW t \in Seq(S), NEW c, c = s \o t
  PROVE  /\ c \in Seq(S) /\ Len(s) \in Nat /\ Len(t) \in Nat
         /\ Len(c) = Len(s) + Len(t)
         /\ \A i \in 1 .. Len(s) : c[i] = s[i]
         /\ \A i \in 1 .. Len(t) : c[Len(s) + i] = t[i]
<1> DEFINE m == Len(s)
           n == Len(t)
<1>1. /\ c \in Seq(S) /\ Len(c) = m + n
      /\ \A i \in 1 .. m + n : c[i] = IF i <= m THEN s[i] ELSE t[i - m]
  BY ConcatProperties
<1>2. m \in Nat /\ n \in Nat
  BY LenProperties
<1> HIDE DEF m, n
<1>3. \A i \in 1 .. m : i \in 1 .. m + n /\ i <= m
  BY <1>2
<1>4. \A i \in 1 .. n : m + i \in 1 .. m + n /\ ~(m + i <= m) /\ (m + i) - m = i
  BY <1>2
<1> QED
  BY <1>1, <1>2, <1>3, <1>4 DEF m, n

\* The same as one fact.
Joined(c, s, t) ==
  /\ \A i \in 1 .. Len(s) : c[i] = s[i]
  /\ \A i \in 1 .. Len(t) : c[Len(s) + i] = t[i]

\* Two sequences in a row hold both.
LEMMA JoinedLemma ==
  ASSUME NEW S, NEW s \in Seq(S), NEW t \in Seq(S)
  PROVE  Joined(s \o t, s, t)
<1> DEFINE c == s \o t
<1>1. c = s \o t
  OBVIOUS
<1> HIDE DEF c
<1>2. /\ \A i \in 1 .. Len(s) : c[i] = s[i]
      /\ \A i \in 1 .. Len(t) : c[Len(s) + i] = t[i]
  BY <1>1, JoinLemma
<1> QED
  BY <1>2 DEF Joined, c

\* The first n of some sequences, one after another.
LEMMA ConcatsLemma ==
  ASSUME NEW S, NEW seqs \in Seq(Seq(S))
  PROVE  /\ Len(seqs) \in Nat
         /\ Concats(seqs)[0] = <<>>
         /\ \A n \in 1 .. Len(seqs) : /\ seqs[n] \in Seq(S)
                                      /\ Concats(seqs)[n] = Concats(seqs)[n - 1] \o seqs[n]
         /\ \A n \in 0 .. Len(seqs) : Concats(seqs)[n] \in Seq(S)
<1> DEFINE V == Seq(S)
           N == Len(seqs)
           start == <<>>
           cat(a, b) == a \o b
           F == [n \in 1 .. N |-> [v \in V |-> cat(v, seqs[n])]]
           Rhs(f) == [n \in 0 .. N |-> IF n = 0 THEN start ELSE cat(f[n - 1], seqs[n])]
           w == Concats(seqs)
<1>1. N \in Nat /\ start \in V /\ \A n \in 1 .. N : seqs[n] \in V
  BY ElementOfSeq
<1>2. \A v \in V, s \in V : cat(v, s) \in V
  BY ConcatProperties
<1>3. w = CHOOSE g : g = Rhs(g)
  BY DEF Concats
<1> HIDE DEF V, N, w, cat, start
<1>4. F \in Steps(V, N)
  BY <1>1, <1>2 DEF Steps
<1>5. PICK f \in [0 .. N -> V] : Follows(f, start, F, N)
  <2> HIDE DEF F
  <2> QED
    BY <1>1, <1>4, Recursion
<1>6. f = Rhs(f)
  <2>1. ASSUME NEW n \in 1 .. N PROVE n - 1 \in 0 .. N /\ f[n] = cat(f[n - 1], seqs[n])
    <3>1. n \in Nat /\ n # 0 /\ n - 1 \in 0 .. N /\ f[n - 1] \in V
      BY <1>1
    <3>2. F[n][f[n - 1]] = cat(f[n - 1], seqs[n])
      BY <3>1
    <3> HIDE DEF F
    <3> QED
      BY <1>5, <3>1, <3>2 DEF Follows
  <2> QED
    BY <1>1, <1>5, <2>1 DEF Follows
<1>7. w = Rhs(w)
  BY <1>3, <1>6
<1>8. w[0] = start /\ \A n \in 1 .. N : w[n] = cat(w[n - 1], seqs[n])
  BY <1>1, <1>7
<1>9. \A n \in 0 .. N : w[n] \in V
  <2>1. w[0] \in V /\ \A n \in 1 .. N : w[n - 1] \in V => w[n] \in V
    BY <1>1, <1>2, <1>8
  <2> QED
    BY <1>1, <2>1, StaysIn
<1> QED
  BY <1>1, <1>8, <1>9 DEF V, N, w, cat, start

\* How far the first n of them reach.
EndOf(seqs, n) == Len(Concats(seqs)[n])

\* Each begins where the one before it ends.
LEMMA EndOfLemma ==
  ASSUME NEW S, NEW seqs \in Seq(Seq(S))
  PROVE  /\ Len(seqs) \in Nat
         /\ EndOf(seqs, 0) = 0
         /\ \A n \in 0 .. Len(seqs) : EndOf(seqs, n) \in Nat
         /\ \A n \in 1 .. Len(seqs) : /\ seqs[n] \in Seq(S) /\ Len(seqs[n]) \in Nat
                                      /\ EndOf(seqs, n) = EndOf(seqs, n - 1) + Len(seqs[n])
<1>1. /\ Len(seqs) \in Nat /\ Concats(seqs)[0] = <<>>
      /\ \A n \in 1 .. Len(seqs) : /\ seqs[n] \in Seq(S)
                                   /\ Concats(seqs)[n] = Concats(seqs)[n - 1] \o seqs[n]
      /\ \A n \in 0 .. Len(seqs) : Concats(seqs)[n] \in Seq(S)
  BY ConcatsLemma
<1>2. ASSUME NEW n \in 1 .. Len(seqs)
      PROVE  EndOf(seqs, n) = EndOf(seqs, n - 1) + Len(seqs[n])
  <2> DEFINE a == Concats(seqs)[n - 1]
             b == seqs[n]
  <2>1. n - 1 \in 0 .. Len(seqs)
    BY <1>1
  <2>2. a \in Seq(S) /\ b \in Seq(S) /\ Concats(seqs)[n] = a \o b
    BY <1>1, <2>1
  <2> HIDE DEF a, b
  <2>3. Len(a \o b) = Len(a) + Len(b)
    BY <2>2, ConcatProperties
  <2> QED
    BY <2>2, <2>3 DEF EndOf, a, b
<1> QED
  BY <1>1, <1>2, LenProperties DEF EndOf

\* The ends do not decrease.
LEMMA EndsGrow ==
  ASSUME NEW S, NEW seqs \in Seq(Seq(S)), NEW m \in 0 .. Len(seqs), NEW n \in 0 .. Len(seqs),
         m <= n
  PROVE  EndOf(seqs, m) <= EndOf(seqs, n)
<1> DEFINE N == Len(seqs)
           e == [k \in 0 .. N |-> EndOf(seqs, k)]
           T == {k \in 0 .. N : m <= k => e[m] <= e[k]}
<1>1. /\ N \in Nat /\ \A k \in 0 .. N : e[k] \in Nat /\ e[k] = EndOf(seqs, k)
      /\ \A k \in 1 .. N : e[k] >= e[k - 1]
  <2>1. /\ N \in Nat /\ \A k \in 0 .. N : EndOf(seqs, k) \in Nat
        /\ \A k \in 1 .. N : Len(seqs[k]) \in Nat
                             /\ EndOf(seqs, k) = EndOf(seqs, k - 1) + Len(seqs[k])
    BY EndOfLemma
  <2> HIDE DEF N
  <2>2. ASSUME NEW k \in 1 .. N PROVE e[k] >= e[k - 1]
    <3>1. k \in 0 .. N /\ k - 1 \in 0 .. N
      BY <2>1
    <3>2. e[k] = EndOf(seqs, k) /\ e[k - 1] = EndOf(seqs, k - 1)
      BY <3>1
    <3> HIDE DEF e
    <3> QED
      BY <2>1, <3>1, <3>2, SMTT(20)
  <2> QED
    BY <2>1, <2>2
<1>2. m \in 0 .. N /\ n \in 0 .. N
  OBVIOUS
<1> HIDE DEF N, e
<1>3. 0 \in T
  BY <1>1, <1>2
<1>4. ASSUME NEW k \in 1 .. N, k - 1 \in T PROVE k \in T
  <2>1. k \in 0 .. N /\ k - 1 \in 0 .. N
    BY <1>1
  <2>2. CASE m <= k - 1
    <3>1. e[m] <= e[k - 1] /\ e[k - 1] <= e[k]
      BY <1>1, <1>4, <2>2
    <3> QED
      BY <1>1, <1>2, <2>1, <3>1
  <2>3. CASE ~(m <= k - 1)
    <3>1. m <= k => m = k
      BY <1>1, <1>2, <2>3
    <3> QED
      BY <1>1, <2>1, <3>1
  <2> QED
    BY <2>2, <2>3
<1>5. 0 .. N \subseteq T
  <2> HIDE DEF T
  <2> QED
    BY <1>1, <1>3, <1>4, UpTo
<1> QED
  BY <1>1, <1>2, <1>5

\* Where the characters of one of them are.
LEMMA ConcatsAt ==
  ASSUME NEW S, NEW seqs \in Seq(Seq(S)), NEW n \in 1 .. Len(seqs),
         NEW m \in n .. Len(seqs), NEW i \in 1 .. Len(seqs[n])
  PROVE  Concats(seqs)[m][EndOf(seqs, n - 1) + i] = seqs[n][i]
<1> DEFINE N == Len(seqs)
           at == EndOf(seqs, n - 1) + i
           x == seqs[n][i]
           T == {k \in 0 .. N : n <= k => Concats(seqs)[k][at] = x}
<1>1. /\ N \in Nat /\ n \in 1 .. N /\ m \in n .. N
      /\ \A k \in 1 .. N : /\ seqs[k] \in Seq(S)
                           /\ Concats(seqs)[k] = Concats(seqs)[k - 1] \o seqs[k]
      /\ \A k \in 0 .. N : Concats(seqs)[k] \in Seq(S)
  BY ConcatsLemma
<1>2. /\ \A k \in 0 .. N : EndOf(seqs, k) \in Nat
      /\ \A k \in 1 .. N : /\ Len(seqs[k]) \in Nat
                           /\ EndOf(seqs, k) = EndOf(seqs, k - 1) + Len(seqs[k])
  BY EndOfLemma
<1>3. n - 1 \in 0 .. N /\ i \in 1 .. Len(seqs[n]) /\ n \in 0 .. N
  BY <1>1
<1>4. 0 \in T
  BY <1>1
<1>5. ASSUME NEW k \in 1 .. N, k - 1 \in T PROVE k \in T
  <2>1. k \in 0 .. N /\ k - 1 \in 0 .. N
    BY <1>1
  <2> DEFINE a == Concats(seqs)[k - 1]
             b == seqs[k]
             c == Concats(seqs)[k]
             A == EndOf(seqs, k - 1)
             B == EndOf(seqs, n - 1)
  <2>2. a \in Seq(S) /\ b \in Seq(S) /\ c = a \o b /\ Len(a) = A
    BY <1>1, <2>1 DEF EndOf
  <2>3. A \in Nat /\ B \in Nat
    BY <1>2, <1>3, <2>1
  <2> HIDE DEF a, b, c, A
  <2>4. /\ \A j \in 1 .. A : c[j] = a[j]
        /\ \A j \in 1 .. Len(b) : c[A + j] = b[j]
    <3>1. a \in Seq(S) /\ b \in Seq(S) /\ c = a \o b
      BY <2>2
    <3>2. Joined(a \o b, a, b)
      BY <3>1, JoinedLemma
    <3>3. Joined(c, a, b)
      BY <3>1, <3>2, Zenon
    <3> QED
      BY <2>2, <3>3 DEF Joined
  <2>5. CASE k = n
    <3>1. at = A + i /\ i \in 1 .. Len(b)
      BY <1>3, <2>5 DEF b, A
    <3>2. c[at] = x
      BY <2>4, <2>5, <3>1 DEF b
    <3> QED
      BY <2>1, <3>2 DEF c
  <2>6. CASE n < k
    <3>1. n <= k - 1
      BY <1>1, <2>1, <2>6
    <3>2. EndOf(seqs, n) <= A
      BY <1>3, <2>1, <3>1, EndsGrow DEF A
    <3>3. at \in 1 .. A
      <4>1. EndOf(seqs, n) = B + Len(seqs[n]) /\ Len(seqs[n]) \in Nat
        BY <1>1, <1>2
      <4> HIDE DEF B
      <4>2. B + i \in 1 .. A
        BY <1>3, <2>3, <3>2, <4>1
      <4> QED
        BY <4>2 DEF B
    <3>4. a[at] = x
      BY <1>5, <3>1 DEF a
    <3> QED
      BY <2>1, <2>4, <3>3, <3>4 DEF c
  <2>7. CASE k < n
    BY <1>1, <2>1, <2>7
  <2> QED
    BY <1>1, <2>5, <2>6, <2>7
<1> HIDE DEF N, at, x
<1>6. 0 .. N \subseteq T
  <2> HIDE DEF T
  <2> QED
    BY <1>1, <1>4, <1>5, UpTo
<1>7. m \in T
  BY <1>1, <1>6
<1> QED
  BY <1>1, <1>7 DEF at, x

\* Of two lists of sequences that begin alike, so do the texts.
LEMMA ConcatsAlike ==
  ASSUME NEW S, NEW s \in Seq(Seq(S)), NEW t \in Seq(Seq(S)), Len(t) <= Len(s),
         \A k \in 1 .. Len(t) : t[k] = s[k]
  PROVE  \A n \in 0 .. Len(t) : Concats(t)[n] = Concats(s)[n]
<1> DEFINE T == {n \in 0 .. Len(t) : Concats(t)[n] = Concats(s)[n]}
<1>1. /\ Len(t) \in Nat /\ Concats(t)[0] = <<>> /\ Len(s) \in Nat /\ Concats(s)[0] = <<>>
      /\ \A n \in 1 .. Len(t) : Concats(t)[n] = Concats(t)[n - 1] \o t[n]
      /\ \A n \in 1 .. Len(s) : Concats(s)[n] = Concats(s)[n - 1] \o s[n]
  BY ConcatsLemma
<1>2. 0 \in T
  BY <1>1
<1>3. ASSUME NEW n \in 1 .. Len(t), n - 1 \in T PROVE n \in T
  <2>1. n \in 0 .. Len(t) /\ n \in 1 .. Len(s)
    BY <1>1
  <2>2. Concats(t)[n] = Concats(s)[n]
    BY <1>1, <1>3, <2>1
  <2> QED
    BY <2>1, <2>2
<1>4. 0 .. Len(t) \subseteq T
  <2> HIDE DEF T
  <2> QED
    BY <1>1, <1>2, <1>3, UpTo
<1> QED
  BY <1>4
-----------------------------------------------------------------------------
(* Chunks. *)

\* The value of a digit.
LEMMA DigitLemma ==
  /\ DOMAIN Digit = {"0", "1", "2"}
  /\ Digit["0"] = 0 /\ Digit["1"] = 1 /\ Digit["2"] = 2
  /\ \A c \in DOMAIN Digit : Digit[c] \in Nat
<1>1. DOMAIN Digit = {"0", "1", "2"}
  BY DEF Digit
<1>2. Digit["0"] = 0 /\ Digit["1"] = 1 /\ Digit["2"] = 2
  BY DEF Digit
<1> QED
  BY <1>1, <1>2

\* str_parse_hex, digit by digit from the right.
LEMMA HexesLemma ==
  ASSUME NEW d \in Seq(DOMAIN Digit)
  PROVE  /\ Len(d) \in Nat
         /\ Hexes(d)[0] = 0
         /\ \A n \in 1 .. Len(d) : Hexes(d)[n] = Digit[d[Len(d) + 1 - n]] + 16 * Hexes(d)[n - 1]
         /\ \A n \in 0 .. Len(d) : Hexes(d)[n] \in Nat
<1> DEFINE V == Nat
           N == Len(d)
           add(v, n) == Digit[d[N + 1 - n]] + 16 * v
           F == [n \in 1 .. N |-> [v \in V |-> add(v, n)]]
           Rhs(f) == [n \in 0 .. N |-> IF n = 0 THEN 0 ELSE add(f[n - 1], n)]
           w == Hexes(d)
<1>1. N \in Nat /\ 0 \in V
  OBVIOUS
<1>2. \A v \in V, n \in 1 .. N : add(v, n) \in V
  <2> TAKE v \in V, n \in 1 .. N
  <2>1. N + 1 - n \in 1 .. N
    BY <1>1
  <2>2. d[N + 1 - n] \in DOMAIN Digit
    BY <2>1, ElementOfSeq
  <2>3. Digit[d[N + 1 - n]] \in Nat
    BY <2>2, DigitLemma
  <2> QED
    BY <2>3
<1>3. w = CHOOSE g : g = Rhs(g)
  BY DEF Hexes
<1> HIDE DEF V, N, w, add
<1>4. F \in Steps(V, N)
  BY <1>1, <1>2 DEF Steps
<1>5. PICK f \in [0 .. N -> V] : Follows(f, 0, F, N)
  <2> HIDE DEF F
  <2> QED
    BY <1>1, <1>4, Recursion
<1>6. f = Rhs(f)
  <2>1. ASSUME NEW n \in 1 .. N PROVE n - 1 \in 0 .. N /\ f[n] = add(f[n - 1], n)
    <3>1. n \in Nat /\ n # 0 /\ n - 1 \in 0 .. N /\ f[n - 1] \in V
      BY <1>1
    <3>2. F[n][f[n - 1]] = add(f[n - 1], n)
      BY <3>1
    <3> HIDE DEF F
    <3> QED
      BY <1>5, <3>1, <3>2 DEF Follows
  <2> QED
    BY <1>1, <1>5, <2>1 DEF Follows
<1>7. w = Rhs(w)
  BY <1>3, <1>6
<1>8. w[0] = 0 /\ \A n \in 1 .. N : w[n] = add(w[n - 1], n)
  BY <1>1, <1>7
<1>9. \A n \in 0 .. N : w[n] \in V
  <2>1. w[0] \in V /\ \A n \in 1 .. N : w[n - 1] \in V => w[n] \in V
    BY <1>1, <1>2, <1>8
  <2> QED
    BY <1>1, <2>1, StaysIn
<1> QED
  BY <1>1, <1>8, <1>9 DEF V, N, w, add

\* The characters of chunks.
Chars == {"0", "1", "2", ";", "e", "CR", "LF", "a", "b", "c"}

\* What the parsers need of a chunk.
Fits(c) ==
  /\ c.size \in Seq(DOMAIN Digit) /\ c.ext \in Seq(Chars) /\ c.bytes \in Seq(Chars)
  /\ c.size # <<>>
  /\ c.ext # <<>> => Len(c.ext) = 2 /\ c.ext[1] = ";" /\ c.ext[2] = "e"
  /\ str_parse_hex(c.size) = Len(c.bytes)
  /\ c # LastChunk => Len(c.bytes) > 0

\* The sizes that occur.
LEMMA SizesLemma ==
  /\ str_parse_hex(<<"0">>) = 0
  /\ str_parse_hex(<<"1">>) = 1
  /\ str_parse_hex(<<"2">>) = 2
  /\ str_parse_hex(<<"1", "1">>) = 17
<1>1. ASSUME NEW x \in DOMAIN Digit PROVE str_parse_hex(<<x>>) = Digit[x]
  <2> DEFINE d == <<x>>
  <2>1. d \in Seq(DOMAIN Digit) /\ Len(d) = 1 /\ d[1] = x
    OBVIOUS
  <2> HIDE DEF d
  <2>2. Hexes(d)[0] = 0 /\ Hexes(d)[1] = Digit[d[1]] + 16 * Hexes(d)[0]
    <3>1. /\ Hexes(d)[0] = 0
          /\ \A n \in 1 .. Len(d) : Hexes(d)[n] = Digit[d[Len(d) + 1 - n]] + 16 * Hexes(d)[n - 1]
      BY <2>1, HexesLemma
    <3>2. 1 \in 1 .. 1 /\ 1 + 1 - 1 = 1 /\ 1 - 1 = 0
      OBVIOUS
    <3> QED
      BY <2>1, <3>1, <3>2
  <2>3. Hexes(d)[1] = Digit[x] /\ Digit[x] \in Nat
    BY <2>1, <2>2, DigitLemma
  <2> QED
    BY <2>1, <2>3 DEF str_parse_hex, d
<1>2. str_parse_hex(<<"1", "1">>) = 17
  <2> DEFINE d == <<"1", "1">>
  <2>1. d \in Seq(DOMAIN Digit) /\ Len(d) = 2 /\ d[1] = "1" /\ d[2] = "1"
    BY DigitLemma
  <2> HIDE DEF d
  <2>2. /\ Hexes(d)[0] = 0
        /\ Hexes(d)[1] = Digit[d[2]] + 16 * Hexes(d)[0]
        /\ Hexes(d)[2] = Digit[d[1]] + 16 * Hexes(d)[1]
    <3>1. /\ Hexes(d)[0] = 0
          /\ \A n \in 1 .. Len(d) : Hexes(d)[n] = Digit[d[Len(d) + 1 - n]] + 16 * Hexes(d)[n - 1]
      BY <2>1, HexesLemma
    <3>2. /\ 1 \in 1 .. 2 /\ 2 + 1 - 1 = 2 /\ 1 - 1 = 0
          /\ 2 \in 1 .. 2 /\ 2 + 1 - 2 = 1 /\ 2 - 1 = 1
      OBVIOUS
    <3> QED
      BY <2>1, <3>1, <3>2
  <2>3. Hexes(d)[2] = 17
    BY <2>1, <2>2, DigitLemma
  <2> QED
    BY <2>1, <2>3 DEF str_parse_hex, d
<1> QED
  BY <1>1, <1>2, DigitLemma

\* A chunk that is readable has what the parsers need.
LEMMA ReadableFits ==
  ASSUME NEW c \in Chunks \cup {LastChunk}, ReadableChunk(c)
  PROVE  Fits(c)
<1> DEFINE semi == <<";", "e">>
<1>1. \A s \in {<<"0">>, <<"1">>, <<"2">>, <<"1", "1">>} : s \in Seq(DOMAIN Digit) /\ s # <<>>
  <2>1. <<"0">> \in Seq(DOMAIN Digit) /\ <<"0">> # <<>>
    BY DigitLemma
  <2>2. <<"1">> \in Seq(DOMAIN Digit) /\ <<"1">> # <<>>
    BY DigitLemma
  <2>3. <<"2">> \in Seq(DOMAIN Digit) /\ <<"2">> # <<>>
    BY DigitLemma
  <2>4. <<"1", "1">> \in Seq(DOMAIN Digit) /\ <<"1", "1">> # <<>>
    BY DigitLemma
  <2> QED
    BY <2>1, <2>2, <2>3, <2>4
<1>2. <<>> \in Seq(Chars) /\ semi \in Seq(Chars) /\ Len(semi) = 2 /\ semi[1] = ";" /\ semi[2] = "e"
  BY DEF Chars
<1>3. Len(<<";", "e", ";", "e">>) = 4
  OBVIOUS
<1>4. <<"0", "1">> # Reverse(<<"0", "1">>)
  <2> DEFINE s == <<"0", "1">>
  <2>1. Len(s) = 2 /\ s[1] = "0" /\ s[2] = "1"
    OBVIOUS
  <2> HIDE DEF s
  <2>2. Reverse(s)[1] = s[2]
    BY <2>1 DEF Reverse
  <2>3. "0" # "1"
    OBVIOUS
  <2>4. s # Reverse(s)
    BY <2>1, <2>2, <2>3
  <2> QED
    BY <2>4 DEF s
<1>5. \A b \in {<<"a">>, <<"CR">>} : b \in Seq(Chars) /\ Len(b) = 1
  <2>1. <<"a">> \in Seq(Chars) /\ Len(<<"a">>) = 1
    BY DEF Chars
  <2>2. <<"CR">> \in Seq(Chars) /\ Len(<<"CR">>) = 1
    BY DEF Chars
  <2> QED
    BY <2>1, <2>2
<1>6. <<"b", ";">> \in Seq(Chars) /\ Len(<<"b", ";">>) = 2
  BY DEF Chars
<1>7. [k \in 1 .. 17 |-> "c"] \in Seq(Chars) /\ Len([k \in 1 .. 17 |-> "c"]) = 17
  BY DEF Chars
<1>8. <<>> \in Seq(Chars) /\ Len(<<>>) = 0
  OBVIOUS
<1>9. CASE c \in [size: {<<"1">>, <<"0", "1">>},
                  ext: {<<>>, <<";", "e">>, <<";", "e", ";", "e">>},
                  bytes: {<<"a">>, <<"CR">>}]
  <2>1. c.size = <<"1">>
    BY <1>4, <1>9 DEF ReadableChunk
  <2>2. c.ext = <<>> \/ c.ext = semi
    <3>1. c.ext = <<>> \/ c.ext = semi \/ c.ext = <<";", "e", ";", "e">>
      BY <1>9
    <3>2. ~(4 <= 2)
      OBVIOUS
    <3>3. Len(c.ext) <= 2
      BY DEF ReadableChunk
    <3> HIDE DEF semi
    <3> QED
      BY <1>3, <3>1, <3>2, <3>3
  <2>3. c.bytes \in Seq(Chars) /\ Len(c.bytes) = 1
    <3>1. c.bytes \in {<<"a">>, <<"CR">>}
      BY <1>9
    <3> QED
      BY <1>5, <3>1
  <2>4. str_parse_hex(c.size) = 1 /\ c.size \in Seq(DOMAIN Digit) /\ c.size # <<>>
    BY <1>1, <2>1, SizesLemma
  <2>5. c.ext \in Seq(Chars)
    BY <1>2, <2>2
  <2>6. c.ext # <<>> => Len(c.ext) = 2 /\ c.ext[1] = ";" /\ c.ext[2] = "e"
    BY <1>2, <2>2
  <2>7. str_parse_hex(c.size) = Len(c.bytes) /\ Len(c.bytes) > 0
    BY <2>3, <2>4
  <2> QED
    BY <2>3, <2>4, <2>5, <2>6, <2>7 DEF Fits
<1>10. CASE c \in [size: {<<"2">>}, ext: {<<>>}, bytes: {<<"b", ";">>}]
  <2>1. c.size = <<"2">> /\ c.ext = <<>> /\ c.bytes = <<"b", ";">>
    BY <1>10
  <2>2. str_parse_hex(c.size) = 2 /\ c.size \in Seq(DOMAIN Digit) /\ c.size # <<>>
    BY <1>1, <2>1, SizesLemma
  <2>3. c.bytes \in Seq(Chars) /\ Len(c.bytes) = 2
    BY <1>6, <2>1
  <2>4. c.ext = <<>> /\ c.ext \in Seq(Chars)
    BY <1>2, <2>1
  <2> QED
    BY <2>2, <2>3, <2>4 DEF Fits
<1>11. CASE c \in [size: {<<"1", "1">>}, ext: {<<>>}, bytes: {[k \in 1 .. 17 |-> "c"]}]
  <2>1. c.size = <<"1", "1">> /\ c.ext = <<>> /\ c.bytes = [k \in 1 .. 17 |-> "c"]
    BY <1>11
  <2>2. str_parse_hex(c.size) = 17 /\ c.size \in Seq(DOMAIN Digit) /\ c.size # <<>>
    BY <1>1, <2>1, SizesLemma
  <2>3. c.bytes \in Seq(Chars) /\ Len(c.bytes) = 17
    BY <1>7, <2>1
  <2>4. c.ext = <<>> /\ c.ext \in Seq(Chars)
    BY <1>2, <2>1
  <2> QED
    BY <2>2, <2>3, <2>4 DEF Fits
<1>12. CASE c = LastChunk
  <2>1. c.size = <<"0">> /\ c.ext = <<>> /\ c.bytes = <<>>
    BY <1>12 DEF LastChunk
  <2>2. str_parse_hex(c.size) = 0 /\ c.size \in Seq(DOMAIN Digit) /\ c.size # <<>>
    BY <1>1, <2>1, SizesLemma
  <2>3. c.bytes \in Seq(Chars) /\ Len(c.bytes) = 0
    BY <1>8, <2>1
  <2>4. c.ext = <<>> /\ c.ext \in Seq(Chars)
    BY <1>2, <2>1
  <2> QED
    BY <1>12, <2>2, <2>3, <2>4 DEF Fits
<1> QED
  BY <1>9, <1>10, <1>11, <1>12 DEF Chunks

\* The text t of a chunk with L digits, M characters of extensions and n of data.
Layout(c, L, M, n, t) ==
  /\ L = Len(c.size) /\ M = Len(c.ext) /\ n = Len(c.bytes) /\ t = ChunkText(c)
  /\ L > 0 /\ M \in {0, 2} /\ (M = 0) = (c.ext = <<>>)
  /\ Len(t) = L + M + n + 4 /\ Len(SizeLine(c)) = L + M + 2
  /\ \A i \in 1 .. L : t[i] = c.size[i]
  /\ M = 2 => t[L + 1] = ";" /\ t[L + 2] = "e"
  /\ t[L + M + 1] = "CR"
  /\ \A i \in 1 .. n : t[L + M + 2 + i] = c.bytes[i]

\* Where the parts of a chunk are in its text.
LEMMA ChunkTextLemma ==
  ASSUME NEW c, Fits(c)
  PROVE  \E L, M, n \in Nat, t \in Seq(Chars) : Layout(c, L, M, n, t)
<1> DEFINE a == c.size
           e == c.ext
           b == c.bytes
           z == CRLF
           u == a \o e
           v == u \o z
           w == v \o b
           t == w \o z
           L == Len(a)
           M == Len(e)
           n == Len(b)
<1>1. a \in Seq(Chars) /\ e \in Seq(Chars) /\ b \in Seq(Chars) /\ a # <<>>
  <2>1. DOMAIN Digit \subseteq Chars
    BY DigitLemma DEF Chars
  <2>2. c.size \in Seq(DOMAIN Digit) /\ e \in Seq(Chars) /\ b \in Seq(Chars) /\ a # <<>>
    BY DEF Fits
  <2>3. c.size \in Seq(Chars)
    BY <2>1, <2>2, SeqMonotonic
  <2> QED
    BY <2>2, <2>3
<1>2. z \in Seq(Chars) /\ Len(z) = 2 /\ z[1] = "CR" /\ z[2] = "LF"
  BY DEF CRLF, Chars
<1>3. t = w \o z /\ SizeLine(c) = v /\ ChunkText(c) = t
  BY DEF ChunkText, SizeLine
<1>4. e # <<>> => Len(e) = 2 /\ e[1] = ";" /\ e[2] = "e"
  BY DEF Fits
<1>5. L = Len(a) /\ M = Len(e) /\ n = Len(b)
  OBVIOUS
<1>6. v = u \o z
  OBVIOUS
<1>7. w = v \o b
  OBVIOUS
<1>8. u = a \o e
  OBVIOUS
<1> HIDE DEF a, e, b, z, u, v, w, t, L, M, n
<1>9. /\ u \in Seq(Chars) /\ L \in Nat /\ M \in Nat /\ Len(u) = L + M
      /\ \A i \in 1 .. L : u[i] = a[i]
      /\ \A i \in 1 .. M : u[L + i] = e[i]
  <2>1. /\ u \in Seq(Chars) /\ Len(a) \in Nat /\ Len(e) \in Nat /\ Len(u) = Len(a) + Len(e)
        /\ \A i \in 1 .. Len(a) : u[i] = a[i]
        /\ \A i \in 1 .. Len(e) : u[Len(a) + i] = e[i]
    <3>1. a \in Seq(Chars) /\ e \in Seq(Chars)
      BY <1>1
    <3> QED
      BY <1>8, <3>1, JoinLemma, SMTT(30)
  <2> QED
    BY <1>5, <2>1
<1>10. /\ v \in Seq(Chars) /\ Len(v) = L + M + 2
       /\ \A i \in 1 .. L + M : v[i] = u[i]
       /\ v[L + M + 1] = "CR" /\ v[L + M + 2] = "LF"
  <2>1. /\ v \in Seq(Chars) /\ Len(v) = Len(u) + Len(z)
        /\ \A i \in 1 .. Len(u) : v[i] = u[i]
        /\ \A i \in 1 .. Len(z) : v[Len(u) + i] = z[i]
    <3>1. u \in Seq(Chars) /\ z \in Seq(Chars)
      BY <1>2, <1>9
    <3> QED
      BY <1>6, <3>1, JoinLemma, SMTT(30)
  <2>2. 1 \in 1 .. 2 /\ 2 \in 1 .. 2
    OBVIOUS
  <2> QED
    BY <1>2, <1>9, <2>1, <2>2
<1>11. /\ w \in Seq(Chars) /\ Len(w) = L + M + 2 + n /\ n \in Nat
       /\ \A i \in 1 .. L + M + 2 : w[i] = v[i]
       /\ \A i \in 1 .. n : w[L + M + 2 + i] = b[i]
  <2>1. /\ w \in Seq(Chars) /\ Len(b) \in Nat /\ Len(w) = Len(v) + Len(b)
        /\ \A i \in 1 .. Len(v) : w[i] = v[i]
        /\ \A i \in 1 .. Len(b) : w[Len(v) + i] = b[i]
    <3>1. v \in Seq(Chars) /\ b \in Seq(Chars)
      BY <1>1, <1>10
    <3> QED
      BY <1>7, <3>1, JoinLemma, SMTT(30)
  <2> QED
    BY <1>5, <1>10, <2>1
<1>12. /\ t \in Seq(Chars) /\ Len(t) = L + M + 2 + n + 2
       /\ \A i \in 1 .. L + M + 2 + n : t[i] = w[i]
  <2>1. /\ t \in Seq(Chars) /\ Len(t) = Len(w) + Len(z)
        /\ \A i \in 1 .. Len(w) : t[i] = w[i]
    <3>1. w \in Seq(Chars) /\ z \in Seq(Chars) /\ t = w \o z
      BY <1>2, <1>3, <1>11
    <3> QED
      BY <3>1, JoinLemma, SMTT(30)
  <2> QED
    BY <1>2, <1>11, <2>1
<1>13. L > 0 /\ (M = 0) = (e = <<>>)
  <2>1. \A s \in Seq(Chars) : Len(s) \in Nat /\ (Len(s) = 0) = (s = <<>>)
    BY EmptySeq, LenProperties
  <2> QED
    BY <1>1, <1>5, <2>1
<1>14. M = 0 \/ (M = 2 /\ e[1] = ";" /\ e[2] = "e")
  BY <1>4, <1>5, <1>13
<1>15. Len(t) = L + M + n + 4
  BY <1>9, <1>11, <1>12
<1>16. \A i \in 1 .. L : t[i] = a[i]
  <2> TAKE i \in 1 .. L
  <2>1. i \in 1 .. L + M /\ i \in 1 .. L + M + 2 /\ i \in 1 .. L + M + 2 + n
    BY <1>9, <1>11
  <2> QED
    BY <1>9, <1>10, <1>11, <1>12, <2>1
<1>17. M = 2 => t[L + 1] = ";" /\ t[L + 2] = "e"
  <2> HAVE M = 2
  <2>1. \A i \in 1 .. 2 : L + i \in 1 .. L + M /\ L + i \in 1 .. L + M + 2
                          /\ L + i \in 1 .. L + M + 2 + n
    BY <1>9, <1>11
  <2>2. \A i \in 1 .. 2 : t[L + i] = e[i]
    BY <1>9, <1>10, <1>11, <1>12, <2>1
  <2>3. 1 \in 1 .. 2 /\ 2 \in 1 .. 2 /\ 2 # 0
    OBVIOUS
  <2> QED
    BY <1>14, <2>2, <2>3
<1>18. t[L + M + 1] = "CR"
  <2>1. L + M + 1 \in 1 .. L + M + 2 /\ L + M + 1 \in 1 .. L + M + 2 + n
    BY <1>9, <1>11
  <2> QED
    BY <1>10, <1>11, <1>12, <2>1
<1>19. \A i \in 1 .. n : t[L + M + 2 + i] = b[i]
  <2> TAKE i \in 1 .. n
  <2>1. L + M + 2 + i \in 1 .. L + M + 2 + n
    BY <1>9, <1>11
  <2> QED
    BY <1>11, <1>12, <2>1
<1>20. M \in {0, 2} /\ (M = 0) = (c.ext = <<>>)
  BY <1>13, <1>14 DEF e
<1>21. (\A i \in 1 .. L : t[i] = c.size[i]) /\ \A i \in 1 .. n : t[L + M + 2 + i] = c.bytes[i]
  BY <1>16, <1>19 DEF a, b
<1>22. L = Len(c.size) /\ M = Len(c.ext) /\ n = Len(c.bytes) /\ t = ChunkText(c)
  BY <1>3 DEF L, M, n, a, e, b
<1>23. L \in Nat /\ M \in Nat /\ n \in Nat /\ t \in Seq(Chars) /\ Len(SizeLine(c)) = L + M + 2
  BY <1>3, <1>9, <1>10, <1>11, <1>12
<1>24. Layout(c, L, M, n, t)
  BY <1>13, <1>15, <1>17, <1>18, <1>20, <1>21, <1>22, <1>23 DEF Layout
<1> QED
  BY <1>23, <1>24

\* The texts and the data of the chunks of a message.
TextsOf(m) == [k \in DOMAIN m.chunks |-> ChunkText(m.chunks[k])]
BytesOf(m) == [k \in DOMAIN m.chunks |-> m.chunks[k].bytes]

\* The messages that ChunksRight is about.
Body(m) == m \in Requests \cup Bodies /\ m.kind = "chunked"

\* The last chunk is the only one without data.
LEMMA OnlyLast == \A c \in Chunks : c # LastChunk
<1> SUFFICES ASSUME NEW c \in Chunks PROVE c # LastChunk
  OBVIOUS
<1>1. c.bytes \in {<<"a">>, <<"CR">>, <<"b", ";">>, [k \in 1 .. 17 |-> "c"]}
  BY DEF Chunks
<1>2. <<"a">> # <<>> /\ <<"CR">> # <<>> /\ <<"b", ";">> # <<>>
  OBVIOUS
<1>3. [k \in 1 .. 17 |-> "c"] # <<>>
  <2>1. Len([k \in 1 .. 17 |-> "c"]) = 17 /\ Len(<<>>) = 0
    OBVIOUS
  <2> QED
    BY <2>1
<1>4. LastChunk.bytes = <<>>
  BY DEF LastChunk
<1> QED
  BY <1>1, <1>2, <1>3, <1>4

\* Whatever its size, a chunk is made of these characters, and only the last one is empty.
LEMMA ChunkIn ==
  ASSUME NEW c \in Chunks \cup {LastChunk}
  PROVE  /\ ChunkText(c) \in Seq(Chars) /\ c.bytes \in Seq(Chars)
         /\ (Len(c.bytes) = 0) = (c = LastChunk)
<1> DEFINE Q == Seq(Chars)
<1>1. CRLF \in Q
  BY DEF CRLF, Chars
<1>2. <<>> \in Q
  OBVIOUS
<1>3. <<"0">> \in Q /\ <<"1">> \in Q /\ <<"2">> \in Q
  <2>1. <<"0">> \in Q
    BY DEF Chars
  <2>2. <<"1">> \in Q
    BY DEF Chars
  <2>3. <<"2">> \in Q
    BY DEF Chars
  <2> QED
    BY <2>1, <2>2, <2>3
<1>4. <<"0", "1">> \in Q
  BY DEF Chars
<1>5. <<"1", "1">> \in Q
  BY DEF Chars
<1>6. <<";", "e">> \in Q
  BY DEF Chars
<1>7. <<";", "e", ";", "e">> \in Q
  BY DEF Chars
<1>8. <<"a">> \in Q
  BY DEF Chars
<1>9. <<"CR">> \in Q
  BY DEF Chars
<1>10. <<"b", ";">> \in Q
  BY DEF Chars
<1>11. [k \in 1 .. 17 |-> "c"] \in Q
  <2>1. [k \in 1 .. 17 |-> "c"] \in [1 .. 17 -> Chars]
    BY DEF Chars
  <2> HIDE DEF Chars
  <2> QED
    BY <2>1
<1>12. ASSUME NEW s \in Q, NEW t \in Q PROVE s \o t \in Q
  BY ConcatProperties
<1> HIDE DEF Q
<1>13. c.size \in Q /\ c.ext \in Q /\ c.bytes \in Q
  <2>1. CASE c \in Chunks
    <3>1. /\ c.size \in {<<"1">>, <<"0", "1">>, <<"2">>, <<"1", "1">>}
          /\ c.ext \in {<<>>, <<";", "e">>, <<";", "e", ";", "e">>}
          /\ c.bytes \in {<<"a">>, <<"CR">>, <<"b", ";">>, [k \in 1 .. 17 |-> "c"]}
      BY <2>1 DEF Chunks
    <3>2. c.size \in Q
      BY <1>3, <1>4, <1>5, <3>1
    <3>3. c.ext \in Q
      BY <1>2, <1>6, <1>7, <3>1
    <3>4. c.bytes \in Q
      BY <1>8, <1>9, <1>10, <1>11, <3>1
    <3> QED
      BY <3>2, <3>3, <3>4
  <2>2. CASE c = LastChunk
    BY <1>2, <1>3, <2>2 DEF LastChunk
  <2> QED
    BY <2>1, <2>2
<1> DEFINE u == c.size \o c.ext
           v == u \o CRLF
           w == v \o c.bytes
<1>14. ChunkText(c) = w \o CRLF
  BY DEF ChunkText, SizeLine
<1>15. u \in Q
  BY <1>12, <1>13
<1> HIDE DEF u
<1>16. v \in Q
  BY <1>1, <1>12, <1>15
<1> HIDE DEF v
<1>17. w \in Q
  BY <1>12, <1>13, <1>16
<1> HIDE DEF w
<1>18. ChunkText(c) \in Q
  BY <1>1, <1>12, <1>14, <1>17
<1>19. (Len(c.bytes) = 0) = (c = LastChunk)
  <2>1. CASE c \in Chunks
    <3> DEFINE ba == <<"a">>
               bb == <<"CR">>
               bc == <<"b", ";">>
               bd == [k \in 1 .. 17 |-> "c"]
    <3>1. c.bytes = ba \/ c.bytes = bb \/ c.bytes = bc \/ c.bytes = bd
      BY <2>1 DEF Chunks
    <3>2. Len(ba) # 0 /\ Len(bb) # 0 /\ Len(bc) # 0 /\ Len(bd) # 0
      OBVIOUS
    <3> HIDE DEF ba, bb, bc, bd
    <3>3. CASE c.bytes = ba
      BY <2>1, <3>2, <3>3, OnlyLast
    <3>4. CASE c.bytes = bb
      BY <2>1, <3>2, <3>4, OnlyLast
    <3>5. CASE c.bytes = bc
      BY <2>1, <3>2, <3>5, OnlyLast
    <3>6. CASE c.bytes = bd
      BY <2>1, <3>2, <3>6, OnlyLast
    <3> QED
      BY <3>1, <3>3, <3>4, <3>5, <3>6
  <2>2. CASE c = LastChunk
    <3>1. Len(c.bytes) = 0
      BY <2>2 DEF LastChunk
    <3> QED
      BY <2>2, <3>1
  <2> QED
    BY <2>1, <2>2
<1> QED
  BY <1>13, <1>18, <1>19 DEF Q

\* A chunked message is its chunks, one after another.
LEMMA BodyLemma ==
  ASSUME NEW m, Body(m)
  PROVE  /\ Len(m.chunks) \in Nat /\ Len(m.chunks) > 0 /\ DOMAIN m.chunks = 1 .. Len(m.chunks)
         /\ \A k \in 1 .. Len(m.chunks) :
              /\ ReadableChunk(m.chunks[k]) => Fits(m.chunks[k])
              /\ TextsOf(m)[k] = ChunkText(m.chunks[k])
              /\ BytesOf(m)[k] = m.chunks[k].bytes
              /\ (Len(m.chunks[k].bytes) = 0) = (k = Len(m.chunks))
              /\ (m.chunks[k] = LastChunk) = (k = Len(m.chunks))
         /\ TextsOf(m) \in Seq(Seq(Chars)) /\ Len(TextsOf(m)) = Len(m.chunks)
         /\ BytesOf(m) \in Seq(Seq(Chars)) /\ Len(BytesOf(m)) = Len(m.chunks)
         /\ m.text = Concats(TextsOf(m))[Len(m.chunks)]
<1> DEFINE N == Len(m.chunks)
<1>1. PICK cs \in BoundedSeq(Chunks, MaxChunks) :
        m = [kind |-> "chunked", chunks |-> Append(cs, LastChunk),
             text |-> Concat([k \in DOMAIN cs |-> ChunkText(cs[k])]) \o ChunkText(LastChunk)]
  <2>1. ASSUME NEW r \in Requests PROVE r.kind = "request"
    BY DEF Requests
  <2>2. m \in Bodies
    <3>1. "request" # "chunked"
      OBVIOUS
    <3> QED
      BY <2>1, <3>1 DEF Body
  <2> QED
    BY <2>2 DEF Bodies
<1> DEFINE D == Len(cs)
           U == [k \in DOMAIN cs |-> ChunkText(cs[k])]
           all == Append(cs, LastChunk)
<1>2. cs \in Seq(Chunks)
  <2>1. PICK i \in 0 .. MaxChunks : cs \in [1 .. i -> Chunks]
    BY <1>1 DEF BoundedSeq, SeqOf
  <2>2. MaxChunks \in Nat
    BY HttpParserAssumption
  <2> QED
    BY <2>1, <2>2, SeqDef
<1>3. m.chunks = all /\ m.text = Concat(U) \o ChunkText(LastChunk)
  BY <1>1
<1>4. /\ D \in Nat /\ DOMAIN cs = 1 .. D
      /\ all \in Seq(Chunks \cup {LastChunk}) /\ Len(all) = D + 1 /\ DOMAIN all = 1 .. D + 1
      /\ all[D + 1] = LastChunk
      /\ \A k \in 1 .. D : all[k] = cs[k] /\ cs[k] \in Chunks
  BY <1>2
<1> HIDE DEF D, all, N
<1>5. N = D + 1 /\ N \in Nat /\ N > 0 /\ DOMAIN m.chunks = 1 .. N /\ m.chunks[N] = LastChunk
  BY <1>3, <1>4 DEF N
<1>6. ASSUME NEW k \in 1 .. N
      PROVE  /\ m.chunks[k] \in Chunks \cup {LastChunk}
             /\ (m.chunks[k] = LastChunk) = (k = N)
             /\ k # N => k \in 1 .. D /\ m.chunks[k] = cs[k]
  <2>1. CASE k = N
    BY <1>5, <2>1
  <2>2. CASE k # N
    <3>1. k \in 1 .. D
      BY <1>4, <1>5, <2>2
    <3>2. m.chunks[k] = cs[k] /\ cs[k] \in Chunks
      BY <1>3, <1>4, <3>1
    <3> QED
      BY <2>2, <3>1, <3>2, OnlyLast
  <2> QED
    BY <2>1, <2>2
<1>7. ASSUME NEW k \in 1 .. N
      PROVE  /\ ReadableChunk(m.chunks[k]) => Fits(m.chunks[k])
             /\ (Len(m.chunks[k].bytes) = 0) = (k = N)
  <2>1. ReadableChunk(m.chunks[k]) => Fits(m.chunks[k])
    BY <1>6, ReadableFits
  <2>2. (Len(m.chunks[k].bytes) = 0) = (k = N)
    BY <1>6, ChunkIn
  <2> QED
    BY <2>1, <2>2
<1>8. ASSUME NEW k \in 1 .. N
      PROVE ChunkText(m.chunks[k]) \in Seq(Chars) /\ m.chunks[k].bytes \in Seq(Chars)
  BY <1>6, ChunkIn
<1> DEFINE T == TextsOf(m)
           B == BytesOf(m)
<1>9. /\ \A k \in 1 .. N : T[k] = ChunkText(m.chunks[k]) /\ B[k] = m.chunks[k].bytes
      /\ T \in [1 .. N -> Seq(Chars)] /\ B \in [1 .. N -> Seq(Chars)]
  BY <1>5, <1>8 DEF TextsOf, BytesOf
<1> HIDE DEF T, B
<1>10. T \in Seq(Seq(Chars)) /\ Len(T) = N /\ B \in Seq(Seq(Chars)) /\ Len(B) = N
  <2> DEFINE Q == Seq(Chars)
  <2> HIDE DEF Q
  <2>1. T \in [1 .. N -> Q] /\ B \in [1 .. N -> Q]
    BY <1>9 DEF Q
  <2>2. T \in Seq(Q) /\ Len(T) = N /\ B \in Seq(Q) /\ Len(B) = N
    BY <1>5, <2>1
  <2> QED
    BY <2>2 DEF Q
<1>11. U \in Seq(Seq(Chars)) /\ Len(U) = D /\ \A k \in 1 .. D : U[k] = T[k]
  <2> DEFINE Q == Seq(Chars)
  <2>1. ASSUME NEW k \in 1 .. D PROVE U[k] = T[k] /\ U[k] \in Q
    <3>1. k \in 1 .. N /\ k # N
      BY <1>4, <1>5
    <3>2. m.chunks[k] = cs[k]
      BY <1>6, <3>1
    <3>3. U[k] = ChunkText(cs[k])
      BY <1>4
    <3> QED
      BY <1>8, <1>9, <3>1, <3>2, <3>3
  <2>2. U = [k \in 1 .. D |-> U[k]]
    BY <1>4
  <2> HIDE DEF Q, U
  <2>3. U \in [1 .. D -> Q]
    BY <2>1, <2>2
  <2>4. U \in Seq(Q) /\ Len(U) = D
    BY <1>4, <2>3
  <2> QED
    BY <2>1, <2>4 DEF Q
<1> HIDE DEF U
<1>12. Concats(U)[D] = Concats(T)[D]
  <2>1. D <= N /\ D \in 0 .. D
    BY <1>4, <1>5
  <2> QED
    BY <1>10, <1>11, <2>1, ConcatsAlike
<1>13. m.text = Concats(T)[N]
  <2>1. Concats(T)[N] = Concats(T)[N - 1] \o T[N]
    <3>1. N \in 1 .. N
      BY <1>5
    <3> QED
      BY <1>10, <3>1, ConcatsLemma
  <2>2. N - 1 = D
    BY <1>4, <1>5
  <2>3. T[N] = ChunkText(LastChunk)
    <3>1. N \in 1 .. N
      BY <1>5
    <3> QED
      BY <1>5, <1>9, <3>1
  <2> QED
    BY <1>3, <1>11, <1>12, <2>1, <2>2, <2>3 DEF Concat
<1> QED
  BY <1>5, <1>6, <1>7, <1>9, <1>10, <1>13 DEF T, B, N
-----------------------------------------------------------------------------
(* What the buffer holds. *)

\* k chunks are done: their data are in front of the buffer, and behind the k chunks
\* it is as it came.
Delivered(k) ==
  /\ data \in Seq(Chars) /\ Cut <= Whole /\ EndOf(TextsOf(msg), k) <= Cut
  /\ bodyLen = EndOf(BytesOf(msg), k) /\ bodyLen <= EndOf(TextsOf(msg), k)
  /\ \A i \in 1 .. bodyLen : data[i] = Concats(BytesOf(msg))[k][i]
  /\ \A i \in EndOf(TextsOf(msg), k) + 1 .. Cut : data[i] = msg.text[i]

\* The least of some numbers.
LEMMA LeastIs ==
  ASSUME NEW S \in SUBSET Int, NEW x \in S, \A y \in S : x <= y
  PROVE  Least(S) = x
<1>1. \A z \in S : (\A y \in S : z <= y) => z = x
  OBVIOUS
<1> QED
  BY <1>1 DEF Least

\* Where a chunk is in the buffer.
Placed(k, L, M, n, t) ==
  /\ EndOf(TextsOf(msg), k) \in Nat /\ EndOf(BytesOf(msg), k) \in Nat
  /\ EndOf(TextsOf(msg), k + 1) = EndOf(TextsOf(msg), k) + L + M + n + 4
  /\ EndOf(BytesOf(msg), k + 1) = EndOf(BytesOf(msg), k) + n
  /\ Concats(BytesOf(msg))[k] \in Seq(Chars)
  /\ Concats(BytesOf(msg))[k + 1] = Concats(BytesOf(msg))[k] \o msg.chunks[k + 1].bytes
  /\ \A i \in 1 .. L + M + n + 4 :
       EndOf(TextsOf(msg), k) + i <= Cut => data[EndOf(TextsOf(msg), k) + i] = t[i]

\* Behind k chunks that are done, the next one is where Placed says.
LEMMA ChunkAt ==
  ASSUME Body(msg), NEW k \in 0 .. Len(msg.chunks) - 1, Delivered(k),
         NEW L \in Nat, NEW M \in Nat, NEW n \in Nat, NEW t \in Seq(Chars),
         Layout(msg.chunks[k + 1], L, M, n, t)
  PROVE  Placed(k, L, M, n, t)
<1> DEFINE N == Len(msg.chunks)
           T == TextsOf(msg)
           B == BytesOf(msg)
           E == EndOf(T, k)
           c == msg.chunks[k + 1]
<1>1. /\ N \in Nat /\ N > 0
      /\ \A j \in 1 .. N : T[j] = ChunkText(msg.chunks[j]) /\ B[j] = msg.chunks[j].bytes
      /\ T \in Seq(Seq(Chars)) /\ Len(T) = N /\ B \in Seq(Seq(Chars)) /\ Len(B) = N
      /\ msg.text = Concats(T)[N]
  <2>1. N \in Nat /\ N > 0
    BY BodyLemma
  <2>2. \A j \in 1 .. N : T[j] = ChunkText(msg.chunks[j]) /\ B[j] = msg.chunks[j].bytes
    BY BodyLemma
  <2>3. T \in Seq(Seq(Chars)) /\ Len(T) = N
    BY BodyLemma
  <2>4. B \in Seq(Seq(Chars)) /\ Len(B) = N
    BY BodyLemma
  <2>5. msg.text = Concats(T)[N]
    BY BodyLemma
  <2> QED
    BY <2>1, <2>2, <2>3, <2>4, <2>5, Zenon
<1>2. k \in 0 .. N /\ k + 1 \in 1 .. N /\ (k + 1) - 1 = k /\ N \in k + 1 .. N
  <2>1. N \in Nat /\ k \in 0 .. N - 1
    BY <1>1
  <2> HIDE DEF N
  <2> QED
    BY <2>1
<1> HIDE DEF T, B, N
<1>3. T[k + 1] = t /\ B[k + 1] = c.bytes /\ Len(t) = L + M + n + 4 /\ Len(B[k + 1]) = n
  BY <1>1, <1>2 DEF Layout
<1>4. /\ EndOf(T, k) \in Nat
      /\ EndOf(T, k + 1) = EndOf(T, (k + 1) - 1) + Len(T[k + 1])
  BY <1>1, <1>2, EndOfLemma
<1>5. /\ EndOf(B, k) \in Nat
      /\ EndOf(B, k + 1) = EndOf(B, (k + 1) - 1) + Len(B[k + 1])
  BY <1>1, <1>2, EndOfLemma
<1>6. /\ Concats(B)[k + 1] = Concats(B)[(k + 1) - 1] \o B[k + 1]
      /\ Concats(B)[k] \in Seq(Chars)
  BY <1>1, <1>2, ConcatsLemma
<1>7. \A i \in 1 .. L + M + n + 4 : E + i <= Cut => data[E + i] = t[i]
  <2> TAKE i \in 1 .. L + M + n + 4
  <2> HAVE E + i <= Cut
  <2>1. i \in 1 .. Len(T[k + 1])
    BY <1>3
  <2>2. Concats(T)[N][EndOf(T, (k + 1) - 1) + i] = T[k + 1][i]
    <3>1. T \in Seq(Seq(Chars)) /\ k + 1 \in 1 .. Len(T) /\ N \in k + 1 .. Len(T)
      BY <1>1, <1>2
    <3> QED
      BY <2>1, <3>1, ConcatsAt
  <2>3. msg.text[E + i] = t[i]
    BY <1>1, <1>2, <1>3, <2>2
  <2>4. Cut \in Nat
    BY LenProperties DEF Delivered, Cut
  <2> HIDE DEF E
  <2>5. E + i \in E + 1 .. Cut
    BY <1>4, <2>4 DEF E
  <2>6. data[E + i] = msg.text[E + i]
    BY <2>5 DEF Delivered, E, T
  <2> QED
    BY <2>3, <2>6
<1>8. EndOf(T, k + 1) = EndOf(T, k) + L + M + n + 4
  <2>1. \A e \in Nat : e + (L + M + n + 4) = e + L + M + n + 4
    OBVIOUS
  <2>2. EndOf(T, k + 1) = EndOf(T, k) + (L + M + n + 4)
    BY <1>2, <1>3, <1>4, Zenon
  <2> QED
    BY <1>4, <2>1, <2>2, Zenon
<1>9. EndOf(B, k + 1) = EndOf(B, k) + n
  BY <1>2, <1>3, <1>5
<1>10. Concats(B)[k + 1] = Concats(B)[k] \o c.bytes
  BY <1>2, <1>3, <1>6
<1> QED
  BY <1>4, <1>5, <1>6, <1>7, <1>8, <1>9, <1>10 DEF Placed, T, B

\* The greatest of one number.
LEMMA GreatestIs == ASSUME NEW x \in Int PROVE Greatest({x}) = x
  BY DEF Greatest

\* What is left of a size line in the buffer: L digits from E + 1 on, M characters of
\* extensions, and a carriage return at q.
SizeLineFrom(E, L, M, q, size) ==
  /\ L > 0 /\ M \in {0, 2} /\ q = E + L + M + 1
  /\ size \in Seq(DOMAIN Digit) /\ Len(size) = L
  /\ \A i \in 1 .. L : size[i] \in {"0", "1", "2"} /\ (E + i <= Cut => data[E + i] = size[i])
  /\ M = 2 => /\ E + L + 1 <= Cut => data[E + L + 1] = ";"
              /\ E + L + 2 <= Cut => data[E + L + 2] = "e"
  /\ q <= Cut => data[q] = "CR"

\* The semicolons of a size line.
Semis(s, q) == {j \in s .. q - 1 : data[j] = ";"}

\* The scan finds the size, if the carriage return behind it is there.
SizeRead(E, M, q, size, s) ==
  /\ Cut < q => Find(s, {"CR"}) = {}
  /\ q <= Cut =>
       /\ Find(s, {"CR"}) # {} /\ Least(Find(s, {"CR"})) = q
       /\ SubSeq(data, E + 1, (IF Semis(s, q) = {} THEN q ELSE Greatest(Semis(s, q))) - 1) = size
       /\ M = 0 => Semis(s, q) = {}

\* How http_parse_chunked finds the size in such a line.
LEMMA SizeFound ==
  ASSUME NEW E \in Nat, NEW L \in Nat, NEW M \in Nat, NEW q \in Nat, NEW size,
         SizeLineFrom(E, L, M, q, size), NEW s \in Nat, s = E + 1 \/ s = E + 2,
         data \in Seq(Chars)
  PROVE  SizeRead(E, M, q, size, s)
<1> DEFINE semis == Semis(s, q)
           F == Find(s, {"CR"})
<1>1. /\ L > 0 /\ M \in {0, 2} /\ q = E + L + M + 1
      /\ size \in Seq(DOMAIN Digit) /\ Len(size) = L
      /\ M = 2 => /\ E + L + 1 <= Cut => data[E + L + 1] = ";"
                  /\ E + L + 2 <= Cut => data[E + L + 2] = "e"
      /\ q <= Cut => data[q] = "CR"
  BY DEF SizeLineFrom
<1>2. \A i \in 1 .. L : size[i] \in {"0", "1", "2"} /\ (E + i <= Cut => data[E + i] = size[i])
  BY DEF SizeLineFrom
<1>3. L > 0 /\ (M = 0 \/ M = 2) /\ q = E + L + M + 1
  BY <1>1
<1>4. Cut \in Nat
  BY LenProperties DEF Cut
<1> HIDE DEF F, semis
<1>6. ASSUME NEW j \in E + 1 .. q - 1, j <= Cut
      PROVE  data[j] # "CR" /\ (data[j] = ";") = (M = 2 /\ j = E + L + 1)
  <2>1. CASE j <= E + L
    <3> DEFINE i == j - E
    <3>1. i \in 1 .. L /\ E + i = j /\ j # E + L + 1
      BY <2>1
    <3> HIDE DEF i
    <3>2. data[j] \in {"0", "1", "2"}
      BY <1>2, <1>6, <3>1
    <3> QED
      BY <3>1, <3>2
  <2>2. CASE j = E + L + 1 /\ M = 2
    BY <1>1, <1>6, <2>2
  <2>3. CASE j = E + L + 2 /\ M = 2
    <3>1. data[j] = "e"
      BY <1>1, <1>6, <2>3
    <3>2. j # E + L + 1
      BY <2>3
    <3> QED
      BY <3>1, <3>2
  <2>4. j <= E + L \/ (j = E + L + 1 /\ M = 2) \/ (j = E + L + 2 /\ M = 2)
    BY <1>3
  <2> QED
    BY <2>1, <2>2, <2>3, <2>4
<1>7. F = {j \in s .. Cut : data[j] \in {"CR"}}
  BY DEF F, Find, Cut
<1>8. CASE Cut < q
  <2>1. \A j \in s .. Cut : j \in E + 1 .. q - 1 /\ j <= Cut
    BY <1>3, <1>4, <1>8
  <2>2. F = {}
    BY <1>6, <1>7, <2>1
  <2>3. ~(q <= Cut)
    BY <1>4, <1>8
  <2> QED
    BY <2>2, <2>3 DEF F, SizeRead
<1>9. CASE q <= Cut
  <2>1. q \in s .. Cut
    BY <1>3, <1>4, <1>9
  <2>2. data[q] = "CR"
    BY <1>1, <1>9
  <2>3. \A j \in F : q <= j
    <3> SUFFICES ASSUME NEW j \in s .. Cut, data[j] = "CR", j < q PROVE FALSE
      BY <1>4, <1>7
    <3>1. j \in E + 1 .. q - 1 /\ j <= Cut
      BY <1>3, <1>4
    <3> QED
      BY <1>6, <3>1
  <2>4. q \in F /\ F \in SUBSET Int
    BY <1>4, <1>7, <2>1, <2>2
  <2>5. F # {} /\ Least(F) = q
    BY <2>3, <2>4, LeastIs
  <2>6. (IF semis = {} THEN q ELSE Greatest(semis)) - 1 = E + L
    <3>1. \A j \in s .. q - 1 : j \in E + 1 .. q - 1 /\ j <= Cut
      BY <1>3, <1>4, <1>9
    <3>2. semis = {j \in s .. q - 1 : M = 2 /\ j = E + L + 1}
      BY <1>6, <3>1 DEF semis, Semis
    <3>3. CASE M = 0
      <4>1. semis = {}
        BY <3>2, <3>3
      <4> QED
        BY <1>3, <3>3, <4>1
    <3>4. CASE M = 2
      <4>1. E + L + 1 \in s .. q - 1
        BY <1>3, <3>4
      <4>2. semis = {E + L + 1}
        BY <3>2, <3>4, <4>1
      <4>3. E + L + 1 \in Int
        OBVIOUS
      <4>4. Greatest(semis) = E + L + 1
        BY <4>2, <4>3, GreatestIs
      <4>5. semis # {}
        BY <4>2
      <4> HIDE DEF semis
      <4> QED
        BY <4>4, <4>5
    <3> QED
      BY <1>3, <3>3, <3>4
  <2>7. SubSeq(data, E + 1, E + L) = size
    <3> DEFINE d == SubSeq(data, E + 1, E + L)
    <3>1. ASSUME NEW i \in 1 .. L
          PROVE  E + i \in 1 .. Cut /\ data[E + i] = size[i] /\ size[i] \in DOMAIN Digit
      <4>1. E + i <= Cut /\ E + i \in 1 .. Cut
        BY <1>3, <1>4, <1>9
      <4> QED
        BY <1>1, <1>2, <1>3, <4>1, DigitLemma
    <3>2. \A i \in E + 1 .. E + L : data[i] \in DOMAIN Digit
      <4> TAKE i \in E + 1 .. E + L
      <4>1. i - E \in 1 .. L /\ E + (i - E) = i
        OBVIOUS
      <4> QED
        BY <3>1, <4>1
    <3>3. E + 1 \in Int /\ E + L \in Int /\ E + 1 <= E + L /\ E + L - (E + 1) + 1 = L
          /\ \A i \in 1 .. L : E + 1 + i - 1 = E + i
      BY <1>3
    <3>4. /\ d \in Seq(DOMAIN Digit)
          /\ Len(d) = (IF E + 1 <= E + L THEN E + L - (E + 1) + 1 ELSE 0)
          /\ \A i \in 1 .. E + L - (E + 1) + 1 : d[i] = data[E + 1 + i - 1]
      BY <3>2, <3>3, SubSeqProperties
    <3> HIDE DEF d
    <3>5. Len(d) = L /\ \A i \in 1 .. L : d[i] = size[i]
      BY <3>1, <3>3, <3>4
    <3>6. d = size
      <4>1. /\ d \in Seq(DOMAIN Digit) /\ size \in Seq(DOMAIN Digit) /\ Len(d) = Len(size)
            /\ \A i \in 1 .. Len(d) : d[i] = size[i]
        BY <1>1, <3>4, <3>5
      <4> QED
        BY <4>1, SeqEqual
    <3> QED
      BY <3>6 DEF d
  <2>8. ~(Cut < q)
    BY <1>4, <1>9
  <2>9. SubSeq(data, E + 1, (IF semis = {} THEN q ELSE Greatest(semis)) - 1) = size
    BY <2>6, <2>7
  <2>10. M = 0 => semis = {}
    <3>1. \A j \in s .. q - 1 : j \in E + 1 .. q - 1 /\ j <= Cut
      BY <1>3, <1>4, <1>9
    <3>2. semis = {j \in s .. q - 1 : M = 2 /\ j = E + L + 1}
      BY <1>6, <3>1 DEF semis, Semis
    <3> QED
      BY <3>2
  <2> QED
    BY <2>5, <2>8, <2>9, <2>10 DEF F, semis, SizeRead
<1> QED
  BY <1>4, <1>8, <1>9

\* The next chunk after k of them: its size line ends at q + 1 and n data follow.
Seen(k, L, M, n, q) ==
  /\ EndOf(TextsOf(msg), k) \in Nat /\ EndOf(BytesOf(msg), k) \in Nat
  /\ SizeLineFrom(EndOf(TextsOf(msg), k), L, M, q, msg.chunks[k + 1].size)
  /\ (M = 0) = (msg.chunks[k + 1].ext = <<>>)
  /\ Len(SizeLine(msg.chunks[k + 1])) = L + M + 2
  /\ str_parse_hex(msg.chunks[k + 1].size) = n
  /\ msg.chunks[k + 1].bytes \in Seq(Chars) /\ Len(msg.chunks[k + 1].bytes) = n
  /\ EndOf(TextsOf(msg), k + 1) = q + n + 3
  /\ EndOf(BytesOf(msg), k + 1) = EndOf(BytesOf(msg), k) + n
  /\ Concats(BytesOf(msg))[k] \in Seq(Chars)
  /\ Concats(BytesOf(msg))[k + 1] = Concats(BytesOf(msg))[k] \o msg.chunks[k + 1].bytes
  /\ \A i \in 1 .. n : q + 1 + i <= Cut => data[q + 1 + i] = msg.chunks[k + 1].bytes[i]

\* Of the next chunk, the parser sees what Seen says.
LEMMA ChunkSeen ==
  ASSUME Body(msg), NEW k \in 0 .. Len(msg.chunks) - 1, Delivered(k),
         ReadableChunk(msg.chunks[k + 1])
  PROVE  \E L, M, n, q \in Nat : Seen(k, L, M, n, q)
<1> DEFINE c == msg.chunks[k + 1]
           E == EndOf(TextsOf(msg), k)
<1>1. Fits(c)
  <2>1. Len(msg.chunks) \in Nat
    BY BodyLemma
  <2> DEFINE N == Len(msg.chunks)
  <2>2. N \in Nat /\ k \in 0 .. N - 1
    BY <2>1
  <2> HIDE DEF N
  <2>3. k + 1 \in 1 .. N
    BY <2>2
  <2> QED
    BY <2>3, BodyLemma DEF N
<1>2. PICK L \in Nat, M \in Nat, n \in Nat, t \in Seq(Chars) : Layout(c, L, M, n, t)
  BY <1>1, ChunkTextLemma
<1> HIDE DEF c
<1>3. /\ E \in Nat /\ EndOf(BytesOf(msg), k) \in Nat
      /\ EndOf(TextsOf(msg), k + 1) = E + L + M + n + 4
      /\ EndOf(BytesOf(msg), k + 1) = EndOf(BytesOf(msg), k) + n
      /\ Concats(BytesOf(msg))[k + 1] = Concats(BytesOf(msg))[k] \o c.bytes
      /\ Concats(BytesOf(msg))[k] \in Seq(Chars)
      /\ \A i \in 1 .. L + M + n + 4 : E + i <= Cut => data[E + i] = t[i]
  <2>1. Layout(msg.chunks[k + 1], L, M, n, t)
    BY <1>2 DEF c
  <2>2. Placed(k, L, M, n, t)
    BY <2>1, ChunkAt
  <2> HIDE DEF E
  <2> QED
    BY <2>2 DEF Placed, c, E
<1> DEFINE q == E + L + M + 1
<1>4. Cut \in Nat
  BY LenProperties DEF Delivered, Cut
<1> HIDE DEF E
<1>5. q \in Nat /\ q = E + L + M + 1
  BY <1>3
<1>6. EndOf(TextsOf(msg), k + 1) = q + n + 3
  BY <1>3
<1>7. /\ L > 0 /\ (M = 0 \/ M = 2) /\ L = Len(c.size) /\ n = Len(c.bytes)
      /\ (M = 0) = (c.ext = <<>>) /\ Len(SizeLine(c)) = L + M + 2
      /\ \A i \in 1 .. L : t[i] = c.size[i]
      /\ M = 2 => t[L + 1] = ";" /\ t[L + 2] = "e"
      /\ t[L + M + 1] = "CR"
      /\ \A i \in 1 .. n : t[L + M + 2 + i] = c.bytes[i]
  BY <1>2 DEF Layout
<1>8. /\ c.size \in Seq(DOMAIN Digit) /\ c.bytes \in Seq(Chars) /\ str_parse_hex(c.size) = n
      /\ \A i \in 1 .. L : c.size[i] \in {"0", "1", "2"}
  <2>1. c.size \in Seq(DOMAIN Digit) /\ c.bytes \in Seq(Chars) /\ str_parse_hex(c.size) = n
    BY <1>1, <1>7 DEF Fits
  <2>2. \A i \in 1 .. Len(c.size) : c.size[i] \in DOMAIN Digit
    BY <2>1, ElementOfSeq
  <2> QED
    BY <1>7, <2>1, <2>2, DigitLemma
<1> HIDE DEF q
<1>9. \A i \in 1 .. L : E + i <= Cut => data[E + i] = c.size[i]
  <2>1. \A i \in 1 .. L : i \in 1 .. L + M + n + 4
    OBVIOUS
  <2> QED
    BY <1>3, <1>7, <2>1
<1>10. M = 2 => /\ E + L + 1 <= Cut => data[E + L + 1] = ";"
                /\ E + L + 2 <= Cut => data[E + L + 2] = "e"
  <2> HAVE M = 2
  <2>1. /\ L + 1 \in 1 .. L + M + n + 4 /\ E + (L + 1) = E + L + 1
        /\ L + 2 \in 1 .. L + M + n + 4 /\ E + (L + 2) = E + L + 2
    BY <1>3
  <2>2. t[L + 1] = ";" /\ t[L + 2] = "e"
    BY <1>7
  <2>3. /\ E + (L + 1) <= Cut => data[E + (L + 1)] = t[L + 1]
        /\ E + (L + 2) <= Cut => data[E + (L + 2)] = t[L + 2]
    BY <1>3, <2>1, Zenon
  <2> QED
    BY <2>1, <2>2, <2>3
<1>11. q <= Cut => data[q] = "CR"
  <2>1. E \in Nat
    BY <1>3
  <2>2. L + M + 1 \in 1 .. L + M + n + 4 /\ E + (L + M + 1) = q
    BY <1>5, <2>1
  <2> QED
    BY <1>3, <1>7, <2>2
<1>12. ASSUME NEW i \in 1 .. n, q + 1 + i <= Cut PROVE data[q + 1 + i] = c.bytes[i]
  <2>1. L + M + 2 + i \in 1 .. L + M + n + 4 /\ E + (L + M + 2 + i) = q + 1 + i
    <3>1. E \in Nat /\ q = E + L + M + 1
      BY <1>3, <1>5
    <3> QED
      BY <3>1
  <2>2. t[L + M + 2 + i] = c.bytes[i]
    BY <1>7
  <2>3. data[E + (L + M + 2 + i)] = t[L + M + 2 + i]
    BY <1>3, <1>12, <2>1
  <2> QED
    BY <2>1, <2>2, <2>3
<1>13. SizeLineFrom(E, L, M, q, c.size)
  BY <1>5, <1>7, <1>8, <1>9, <1>10, <1>11 DEF SizeLineFrom
<1>14. Seen(k, L, M, n, q)
  BY <1>3, <1>6, <1>7, <1>8, <1>12, <1>13 DEF Seen, c, E
<1> QED
  BY <1>5, <1>14
-----------------------------------------------------------------------------
(* Scanning. *)

\* A set of numbers has a least one.
LEMMA LeastLemma ==
  ASSUME NEW S \in SUBSET Nat, S # {}
  PROVE  Least(S) \in S /\ \A m \in S : Least(S) <= m
<1>1. \E x \in S : \A m \in S : x <= m
  BY LeastNat
<1> QED
  BY <1>1 DEF Least

\* A finite set of positions has a greatest one.
LEMMA GreatestLemma ==
  ASSUME NEW N \in Nat, NEW S \in SUBSET (1 .. N), S # {}
  PROVE  Greatest(S) \in S /\ \A m \in S : m <= Greatest(S)
<1> DEFINE f == [n \in 1 .. N |-> n]
<1>1. \A n \in 1 .. N : f[n] = n /\ f[n] \in Nat
  OBVIOUS
<1> HIDE DEF f
<1>2. \E i \in S : \A j \in S : f[j] <= f[i]
  BY <1>1, GreatestOf
<1>3. \E i \in S : \A j \in S : j <= i
  BY <1>1, <1>2
<1> QED
  BY <1>3 DEF Greatest

\* A sequence of whatever elements.
IsSeq(s) == Len(s) \in Nat /\ s = [i \in 1 .. Len(s) |-> s[i]]

\* A function on 1 .. n is a sequence.
LEMMA SeqByLength ==
  ASSUME NEW n \in Nat, NEW s, s = [i \in 1 .. n |-> s[i]]
  PROVE  IsSeq(s) /\ Len(s) = n /\ DOMAIN s = 1 .. n
<1> DEFINE X == {s[i] : i \in 1 .. n}
<1>1. \A i \in 1 .. n : s[i] \in X
  OBVIOUS
<1> HIDE DEF X
<1>2. s \in [1 .. n -> X]
  BY <1>1
<1>3. s \in Seq(X) /\ Len(s) = n
  BY <1>2
<1>4. DOMAIN s = 1 .. n
  BY <1>2
<1> QED
  BY <1>3, <1>4 DEF IsSeq

\* Where LineFeed ends up, from k on.
LineFeeds(k) ==
  {-1, 0} \cup {m \in k + 1 .. Len(data) : data[m - 1] = "CR" /\ data[m] = "LF"}

\* LineFeed steps over one or two characters at a time.
LineStep(k, a, b) ==
  CASE k > Len(data) -> 0
    [] k <= Len(data) /\ data[k] # "CR" -> a
    [] k = Len(data) /\ data[k] = "CR" -> -1
    [] OTHER -> IF data[k + 1] = "LF" THEN k + 1 ELSE b

\* The scan for a line feed goes from position to position like this.
LEMMA LineFeedSteps ==
  ASSUME IsSeq(data), NEW from \in 1 .. Len(data)
  PROVE  \E w : /\ LineFeed(from) = w[from]
                /\ \A k \in from .. Len(data) + 2 : w[k] = LineStep(k, w[k + 1], w[k + 2])
<1> DEFINE D == Len(data)
           K == D + 2 - from
           Rhs(f) == [k \in from .. D + 2 |-> LineStep(k, f[k + 1], f[k + 2])]
           w == CHOOSE f : f = Rhs(f)
           V == Int \X Int
           F == [j \in 1 .. K |-> [v \in V |-> <<LineStep(D + 2 - j, v[1], v[2]), v[1]>>]]
<1>1. D \in Nat /\ from \in Nat /\ from >= 1 /\ from <= D /\ K \in Nat
  BY DEF IsSeq
<1>2. LineFeed(from) = w[from]
  BY DEF LineFeed, LineStep
<1> HIDE DEF D
<1>3. \A k \in Int : \A a, b : k > D => LineStep(k, a, b) = 0
  BY <1>1 DEF LineStep, D
<1>4. \A k \in Int, a \in Int, b \in Int : LineStep(k, a, b) \in Int
  BY <1>1 DEF LineStep, D
<1> HIDE DEF K
<1>5. F \in Steps(V, K)
  <2>1. ASSUME NEW j \in 1 .. K, NEW v \in V
        PROVE  <<LineStep(D + 2 - j, v[1], v[2]), v[1]>> \in V
    <3>1. D + 2 - j \in Int /\ v[1] \in Int /\ v[2] \in Int
      BY <1>1
    <3> QED
      BY <1>4, <3>1
  <2> HIDE DEF V
  <2> QED
    BY <2>1 DEF Steps
<1>6. <<0, 0>> \in V
  OBVIOUS
<1>7. PICK g \in [0 .. K -> V] : Follows(g, <<0, 0>>, F, K)
  <2> HIDE DEF F, V
  <2> QED
    BY <1>1, <1>5, <1>6, Recursion
<1>8. /\ g[0][1] = 0
      /\ \A j \in 1 .. K : /\ g[j][1] = LineStep(D + 2 - j, g[j - 1][1], g[j - 1][2])
                           /\ g[j][2] = g[j - 1][1]
  <2>1. g[0] = <<0, 0>> /\ \A j \in 1 .. K : g[j] = F[j][g[j - 1]]
    BY <1>7 DEF Follows
  <2>2. ASSUME NEW j \in 1 .. K
        PROVE  g[j] = <<LineStep(D + 2 - j, g[j - 1][1], g[j - 1][2]), g[j - 1][1]>>
    <3>1. g[j - 1] \in V
      BY <1>1, <1>7
    <3> HIDE DEF V
    <3> QED
      BY <2>1, <3>1
  <2> QED
    BY <2>1, <2>2
<1> DEFINE f == [k \in from .. D + 2 |-> g[D + 2 - k][1]]
<1>9. f = Rhs(f)
  <2> SUFFICES ASSUME NEW k \in from .. D + 2 PROVE f[k] = LineStep(k, f[k + 1], f[k + 2])
    OBVIOUS
  <2> DEFINE j == D + 2 - k
  <2>1. k \in Int /\ j \in 0 .. K /\ f[k] = g[j][1] /\ D + 2 - j = k
    BY <1>1 DEF K
  <2>2. CASE k > D
    <3>1. j = 0 \/ j = 1
      BY <1>1, <2>1, <2>2
    <3>2. j = 1 => g[j][1] = LineStep(k, g[0][1], g[0][2])
      BY <1>8, <2>1
    <3>3. f[k] = 0
      BY <1>3, <1>8, <2>1, <2>2, <3>1, <3>2
    <3>4. LineStep(k, f[k + 1], f[k + 2]) = 0
      BY <1>3, <2>2
    <3> QED
      BY <3>3, <3>4
  <2>3. CASE ~(k > D)
    <3>1. j \in 1 .. K /\ j - 1 \in 1 .. K /\ j - 1 = D + 2 - (k + 1) /\ j - 2 = D + 2 - (k + 2)
          /\ k + 1 \in from .. D + 2 /\ k + 2 \in from .. D + 2 /\ (j - 1) - 1 = j - 2
      BY <1>1, <2>1, <2>3 DEF K
    <3>2. f[k + 1] = g[j - 1][1] /\ f[k + 2] = g[j - 2][1]
      BY <3>1
    <3>3. g[j - 1][2] = g[j - 2][1]
      BY <1>8, <3>1
    <3>4. g[j][1] = LineStep(k, g[j - 1][1], g[j - 1][2])
      BY <1>8, <2>1, <3>1
    <3> QED
      BY <2>1, <3>2, <3>3, <3>4
  <2> QED
    BY <2>2, <2>3
<1> HIDE DEF f
<1>10. w = Rhs(w)
  <2> HIDE DEF Rhs
  <2> QED
    BY <1>9
<1> HIDE DEF w
<1>11. \A k \in from .. D + 2 : w[k] = LineStep(k, w[k + 1], w[k + 2])
  BY <1>10
<1> QED
  BY <1>2, <1>11, Zenon DEF D

\* So the line feed it finds, if any, is behind a carriage return.
LEMMA LineFeedLemma ==
  ASSUME IsSeq(data), NEW from \in 1 .. Len(data)
  PROVE  LineFeed(from) \in LineFeeds(from)
<1> DEFINE D == Len(data)
           K == D + 2 - from
<1>1. D \in Nat /\ from \in Nat /\ from >= 1 /\ from <= D /\ K \in Nat
  BY DEF IsSeq
<1>2. PICK w : /\ LineFeed(from) = w[from]
               /\ \A k \in from .. D + 2 : w[k] = LineStep(k, w[k + 1], w[k + 2])
  BY LineFeedSteps
<1> HIDE DEF D, K
<1>3. \A k \in Int : \A a, b : k > D => LineStep(k, a, b) = 0
  BY <1>1 DEF LineStep, D
<1> DEFINE Good(k) == w[k] \in LineFeeds(k)
           T == {j \in 0 .. K : Good(D + 2 - j) /\ (j > 0 => Good(D + 3 - j))}
<1>12. 0 \in T
  <2>1. w[D + 2] = 0
    <3>1. D + 2 \in from .. D + 2 /\ D + 2 > D
      BY <1>1
    <3> QED
      BY <1>3, <1>2, <3>1
  <2>2. 0 \in 0 .. K /\ D + 2 - 0 = D + 2 /\ ~(0 > 0)
    BY <1>1
  <2> QED
    BY <2>1, <2>2 DEF LineFeeds
<1>13. ASSUME NEW j \in 1 .. K, j - 1 \in T PROVE j \in T
  <2> DEFINE k == D + 2 - j
  <2>1. /\ k \in from .. D + 2 /\ k \in Int /\ j \in 0 .. K /\ D + 2 - (j - 1) = k + 1
        /\ D + 3 - (j - 1) = k + 2 /\ D + 3 - j = k + 1
    BY <1>1 DEF K
  <2>2. Good(k + 1) /\ (j - 1 > 0 => Good(k + 2))
    BY <1>13, <2>1
  <2>3. w[k] = LineStep(k, w[k + 1], w[k + 2])
    BY <1>2, <2>1
  <2>4. Good(k)
    <3> HIDE DEF k
    <3>1. CASE k > D
      BY <1>3, <2>1, <2>3, <3>1 DEF LineFeeds
    <3>2. CASE ~(k > D)
      <4>1. j - 1 > 0
        BY <1>1, <2>1, <3>2 DEF k
      <4>2. LineFeeds(k + 1) \subseteq LineFeeds(k) /\ LineFeeds(k + 2) \subseteq LineFeeds(k)
        <5>1. \A m \in (k + 1) + 1 .. D : m \in k + 1 .. D
          BY <1>1, <2>1
        <5>2. \A m \in (k + 2) + 1 .. D : m \in k + 1 .. D
          BY <1>1, <2>1
        <5> QED
          BY <5>1, <5>2, Zenon DEF LineFeeds, D
      <4>3. data[k] = "CR" /\ k # D /\ data[k + 1] = "LF" => k + 1 \in LineFeeds(k)
        <5> HAVE data[k] = "CR" /\ k # D /\ data[k + 1] = "LF"
        <5>1. k + 1 \in k + 1 .. D /\ (k + 1) - 1 = k
          BY <1>1, <2>1, <3>2
        <5> QED
          BY <5>1 DEF LineFeeds, D
      <4>4. -1 \in LineFeeds(k)
        BY DEF LineFeeds
      <4>5. \/ w[k] = w[k + 1]
            \/ w[k] = -1
            \/ w[k] = k + 1 /\ data[k] = "CR" /\ k # D /\ data[k + 1] = "LF"
            \/ w[k] = w[k + 2]
        <5>1. k <= D /\ ~(k > D)
          BY <1>1, <2>1, <3>2
        <5>2. CASE data[k] # "CR"
          BY <2>3, <5>1, <5>2 DEF LineStep, D
        <5>3. CASE data[k] = "CR" /\ k = D
          BY <2>3, <5>1, <5>3 DEF LineStep, D
        <5>4. CASE data[k] = "CR" /\ k # D
          BY <2>3, <5>1, <5>4 DEF LineStep, D
        <5> QED
          BY <5>2, <5>3, <5>4
      <4> QED
        BY <2>2, <4>1, <4>2, <4>3, <4>4, <4>5
    <3> QED
      BY <3>1, <3>2
  <2> HIDE DEF Good
  <2> QED
    BY <2>1, <2>2, <2>4
<1>14. K \in T
  <2> HIDE DEF T
  <2>1. K \in Nat /\ K \in 0 .. K
    BY <1>1
  <2>2. \A n \in 1 .. K : n - 1 \in T => n \in T
    BY <1>13
  <2>3. 0 .. K \subseteq T
    BY <1>12, <2>1, <2>2, UpTo
  <2> QED
    BY <2>1, <2>3
<1>15. Good(D + 2 - K)
  <2> HIDE DEF Good
  <2> QED
    BY <1>14
<1>16. D + 2 - K = from
  BY <1>1 DEF K
<1> QED
  BY <1>2, <1>15, <1>16
-----------------------------------------------------------------------------
(* The invariant of a parse, whatever the message. *)

Span == [from: Int, len: Int]
Spans == [name: Span, value: Span]

\* Where a header's value may lie: in the buffer, and before the end of the last line.
InBuffer(h, end) == h.value.from \in 1 .. Cut /\ h.value.from + h.value.len <= end

\* The places of a parse that goes on: all that is read is before the line or chunk
\* to come, and so is every value.
Under ==
  /\ p1 \in 1 .. Cut + 1 /\ read = p1 - 1 /\ bodyLen <= read
  /\ phase = "line" => p1 = 1
  /\ phase = "chunked" => scan \in p1 .. p1 + 1
  /\ \A k \in DOMAIN headers : InBuffer(headers[k], p1)

Shape ==
  /\ phase \in {"line", "header", "chunked", "end"} /\ copy \in {"server", "runtime"}
  /\ outcome \in {"none", "ok", "incomplete", "error", "overrun"}
  /\ (outcome = "none") = (phase # "end")
  /\ IsSeq(data) /\ maxHeader \in Nat
  /\ headers \in Seq(Spans) /\ Len(headers) <= maxHeader
  /\ read \in 0 .. Cut + 1 /\ bodyLen \in Nat
  /\ copy = "server" => read <= Cut /\ bodyLen <= read
  /\ phase # "end" => Under
  /\ \A k \in DOMAIN headers : InBuffer(headers[k], Cut + 1)
-----------------------------------------------------------------------------
(* The text of a message. *)

Letters ==
  {"g", "/", "?", " ", "H", "T", "P", "1", "2", "0", ".", "x", "y", "z", ":", "u",
   "v", "w", ";", "e", "a", "b", "c", "CR", "LF"}

\* Joining stays among the characters.
LEMMA JoinsIn == \A s, t \in Seq(Letters) : s \o t \in Seq(Letters)
<1> DEFINE Q == Seq(Letters)
<1>1. ASSUME NEW s \in Q, NEW t \in Q PROVE s \o t \in Q
  BY ConcatProperties
<1> QED
  BY <1>1

\* A request line is made of these characters, and so are a field and a chunk.
LEMMA LineTextIn ==
  ASSUME NEW l \in Lines \cup {StdLine}
  PROVE  LineText(l) \in Seq(Letters)
<1> DEFINE Q == Seq(Letters)
<1>1. CRLF \in Q
  BY DEF CRLF, Letters
<1>2. <<" ">> \in Q
  BY DEF Letters
<1>3. Version \in Q
  BY DEF Version, Letters
<1>4. <<"H", "T", "T", "P", "/", "2", ".", "0">> \in Q
  BY DEF Letters
<1>5. <<"H">> \in Q
  BY DEF Letters
<1>6. <<"g">> \in Q
  BY DEF Letters
<1>7. <<"g", "g">> \in Q
  BY DEF Letters
<1>8. <<"/">> \in Q
  BY DEF Letters
<1>9. <<"/", "?">> \in Q
  BY DEF Letters
<1>10. \A s, t \in Q : s \o t \in Q
  BY JoinsIn
<1> HIDE DEF Q
<1>11. l.method \in Q /\ l.path \in Q /\ l.version \in Q
  <2>1. CASE l \in Lines
    BY <1>3, <1>4, <1>5, <1>6, <1>7, <1>8, <1>9, <2>1 DEF Lines
  <2>2. CASE l = StdLine
    BY <1>3, <1>6, <1>8, <2>2 DEF StdLine
  <2> QED
    BY <2>1, <2>2
<1> DEFINE a == l.method
           b == a \o <<" ">>
           c == b \o l.path
           d == c \o <<" ">>
           e == d \o l.version
<1>12. LineText(l) = e \o CRLF
  BY DEF LineText
<1>13. b \in Q
  BY <1>2, <1>10, <1>11
<1> HIDE DEF b
<1>14. c \in Q
  BY <1>10, <1>11, <1>13
<1> HIDE DEF c
<1>15. d \in Q
  BY <1>2, <1>10, <1>14
<1> HIDE DEF d
<1>16. e \in Q
  BY <1>10, <1>11, <1>15
<1> HIDE DEF e
<1> QED
  BY <1>1, <1>10, <1>12, <1>16 DEF Q

\* The same for a header field, with its continuation line.
LEMMA FieldTextIn ==
  ASSUME NEW f \in Fields
  PROVE  FieldText(f) \in Seq(Letters)
<1> DEFINE Q == Seq(Letters)
<1>1. CRLF \in Q
  BY DEF CRLF, Letters
<1>2. <<" ">> \in Q
  BY DEF Letters
<1>3. <<":">> \in Q
  BY DEF Letters
<1>4. <<>> \in Q
  OBVIOUS
<1>5. <<"x">> \in Q /\ <<"z", "z">> \in Q
  <2>1. <<"x">> \in Q
    BY DEF Letters
  <2>2. <<"z", "z">> \in Q
    BY DEF Letters
  <2> QED
    BY <2>1, <2>2
<1>6. <<"y", " ">> \in Q
  BY DEF Letters
<1>7. <<"v">> \in Q /\ <<"u">> \in Q
  <2>1. <<"v">> \in Q
    BY DEF Letters
  <2>2. <<"u">> \in Q
    BY DEF Letters
  <2> QED
    BY <2>1, <2>2
<1>8. <<"w">> \in Q
  BY DEF Letters
<1>9. <<"w", ":", "w">> \in Q
  BY DEF Letters
<1>10. \A s, t \in Q : s \o t \in Q
  BY JoinsIn
<1>11. \A n \in {0, 1} : Pad(n) \in Q
  <2>1. ASSUME NEW n \in Nat PROVE Pad(n) \in Q
    <3>1. Pad(n) \in [1 .. n -> Letters]
      BY DEF Pad, Letters
    <3> HIDE DEF Letters
    <3> QED
      BY <3>1
  <2> QED
    BY <2>1
<1> HIDE DEF Q
<1>12. f.name \in Q /\ f.pad \in {0, 1} /\ f.value \in Q /\ f.fold \in Q
  <2>1. f.name \in {<<"x">>, <<"z", "z">>, <<"y", " ">>}
    BY DEF Fields
  <2>2. f.value \in {<<>>, <<"v">>, <<"u">>}
    BY DEF Fields
  <2>3. f.fold \in {<<>>, <<"w">>, <<"w", ":", "w">>}
    BY DEF Fields
  <2>4. 0 .. 1 = {0, 1} /\ 0 \in {0, 1}
    OBVIOUS
  <2>5. f.pad \in 0 .. 1 \/ f.pad = 0
    BY DEF Fields
  <2> QED
    BY <1>4, <1>5, <1>6, <1>7, <1>8, <1>9, <2>1, <2>4, <2>2, <2>3, <2>5
<1>13. Pad(f.pad) \in Q
  BY <1>11, <1>12
<1> DEFINE a == f.name \o <<":">>
           b == a \o Pad(f.pad)
           c == b \o f.value
           d == c \o Pad(f.pad)
           e == d \o CRLF
<1>14. FirstLine(f) = e
  BY DEF FirstLine
<1>15. a \in Q
  BY <1>3, <1>10, <1>12
<1> HIDE DEF a
<1>16. b \in Q
  BY <1>10, <1>13, <1>15
<1> HIDE DEF b
<1>17. c \in Q
  BY <1>10, <1>12, <1>16
<1> HIDE DEF c
<1>18. d \in Q
  BY <1>10, <1>13, <1>17
<1> HIDE DEF d
<1>19. e \in Q
  BY <1>1, <1>10, <1>18
<1> HIDE DEF e
<1> DEFINE g == <<" ">> \o f.fold
<1>20. FieldText(f) = e \o IF f.fold = <<>> THEN <<>> ELSE g \o CRLF
  BY <1>14 DEF FieldText
<1>21. g \in Q
  BY <1>2, <1>10, <1>12
<1> HIDE DEF g
<1>22. g \o CRLF \in Q
  BY <1>1, <1>10, <1>21
<1> QED
  BY <1>4, <1>10, <1>19, <1>20, <1>22 DEF Q

\* The same for a chunk.
LEMMA ChunkTextIn ==
  ASSUME NEW c \in Chunks \cup {LastChunk}
  PROVE  ChunkText(c) \in Seq(Letters)
<1> DEFINE t == ChunkText(c)
           n == Len(t)
<1>1. t \in Seq(Chars)
  BY ChunkIn
<1> HIDE DEF t
<1>2. n \in Nat /\ t \in [1 .. n -> Chars]
  BY <1>1
<1>3. Chars \subseteq Letters
  BY DEF Chars, Letters
<1> HIDE DEF n
<1>4. t \in [1 .. n -> Letters]
  BY <1>2, <1>3
<1>5. t \in Seq(Letters)
  BY <1>2, <1>4
<1> QED
  BY <1>5 DEF t

\* The same for texts one after another.
LEMMA ConcatIn ==
  ASSUME NEW D \in Nat, NEW U \in [1 .. D -> Seq(Letters)]
  PROVE  Concat(U) \in Seq(Letters)
<1> DEFINE Q == Seq(Letters)
<1>1. U \in Seq(Seq(Letters)) /\ Len(U) = D
  <2>1. U \in [1 .. D -> Q]
    OBVIOUS
  <2> HIDE DEF Q
  <2>2. U \in Seq(Q) /\ Len(U) = D
    BY <2>1
  <2> QED
    BY <2>2 DEF Q
<1>2. D \in 0 .. D
  OBVIOUS
<1> QED
  BY <1>1, <1>2, ConcatsLemma DEF Concat

\* What a request is made of.
LEMMA RequestForm ==
  ASSUME NEW m \in Requests
  PROVE  /\ m.line \in Lines \cup {StdLine}
         /\ \E D \in Nat : m.fields \in [1 .. D -> Fields]
         /\ m.text = LineText(m.line) \o BlockText(m.fields)
<1>1. PICK l \in Lines \cup {StdLine} : \E fs :
        /\ m = [kind |-> "request", line |-> l, fields |-> fs,
                text |-> LineText(l) \o BlockText(fs)]
        /\ fs \in BoundedSeq(Fields, MaxFields) \/ fs = <<StdField>>
  <2> DEFINE A == {[kind |-> "request", line |-> l, fields |-> fs,
                    text |-> LineText(l) \o BlockText(fs)] :
                     l \in {StdLine}, fs \in BoundedSeq(Fields, MaxFields)}
             B == {[kind |-> "request", line |-> l, fields |-> fs,
                    text |-> LineText(l) \o BlockText(fs)] :
                     l \in Lines, fs \in {<<StdField>>}}
  <2>1. CASE m \in A
    BY <2>1
  <2>2. CASE m \in B
    <3>1. PICK l \in Lines, fs \in {<<StdField>>} :
            m = [kind |-> "request", line |-> l, fields |-> fs,
                 text |-> LineText(l) \o BlockText(fs)]
      BY <2>2
    <3>2. l \in Lines \cup {StdLine} /\ fs = <<StdField>>
      OBVIOUS
    <3> QED
      BY <3>1, <3>2, Zenon
  <2>3. Requests = A \cup B
    BY SMTT(30) DEF Requests
  <2> HIDE DEF A, B
  <2>4. m \in A \/ m \in B
    BY <2>3
  <2> QED
    BY <2>1, <2>2, <2>4
<1>2. PICK fs :
        /\ m = [kind |-> "request", line |-> l, fields |-> fs,
                text |-> LineText(l) \o BlockText(fs)]
        /\ fs \in BoundedSeq(Fields, MaxFields) \/ fs = <<StdField>>
  BY <1>1
<1>3. m.line = l /\ m.fields = fs /\ m.text = LineText(l) \o BlockText(fs)
  BY <1>2
<1>4. \E i \in Nat : fs \in [1 .. i -> Fields]
  <2>1. CASE fs \in BoundedSeq(Fields, MaxFields)
    <3>1. PICK i \in 0 .. MaxFields : fs \in [1 .. i -> Fields]
      BY <2>1 DEF BoundedSeq, SeqOf
    <3>2. MaxFields \in Nat
      BY HttpParserAssumption
    <3>3. i \in Nat
      BY <3>1, <3>2
    <3> QED
      BY <3>1, <3>3
  <2>2. CASE fs = <<StdField>>
    <3>1. StdField \in Fields
      BY DEF StdField, Fields
    <3>2. \A x \in Fields : <<x>> \in [1 .. 1 -> Fields]
      OBVIOUS
    <3> QED
      BY <2>2, <3>1, <3>2
  <2> QED
    BY <1>2, <2>1, <2>2
<1> QED
  BY <1>1, <1>3, <1>4, Zenon

\* Every message is made of these characters.
LEMMA TextIn ==
  ASSUME NEW m \in Requests \cup Bodies
  PROVE  m.text \in Seq(Letters)
<1> DEFINE Q == Seq(Letters)
<1>1. \A s, t \in Q : s \o t \in Q
  BY JoinsIn
<1>2. CRLF \in Q
  BY DEF CRLF, Letters
<1>3. CASE m \in Requests
  <2> DEFINE l == m.line
             fs == m.fields
  <2>1. /\ l \in Lines \cup {StdLine} /\ m.text = LineText(l) \o BlockText(fs)
        /\ \E D \in Nat : fs \in [1 .. D -> Fields]
    BY <1>3, RequestForm
  <2>3. m.text = LineText(l) \o BlockText(fs)
    BY <2>1
  <2>5. PICK D \in Nat : fs \in [1 .. D -> Fields]
    BY <2>1
  <2> HIDE DEF l, fs
  <2> DEFINE U == [k \in DOMAIN fs |-> FieldText(fs[k])]
  <2>6. U \in [1 .. D -> Q]
    <3>1. ASSUME NEW k \in 1 .. D PROVE FieldText(fs[k]) \in Q
      <4>1. fs[k] \in Fields
        BY <2>5
      <4> QED
        BY <4>1, FieldTextIn
    <3> HIDE DEF Q
    <3> QED
      BY <2>5, <3>1
  <2>7. BlockText(fs) = Concat(U) \o CRLF
    BY DEF BlockText
  <2> HIDE DEF U
  <2>8. Concat(U) \in Q
    BY <2>6, ConcatIn
  <2>9. LineText(l) \in Q
    BY <2>1, LineTextIn
  <2> HIDE DEF Q
  <2>10. BlockText(fs) \in Q
    BY <1>1, <1>2, <2>7, <2>8
  <2> QED
    BY <1>1, <2>9, <2>10, <2>3 DEF Q
<1>4. CASE m \in Bodies
  <2>1. PICK cs \in BoundedSeq(Chunks, MaxChunks) :
          m = [kind |-> "chunked", chunks |-> Append(cs, LastChunk),
               text |-> Concat([k \in DOMAIN cs |-> ChunkText(cs[k])]) \o ChunkText(LastChunk)]
    BY <1>4 DEF Bodies
  <2>2. PICK D \in 0 .. MaxChunks : cs \in [1 .. D -> Chunks]
    BY <2>1 DEF BoundedSeq, SeqOf
  <2>3. D \in Nat
    BY <2>2, HttpParserAssumption
  <2> DEFINE U == [k \in DOMAIN cs |-> ChunkText(cs[k])]
  <2>4. U \in [1 .. D -> Q]
    <3>1. ASSUME NEW k \in 1 .. D PROVE ChunkText(cs[k]) \in Q
      <4>1. cs[k] \in Chunks
        BY <2>2
      <4> QED
        BY <4>1, ChunkTextIn
    <3> HIDE DEF Q
    <3> QED
      BY <2>2, <3>1
  <2>5. m.text = Concat(U) \o ChunkText(LastChunk)
    BY <2>1
  <2> HIDE DEF U
  <2>6. Concat(U) \in Q
    BY <2>3, <2>4, ConcatIn
  <2>7. ChunkText(LastChunk) \in Q
    BY ChunkTextIn
  <2> HIDE DEF Q
  <2> QED
    BY <1>1, <2>5, <2>6, <2>7 DEF Q
<1> QED
  BY <1>3, <1>4
-----------------------------------------------------------------------------
(* The invariant of a parse, step by step. *)

\* The buffer is a sequence of Cut characters.
LEMMA ShapeCut ==
  ASSUME Shape
  PROVE  /\ Cut \in Nat /\ DOMAIN data = 1 .. Cut
         /\ \A x \in 1 .. Cut + 1 : x - 1 \in 0 .. Cut
<1>1. IsSeq(data)
  BY DEF Shape
<1>2. Cut \in Nat /\ data = [i \in 1 .. Cut |-> data[i]]
  BY <1>1 DEF IsSeq, Cut
<1>3. DOMAIN data = 1 .. Cut
  BY <1>2
<1> HIDE DEF Cut
<1>4. \A x \in 1 .. Cut + 1 : x - 1 \in 0 .. Cut
  BY <1>2
<1> QED
  BY <1>2, <1>3, <1>4

\* Values that lie before one place lie before a later one.
LEMMA Later ==
  ASSUME NEW h \in Seq(Spans), NEW a \in Int, NEW b \in Int, a <= b,
         \A k \in DOMAIN h : InBuffer(h[k], a)
  PROVE  \A k \in DOMAIN h : InBuffer(h[k], b)
<1> SUFFICES ASSUME NEW k \in DOMAIN h PROVE InBuffer(h[k], b)
  OBVIOUS
<1>1. h[k] \in Spans
  OBVIOUS
<1>2. h[k].value.from \in Int /\ h[k].value.len \in Int
  BY <1>1 DEF Spans, Span
<1>3. InBuffer(h[k], a)
  OBVIOUS
<1> DEFINE f == h[k].value.from
           l == h[k].value.len
<1>4. f \in 1 .. Cut /\ f + l <= a
  BY <1>3 DEF InBuffer
<1>5. f + l <= b
  <2> HIDE DEF f, l
  <2>1. f \in Int /\ l \in Int
    BY <1>2 DEF f, l
  <2> QED
    BY <1>4, <2>1
<1> QED
  BY <1>4, <1>5 DEF InBuffer

\* A parse that ends.
LEMMA Ends ==
  ASSUME Shape, phase # "end", phase' = "end",
         outcome' \in {"ok", "incomplete", "error", "overrun"},
         UNCHANGED <<copy, maxHeader>>, IsSeq(data'), Cut' = Cut,
         headers' \in Seq(Spans), Len(headers') <= maxHeader,
         \A k \in DOMAIN headers' : InBuffer(headers'[k], Cut + 1),
         read' \in 0 .. Cut + 1, bodyLen' \in Nat,
         copy = "server" => read' <= Cut /\ bodyLen' <= read'
  PROVE  Shape'
<1>1. outcome' # "none"
  OBVIOUS
<1>2. \A k \in DOMAIN headers' : InBuffer(headers[k], Cut + 1)'
  BY DEF InBuffer
<1> QED
  BY <1>1, <1>2 DEF Shape

\* A parse that goes on.
LEMMA GoesOn ==
  ASSUME Shape, phase # "end", phase' \in {"header", "chunked"}, outcome' = outcome,
         UNCHANGED <<copy, maxHeader>>, IsSeq(data'), Cut' = Cut,
         headers' \in Seq(Spans), Len(headers') <= maxHeader,
         p1' \in 1 .. Cut + 1, read' = p1' - 1, bodyLen' \in Nat, bodyLen' <= read',
         phase' = "chunked" => scan' \in p1' .. p1' + 1,
         \A k \in DOMAIN headers' : InBuffer(headers'[k], p1')
  PROVE  Shape'
<1>1. outcome' = "none" /\ phase' # "end" /\ phase' # "line" /\ phase' \in {"line", "header", "chunked", "end"}
  BY DEF Shape
<1>2. Cut \in Nat
  BY ShapeCut
<1>3. read' \in 0 .. Cut /\ read' \in 0 .. Cut + 1 /\ read' <= Cut /\ p1' <= Cut + 1 /\ p1' \in Int
  <2>1. \A C \in Nat : \A x \in 1 .. C + 1 : \A r : r = x - 1 =>
          r \in 0 .. C /\ r \in 0 .. C + 1 /\ r <= C /\ x <= C + 1 /\ x \in Int
    OBVIOUS
  <2> QED
    BY <1>2, <2>1
<1>4. \A k \in DOMAIN headers' : InBuffer(headers'[k], Cut + 1)
  <2>1. Cut + 1 \in Int
    BY <1>2
  <2> QED
    BY <1>3, <2>1, Later
<1>5. \A k \in DOMAIN headers' : InBuffer(headers[k], p1)' /\ InBuffer(headers[k], Cut + 1)'
  BY <1>4 DEF InBuffer
<1>6. Under'
  BY <1>1, <1>5 DEF Under
<1>7. maxHeader' \in Nat /\ copy' \in {"server", "runtime"} /\ outcome' \in {"none", "ok", "incomplete", "error", "overrun"}
  BY <1>1 DEF Shape
<1> QED
  BY <1>1, <1>3, <1>5, <1>6, <1>7 DEF Shape

\* A parse that ends and leaves everything as it is.
LEMMA Refuses ==
  ASSUME Shape, phase # "end", phase' = "end",
         outcome' \in {"ok", "incomplete", "error", "overrun"},
         UNCHANGED <<copy, maxHeader, data, headers, read, bodyLen>>
  PROVE  Shape'
<1>1. Cut' = Cut /\ IsSeq(data') /\ headers' = headers
  BY DEF Cut, Shape
<1> QED
  BY <1>1, Ends DEF Shape

\* A parse starts in shape.
LEMMA ShapeInit == Init => Shape
<1> SUFFICES ASSUME Init PROVE Shape
  OBVIOUS
<1> DEFINE txt == msg.text
           K == Len(txt)
<1>1. msg \in Requests \cup Bodies
  BY DEF Init
<1>2. txt \in Seq(Letters) /\ K \in Nat
  BY <1>1, TextIn, LenProperties
<1>3. PICK cut \in 0 .. K : data = SubSeq(txt, 1, cut)
  BY DEF Init
<1>4. data \in Seq(Letters)
  <2>1. \A i \in 1 .. K : txt[i] \in Letters
    BY <1>2, ElementOfSeq
  <2> HIDE DEF K, txt
  <2>2. \A i \in 1 .. cut : i \in 1 .. K
    BY <1>2
  <2>3. 1 \in Int /\ cut \in Int /\ \A i \in 1 .. cut : txt[i] \in Letters
    BY <1>2, <2>1, <2>2
  <2> QED
    BY <1>2, <1>3, <2>3, SubSeqProperties
<1>5. IsSeq(data) /\ Cut \in Nat
  BY <1>4, LenProperties DEF IsSeq, Cut
<1>6. maxHeader \in Nat
  <2>1. \A n \in MaxHeaders : n \in Nat
    BY HttpParserAssumption
  <2> QED
    BY <2>1 DEF Init
<1>7. /\ phase \in {"line", "chunked"} /\ outcome = "none" /\ p1 = 1 /\ scan = 1
      /\ headers = <<>> /\ read = 0 /\ bodyLen = 0 /\ copy \in {"server", "runtime"}
  BY DEF Init
<1>8. headers \in Seq(Spans) /\ Len(headers) = 0 /\ DOMAIN headers = {}
  BY <1>7
<1>9. 1 \in 1 .. Cut + 1 /\ 0 = 1 - 1 /\ 0 \in 0 .. Cut + 1 /\ 0 <= Cut /\ 1 \in 1 .. 1 + 1 /\ 0 <= maxHeader
  BY <1>5, <1>6
<1>10. Under
  BY <1>7, <1>8, <1>9 DEF Under
<1> QED
  BY <1>5, <1>6, <1>7, <1>8, <1>9, <1>10 DEF Shape

\* Find finds places of the buffer.
LEMMA FindIn ==
  ASSUME Shape, NEW from \in Nat \ {0}, NEW chars
  PROVE  /\ Find(from, chars) \in SUBSET (1 .. Cut) /\ Find(from, chars) \in SUBSET Nat
         /\ \A k \in Find(from, chars) : k \in from .. Cut /\ data[k] \in chars
<1>1. Cut \in Nat /\ Cut = Len(data)
  BY ShapeCut DEF Cut
<1>2. \A k \in from .. Cut : k \in 1 .. Cut /\ k \in Nat
  BY <1>1
<1>3. \A k \in Find(from, chars) : k \in from .. Cut /\ data[k] \in chars
  BY <1>1 DEF Find
<1> QED
  BY <1>2, <1>3

\* A line feed that is found is behind a carriage return.
LEMMA LineFeedIn ==
  ASSUME Shape, NEW k \in 1 .. Cut, LineFeed(k) \notin {-1, 0}
  PROVE  /\ LineFeed(k) \in k + 1 .. Cut
         /\ data[LineFeed(k) - 1] = "CR" /\ data[LineFeed(k)] = "LF"
<1>1. IsSeq(data) /\ k \in 1 .. Len(data)
  BY DEF Shape, Cut
<1>2. LineFeed(k) \in LineFeeds(k)
  BY <1>1, LineFeedLemma
<1> QED
  BY <1>2 DEF LineFeeds, Cut

\* Two spaces are two.
LEMMA SecondSpace ==
  ASSUME Shape
  PROVE  \/ Cardinality(Find(1, {" "})) < 2
         \/ Least(Find(1, {" "}) \ {Least(Find(1, {" "}))}) \in 1 .. Cut
<1> DEFINE S == Find(1, {" "})
           x == Least(S)
<1>1. S \in SUBSET (1 .. Cut) /\ S \in SUBSET Nat
  <2>1. 1 \in Nat \ {0}
    OBVIOUS
  <2> QED
    BY <2>1, FindIn
<1> HIDE DEF S, x
<1>2. ASSUME S \ {x} = {} PROVE Cardinality(S) < 2
  <2>1. S \subseteq {x}
    BY <1>2
  <2>2. IsFiniteSet({x}) /\ Cardinality({x}) = 1
    BY FS_Singleton
  <2>3. IsFiniteSet(S) /\ Cardinality(S) <= Cardinality({x})
    BY <2>1, <2>2, FS_Subset
  <2>4. Cardinality(S) \in Nat
    BY <2>3, FS_CardinalityType
  <2>5. \A n \in Nat : n <= 1 => n < 2
    OBVIOUS
  <2> QED
    BY <2>2, <2>3, <2>4, <2>5, Zenon
<1>3. ASSUME S \ {x} # {} PROVE Least(S \ {x}) \in 1 .. Cut
  <2>1. S \ {x} \in SUBSET Nat
    BY <1>1
  <2>2. Least(S \ {x}) \in S \ {x}
    BY <1>3, <2>1, LeastLemma
  <2> QED
    BY <1>1, <2>2
<1> QED
  BY <1>2, <1>3 DEF S, x

\* http_parse_request_line keeps the shape.
LEMMA RequestLineShape == ASSUME Shape, RequestLine PROVE Shape'
<1> DEFINE spaces == Find(1, {" "})
           s1 == Least(spaces)
           s2 == Least(spaces \ {s1})
           lf == IF Cardinality(spaces) < 2 THEN 0 ELSE LineFeed(s2)
           version == lf - s2 = 10 /\ SubSeq(data, s2 + 1, s2 + 7) = SubSeq(Version, 1, 7)
<1>1. /\ phase = "line"
      /\ \/ /\ lf \in {-1, 0}
            /\ Finish(IF lf = 0 THEN "incomplete" ELSE "overrun")
            /\ UNCHANGED <<p1, line, read>>
         \/ /\ lf > 0 /\ ~version
            /\ Finish("error")
            /\ UNCHANGED <<p1, line, read>>
         \/ /\ lf > 0 /\ version
            /\ read' = lf /\ p1' = lf + 1
            /\ phase' = "header" /\ UNCHANGED outcome
      /\ UNCHANGED <<copy, maxHeader, data, headers, bodyLen>>
  BY DEF RequestLine
<1>2. lf \notin {-1, 0} => lf \in 1 .. Cut
  <2> SUFFICES ASSUME lf \notin {-1, 0} PROVE lf \in 1 .. Cut
    OBVIOUS
  <2>1. ~(Cardinality(spaces) < 2) /\ lf = LineFeed(s2)
    OBVIOUS
  <2>2. s2 \in 1 .. Cut
    BY <2>1, SecondSpace
  <2> HIDE DEF s2
  <2>3. LineFeed(s2) \in s2 + 1 .. Cut
    BY <2>1, <2>2, LineFeedIn
  <2> HIDE DEF lf
  <2>4. Cut \in Nat
    BY ShapeCut
  <2>5. \A C \in Nat : \A x \in 1 .. C : \A y \in x + 1 .. C : y \in 1 .. C
    OBVIOUS
  <2> QED
    BY <2>1, <2>2, <2>3, <2>4, <2>5, Zenon
<1> HIDE DEF lf, version
<1>3. phase # "end" /\ Cut' = Cut /\ Cut \in Nat
  BY <1>1, ShapeCut DEF Cut
<1>4. CASE phase' = "end" /\ outcome' \in {"ok", "incomplete", "error", "overrun"} /\ read' = read
  BY <1>1, <1>3, <1>4, Refuses
<1>5. CASE lf > 0 /\ read' = lf /\ p1' = lf + 1 /\ phase' = "header" /\ UNCHANGED outcome
  <2>1. lf \in 1 .. Cut
    BY <1>2, <1>5
  <2>2. /\ lf + 1 \in 1 .. Cut + 1 /\ lf = (lf + 1) - 1 /\ 1 <= lf + 1 /\ 0 <= lf
        /\ 1 \in Int /\ lf + 1 \in Int
    BY <1>3, <2>1
  <2>3. Under /\ p1 = 1 /\ bodyLen \in Nat /\ headers \in Seq(Spans) /\ Len(headers) <= maxHeader
    BY <1>1, <1>3 DEF Shape, Under
  <2>4. \A k \in DOMAIN headers : InBuffer(headers[k], 1)
    BY <2>3 DEF Under
  <2>5. \A k \in DOMAIN headers : InBuffer(headers[k], lf + 1)
    BY <2>2, <2>3, <2>4, Later
  <2>6. bodyLen <= lf
    <3>1. read = 1 - 1 /\ bodyLen <= read
      BY <2>3 DEF Under
    <3> QED
      BY <2>1, <2>3, <3>1
  <2>7. IsSeq(data)
    BY DEF Shape
  <2> QED
    BY <1>1, <1>3, <1>5, <2>2, <2>3, <2>5, <2>6, <2>7, GoesOn
<1> QED
  BY <1>1, <1>4, <1>5 DEF Finish

\* So does an empty buffer.
LEMMA NoHeaderShape == ASSUME Shape, NoHeader PROVE Shape'
BY Refuses DEF NoHeader, Finish

\* A sequence is one of whatever set its elements are in.
LEMMA SeqRetype ==
  ASSUME NEW X, NEW D, NEW d \in Seq(X), \A k \in DOMAIN d : d[k] \in D
  PROVE  d \in Seq(D)
<1> DEFINE n == Len(d)
<1>1. n \in Nat /\ DOMAIN d = 1 .. n /\ d = [k \in 1 .. n |-> d[k]]
  OBVIOUS
<1> HIDE DEF n
<1>2. d \in [1 .. n -> D]
  BY <1>1
<1> QED
  BY <1>1, <1>2

\* What str_parse_hex makes of digits is a number.
LEMMA SizeIsNat ==
  ASSUME Shape, NEW a \in Int, NEW b \in Int, \A i \in a .. b : i \in 1 .. Cut,
         NEW d, d = SubSeq(data, a, b), \A k \in DOMAIN d : d[k] \in DOMAIN Digit
  PROVE  str_parse_hex(d) \in Nat
<1> DEFINE X == {data[i] : i \in 1 .. Cut}
<1>1. Cut \in Nat /\ data = [i \in 1 .. Cut |-> data[i]]
  BY DEF Shape, IsSeq, Cut
<1>2. \A i \in 1 .. Cut : data[i] \in X
  OBVIOUS
<1> HIDE DEF X
<1>3. data \in [1 .. Cut -> X]
  BY <1>1, <1>2
<1>4. data \in Seq(X)
  BY <1>1, <1>3
<1>5. \A i \in a .. b : data[i] \in X
  BY <1>2
<1>6. d \in Seq(X)
  BY <1>4, <1>5, SubSeqProperties
<1> DEFINE D == DOMAIN Digit
<1>7. \A k \in DOMAIN d : d[k] \in D
  OBVIOUS
<1> HIDE DEF D
<1>8. d \in Seq(D)
  BY <1>6, <1>7, SeqRetype
<1>9. Len(d) \in Nat /\ \A n \in 0 .. Len(d) : Hexes(d)[n] \in Nat
  BY <1>8, HexesLemma DEF D
<1>10. Len(d) \in 0 .. Len(d)
  BY <1>9
<1> QED
  BY <1>9, <1>10 DEF str_parse_hex

\* So does http_parse_chunked.
LEMMA ChunkShape ==
  ASSUME Shape, Chunk
  PROVE  /\ Shape'
         /\ bodyLen' >= bodyLen /\ Cut' = Cut /\ \A i \in 1 .. bodyLen : data'[i] = data[i]
<1> DEFINE crs == Find(scan, {"CR"})
           cr == Least(crs)
           semis == {k \in scan .. cr - 1 : data[k] = ";"}
           last == (IF semis = {} THEN cr ELSE Greatest(semis)) - 1
           digits == SubSeq(data, p1, last)
           valid == digits # <<>> /\ \A k \in DOMAIN digits : digits[k] \in DOMAIN Digit
           n == str_parse_hex(digits)
           end == cr + 1 + n + 2
<1>1. /\ phase = "chunked" /\ copy = "server"
      /\ \/ /\ crs = {}
            /\ Finish("ok") /\ UNCHANGED <<data, p1, scan, read, bodyLen>>
         \/ /\ crs # {} /\ ~valid
            /\ Finish("error") /\ UNCHANGED <<data, p1, scan, read, bodyLen>>
         \/ /\ crs # {} /\ valid /\ end > Len(data)
            /\ Finish("incomplete") /\ UNCHANGED <<data, p1, scan, read, bodyLen>>
         \/ /\ crs # {} /\ valid /\ end <= Len(data) /\ n = 0
            /\ read' = cr + 1
            /\ Finish("ok") /\ UNCHANGED <<data, p1, scan, bodyLen>>
         \/ /\ crs # {} /\ valid /\ end <= Len(data) /\ n > 0
            /\ data' = Compact(cr, n) /\ bodyLen' = bodyLen + n /\ read' = end
            /\ p1' = end + 1 /\ scan' = end + 2
            /\ UNCHANGED <<phase, outcome>>
      /\ UNCHANGED <<copy, maxHeader, headers>>
  BY DEF Chunk
<1>2. /\ Cut \in Nat /\ DOMAIN data = 1 .. Cut /\ IsSeq(data) /\ Cut = Len(data)
      /\ headers \in Seq(Spans) /\ Len(headers) <= maxHeader /\ bodyLen \in Nat
      /\ phase # "end" /\ Under
  BY <1>1, ShapeCut DEF Shape, Cut
<1>3. /\ p1 \in 1 .. Cut + 1 /\ scan \in p1 .. p1 + 1 /\ bodyLen <= p1 - 1
      /\ \A k \in DOMAIN headers : InBuffer(headers[k], p1)
  BY <1>1, <1>2 DEF Under
<1>4. p1 \in Nat /\ p1 > 0 /\ scan \in Nat \ {0} /\ p1 <= scan
  BY <1>2, <1>3
<1>5. ASSUME crs # {} PROVE cr \in scan .. Cut
  <2>1. crs \in SUBSET Nat /\ \A k \in crs : k \in scan .. Cut
    BY <1>4, FindIn
  <2> HIDE DEF crs
  <2>2. cr \in crs
    BY <1>5, <2>1, LeastLemma
  <2> QED
    BY <2>1, <2>2
<1> HIDE DEF crs, cr
<1> HIDE DEF valid, n, digits, semis, last
<1>6. ASSUME crs # {}, valid PROVE n \in Nat
  <2>1. cr \in scan .. Cut
    BY <1>5, <1>6
  <2>2. cr \in Int /\ scan <= cr /\ cr <= Cut
    BY <1>2, <1>4, <2>1
  <2>3. last \in Int /\ last <= Cut
    <3>1. CASE semis = {}
      <4>1. last = cr - 1
        BY <3>1 DEF last
      <4> QED
        BY <1>2, <2>2, <4>1
    <3>2. CASE semis # {}
      <4>1. semis \in SUBSET (1 .. Cut)
        <5>1. \A k \in scan .. cr - 1 : k \in 1 .. Cut
          BY <1>2, <1>4, <2>2
        <5> QED
          BY <5>1 DEF semis
      <4>2. Greatest(semis) \in semis
        BY <1>2, <3>2, <4>1, GreatestLemma
      <4>3. Greatest(semis) \in 1 .. Cut
        BY <4>1, <4>2
      <4>4. last = Greatest(semis) - 1
        BY <3>2 DEF last
      <4> QED
        BY <1>2, <4>3, <4>4
    <3> QED
      BY <3>1, <3>2
  <2>4. p1 \in Int /\ \A i \in p1 .. last : i \in 1 .. Cut
    BY <1>2, <1>4, <2>3
  <2>5. \A k \in DOMAIN digits : digits[k] \in DOMAIN Digit
    BY <1>6 DEF valid
  <2> QED
    BY <2>3, <2>4, <2>5, SizeIsNat DEF digits, n
<1>7. CASE /\ Finish("ok") \/ Finish("error") \/ Finish("incomplete")
           /\ UNCHANGED <<data, read, bodyLen>>
  <2>1. Shape'
    BY <1>1, <1>2, <1>7, Refuses DEF Finish
  <2>2. bodyLen' >= bodyLen
    BY <1>2, <1>7
  <2> QED
    BY <1>7, <2>1, <2>2 DEF Cut
<1>8. CASE /\ crs # {} /\ valid /\ end <= Len(data) /\ n = 0
           /\ read' = cr + 1
           /\ Finish("ok") /\ UNCHANGED <<data, p1, scan, bodyLen>>
  <2>1. /\ read' \in 0 .. Cut + 1 /\ read' <= Cut /\ bodyLen <= read'
        /\ p1 <= Cut + 1 /\ p1 \in Int /\ Cut + 1 \in Int
    BY <1>2, <1>3, <1>4, <1>5, <1>8
  <2>2. \A k \in DOMAIN headers : InBuffer(headers[k], Cut + 1)
    BY <1>2, <1>3, <2>1, Later
  <2>3. Cut' = Cut /\ IsSeq(data') /\ headers' = headers /\ bodyLen' = bodyLen
    BY <1>1, <1>2, <1>8 DEF Cut
  <2>4. Shape'
    BY <1>1, <1>2, <1>8, <2>1, <2>2, <2>3, Ends DEF Finish
  <2>5. bodyLen' >= bodyLen
    BY <1>2, <2>3
  <2> QED
    BY <1>8, <2>3, <2>4, <2>5
<1>9. CASE /\ crs # {} /\ valid /\ end <= Len(data) /\ n > 0
           /\ data' = Compact(cr, n) /\ bodyLen' = bodyLen + n /\ read' = end
           /\ p1' = end + 1 /\ scan' = end + 2
           /\ UNCHANGED <<phase, outcome>>
  <2>1. n \in Nat /\ cr \in scan .. Cut
    BY <1>5, <1>6, <1>9
  <2>2. IsSeq(data') /\ Cut' = Cut
    <3>1. data' = [i \in 1 .. Cut |-> data'[i]]
      BY <1>2, <1>9 DEF Compact, Moved
    <3> QED
      BY <1>2, <3>1, SeqByLength DEF Cut
  <2>3. /\ end + 1 \in 1 .. Cut + 1 /\ end = (end + 1) - 1 /\ bodyLen + n \in Nat
        /\ bodyLen + n <= end /\ end + 2 \in end + 1 .. (end + 1) + 1
        /\ p1 <= end + 1 /\ end + 1 \in Int /\ p1 \in Int
    BY <1>2, <1>3, <1>4, <1>9, <2>1
  <2> HIDE DEF end
  <2>4. \A k \in DOMAIN headers : InBuffer(headers[k], end + 1)
    BY <1>2, <1>3, <2>3, Later
  <2>5. Shape'
    BY <1>1, <1>2, <1>9, <2>2, <2>3, <2>4, GoesOn
  <2>6. \A i \in 1 .. bodyLen : data'[i] = data[i]
    <3>1. \A i \in 1 .. bodyLen : i \in 1 .. Cut /\ i \notin bodyLen + 1 .. bodyLen + n
      BY <1>2, <1>3, <1>4, <2>1
    <3> QED
      BY <1>2, <1>9, <3>1 DEF Compact, Moved
  <2>7. bodyLen' >= bodyLen
    BY <1>2, <1>9, <2>1
  <2> QED
    BY <2>2, <2>5, <2>6, <2>7
<1> QED
  BY <1>1, <1>7, <1>8, <1>9

\* So does http_decode_chunked.
LEMMA DecodeChunkShape == ASSUME Shape, DecodeChunk PROVE Shape'
<1> DEFINE crs == Find(1, {"CR"})
           digits == SubSeq(data, 1, Least(crs) - 1)
           found == /\ crs # {} /\ digits # <<>>
                    /\ \A k \in DOMAIN digits : digits[k] \in DOMAIN Digit
                    /\ str_parse_hex(digits) > 0
<1>1. /\ phase = "chunked" /\ copy = "runtime"
      /\ \/ /\ found
            /\ bodyLen' = str_parse_hex(digits) /\ read' = Least(crs) + 1
            /\ Finish("ok")
         \/ /\ ~found
            /\ Finish("error") /\ UNCHANGED <<bodyLen, read>>
      /\ UNCHANGED <<copy, maxHeader, data, headers>>
  BY DEF DecodeChunk
<1>2. /\ Cut \in Nat /\ IsSeq(data) /\ Cut' = Cut
      /\ headers \in Seq(Spans) /\ Len(headers) <= maxHeader
      /\ \A k \in DOMAIN headers : InBuffer(headers[k], Cut + 1)
  BY <1>1, ShapeCut DEF Shape, Cut
<1>3. CASE Finish("error") /\ UNCHANGED <<bodyLen, read>>
  BY <1>1, <1>3, Refuses DEF Finish
<1>4. CASE found /\ bodyLen' = str_parse_hex(digits) /\ read' = Least(crs) + 1 /\ Finish("ok")
  <2>1. crs \in SUBSET (1 .. Cut) /\ crs \in SUBSET Nat /\ crs # {}
    <3>1. 1 \in Nat \ {0}
      OBVIOUS
    <3> QED
      BY <1>4, <3>1, FindIn
  <2> HIDE DEF crs
  <2>2. Least(crs) \in 1 .. Cut
    <3>1. Least(crs) \in crs
      BY <2>1, LeastLemma
    <3> QED
      BY <2>1, <3>1
  <2>3. \A k \in DOMAIN digits : digits[k] \in DOMAIN Digit
    BY <1>4
  <2>4. /\ 1 \in Int /\ Least(crs) - 1 \in Int /\ \A i \in 1 .. Least(crs) - 1 : i \in 1 .. Cut
        /\ Least(crs) + 1 \in 0 .. Cut + 1
    BY <1>2, <2>2
  <2>5. str_parse_hex(digits) \in Nat
    <3> HIDE DEF digits
    <3> QED
      BY <2>3, <2>4, SizeIsNat DEF digits
  <2> HIDE DEF digits
  <2>6. phase' = "end" /\ outcome' = "ok" /\ phase # "end" /\ copy # "server" /\ headers' = headers
        /\ data' = data
    BY <1>1, <1>4 DEF Finish
  <2> QED
    BY <1>1, <1>2, <1>4, <2>4, <2>5, <2>6, Ends
<1> QED
  BY <1>1, <1>3, <1>4

\* A value is between its colon and its line end: the colon and the carriage return
\* stop the two scans for what is not blank.
LEMMA ValueShape ==
  ASSUME Shape, NEW colon \in 1 .. Cut, NEW lf \in colon + 1 .. Cut,
         data[colon] = ":", data[lf - 1] = "CR"
  PROVE  /\ Value(colon, lf) \in Span /\ Value(colon, lf).from \in 1 .. Cut
         /\ Value(colon, lf).from + Value(colon, lf).len <= lf
         /\ colon < Value(colon, lf).from + Value(colon, lf).len
<1>1. Cut \in Nat /\ Cut = Len(data)
  BY ShapeCut DEF Cut
<1>2. lf - 1 # colon
  <2>1. ":" # "CR"
    OBVIOUS
  <2> QED
    BY <2>1
<1>3. /\ lf \in Int /\ colon \in Int /\ lf - 1 \in colon + 1 .. Cut /\ colon \in colon .. lf - 2
      /\ (colon + 1) - 1 = colon
  BY <1>1, <1>2
<1> DEFINE F == {k \in colon + 1 .. Cut : data[k] \notin Blank}
           T == {k \in colon .. lf - 2 : data[k] \notin Blank}
<1>4. F \in SUBSET (1 .. Cut) /\ F \in SUBSET Nat /\ F # {}
  <2>1. \A k \in colon + 1 .. Cut : k \in 1 .. Cut /\ k \in Nat
    BY <1>1
  <2>2. "CR" \notin Blank
    BY DEF Blank
  <2> QED
    BY <1>3, <2>1, <2>2
<1>5. T \in SUBSET (1 .. Cut) /\ T # {} /\ \A k \in T : k \in Int /\ colon <= k /\ k <= lf - 2
  <2>1. \A k \in colon .. lf - 2 : k \in 1 .. Cut /\ k \in Int /\ colon <= k /\ k <= lf - 2
    BY <1>1
  <2>2. ":" \notin Blank
    BY DEF Blank
  <2> QED
    BY <1>3, <2>1, <2>2
<1>6. Value(colon, lf) = [from |-> Least(F), len |-> Greatest(T) + 1 - Least(F)]
  BY <1>1, <1>3 DEF Value, Trimmed
<1> HIDE DEF F, T
<1>7. Least(F) \in F
  BY <1>4, LeastLemma
<1>8. Greatest(T) \in T
  BY <1>1, <1>5, GreatestLemma
<1> DEFINE a == Least(F)
           b == Greatest(T)
<1>9. a \in F /\ b \in T
  BY <1>7, <1>8
<1>10. Value(colon, lf) = [from |-> a, len |-> b + 1 - a]
  BY <1>6
<1> HIDE DEF a, b
<1>11. a \in 1 .. Cut /\ a \in Int /\ b \in Int /\ colon <= b /\ b <= lf - 2
  BY <1>4, <1>5, <1>9
<1>12. b + 1 - a \in Int /\ a + (b + 1 - a) <= lf /\ colon < a + (b + 1 - a)
  BY <1>3, <1>11
<1> QED
  BY <1>12, <1>10, <1>11 DEF Span

\* What a sequence holds after Append.
LEMMA AppendAll ==
  ASSUME NEW S, NEW s \in Seq(S), NEW x \in S
  PROVE  /\ Append(s, x) \in Seq(S) /\ Len(s) \in Nat /\ Len(Append(s, x)) = Len(s) + 1
         /\ \A k \in DOMAIN Append(s, x) :
              Append(s, x)[k] = x \/ (k \in DOMAIN s /\ Append(s, x)[k] = s[k])
OBVIOUS

\* A value that is made longer by a continuation line.
LEMMA LongerValue ==
  ASSUME NEW h \in Seq(Spans), h # <<>>, NEW d \in Nat
  PROVE  LET g == [h EXCEPT ![Len(h)].value.len = @ + d]
         IN  /\ g \in Seq(Spans) /\ Len(g) = Len(h)
             /\ \A k \in DOMAIN g :
                  /\ k \in DOMAIN h /\ g[k].value.from = h[k].value.from
                  /\ g[k].value.len \in {h[k].value.len, h[k].value.len + d}
<1> DEFINE n == Len(h)
           x == [h[n] EXCEPT !.value.len = @ + d]
           g == [h EXCEPT ![n] = x]
<1>1. n \in Nat /\ n \in 1 .. n /\ DOMAIN h = 1 .. n
  BY EmptySeq, LenProperties
<1>2. h[n] \in Spans
  BY <1>1
<1>3. x \in Spans /\ x.value.from = h[n].value.from /\ x.value.len = h[n].value.len + d
  <2> DEFINE r == h[n]
  <2>1. x = [r EXCEPT !.value.len = @ + d] /\ r \in Spans
    BY <1>2
  <2> HIDE DEF r, x
  <2>2. r = [name |-> r.name, value |-> r.value] /\ r.name \in Span /\ r.value \in Span
    BY <2>1 DEF Spans
  <2>3. /\ r.value = [from |-> r.value.from, len |-> r.value.len]
        /\ r.value.from \in Int /\ r.value.len \in Int /\ r.value.len + d \in Int
    BY <2>2 DEF Span
  <2>4. x = [name |-> r.name, value |-> [from |-> r.value.from, len |-> r.value.len + d]]
    BY <2>1, <2>2, <2>3
  <2> QED
    BY <2>2, <2>3, <2>4 DEF Spans, Span, r
<1>4. [h EXCEPT ![Len(h)].value.len = @ + d] = g
  OBVIOUS
<1> HIDE DEF x
<1>5. g \in Seq(Spans) /\ Len(g) = n /\ DOMAIN g = 1 .. n
      /\ \A k \in 1 .. n : g[k] = IF k = n THEN x ELSE h[k]
  BY <1>1, <1>3
<1> HIDE DEF g
<1>6. ASSUME NEW k \in DOMAIN g
      PROVE  /\ k \in DOMAIN h /\ g[k].value.from = h[k].value.from
             /\ g[k].value.len \in {h[k].value.len, h[k].value.len + d}
  <2>1. CASE k = n
    BY <1>1, <1>3, <1>5, <2>1
  <2>2. CASE k # n
    BY <1>1, <1>5, <2>2
  <2> QED
    BY <2>1, <2>2
<1> QED
  BY <1>4, <1>5, <1>6

\* The headers after a line that ends at lf: their values lie before its line feed.
HeadersBefore(lf) ==
  /\ IsSeq(data') /\ Cut' = Cut
  /\ headers' \in Seq(Spans) /\ Len(headers') <= maxHeader
  /\ \A k \in DOMAIN headers' : InBuffer(headers'[k], lf)

\* A header that is stored.
LEMMA StoreShape ==
  ASSUME Shape, Under, NEW colon \in p1 .. Cut, NEW lf \in colon + 1 .. Cut,
         data[colon] = ":", data[lf - 1] = "CR",
         headers' = Store(colon, lf), UNCHANGED data
  PROVE  HeadersBefore(lf)
<1>1. /\ Cut \in Nat /\ p1 \in 1 .. Cut + 1 /\ headers \in Seq(Spans) /\ maxHeader \in Nat
      /\ Len(headers) <= maxHeader /\ IsSeq(data) /\ Cut' = Cut
      /\ \A k \in DOMAIN headers : InBuffer(headers[k], p1)
  BY ShapeCut DEF Shape, Under, Cut
<1>2. /\ colon \in 1 .. Cut /\ p1 \in Int /\ lf \in Int /\ p1 <= lf /\ colon - p1 \in Int
  BY <1>1
<1>3. \A k \in DOMAIN headers : InBuffer(headers[k], lf)
  BY <1>1, <1>2, Later
<1> DEFINE h == Header(colon, lf)
<1>4. h \in Spans /\ InBuffer(h, lf)
  <2>1. /\ Value(colon, lf) \in Span /\ Value(colon, lf).from \in 1 .. Cut
        /\ Value(colon, lf).from + Value(colon, lf).len <= lf
    BY <1>2, ValueShape
  <2>2. [from |-> p1, len |-> colon - p1] \in Span
    BY <1>2 DEF Span
  <2> DEFINE v == Value(colon, lf)
             w == [from |-> p1, len |-> colon - p1]
  <2>3. h = [name |-> w, value |-> v]
    BY DEF Header
  <2> HIDE DEF v, w, h
  <2>4. h \in Spans /\ h.value = v
    BY <2>1, <2>2, <2>3 DEF Spans, v, w
  <2> QED
    BY <2>1, <2>4 DEF InBuffer, v
<1> HIDE DEF h
<1>5. CASE headers' = headers
  BY <1>1, <1>3, <1>5 DEF HeadersBefore
<1>6. CASE headers' = Append(headers, h) /\ Len(headers) < maxHeader
  <2> DEFINE g == Append(headers, h)
  <2>1. /\ g \in Seq(Spans) /\ Len(headers) \in Nat /\ Len(g) = Len(headers) + 1
        /\ \A k \in DOMAIN g : g[k] = h \/ (k \in DOMAIN headers /\ g[k] = headers[k])
    BY <1>1, <1>4, AppendAll
  <2>2. headers' = g
    BY <1>6
  <2> HIDE DEF g
  <2>3. Len(g) <= maxHeader
    BY <1>1, <1>6, <2>1
  <2>4. \A k \in DOMAIN g : InBuffer(g[k], lf)
    BY <1>3, <1>4, <2>1
  <2> QED
    BY <1>1, <2>1, <2>2, <2>3, <2>4 DEF HeadersBefore
<1> QED
  BY <1>5, <1>6 DEF Store, h

\* A header that is continued.
LEMMA FoldShape ==
  ASSUME Shape, Under, NEW lf \in p1 + 1 .. Cut, headers # <<>>, Fold(lf)
  PROVE  HeadersBefore(lf)
<1>1. /\ Cut \in Nat /\ p1 \in 1 .. Cut + 1 /\ headers \in Seq(Spans)
      /\ Len(headers) <= maxHeader /\ IsSeq(data) /\ DOMAIN data = 1 .. Cut
      /\ \A k \in DOMAIN headers : InBuffer(headers[k], p1)
  BY ShapeCut DEF Shape, Under
<1>2. p1 \in Int /\ lf \in Int /\ p1 + 1 <= lf
  BY <1>1
<1> DEFINE n == IF copy = "server" THEN lf - p1 - 2 ELSE lf - p1 - 1
           d == IF n > 0 THEN n ELSE 0
           g == [headers EXCEPT ![Len(headers)].value.len = @ + d]
<1>3. d \in Nat /\ p1 + d <= lf
  BY <1>2
<1>4. headers' = g
  BY DEF Fold
<1>5. IsSeq(data') /\ Cut' = Cut
  <2>1. data' = data \/ data' = [i \in DOMAIN data |-> data'[i]]
    BY DEF Fold
  <2>2. CASE data' = data
    BY <1>1, <2>2 DEF Cut
  <2>3. CASE data' = [i \in DOMAIN data |-> data'[i]]
    <3>1. data' = [i \in 1 .. Cut |-> data'[i]]
      BY <1>1, <2>3
    <3> QED
      BY <1>1, <3>1, SeqByLength DEF Cut
  <2> QED
    BY <2>1, <2>2, <2>3
<1> HIDE DEF d
<1>6. /\ g \in Seq(Spans) /\ Len(g) = Len(headers)
      /\ \A k \in DOMAIN g :
           /\ k \in DOMAIN headers /\ g[k].value.from = headers[k].value.from
           /\ g[k].value.len \in {headers[k].value.len, headers[k].value.len + d}
  BY <1>1, <1>3, LongerValue
<1> HIDE DEF g
<1>7. ASSUME NEW k \in DOMAIN g PROVE InBuffer(g[k], lf)
  <2>1. headers[k] \in Spans /\ InBuffer(headers[k], p1)
    BY <1>1, <1>6
  <2> DEFINE a == headers[k].value.from
             l == headers[k].value.len
  <2>2. a \in Int /\ l \in Int
    BY <2>1 DEF Spans, Span
  <2>3. a \in 1 .. Cut /\ a + l <= p1
    BY <2>1 DEF InBuffer
  <2>4. g[k].value.from = a /\ g[k].value.len \in {l, l + d}
    BY <1>6
  <2> HIDE DEF a, l
  <2>5. \A x \in {l, l + d} : a + x <= lf
    BY <1>2, <1>3, <2>2, <2>3
  <2> QED
    BY <2>3, <2>4, <2>5 DEF InBuffer
<1> QED
  BY <1>1, <1>4, <1>5, <1>6, <1>7 DEF HeadersBefore

\* What follows a line: the end, or the next one.
LEMMA AfterShape ==
  ASSUME Shape, phase = "header", NEW lf \in p1 + 1 .. Cut, HeadersBefore(lf),
         After(lf, IF copy = "server" THEN lf + 2 ELSE lf),
         UNCHANGED <<copy, maxHeader, bodyLen>>
  PROVE  Shape'
<1>1. /\ Cut \in Nat /\ Len(data) = Cut /\ p1 \in 1 .. Cut + 1 /\ phase # "end"
      /\ bodyLen \in Nat /\ bodyLen <= read /\ read = p1 - 1
  BY ShapeCut DEF Shape, Under, Cut
<1>2. /\ lf \in 1 .. Cut /\ lf \in Int /\ bodyLen <= lf /\ bodyLen <= lf + 2 /\ lf \in 0 .. Cut + 1
      /\ lf + 1 \in 1 .. Cut + 1 /\ lf = (lf + 1) - 1 /\ lf <= Cut
      /\ lf <= Cut + 1 /\ Cut + 1 \in Int /\ lf <= lf + 1 /\ lf + 1 \in Int
  BY <1>1
<1>3. /\ IsSeq(data') /\ Cut' = Cut /\ headers' \in Seq(Spans) /\ Len(headers') <= maxHeader
      /\ \A k \in DOMAIN headers' : InBuffer(headers'[k], lf)
  BY DEF HeadersBefore
<1>4. \A k \in DOMAIN headers' : InBuffer(headers'[k], Cut + 1)
  BY <1>2, <1>3, Later
<1>5. \A k \in DOMAIN headers' : InBuffer(headers'[k], lf + 1)
  BY <1>2, <1>3, Later
<1>6. CASE (Finish("ok") \/ Finish("incomplete")) /\ read' = lf
  BY <1>1, <1>2, <1>3, <1>4, <1>6, Ends DEF Finish
<1>7. CASE /\ lf + 2 <= Len(data) /\ Finish("ok")
           /\ read' = (IF copy = "server" THEN lf + 2 ELSE lf)
  <2>1. lf + 2 \in 0 .. Cut + 1 /\ lf + 2 <= Cut
    BY <1>1, <1>2, <1>7
  <2> QED
    BY <1>1, <1>2, <1>3, <1>4, <1>7, <2>1, Ends DEF Finish
<1>8. CASE read' = lf /\ p1' = lf + 1 /\ UNCHANGED <<phase, outcome>>
  BY <1>1, <1>2, <1>3, <1>5, <1>8, GoesOn
<1> QED
  BY <1>6, <1>7, <1>8 DEF After

\* http_parse_header keeps the shape.
LEMMA HeaderLineShape == ASSUME Shape, HeaderLine PROVE Shape'
<1> DEFINE colons == Find(p1, {":"})
           colon == Least(colons)
           lf == IF colons = {} THEN 0 ELSE LineFeed(colon)
<1>1. /\ phase = "header" /\ p1 <= Len(data)
      /\ \/ /\ lf \in {-1, 0}
            /\ Finish("overrun")
            /\ UNCHANGED <<data, headers, p1, read>>
         \/ /\ lf > 0
            /\ \/ /\ data[p1] \notin Blank
                  /\ headers' = Store(colon, lf)
                  /\ UNCHANGED data
               \/ /\ data[p1] \in Blank /\ headers # <<>>
                  /\ Fold(lf)
               \/ /\ data[p1] \in Blank /\ headers = <<>>
                  /\ UNCHANGED <<data, headers>>
            /\ After(lf, IF copy = "server" THEN lf + 2 ELSE lf)
      /\ UNCHANGED <<copy, maxHeader, bodyLen>>
  BY DEF HeaderLine
<1>2. /\ Cut \in Nat /\ Len(data) = Cut /\ p1 \in 1 .. Cut + 1 /\ phase # "end" /\ Under
      /\ IsSeq(data) /\ headers \in Seq(Spans) /\ Len(headers) <= maxHeader
      /\ \A k \in DOMAIN headers : InBuffer(headers[k], p1)
  BY <1>1, ShapeCut DEF Shape, Under, Cut
<1>3. p1 \in Nat \ {0}
  BY <1>2
<1>4. colons \in SUBSET Nat /\ \A k \in colons : k \in p1 .. Cut /\ data[k] \in {":"}
  BY <1>3, FindIn
<1>5. CASE lf \notin {-1, 0}
  <2>1. colons # {} /\ lf = LineFeed(colon)
    BY <1>5
  <2> HIDE DEF colons
  <2>2. colon \in colons
    BY <1>4, <2>1, LeastLemma
  <2>3. colon \in p1 .. Cut /\ data[colon] = ":"
    BY <1>4, <2>2
  <2>4. colon \in 1 .. Cut
    BY <1>2, <2>3
  <2> HIDE DEF colon
  <2>5. lf \in colon + 1 .. Cut /\ data[lf - 1] = "CR"
    BY <1>5, <2>1, <2>4, LineFeedIn
  <2> HIDE DEF lf
  <2>6. lf \in p1 + 1 .. Cut /\ p1 \in Int /\ lf \in Int /\ p1 <= lf /\ lf # 0 /\ lf # -1
    BY <1>2, <2>3, <2>5
  <2>7. HeadersBefore(lf)
    <3>1. CASE headers' = Store(colon, lf) /\ UNCHANGED data
      BY <1>2, <2>3, <2>5, <3>1, StoreShape
    <3>2. CASE headers # <<>> /\ Fold(lf)
      BY <1>2, <2>6, <3>2, FoldShape
    <3>3. CASE UNCHANGED <<data, headers>>
      <4>1. \A k \in DOMAIN headers : InBuffer(headers[k], lf)
        BY <1>2, <2>6, Later
      <4> QED
        BY <1>2, <3>3, <4>1 DEF HeadersBefore, Cut
    <3> QED
      BY <1>1, <2>6, <3>1, <3>2, <3>3
  <2> QED
    BY <1>1, <2>6, <2>7, AfterShape
<1>6. CASE lf \in {-1, 0}
  <2>1. Finish("overrun") /\ UNCHANGED <<data, headers, p1, read>>
    <3>1. ~(-1 > 0) /\ ~(0 > 0)
      OBVIOUS
    <3> HIDE DEF lf
    <3> QED
      BY <1>1, <1>6, <3>1
  <2> QED
    BY <1>1, <1>2, <2>1, Refuses DEF Finish
<1> QED
  BY <1>5, <1>6

\* Every step keeps the shape.
LEMMA ShapeNext == ASSUME Shape, [Next]_vars PROVE Shape'
<1>1. CASE UNCHANGED vars
  BY <1>1 DEF vars, Shape, Under, InBuffer, IsSeq, Cut
<1> QED
  BY <1>1, RequestLineShape, NoHeaderShape, HeaderLineShape, ChunkShape, DecodeChunkShape DEF Next

\* Whatever the message and wherever it is cut, the parsers' places are in the buffer,
\* and no more headers are stored than there is room for.
THEOREM PlacesInBuffer == Spec => []TypeOK
<1>1. Shape => TypeOK
  <2> SUFFICES ASSUME Shape PROVE TypeOK
    OBVIOUS
  <2>1. ASSUME NEW k \in DOMAIN headers
        PROVE  /\ headers[k].value.from \in 1 .. Cut
               /\ headers[k].value.len <= Cut - headers[k].value.from + 1
    <3>1. headers[k] \in Spans /\ InBuffer(headers[k], Cut + 1) /\ Cut \in Nat
      BY ShapeCut DEF Shape
    <3> DEFINE a == headers[k].value.from
               l == headers[k].value.len
    <3>2. a \in Int /\ l \in Int
      BY <3>1 DEF Spans, Span
    <3>3. a \in 1 .. Cut /\ a + l <= Cut + 1
      BY <3>1 DEF InBuffer
    <3> HIDE DEF a, l
    <3>4. l <= Cut - a + 1
      BY <3>1, <3>2, <3>3
    <3> QED
      BY <3>3, <3>4 DEF a, l
  <2> QED
    BY <2>1 DEF Shape, TypeOK
<1> QED
  BY <1>1, ShapeInit, ShapeNext, PTL DEF Spec

-----------------------------------------------------------------------------
(* The invariant of a chunked body. *)

\* The first k chunks are readable.
Readables(k) == \A j \in 1 .. k : ReadableChunk(msg.chunks[j])

\* The server's copy, between two chunks.
Between(k) ==
  /\ Delivered(k) /\ Readables(k)
  /\ read = EndOf(TextsOf(msg), k) /\ p1 = EndOf(TextsOf(msg), k) + 1
  /\ scan = IF k = 0 THEN 1 ELSE EndOf(TextsOf(msg), k) + 2

\* The server's copy, when it has stopped after k chunks.
Stopped(k) ==
  /\ Delivered(k) /\ Readables(k) /\ outcome \in {"ok", "incomplete"}
  /\ k < Len(msg.chunks) => Cut < EndOf(TextsOf(msg), k + 1)
  /\ read = IF k = Len(msg.chunks) THEN Cut - 2 ELSE EndOf(TextsOf(msg), k)
  /\ \A i \in read + 1 .. Cut : data[i] = msg.text[i]

\* The server's copy, when it has come to the first chunk that is not readable, behind k
\* others: their data stay in front of the buffer.
Kept(k) ==
  /\ Readables(k) /\ k < Len(msg.chunks) /\ ~ReadableChunk(msg.chunks[k + 1])
  /\ EndOf(TextsOf(msg), k) <= Cut /\ EndOf(BytesOf(msg), k) <= bodyLen
  /\ \A i \in 1 .. EndOf(BytesOf(msg), k) : data[i] = Concats(BytesOf(msg))[k][i]

\* The runtime's copy, when it has stopped.
Decoded ==
  /\ ReadableChunk(msg.chunks[1]) /\ msg.chunks[1].ext = <<>> /\ msg.chunks[1] # LastChunk
  /\ Cut > Len(msg.chunks[1].size)
  => /\ outcome = "ok"
     /\ bodyLen = Len(msg.chunks[1].bytes) /\ read = Len(SizeLine(msg.chunks[1]))

BodyInv ==
  /\ copy \in {"server", "runtime"} /\ phase \in {"chunked", "end"}
  /\ phase = "chunked" /\ copy = "server" =>
       \E k \in 0 .. Len(msg.chunks) - 1 : Between(k) \/ Kept(k)
  /\ phase = "chunked" /\ copy = "runtime" => Delivered(0)
  /\ phase = "end" /\ copy = "server" =>
       \E k \in 0 .. Len(msg.chunks) : Stopped(k) \/ Kept(k)
  /\ phase = "end" /\ copy = "runtime" => Decoded

ChunkInv == msg \in Requests \cup Bodies /\ (Body(msg) => BodyInv)

\* What http_parse_chunked does with the next chunk.
NextChunk(q, n) ==
  \/ /\ Cut < q + n + 3
     /\ outcome' \in {"ok", "incomplete"} /\ phase' = "end"
     /\ UNCHANGED <<data, read, bodyLen>>
  \/ /\ q + n + 3 <= Cut /\ n = 0
     /\ read' = q + 1 /\ outcome' = "ok" /\ phase' = "end"
     /\ UNCHANGED <<data, bodyLen>>
  \/ /\ q + n + 3 <= Cut /\ n > 0
     /\ data' = Compact(q, n) /\ bodyLen' = bodyLen + n /\ read' = q + n + 3
     /\ p1' = q + n + 4 /\ scan' = q + n + 5 /\ UNCHANGED phase

\* http_parse_chunked does just that.
LEMMA ChunkStep ==
  ASSUME Body(msg), NEW k \in Nat, Between(k), Chunk,
         NEW L \in Nat, NEW M \in Nat, NEW n \in Nat, NEW q \in Nat, Seen(k, L, M, n, q)
  PROVE  NextChunk(q, n) /\ UNCHANGED <<msg, copy>>
<1> DEFINE crs == Find(scan, {"CR"})
           cr == Least(crs)
           semis == {j \in scan .. cr - 1 : data[j] = ";"}
           digits == SubSeq(data, p1, (IF semis = {} THEN cr ELSE Greatest(semis)) - 1)
           valid == digits # <<>> /\ \A j \in DOMAIN digits : digits[j] \in DOMAIN Digit
           m == str_parse_hex(digits)
           end == cr + 1 + m + 2
           E == EndOf(TextsOf(msg), k)
           size == msg.chunks[k + 1].size
<1>1. /\ \/ /\ crs = {}
            /\ Finish("ok") /\ UNCHANGED <<data, p1, scan, read, bodyLen>>
         \/ /\ crs # {} /\ ~valid
            /\ Finish("error") /\ UNCHANGED <<data, p1, scan, read, bodyLen>>
         \/ /\ crs # {} /\ valid /\ end > Len(data)
            /\ Finish("incomplete") /\ UNCHANGED <<data, p1, scan, read, bodyLen>>
         \/ /\ crs # {} /\ valid /\ end <= Len(data) /\ m = 0
            /\ read' = cr + 1
            /\ Finish("ok") /\ UNCHANGED <<data, p1, scan, bodyLen>>
         \/ /\ crs # {} /\ valid /\ end <= Len(data) /\ m > 0
            /\ data' = Compact(cr, m) /\ bodyLen' = bodyLen + m /\ read' = end
            /\ p1' = end + 1 /\ scan' = end + 2
            /\ UNCHANGED <<phase, outcome>>
      /\ UNCHANGED <<msg, copy, maxHeader, line, headers>>
  BY DEF Chunk
<1>2. /\ E \in Nat /\ p1 = E + 1 /\ SizeLineFrom(E, L, M, q, size) /\ str_parse_hex(size) = n
      /\ data \in Seq(Chars) /\ Cut \in Nat /\ Cut = Len(data)
  BY LenProperties DEF Seen, Between, Delivered, Cut
<1>3. scan \in Nat /\ (scan = E + 1 \/ scan = E + 2)
  <2>1. /\ scan = IF k = 0 THEN 1 ELSE E + 2
        /\ k = 0 => E = 0
    <3>1. EndOf(TextsOf(msg), 0) = 0
      BY BodyLemma, EndOfLemma
    <3> QED
      BY <3>1 DEF Between
  <2> HIDE DEF E
  <2> QED
    BY <1>2, <2>1
<1> HIDE DEF E, size
<1>4. /\ Cut < q => crs = {}
      /\ q <= Cut => /\ crs # {} /\ cr = q
                     /\ SubSeq(data, E + 1,
                               (IF Semis(scan, q) = {} THEN q ELSE Greatest(Semis(scan, q))) - 1)
                          = size
  <2>1. /\ E \in Nat /\ SizeLineFrom(E, L, M, q, size) /\ data \in Seq(Chars)
        /\ scan \in Nat /\ (scan = E + 1 \/ scan = E + 2)
    BY <1>2, <1>3
  <2>2. SizeRead(E, M, q, size, scan)
    BY <2>1, SizeFound
  <2> HIDE DEF E, size
  <2> QED
    BY <2>2 DEF SizeRead
<1>5. q <= Cut => digits = size
  BY <1>2, <1>4 DEF Semis
<1> HIDE DEF crs, cr, semis, digits
<1>6. q <= Cut => valid /\ m = n
  <2> HAVE q <= Cut
  <2>1. size \in Seq(DOMAIN Digit) /\ Len(size) > 0
    BY <1>2 DEF SizeLineFrom
  <2>2. size # <<>> /\ \A j \in DOMAIN size : size[j] \in DOMAIN Digit
    BY <2>1
  <2> QED
    BY <1>2, <1>5, <2>2
<1> HIDE DEF valid, m
<1>7. UNCHANGED <<msg, copy>>
  BY <1>1
<1>8. CASE Cut < q
  <2>1. Finish("ok") /\ UNCHANGED <<data, p1, scan, read, bodyLen>>
    BY <1>1, <1>4, <1>8
  <2>2. Cut < q + n + 3
    BY <1>2, <1>8
  <2> QED
    BY <1>7, <2>1, <2>2 DEF NextChunk, Finish
<1>9. CASE q <= Cut
  <2>1. crs # {} /\ valid /\ cr = q /\ m = n /\ end = q + 1 + n + 2
    BY <1>4, <1>6, <1>9
  <2>2. q + 1 + n + 2 = q + n + 3 /\ q + n + 3 + 1 = q + n + 4 /\ q + n + 3 + 2 = q + n + 5
    OBVIOUS
  <2>3. end = q + n + 3 /\ end + 1 = q + n + 4 /\ end + 2 = q + n + 5
    BY <2>1, <2>2
  <2> HIDE DEF end
  <2>4. \/ /\ end > Len(data)
           /\ Finish("incomplete") /\ UNCHANGED <<data, p1, scan, read, bodyLen>>
        \/ /\ end <= Len(data) /\ n = 0
           /\ read' = q + 1
           /\ Finish("ok") /\ UNCHANGED <<data, p1, scan, bodyLen>>
        \/ /\ end <= Len(data) /\ n > 0
           /\ data' = Compact(q, n) /\ bodyLen' = bodyLen + n /\ read' = end
           /\ p1' = end + 1 /\ scan' = end + 2
           /\ UNCHANGED <<phase, outcome>>
    BY <1>1, <2>1
  <2>5. end > Len(data) => Cut < q + n + 3
    BY <1>2, <2>3
  <2> QED
    BY <1>2, <1>7, <2>3, <2>4, <2>5 DEF NextChunk, Finish
<1> QED
  BY <1>2, <1>8, <1>9

\* A message as it arrives is what no chunk has been taken from.
LEMMA BodyInit == ASSUME Init, Body(msg) PROVE BodyInv
<1> DEFINE T == TextsOf(msg)
           B == BytesOf(msg)
           N == Len(msg.chunks)
<1>1. /\ N \in Nat /\ N > 0 /\ msg.text = Concats(T)[N]
      /\ T \in Seq(Seq(Chars)) /\ B \in Seq(Seq(Chars)) /\ Len(T) = N
  BY BodyLemma
<1> HIDE DEF T, B, N
<1>2. EndOf(T, 0) = 0 /\ EndOf(B, 0) = 0
  BY <1>1, EndOfLemma
<1>3. msg.text \in Seq(Chars)
  <2>1. N \in 0 .. Len(T)
    BY <1>1
  <2> QED
    BY <1>1, <2>1, ConcatsLemma
<1>4. PICK cut \in 0 .. Len(msg.text) : data = SubSeq(msg.text, 1, cut)
  BY DEF Init
<1>5. /\ data \in Seq(Chars) /\ Cut = cut /\ cut \in Nat /\ cut <= Whole
      /\ \A i \in 1 .. cut : data[i] = msg.text[i]
  <2> DEFINE txt == msg.text
             K == Len(txt)
  <2>1. txt \in Seq(Chars) /\ K \in Nat /\ cut \in 0 .. K /\ data = SubSeq(txt, 1, cut)
    BY <1>3, <1>4, LenProperties
  <2>2. \A i \in 1 .. cut : txt[i] \in Chars
    <3>1. \A i \in 1 .. K : txt[i] \in Chars
      BY <2>1, ElementOfSeq
    <3> HIDE DEF K, txt
    <3>2. \A i \in 1 .. cut : i \in 1 .. K
      BY <2>1
    <3> QED
      BY <3>1, <3>2
  <2> HIDE DEF K, txt
  <2>3. 1 \in Int /\ cut \in Int
    BY <2>1
  <2>4. /\ data \in Seq(Chars)
        /\ Len(data) = IF 1 <= cut THEN cut - 1 + 1 ELSE 0
        /\ \A i \in 1 .. cut - 1 + 1 : data[i] = txt[1 + i - 1]
    BY <2>1, <2>2, <2>3, SubSeqProperties
  <2>5. cut - 1 + 1 = cut /\ (IF 1 <= cut THEN cut - 1 + 1 ELSE 0) = cut
        /\ \A i \in 1 .. cut : 1 + i - 1 = i
    BY <2>1
  <2>6. Len(data) = cut /\ \A i \in 1 .. cut : data[i] = txt[i]
    BY <2>4, <2>5
  <2>7. cut \in Nat /\ cut <= K
    BY <2>1
  <2> QED
    BY <2>4, <2>6, <2>7 DEF Cut, Whole, K, txt
<1>6. /\ copy \in {"server", "runtime"} /\ phase = "chunked" /\ bodyLen = 0
      /\ read = 0 /\ p1 = 1 /\ scan = 1
  <2>1. msg.kind = "chunked" /\ "request" # "chunked"
    BY DEF Body
  <2> QED
    BY <2>1 DEF Init
<1>7. Delivered(0)
  <2>1. bodyLen = EndOf(B, 0) /\ bodyLen <= EndOf(T, 0) /\ EndOf(T, 0) <= Cut
    BY <1>2, <1>5, <1>6
  <2>2. \A i \in 1 .. bodyLen : data[i] = Concats(B)[0][i]
    BY <1>6
  <2>3. \A i \in EndOf(T, 0) + 1 .. Cut : data[i] = msg.text[i]
    BY <1>2, <1>5
  <2> QED
    BY <1>5, <2>1, <2>2, <2>3 DEF Delivered, T, B
<1>8. Between(0)
  <2>1. Readables(0)
    BY DEF Readables
  <2> QED
    BY <1>2, <1>6, <1>7, <2>1 DEF Between, T
<1>9. 0 \in 0 .. Len(msg.chunks) - 1
  <2>1. 0 \in 0 .. N - 1
    BY <1>1
  <2> QED
    BY <2>1 DEF N
<1> QED
  BY <1>6, <1>7, <1>8, <1>9 DEF BodyInv

\* The data of a chunk are moved behind those of the chunks before it.
LEMMA Deliver ==
  ASSUME Body(msg), NEW k \in Nat, Delivered(k),
         NEW L \in Nat, NEW M \in Nat, NEW n \in Nat, NEW q \in Nat, Seen(k, L, M, n, q),
         q + n + 3 <= Cut, data' = Compact(q, n), bodyLen' = bodyLen + n, UNCHANGED msg
  PROVE  Delivered(k + 1)'
<1> DEFINE E == EndOf(TextsOf(msg), k)
           H == EndOf(BytesOf(msg), k)
           a == Concats(BytesOf(msg))[k]
           b == msg.chunks[k + 1].bytes
           c == Concats(BytesOf(msg))[k + 1]
           C == Cut
           l == bodyLen
           d == data
           e == data'
<1>1. /\ E \in Nat /\ H \in Nat /\ EndOf(TextsOf(msg), k + 1) = q + n + 3
      /\ EndOf(BytesOf(msg), k + 1) = H + n
      /\ b \in Seq(Chars) /\ Len(b) = n /\ a \in Seq(Chars) /\ c = a \o b
  BY DEF Seen
<1>2. \A i \in 1 .. n : q + 1 + i <= C => d[q + 1 + i] = b[i]
  BY DEF Seen
<1>3. /\ d \in Seq(Chars) /\ C <= Whole /\ l = H /\ l <= E /\ Len(a) = H
      /\ \A i \in 1 .. l : d[i] = a[i]
      /\ \A i \in E + 1 .. C : d[i] = msg.text[i]
  BY DEF Delivered, EndOf
<1>4. q = E + L + M + 1
  BY DEF Seen, SizeLineFrom
<1>5. C \in Nat /\ DOMAIN d = 1 .. C /\ \A i \in 1 .. C : d[i] \in Chars
  BY <1>3, LenProperties, ElementOfSeq DEF Cut
<1>6. e = [j \in DOMAIN d |-> IF j \in l + 1 .. l + n THEN d[q + 2 + j - l - 1] ELSE d[j]]
  BY DEF Compact, Moved
<1>7. /\ Len(c) = Len(a) + Len(b)
      /\ \A i \in 1 .. Len(a) : c[i] = a[i]
      /\ \A i \in 1 .. Len(b) : c[Len(a) + i] = b[i]
  <2>1. a \in Seq(Chars) /\ b \in Seq(Chars) /\ c = a \o b
    BY <1>1
  <2> HIDE DEF a, b, c
  <2> QED
    BY <2>1, JoinLemma, SMTT(30)
<1>8. bodyLen' = l + n /\ q + n + 3 <= C
  OBVIOUS
<1>9. l \in Nat /\ E \in Nat /\ l <= E /\ q = E + L + M + 1 /\ C \in Nat
  BY <1>1, <1>3, <1>4, <1>5
<1> HIDE DEF E, H, a, b, c, C, l, d, e
<1>10. ASSUME NEW i \in 1 .. n
       PROVE  l + i \in 1 .. C /\ e[l + i] = b[i] /\ b[i] \in Chars
  <2>1. /\ l + i \in 1 .. C /\ l + i \in l + 1 .. l + n /\ q + 2 + (l + i) - l - 1 = q + 1 + i
        /\ q + 1 + i <= C
    BY <1>8, <1>9
  <2>2. e[l + i] = d[q + 1 + i]
    BY <1>5, <1>6, <2>1
  <2>3. i \in 1 .. Len(b)
    BY <1>1
  <2> QED
    BY <1>1, <1>2, <2>1, <2>2, <2>3, ElementOfSeq
<1>11. ASSUME NEW i \in 1 .. C, i \notin l + 1 .. l + n PROVE e[i] = d[i]
  BY <1>5, <1>6, <1>11
<1>12. e \in Seq(Chars) /\ Len(e) = C
  <2>1. \A i \in 1 .. C : e[i] \in Chars
    <3> TAKE i \in 1 .. C
    <3>1. CASE i \in l + 1 .. l + n
      <4>1. i - l \in 1 .. n /\ l + (i - l) = i
        BY <1>9, <3>1
      <4> QED
        BY <1>10, <4>1
    <3>2. CASE i \notin l + 1 .. l + n
      BY <1>5, <1>11, <3>2
    <3> QED
      BY <3>1, <3>2
  <2>2. e = [j \in 1 .. C |-> e[j]]
    BY <1>5, <1>6
  <2>3. e \in [1 .. C -> Chars]
    BY <2>1, <2>2
  <2> QED
    BY <1>5, <2>3
<1>13. \A i \in 1 .. l + n : e[i] = c[i]
  <2> TAKE i \in 1 .. l + n
  <2>1. CASE i <= l
    <3>1. i \in 1 .. l /\ i \in 1 .. C /\ i \notin l + 1 .. l + n
      BY <1>8, <1>9, <2>1
    <3>2. i \in 1 .. Len(a)
      BY <1>3, <3>1
    <3> QED
      BY <1>3, <1>7, <1>11, <3>1, <3>2
  <2>2. CASE ~(i <= l)
    <3>1. i - l \in 1 .. n /\ l + (i - l) = i
      BY <1>9, <2>2
    <3>2. i - l \in 1 .. Len(b) /\ Len(a) = l
      BY <1>1, <1>3, <3>1
    <3>3. c[l + (i - l)] = b[i - l]
      BY <1>7, <3>2
    <3> QED
      BY <1>10, <3>1, <3>3
  <2> QED
    BY <2>1, <2>2
<1>14. \A i \in q + n + 3 + 1 .. C : e[i] = msg.text[i]
  <2> TAKE i \in q + n + 3 + 1 .. C
  <2>1. i \in 1 .. C /\ i \in E + 1 .. C /\ i \notin l + 1 .. l + n
    BY <1>9
  <2> QED
    BY <1>3, <1>11, <2>1
<1>15. l + n <= q + n + 3
  BY <1>9
<1>16. EndOf(BytesOf(msg), k + 1) = l + n
  BY <1>1, <1>3
<1> QED
  BY <1>1, <1>3, <1>8, <1>12, <1>13, <1>14, <1>15, <1>16 DEF Delivered, Cut, Whole, E, H, a, b, c, C, l, d, e

\* What is in front of the buffer stays there, whatever the parser takes for a chunk.
LEMMA KeptStep ==
  ASSUME Shape, Body(msg), phase = "chunked", copy = "server", Chunk,
         NEW k \in 0 .. Len(msg.chunks) - 1, Kept(k)
  PROVE  BodyInv'
<1>1. /\ bodyLen' >= bodyLen /\ Cut' = Cut /\ bodyLen \in Nat /\ bodyLen' \in Nat
      /\ \A i \in 1 .. bodyLen : data'[i] = data[i]
  BY ChunkShape DEF Shape
<1>2. UNCHANGED <<msg, copy>> /\ phase' \in {"chunked", "end"}
  BY DEF Chunk, Finish
<1>3. EndOf(BytesOf(msg), k) \in Nat
  <2> DEFINE N == Len(msg.chunks)
             B == BytesOf(msg)
  <2>1. N \in Nat /\ B \in Seq(Seq(Chars)) /\ Len(B) = N /\ k \in 0 .. N - 1
    BY BodyLemma
  <2> HIDE DEF N, B
  <2>2. k \in 0 .. Len(B)
    BY <2>1
  <2>3. EndOf(B, k) \in Nat
    BY <2>1, <2>2, EndOfLemma
  <2> QED
    BY <2>3 DEF B
<1>4. Kept(k)'
  <2> DEFINE e == EndOf(BytesOf(msg), k)
             l == bodyLen
             h == bodyLen'
  <2>1. e <= l /\ \A i \in 1 .. e : data[i] = Concats(BytesOf(msg))[k][i]
    BY DEF Kept
  <2>2. e \in Nat /\ l \in Nat /\ h \in Nat /\ h >= l /\ \A i \in 1 .. l : data'[i] = data[i]
    BY <1>1, <1>3
  <2> HIDE DEF e, l, h
  <2>3. e <= h /\ \A i \in 1 .. e : i \in 1 .. l
    BY <2>1, <2>2
  <2>4. \A i \in 1 .. e : data'[i] = Concats(BytesOf(msg))[k][i]
    BY <2>1, <2>2, <2>3
  <2> QED
    BY <1>1, <1>2, <2>3, <2>4 DEF Kept, Readables, e, h
<1>5. k \in 0 .. Len(msg.chunks)
  <2> DEFINE N == Len(msg.chunks)
  <2>1. N \in Nat /\ k \in 0 .. N - 1
    BY BodyLemma
  <2> HIDE DEF N
  <2>2. k \in 0 .. N
    BY <2>1
  <2> QED
    BY <2>2 DEF N
<1> QED
  BY <1>2, <1>4, <1>5 DEF BodyInv

\* Every step of the server's copy leads from one chunk to the next, or stops.
LEMMA ServerKeeps ==
  ASSUME Shape, Body(msg), BodyInv, phase = "chunked", copy = "server", Chunk
  PROVE  BodyInv'
<1> DEFINE N == Len(msg.chunks)
           T == TextsOf(msg)
<1>1. N \in Nat /\ Whole = EndOf(T, N)
  BY BodyLemma DEF Whole, EndOf
<1>2. PICK k \in 0 .. N - 1 : Between(k) \/ Kept(k)
  BY DEF BodyInv
<1>3. k \in Nat /\ k + 1 \in 1 .. N /\ k \in 0 .. N /\ k + 1 \in 0 .. N /\ k < N /\ k # N
  <2> HIDE DEF N
  <2> QED
    BY <1>1, <1>2
<1> SUFFICES ASSUME ~Kept(k) PROVE BodyInv'
  BY <1>2, KeptStep
<1>4. Between(k) /\ Delivered(k) /\ Readables(k) /\ read = EndOf(T, k)
  BY <1>2 DEF Between
<1>14. ReadableChunk(msg.chunks[k + 1]) /\ Readables(k + 1)
  <2>1. bodyLen = EndOf(BytesOf(msg), k) /\ EndOf(TextsOf(msg), k) <= Cut
    BY <1>4 DEF Delivered
  <2>2. EndOf(BytesOf(msg), k) <= bodyLen
    BY <2>1 DEF Shape
  <2>3. ReadableChunk(msg.chunks[k + 1])
    BY <1>3, <1>4, <2>1, <2>2 DEF Kept, Delivered
  <2>4. \A j \in 1 .. k + 1 : j \in 1 .. k \/ j = k + 1
    BY <1>3
  <2> QED
    BY <1>4, <2>3, <2>4 DEF Readables
<1>5. PICK L \in Nat, M \in Nat, n \in Nat, q \in Nat : Seen(k, L, M, n, q)
  BY <1>2, <1>4, <1>14, ChunkSeen
<1>6. NextChunk(q, n) /\ msg' = msg /\ copy' = copy
  BY <1>3, <1>4, <1>5, ChunkStep
<1>7. (n = 0) = (k + 1 = N)
  <2>1. (Len(msg.chunks[k + 1].bytes) = 0) = (k + 1 = N)
    BY <1>3, BodyLemma
  <2> QED
    BY <1>5, <2>1 DEF Seen
<1>8. EndOf(T, k) \in Nat /\ EndOf(T, k + 1) = q + n + 3 /\ EndOf(T, k) < q
  <2> DEFINE E == EndOf(T, k)
  <2>1. E \in Nat /\ EndOf(T, k + 1) = q + n + 3 /\ q = E + L + M + 1
    BY <1>5 DEF Seen, SizeLineFrom
  <2> HIDE DEF E
  <2>2. E < q
    BY <2>1
  <2> QED
    BY <2>1, <2>2 DEF E
<1>9. Cut \in Nat /\ Cut <= Whole /\ bodyLen \in Nat
  BY <1>4, <1>5, LenProperties DEF Delivered, Cut, Seen
<1>10. \A i \in EndOf(T, k) + 1 .. Cut : data[i] = msg.text[i]
  BY <1>4 DEF Delivered
<1> HIDE DEF N, T
<1>11. CASE /\ Cut < q + n + 3
            /\ outcome' \in {"ok", "incomplete"} /\ phase' = "end"
            /\ UNCHANGED <<data, read, bodyLen>>
  <2>1. Delivered(k)'
    BY <1>4, <1>6, <1>11 DEF Delivered, Cut, Whole
  <2>2. Stopped(k)'
    BY <1>3, <1>4, <1>6, <1>8, <1>10, <1>11, <2>1 DEF Stopped, Readables, Cut, N, T
  <2> QED
    BY <1>3, <1>6, <1>11, <2>2 DEF BodyInv, N
<1>12. CASE /\ q + n + 3 <= Cut /\ n = 0
            /\ read' = q + 1 /\ outcome' = "ok" /\ phase' = "end"
            /\ UNCHANGED <<data, bodyLen>>
  <2>1. data' = Compact(q, n) /\ bodyLen' = bodyLen + n
    <3>1. \A j : j \notin bodyLen + 1 .. bodyLen + n
      BY <1>9, <1>12
    <3>2. Compact(q, n) = [j \in DOMAIN data |-> data[j]]
      BY <3>1 DEF Compact, Moved
    <3>3. data \in Seq(Chars)
      BY <1>4 DEF Delivered
    <3>4. data = [j \in DOMAIN data |-> data[j]]
      BY <3>3
    <3> QED
      BY <1>9, <1>12, <3>2, <3>4
  <2>2. Delivered(k + 1)'
    BY <1>3, <1>4, <1>5, <1>6, <1>12, <2>1, Deliver
  <2>3. k + 1 = N /\ Cut = q + 3 /\ read' = Cut - 2
    <3>1. k + 1 = N
      BY <1>7, <1>12
    <3>2. Whole = q + n + 3
      BY <1>1, <1>8, <3>1
    <3> QED
      BY <1>9, <1>12, <3>1, <3>2
  <2>4. \A i \in q + 1 + 1 .. Cut : data[i] = msg.text[i]
    <3>1. \A i \in q + 1 + 1 .. Cut : i \in EndOf(T, k) + 1 .. Cut
      BY <1>8, <1>9
    <3> QED
      BY <1>10, <3>1
  <2>5. ~(k + 1 < N)
    BY <1>1, <2>3
  <2>6. Stopped(k + 1)'
    BY <1>14, <1>6, <1>12, <2>2, <2>3, <2>4, <2>5 DEF Stopped, Readables, Cut, N
  <2> QED
    BY <1>3, <1>6, <1>12, <2>6 DEF BodyInv, N
<1>13. CASE /\ q + n + 3 <= Cut /\ n > 0
            /\ data' = Compact(q, n) /\ bodyLen' = bodyLen + n /\ read' = q + n + 3
            /\ p1' = q + n + 4 /\ scan' = q + n + 5 /\ UNCHANGED phase
  <2>1. Delivered(k + 1)'
    BY <1>3, <1>4, <1>5, <1>6, <1>13, Deliver
  <2>2. k + 1 \in 0 .. N - 1 /\ k + 1 # 0
    BY <1>1, <1>3, <1>7, <1>13
  <2>3. q + n + 3 + 1 = q + n + 4 /\ q + n + 3 + 2 = q + n + 5
    OBVIOUS
  <2>4. Between(k + 1)'
    BY <1>14, <1>6, <1>8, <1>13, <2>1, <2>2, <2>3 DEF Between, Readables, T
  <2> QED
    BY <1>6, <1>13, <2>2, <2>4 DEF BodyInv, N
<1> QED
  BY <1>6, <1>11, <1>12, <1>13 DEF NextChunk

\* The runtime's copy finds the first chunk.
LEMMA RuntimeKeeps ==
  ASSUME Body(msg), BodyInv, phase = "chunked", copy = "runtime", DecodeChunk
  PROVE  BodyInv'
<1> DEFINE N == Len(msg.chunks)
           first == msg.chunks[1]
           crs == Find(1, {"CR"})
           digits == SubSeq(data, 1, Least(crs) - 1)
           found == /\ crs # {} /\ digits # <<>>
                    /\ \A k \in DOMAIN digits : digits[k] \in DOMAIN Digit
                    /\ str_parse_hex(digits) > 0
<1>1. /\ \/ /\ found
            /\ bodyLen' = str_parse_hex(digits) /\ read' = Least(crs) + 1
            /\ Finish("ok")
         \/ /\ ~found
            /\ Finish("error") /\ UNCHANGED <<bodyLen, read>>
      /\ UNCHANGED <<msg, copy, data>>
  BY DEF DecodeChunk
<1>2. ASSUME ReadableChunk(first), first.ext = <<>>, first # LastChunk, Cut > Len(first.size)
      PROVE  /\ outcome' = "ok" /\ bodyLen' = Len(first.bytes)
             /\ read' = Len(SizeLine(first))
  <2> DEFINE size == first.size
             E == EndOf(TextsOf(msg), 0)
  <2>1. N \in Nat /\ N > 0 /\ TextsOf(msg) \in Seq(Seq(Chars))
        /\ (Len(first.bytes) = 0) = (1 = N) /\ (first = LastChunk) = (1 = N)
    <3>1. N \in Nat /\ N > 0
      BY BodyLemma
    <3> HIDE DEF N
    <3>2. 1 \in 1 .. N
      BY <3>1
    <3> QED
      BY <3>1, <3>2, BodyLemma DEF N
  <2>2. Delivered(0)
    BY DEF BodyInv
  <2>3. 0 \in 0 .. Len(msg.chunks) - 1 /\ 0 + 1 = 1
    <3>1. 0 \in 0 .. N - 1
      BY <2>1
    <3> QED
      BY <3>1
  <2>4. PICK L \in Nat, M \in Nat, n \in Nat, q \in Nat : Seen(0, L, M, n, q)
    BY <1>2, <2>2, <2>3, ChunkSeen
  <2>5. /\ SizeLineFrom(E, L, M, q, size) /\ M = 0 /\ Len(SizeLine(first)) = L + M + 2
        /\ str_parse_hex(size) = n /\ Len(first.bytes) = n
    BY <1>2, <2>3, <2>4 DEF Seen
  <2>6. E = 0
    BY <2>1, EndOfLemma
  <2>7. q = L + 1 /\ L = Len(size) /\ L > 0 /\ size \in Seq(DOMAIN Digit)
    <3>1. q = E + L + M + 1 /\ L = Len(size) /\ L > 0 /\ size \in Seq(DOMAIN Digit)
      BY <2>5 DEF SizeLineFrom
    <3> HIDE DEF size
    <3> QED
      BY <2>5, <2>6, <3>1
  <2>8. data \in Seq(Chars) /\ Cut \in Nat
    BY <2>2, LenProperties DEF Delivered, Cut
  <2>9. q <= Cut
    <3>1. Cut > L
      BY <1>2, <2>7
    <3> QED
      BY <2>7, <2>8, <3>1
  <2>10. /\ crs # {} /\ Least(crs) = q
         /\ SubSeq(data, 0 + 1, (IF Semis(1, q) = {} THEN q ELSE Greatest(Semis(1, q))) - 1) = size
         /\ Semis(1, q) = {}
    <3>1. 0 \in Nat /\ 1 \in Nat /\ 1 = 0 + 1 /\ SizeLineFrom(0, L, M, q, size)
      BY <2>5, <2>6
    <3> HIDE DEF size
    <3>2. SizeRead(0, M, q, size, 1)
      BY <2>8, <3>1, SizeFound
    <3> QED
      BY <2>5, <2>9, <3>2 DEF SizeRead
  <2>11. digits = size
    BY <2>10
  <2> HIDE DEF crs, digits
  <2>12. n > 0
    BY <1>2, <2>1, <2>5
  <2>13. found
    <3>1. size # <<>> /\ \A k \in DOMAIN size : size[k] \in DOMAIN Digit
      BY <2>7
    <3> QED
      BY <2>5, <2>10, <2>11, <2>12, <3>1
  <2>14. bodyLen' = n /\ read' = q + 1 /\ Finish("ok")
    BY <1>1, <2>5, <2>10, <2>11, <2>13
  <2>15. q + 1 = L + M + 2
    BY <2>5, <2>7
  <2> QED
    BY <2>5, <2>14, <2>15 DEF Finish
<1>3. UNCHANGED <<msg, copy, data>> /\ phase' = "end"
  BY <1>1 DEF Finish
<1>4. Decoded'
  BY <1>2, <1>3 DEF Decoded, Cut
<1> QED
  BY <1>3, <1>4 DEF BodyInv

\* The first n of some sequences as a list of their own.
LEMMA ConcatOfFirst ==
  ASSUME NEW S, NEW seqs \in Seq(Seq(S)), NEW n \in 0 .. Len(seqs),
         NEW t \in Seq(Seq(S)), Len(t) = n, \A k \in 1 .. n : t[k] = seqs[k]
  PROVE  Concat(t) = Concats(seqs)[n]
<1>1. Len(seqs) \in Nat
  BY LenProperties
<1>2. n \in 0 .. Len(t) /\ Len(t) <= Len(seqs) /\ \A k \in 1 .. Len(t) : t[k] = seqs[k]
  BY <1>1
<1>3. Concats(t)[n] = Concats(seqs)[n]
  BY <1>2, ConcatsAlike
<1> QED
  BY <1>3 DEF Concat

\* The greatest of some numbers.
LEMMA MaxIs ==
  ASSUME NEW S \in SUBSET Int, NEW x \in S, \A y \in S : y <= x
  PROVE  Max(S) = x
<1>1. \A z \in S : (\A y \in S : z >= y) => z = x
  OBVIOUS
<1>2. \A y \in S : x >= y
  OBVIOUS
<1> QED
  BY <1>1, <1>2 DEF Max

\* Some numbers up to N have a greatest one.
LEMMA MaxLemma ==
  ASSUME NEW N \in Nat, NEW S \in SUBSET (0 .. N), S # {}
  PROVE  Max(S) \in S /\ \A y \in S : y <= Max(S)
<1> DEFINE R == {y \in 1 .. N + 1 : y - 1 \in S}
           x == Greatest(R) - 1
<1>1. \A y \in S : y \in 0 .. N /\ y + 1 \in 1 .. N + 1 /\ (y + 1) - 1 = y
  OBVIOUS
<1>2. R \in SUBSET (1 .. N + 1) /\ R # {} /\ \A y \in S : y + 1 \in R
  BY <1>1
<1> DEFINE M == N + 1
<1>3. Greatest(R) \in R /\ \A y \in R : y <= Greatest(R)
  <2>1. M \in Nat /\ R \in SUBSET (1 .. M) /\ R # {}
    BY <1>2
  <2> HIDE DEF M, R
  <2> QED
    BY <2>1, GreatestLemma
<1> HIDE DEF R
<1>4. x \in S /\ \A y \in S : y <= x
  <2>1. x \in S /\ Greatest(R) \in Int
    BY <1>3 DEF R
  <2> QED
    BY <1>1, <1>2, <1>3, <2>1
<1> HIDE DEF x
<1>5. Max(S) = x
  BY <1>4, MaxIs
<1> QED
  BY <1>4, <1>5

\* What the property calls end and there, when the first k chunks are there.
LEMMA ThereIs ==
  ASSUME Body(msg), NEW k \in 0 .. Len(msg.chunks), EndOf(TextsOf(msg), k) <= Cut, Cut \in Nat
  PROVE  /\ \A n \in 0 .. Len(msg.chunks) :
              Len(Concat(SubSeq(TextsOf(msg), 1, n))) = EndOf(TextsOf(msg), n)
         /\ LET there == Max({n \in 0 .. Len(msg.chunks) :
                                Len(Concat(SubSeq(TextsOf(msg), 1, n))) <= Cut})
            IN  /\ there \in k .. Len(msg.chunks)
                /\ (k < Len(msg.chunks) => Cut < EndOf(TextsOf(msg), k + 1)) => there = k
         /\ Concat([j \in 1 .. k |-> msg.chunks[j].bytes]) = Concats(BytesOf(msg))[k]
         /\ Concats(BytesOf(msg))[k] \in Seq(Chars)
<1> DEFINE N == Len(msg.chunks)
           T == TextsOf(msg)
           B == BytesOf(msg)
           Q == Seq(Chars)
<1>1. /\ N \in Nat /\ T \in Seq(Q) /\ Len(T) = N /\ B \in Seq(Q) /\ Len(B) = N
      /\ \A j \in 1 .. N : B[j] = msg.chunks[j].bytes
  BY BodyLemma
<1>2. EndOf(T, k) <= Cut /\ Cut \in Nat
  OBVIOUS
<1>3. k \in 0 .. N
  OBVIOUS
<1> HIDE DEF N, T, B
<1>4. ASSUME NEW n \in 0 .. N PROVE Len(Concat(SubSeq(T, 1, n))) = EndOf(T, n)
  <2> DEFINE t == SubSeq(T, 1, n)
  <2> HIDE DEF Q
  <2>1. t \in Seq(Q) /\ Len(t) = n /\ \A j \in 1 .. n : t[j] = T[j]
    BY <1>1
  <2> HIDE DEF t
  <2>2. t \in Seq(Seq(Chars)) /\ Len(t) = n /\ \A j \in 1 .. n : t[j] = T[j]
    BY <2>1 DEF Q
  <2>3. T \in Seq(Seq(Chars)) /\ n \in 0 .. Len(T)
    BY <1>1 DEF Q
  <2>4. Concat(t) = Concats(T)[n]
    BY <2>2, <2>3, ConcatOfFirst
  <2> QED
    BY <2>4 DEF EndOf, t
<1>5. ASSUME k < N => Cut < EndOf(T, k + 1), NEW n \in 0 .. N, EndOf(T, n) <= Cut
      PROVE  n <= k
  <2> SUFFICES ASSUME k < n PROVE FALSE
    BY <1>1, <1>3
  <2>1. k + 1 \in 0 .. Len(T) /\ n \in 0 .. Len(T) /\ k + 1 <= n /\ k < N
    BY <1>1, <1>3
  <2>2. EndOf(T, k + 1) <= EndOf(T, n)
    BY <1>1, <2>1, EndsGrow
  <2>3. EndOf(T, k + 1) \in Nat /\ EndOf(T, n) \in Nat
    BY <1>1, <2>1, EndOfLemma
  <2> QED
    BY <1>2, <1>5, <2>1, <2>2, <2>3
<1> DEFINE S == {n \in 0 .. N : Len(Concat(SubSeq(T, 1, n))) <= Cut}
<1>6. Max(S) \in k .. N /\ ((k < N => Cut < EndOf(T, k + 1)) => Max(S) = k)
  <2>1. S = {n \in 0 .. N : EndOf(T, n) <= Cut}
    BY <1>4
  <2>2. k \in S /\ S \in SUBSET (0 .. N)
    BY <1>2, <1>3, <2>1
  <2>3. (k < N => Cut < EndOf(T, k + 1)) => \A n \in S : n <= k
    BY <1>5, <2>1
  <2> HIDE DEF S
  <2>4. Max(S) \in S /\ \A n \in S : n <= Max(S)
    BY <1>1, <2>2, MaxLemma
  <2> DEFINE x == Max(S)
  <2>5. x \in 0 .. N /\ k <= x
    BY <2>2, <2>4
  <2>6. (k < N => Cut < EndOf(T, k + 1)) => x <= k
    BY <2>3, <2>4
  <2> HIDE DEF x
  <2>7. x \in k .. N /\ ((k < N => Cut < EndOf(T, k + 1)) => x = k)
    BY <1>1, <1>3, <2>5, <2>6
  <2> QED
    BY <2>7 DEF x
<1>7. Concat([j \in 1 .. k |-> msg.chunks[j].bytes]) = Concats(B)[k]
  <2> DEFINE t == [j \in 1 .. k |-> msg.chunks[j].bytes]
  <2>1. \A j \in 1 .. k : j \in 1 .. N
    BY <1>1, <1>3
  <2>2. \A j \in 1 .. k : t[j] = B[j] /\ B[j] \in Q
    BY <1>1, <2>1, ElementOfSeq
  <2> HIDE DEF Q
  <2>3. k \in Nat /\ t \in [1 .. k -> Q]
    BY <1>3, <2>2
  <2>4. t \in Seq(Q) /\ Len(t) = k
    <3> HIDE DEF t
    <3> QED
      BY <2>3
  <2> HIDE DEF t
  <2>5. /\ t \in Seq(Seq(Chars)) /\ B \in Seq(Seq(Chars)) /\ k \in 0 .. Len(B) /\ Len(t) = k
        /\ \A j \in 1 .. k : t[j] = B[j]
    BY <1>1, <1>3, <2>2, <2>4 DEF Q
  <2>6. Concat(t) = Concats(B)[k]
    BY <2>5, ConcatOfFirst
  <2> QED
    BY <2>6 DEF t
<1>8. Concats(B)[k] \in Seq(Chars)
  <2>1. B \in Seq(Seq(Chars)) /\ k \in 0 .. Len(B)
    BY <1>1, <1>3
  <2> QED
    BY <2>1, ConcatsLemma
<1> QED
  BY <1>4, <1>6, <1>7, <1>8 DEF N, T, B, S

\* The front of the buffer, character by character.
LEMMA FrontIs ==
  ASSUME NEW a \in Seq(Chars), \A i \in 1 .. Len(a) : data[i] = a[i]
  PROVE  SubSeq(data, 1, Len(a)) = a
<1> DEFINE l == Len(a)
           s == SubSeq(data, 1, l)
<1>1. l \in Nat /\ \A i \in 1 .. l : data[i] \in Chars
  BY LenProperties, ElementOfSeq
<1> HIDE DEF l
<1>2. 1 \in Int /\ l \in Int
  BY <1>1
<1>3. /\ s \in Seq(Chars)
      /\ Len(s) = IF 1 <= l THEN l - 1 + 1 ELSE 0
      /\ \A i \in 1 .. l - 1 + 1 : s[i] = data[1 + i - 1]
  BY <1>1, <1>2, SubSeqProperties
<1>4. /\ l - 1 + 1 = l /\ (IF 1 <= l THEN l - 1 + 1 ELSE 0) = l
      /\ \A i \in 1 .. l : 1 + i - 1 = i
  BY <1>1
<1> HIDE DEF s
<1>5. s \in Seq(Chars) /\ Len(s) = Len(a) /\ \A i \in 1 .. Len(s) : s[i] = a[i]
  BY <1>3, <1>4 DEF l
<1>6. s = a
  BY <1>5, SeqEqual
<1> QED
  BY <1>6 DEF s, l

\* When it has stopped, what is in front of the buffer is right.
LEMMA StoppedRight == ASSUME Shape, ChunkInv PROVE ChunksRight
<1> SUFFICES ASSUME phase = "end", msg.kind = "chunked" PROVE ChunksRight
  BY Zenon DEF ChunksRight
<1> DEFINE first == msg.chunks[1]
           texts == [k \in DOMAIN msg.chunks |-> ChunkText(msg.chunks[k])]
           end(n) == Len(Concat(SubSeq(texts, 1, n)))
           there == Max({n \in 0 .. Len(texts) : end(n) <= Cut})
           readable(n) == \A k \in 1 .. n : ReadableChunk(msg.chunks[k])
           right == Max({n \in 0 .. there : readable(n)})
           lead == Concat([k \in 1 .. right |-> msg.chunks[k].bytes])
           N == Len(msg.chunks)
<1>1. Body(msg) /\ BodyInv
  BY DEF ChunkInv, Body
<1>2. texts = TextsOf(msg) /\ Len(texts) = N /\ N \in Nat /\ msg.text = Concats(TextsOf(msg))[N]
      /\ TextsOf(msg) \in Seq(Seq(Chars))
  BY <1>1, BodyLemma DEF TextsOf
<1>3. ASSUME copy = "server"
      PROVE  /\ Len(lead) <= bodyLen /\ SubSeq(data, 1, Len(lead)) = lead
             /\ readable(IF there = Len(texts) THEN there ELSE there + 1)
                => /\ outcome \in {"ok", "incomplete"}
                   /\ bodyLen = Len(lead)
                   /\ read = IF there = Len(texts) THEN Cut - 2 ELSE end(there)
                   /\ SubSeq(data, read + 1, Cut) = SubSeq(msg.text, read + 1, Cut)
  <2>1. PICK k \in 0 .. N : Stopped(k) \/ Kept(k)
    BY <1>1, <1>3 DEF BodyInv
  <2> DEFINE a == Concats(BytesOf(msg))[k]
             E == EndOf(TextsOf(msg), k)
  <2>2. /\ E <= Cut /\ Cut \in Nat /\ bodyLen \in Nat /\ Len(a) <= bodyLen
        /\ \A i \in 1 .. Len(a) : data[i] = a[i]
        /\ Readables(k)
    <3>1. Cut \in Nat /\ bodyLen \in Nat
      BY DEF Shape, IsSeq, Cut
    <3>2. CASE Stopped(k)
      BY <3>1, <3>2 DEF Stopped, Delivered, EndOf
    <3>3. CASE Kept(k)
      BY <3>1, <3>3 DEF Kept, EndOf
    <3> QED
      BY <2>1, <3>2, <3>3
  <2>3. /\ \A n \in 0 .. N : Len(Concat(SubSeq(TextsOf(msg), 1, n))) = EndOf(TextsOf(msg), n)
        /\ there \in k .. N /\ ((k < N => Cut < EndOf(TextsOf(msg), k + 1)) => there = k)
        /\ Concat([j \in 1 .. k |-> msg.chunks[j].bytes]) = a /\ a \in Seq(Chars)
    BY <1>1, <1>2, <2>1, <2>2, ThereIs
  <2>4. end(k) = E
    BY <1>2, <2>1, <2>3
  <2>5. E \in Nat
    <3>1. k \in 0 .. Len(TextsOf(msg))
      BY <1>2, <2>1
    <3> QED
      BY <1>2, <3>1, EndOfLemma
  <2> HIDE DEF texts, end, there, N, a, E
  <2>6. CASE Stopped(k)
    <3>1. there = k
      BY <2>3, <2>6 DEF Stopped, N
    <3>2. right = k
      <4> DEFINE R == {n \in 0 .. there : readable(n)}
      <4>1. k \in R /\ R \in SUBSET Int /\ \A n \in R : n <= k
        BY <1>2, <2>1, <2>2, <3>1 DEF Readables
      <4> HIDE DEF R
      <4>2. Max(R) = k
        BY <4>1, MaxIs
      <4> QED
        BY <4>2 DEF R
    <3>3. lead = a
      BY <2>3, <3>2
    <3>4. /\ outcome \in {"ok", "incomplete"} /\ bodyLen = Len(a)
          /\ read = IF k = N THEN Cut - 2 ELSE E
          /\ \A i \in read + 1 .. Cut : data[i] = msg.text[i]
      BY <2>6 DEF Stopped, Delivered, EndOf, E, a, N
    <3>5. SubSeq(data, read + 1, Cut) = SubSeq(msg.text, read + 1, Cut)
      <4>1. read + 1 \in Int /\ Cut \in Int
        BY <2>2, <2>5, <3>4
      <4>2. \A i \in 1 .. 1 + Cut - (read + 1) : i + (read + 1) - 1 \in read + 1 .. Cut
        BY <4>1
      <4>3. [i \in 1 .. 1 + Cut - (read + 1) |-> data[i + (read + 1) - 1]]
              = [i \in 1 .. 1 + Cut - (read + 1) |-> msg.text[i + (read + 1) - 1]]
        BY <3>4, <4>2
      <4> QED
        BY <4>1, <4>3
    <3>6. SubSeq(data, 1, Len(a)) = a
      BY <2>2, <2>3, FrontIs
    <3> HIDE DEF readable, lead, right
    <3> QED
      BY <1>2, <2>2, <2>4, <3>1, <3>3, <3>4, <3>5, <3>6
  <2>7. CASE Kept(k)
    <3>1. k < N /\ ~ReadableChunk(msg.chunks[k + 1]) /\ k \in Nat /\ k + 1 \in Nat
      BY <2>1, <2>7 DEF Kept, N
    <3>2. ASSUME NEW n \in Nat, readable(n) PROVE n <= k
      <4> SUFFICES ASSUME k < n PROVE FALSE
        BY <3>1
      <4>1. k + 1 \in 1 .. n
        BY <3>1
      <4> QED
        BY <3>1, <3>2, <4>1
    <3>3. right = k
      <4> DEFINE R == {n \in 0 .. there : readable(n)}
      <4>1. k \in 0 .. there /\ there \in Nat /\ readable(k)
        BY <1>2, <2>1, <2>2, <2>3 DEF Readables
      <4>2. k \in R /\ R \in SUBSET Int /\ \A n \in R : n \in Nat /\ readable(n)
        BY <4>1
      <4> HIDE DEF R
      <4>3. \A n \in R : n <= k
        BY <3>2, <4>2
      <4>4. Max(R) = k
        BY <4>2, <4>3, MaxIs
      <4> QED
        BY <4>4 DEF R
    <3>4. lead = a
      BY <2>3, <3>3
    <3>5. SubSeq(data, 1, Len(a)) = a
      BY <2>2, <2>3, FrontIs
    <3>6. ~readable(IF there = Len(texts) THEN there ELSE there + 1)
      <4> DEFINE n == IF there = Len(texts) THEN there ELSE there + 1
      <4>1. n \in Nat /\ k < n
        BY <1>2, <2>1, <2>3, <3>1
      <4> HIDE DEF n, readable
      <4>2. ~readable(n)
        BY <3>1, <3>2, <4>1
      <4> QED
        BY <4>2 DEF n
    <3> HIDE DEF readable, lead, right
    <3> QED
      BY <2>2, <3>4, <3>5, <3>6
  <2> QED
    BY <2>1, <2>6, <2>7
<1>4. copy = "runtime" => Decoded
  BY <1>1 DEF BodyInv
<1> HIDE DEF there, right, lead
<1> QED
  BY <1>3, <1>4 DEF ChunksRight, Decoded, there, right, lead

\* Whichever part of a body has arrived, http_parse_chunked delivers the chunks in front
\* of the first that is not readable, and exactly those that are there if all are, and
\* http_decode_chunked finds the first of them.
THEOREM ChunkedBodies == Spec => []ChunksRight
<1>1. Init => Shape /\ ChunkInv
  <2> SUFFICES ASSUME Init PROVE ChunkInv
    BY ShapeInit
  <2>1. msg \in Requests \cup Bodies
    BY DEF Init
  <2> QED
    BY <2>1, BodyInit DEF ChunkInv
<1>2. Shape /\ ChunkInv /\ [Next]_vars => Shape' /\ ChunkInv'
  <2> SUFFICES ASSUME Shape, ChunkInv, [Next]_vars PROVE ChunkInv'
    BY ShapeNext
  <2>1. msg' = msg
    BY DEF Next, RequestLine, NoHeader, HeaderLine, Chunk, DecodeChunk, vars
  <2>2. ASSUME Body(msg) PROVE BodyInv'
    <3>1. BodyInv /\ phase \in {"chunked", "end"}
      BY <2>2 DEF ChunkInv, BodyInv
    <3>2. phase # "line" /\ phase # "header"
      BY <3>1
    <3>3. CASE RequestLine
      BY <3>2, <3>3 DEF RequestLine
    <3>4. CASE NoHeader
      BY <3>2, <3>4 DEF NoHeader
    <3>5. CASE HeaderLine
      BY <3>2, <3>5 DEF HeaderLine
    <3>6. CASE Chunk
      <4>1. phase = "chunked" /\ copy = "server"
        BY <3>6 DEF Chunk
      <4> QED
        BY <2>2, <3>1, <3>6, <4>1, ServerKeeps
    <3>7. CASE DecodeChunk
      <4>1. phase = "chunked" /\ copy = "runtime"
        BY <3>7 DEF DecodeChunk
      <4> QED
        BY <2>2, <3>1, <3>7, <4>1, RuntimeKeeps
    <3>8. CASE UNCHANGED vars
      BY <3>1, <3>8 DEF vars, BodyInv, Between, Stopped, Kept, Readables, Delivered, Decoded,
                          Cut, Whole
    <3> QED
      BY <3>3, <3>4, <3>5, <3>6, <3>7, <3>8 DEF Next
  <2>3. Body(msg)' = Body(msg)
    BY <2>1 DEF Body
  <2> QED
    BY <2>1, <2>2, <2>3 DEF ChunkInv
<1>3. Shape /\ ChunkInv => ChunksRight
  BY StoppedRight
<1> QED
  BY <1>1, <1>2, <1>3, PTL DEF Spec
-----------------------------------------------------------------------------
(* Where the parts of a request are in its text. *)

\* s is in t, behind its first o characters.
Has(t, o, s) ==
  /\ o \in Nat /\ o + Len(s) <= Len(t)
  /\ \A i \in 1 .. Len(s) : t[o + i] = s[i]

\* What is in the first of two texts, or in the second, is in both together.
LEMMA HasJoin ==
  ASSUME NEW S, NEW a \in Seq(S), NEW b \in Seq(S)
  PROVE  /\ a \o b \in Seq(S) /\ Len(a \o b) = Len(a) + Len(b)
         /\ Len(a) \in Nat /\ Len(b) \in Nat
         /\ \A o, s : Len(s) \in Nat /\ Has(a, o, s) => Has(a \o b, o, s)
         /\ Has(a \o b, 0, a) /\ Has(a \o b, Len(a), b)
<1> DEFINE c == a \o b
           m == Len(a)
           n == Len(b)
<1>1. /\ c \in Seq(S) /\ m \in Nat /\ n \in Nat /\ Len(c) = m + n
  BY ConcatProperties, LenProperties
<1>2. Joined(c, a, b)
  BY JoinedLemma
<1>3. (\A i \in 1 .. m : c[i] = a[i]) /\ \A i \in 1 .. n : c[m + i] = b[i]
  BY <1>2 DEF Joined
<1> HIDE DEF c, m, n
<1>4. ASSUME NEW o, NEW s, Len(s) \in Nat, Has(a, o, s) PROVE Has(c, o, s)
  <2>1. o \in Nat /\ o + Len(s) <= m /\ \A i \in 1 .. Len(s) : a[o + i] = s[i]
    BY <1>4 DEF Has, m
  <2>2. o + Len(s) <= Len(c)
    BY <1>1, <1>4, <2>1
  <2>3. \A i \in 1 .. Len(s) : o + i \in 1 .. m
    BY <1>1, <1>4, <2>1
  <2> QED
    BY <1>3, <2>1, <2>2, <2>3 DEF Has
<1>5. Has(c, 0, a)
  <2>1. 0 \in Nat /\ 0 + m <= Len(c) /\ \A i \in 1 .. m : 0 + i = i
    BY <1>1
  <2> QED
    BY <1>3, <2>1 DEF Has, m
<1>6. Has(c, m, b)
  BY <1>1, <1>3 DEF Has, n
<1> QED
  BY <1>1, <1>4, <1>5, <1>6 DEF c, m, n

\* What is in a part is in the whole.
LEMMA HasIn ==
  ASSUME NEW t, NEW a, NEW u, NEW o, NEW s,
         Len(s) \in Nat, Len(u) \in Nat, Len(t) \in Nat, Has(t, a, u), Has(u, o, s)
  PROVE  Has(t, a + o, s)
<1> DEFINE l == Len(s)
           n == Len(u)
           m == Len(t)
<1>1. /\ a \in Nat /\ a + n <= m /\ \A i \in 1 .. n : t[a + i] = u[i]
      /\ o \in Nat /\ o + l <= n /\ \A i \in 1 .. l : u[o + i] = s[i]
      /\ l \in Nat /\ n \in Nat /\ m \in Nat
  BY DEF Has
<1> HIDE DEF l, n, m
<1>2. a + o \in Nat /\ a + o + l <= m
  BY <1>1
<1>3. ASSUME NEW i \in 1 .. l PROVE t[a + o + i] = s[i]
  <2>1. o + i \in 1 .. n /\ a + (o + i) = a + o + i
    BY <1>1
  <2> QED
    BY <1>1, <2>1
<1> QED
  BY <1>2, <1>3 DEF Has, l, m

\* One character.
LEMMA HasOne ==
  ASSUME NEW t, NEW o, NEW x, Has(t, o, <<x>>)
  PROVE  t[o + 1] = x
<1>1. Len(<<x>>) = 1 /\ <<x>>[1] = x /\ 1 \in 1 .. 1
  OBVIOUS
<1> QED
  BY <1>1 DEF Has

\* A line end.
LEMMA HasCRLF ==
  ASSUME NEW t, NEW o, Has(t, o, CRLF)
  PROVE  t[o + 1] = "CR" /\ t[o + 2] = "LF"
<1>1. Len(CRLF) = 2 /\ CRLF[1] = "CR" /\ CRLF[2] = "LF" /\ 1 \in 1 .. 2 /\ 2 \in 1 .. 2
  BY DEF CRLF
<1> QED
  BY <1>1 DEF Has

\* What the parsers need of a header field: a name, without a colon, that begins with a
\* character of its own, and a value and a continuation of one line each.
FieldForm(f) ==
  /\ f.name \in Seq(Letters) /\ f.name # <<>> /\ f.name[1] \notin Blank \cup {"CR"}
  /\ \A i \in 1 .. Len(f.name) : f.name[i] \notin {":", "CR", "LF"}
  /\ f.pad \in Nat
  /\ f.value \in Seq(Letters)
  /\ \A i \in 1 .. Len(f.value) : f.value[i] \notin Blank \cup {"CR"}
  /\ f.fold \in Seq(Letters)
  /\ \A i \in 1 .. Len(f.fold) : f.fold[i] # "CR"

\* Every field is one of this form.
LEMMA FieldsForm ==
  ASSUME NEW f \in Fields
  PROVE  FieldForm(f)
<1>1. /\ \A x \in {"x", "z", "u", "v", "w"} :
           x \in Letters /\ x \notin Blank \cup {":", "CR", "LF"}
      /\ "y" \in Letters /\ "y" \notin Blank \cup {":", "CR", "LF"} /\ " " \in Letters
      /\ " " \notin {":", "CR", "LF"} /\ ":" \in Letters /\ ":" # "CR"
  BY DEF Letters, Blank
<1> DEFINE y == <<"y", " ">>
           z == <<"z", "z">>
           w == <<"w", ":", "w">>
           N(s) == /\ s \in Seq(Letters) /\ s # <<>> /\ s[1] \notin Blank \cup {"CR"}
                   /\ \A i \in 1 .. Len(s) : s[i] \notin {":", "CR", "LF"}
           V(s) == s \in Seq(Letters) /\ \A i \in 1 .. Len(s) : s[i] \notin Blank \cup {"CR"}
           C(s) == s \in Seq(Letters) /\ \A i \in 1 .. Len(s) : s[i] # "CR"
<1>2. \A x \in {"x", "u", "v", "w"} :
        <<x>> \in Seq(Letters) /\ Len(<<x>>) = 1 /\ <<x>>[1] = x /\ <<x>> # <<>>
  <2> TAKE x \in {"x", "u", "v", "w"}
  <2>1. x \in Letters
    BY <1>1
  <2>2. \A S : \A a \in S : <<a>> \in Seq(S)
    OBVIOUS
  <2>3. <<x>> \in Seq(Letters)
    BY <2>1, <2>2
  <2> QED
    BY <2>3
<1>3. <<>> \in Seq(Letters) /\ Len(<<>>) = 0
  OBVIOUS
<1>4. /\ y \in Seq(Letters) /\ Len(y) = 2 /\ y[1] = "y" /\ y[2] = " " /\ y # <<>>
      /\ z \in Seq(Letters) /\ Len(z) = 2 /\ z[1] = "z" /\ z[2] = "z" /\ z # <<>>
  <2>1. <<"y", " ">> \in Seq(Letters)
    BY DEF Letters
  <2>2. <<"z", "z">> \in Seq(Letters)
    BY DEF Letters
  <2> QED
    BY <2>1, <2>2
<1>5. w \in Seq(Letters) /\ Len(w) = 3 /\ w[1] = "w" /\ w[2] = ":" /\ w[3] = "w"
  <2>1. <<"w", ":", "w">> \in Seq(Letters)
    BY DEF Letters
  <2> QED
    BY <2>1
<1> HIDE DEF y, z, w
<1>6. \A i \in 1 .. 1 : i = 1
  OBVIOUS
<1>7. \A i \in 1 .. 2 : i = 1 \/ i = 2
  OBVIOUS
<1>8. \A i \in 1 .. 3 : i = 1 \/ i = 2 \/ i = 3
  OBVIOUS
<1>9. N(<<"x">>) /\ V(<<"u">>) /\ V(<<"v">>) /\ C(<<"w">>)
  BY <1>1, <1>2, <1>6
<1>10. N(y) /\ N(z)
  BY <1>1, <1>4, <1>7
<1>11. C(w)
  BY <1>1, <1>5, <1>8
<1>12. V(<<>>) /\ C(<<>>)
  BY <1>3
<1>13. N(f.name) /\ f.pad \in Nat /\ V(f.value) /\ C(f.fold)
  <2> HIDE DEF N, V, C
  <2>1. f.name = <<"x">> \/ f.name = y \/ f.name = z
    BY DEF Fields, y, z
  <2>2. f.value = <<>> \/ f.value = <<"u">> \/ f.value = <<"v">>
    BY DEF Fields
  <2>3. f.fold = <<>> \/ f.fold = <<"w">> \/ f.fold = w
    BY DEF Fields, w
  <2>4. f.pad \in Nat
    <3>1. f.pad \in 0 .. 1 \/ f.pad \in {0}
      BY DEF Fields
    <3> QED
      BY <3>1
  <2> QED
    BY <1>9, <1>10, <1>11, <1>12, <2>1, <2>2, <2>3, <2>4
<1> QED
  BY <1>13 DEF FieldForm

\* Where the parts of the first line of a field are.
LEMMA FirstLineHas ==
  ASSUME NEW f, FieldForm(f)
  PROVE  LET t == FirstLine(f)
             c == Len(f.name) + 1
             v == c + f.pad
             w == v + Len(f.value)
         IN  /\ t \in Seq(Letters) /\ Len(t) = w + f.pad + 2
             /\ Has(t, 0, f.name) /\ Has(t, c - 1, <<":">>)
             /\ Has(t, c, Pad(f.pad)) /\ Has(t, v, f.value) /\ Has(t, w, Pad(f.pad))
             /\ Has(t, w + f.pad, CRLF)
<1> DEFINE n == f.name
           p == Pad(f.pad)
           x == f.value
           d == <<":">>
           z == CRLF
           t1 == n \o d
           t2 == t1 \o p
           t3 == t2 \o x
           t4 == t3 \o p
           t5 == t4 \o z
           Q == Seq(Letters)
<1>1. n \in Q /\ x \in Q /\ f.pad \in Nat
  BY DEF FieldForm
<1>2. p \in Q /\ Len(p) = f.pad
  <2>1. " " \in Letters
    BY DEF Letters
  <2>2. Pad(f.pad) \in [1 .. f.pad -> Letters]
    BY <2>1 DEF Pad
  <2> QED
    BY <1>1, <2>2
<1>3. d \in Q /\ Len(d) = 1 /\ z \in Q /\ Len(z) = 2
  BY DEF Letters, CRLF
<1>4. FirstLine(f) = t5
  BY DEF FirstLine
<1>5. t1 = n \o d
  OBVIOUS
<1>6. t2 = t1 \o p
  OBVIOUS
<1>7. t3 = t2 \o x
  OBVIOUS
<1>8. t4 = t3 \o p
  OBVIOUS
<1>9. t5 = t4 \o z
  OBVIOUS
<1> DEFINE keeps(a, b) == \A o, s : Len(s) \in Nat /\ Has(a, o, s) => Has(b, o, s)
<1>10. \A a, b \in Q : /\ a \o b \in Q /\ Len(a \o b) = Len(a) + Len(b)
                       /\ Len(a) \in Nat /\ Len(b) \in Nat
                       /\ keeps(a, a \o b)
                       /\ Has(a \o b, 0, a) /\ Has(a \o b, Len(a), b)
  BY HasJoin
<1> HIDE DEF n, p, x, d, z, t1, t2, t3, t4, t5, Q, keeps
<1>11. /\ t1 \in Q /\ Len(t1) = Len(n) + 1 /\ Has(t1, 0, n) /\ Has(t1, Len(n), d)
       /\ Len(n) \in Nat /\ Len(x) \in Nat
  BY <1>1, <1>3, <1>5, <1>10
<1>12. /\ t2 \in Q /\ Len(t2) = Len(n) + 1 + f.pad /\ Has(t2, Len(n) + 1, p) /\ keeps(t1, t2)
  BY <1>2, <1>6, <1>10, <1>11
<1>13. /\ t3 \in Q /\ Len(t3) = Len(n) + 1 + f.pad + Len(x) /\ Has(t3, Len(n) + 1 + f.pad, x)
       /\ keeps(t2, t3)
  BY ZenonT(40), <1>1, <1>7, <1>10, <1>12
<1>14. /\ t4 \in Q /\ Len(t4) = Len(n) + 1 + f.pad + Len(x) + f.pad
       /\ Has(t4, Len(n) + 1 + f.pad + Len(x), p) /\ keeps(t3, t4)
  BY ZenonT(40), <1>2, <1>8, <1>10, <1>13
<1>15. /\ t5 \in Q /\ Len(t5) = Len(n) + 1 + f.pad + Len(x) + f.pad + 2
       /\ Has(t5, Len(n) + 1 + f.pad + Len(x) + f.pad, z) /\ keeps(t4, t5)
  <2>1. t4 \in Q /\ z \in Q /\ Len(z) = 2
    BY <1>3, <1>14
  <2>2. t5 \in Q /\ Len(t5) = Len(t4) + Len(z) /\ keeps(t4, t5) /\ Has(t5, Len(t4), z)
    BY <1>9, <1>10, <2>1
  <2> QED
    BY <1>14, <2>1, <2>2
<1>16. /\ Has(t5, 0, n) /\ Has(t5, Len(n), d) /\ Has(t5, Len(n) + 1, p)
       /\ Has(t5, Len(n) + 1 + f.pad, x) /\ Has(t5, Len(n) + 1 + f.pad + Len(x), p)
  <2>1. Len(n) \in Nat /\ Len(d) \in Nat /\ Len(p) \in Nat /\ Len(x) \in Nat
    BY <1>1, <1>2, <1>3, <1>11
  <2> QED
    BY <1>11, <1>12, <1>13, <1>14, <1>15, <2>1, Zenon DEF keeps
<1>17. (Len(n) + 1) - 1 = Len(n)
  BY <1>11
<1> QED
  BY <1>4, <1>15, <1>16, <1>17 DEF n, p, x, d, z, Q

\* The length of the first line of a field, and where its colon is.
FirstLen(f) == Len(f.name) + 1 + f.pad + Len(f.value) + f.pad + 2
Colon(o, f) == o + Len(f.name) + 1

\* A line of a text: a colon at c, none in front of it, and a line end in front of e.
ColonLine(t, from, c, e) ==
  /\ c \in from .. e - 2 /\ t[c] = ":"
  /\ \A i \in from .. c - 1 : t[i] # ":"
  /\ \A i \in c .. e - 2 : t[i] # "CR"
  /\ t[e - 1] = "CR" /\ t[e] = "LF"

\* The characters of the first line of a field f behind the first o of the text t.
FirstAt(t, o, f) ==
  LET c == Colon(o, f)
      v == c + f.pad
      w == v + Len(f.value)
      h == o + FirstLen(f)
  IN  /\ Has(t, o, f.name) /\ t[o + 1] \notin Blank \cup {"CR"}
      /\ ColonLine(t, o + 1, c, h)
      /\ Has(t, v, f.value)
      /\ \A i \in c + 1 .. h - 2 : i \in v + 1 .. w \/ t[i] = " "

\* The first line of a field is read like this, wherever it stands in a text.
LEMMA FirstLineAt ==
  ASSUME NEW f, FieldForm(f), NEW t, Len(t) \in Nat, NEW o, Has(t, o, FirstLine(f))
  PROVE  /\ Len(FirstLine(f)) = FirstLen(f) /\ FirstLen(f) \in Nat /\ FirstLen(f) >= 4
         /\ Len(f.name) \in Nat \ {0} /\ Len(f.value) \in Nat /\ o \in Nat
         /\ FirstAt(t, o, f)
<1> DEFINE u == FirstLine(f)
           N == Len(f.name)
           V == Len(f.value)
           P == f.pad
           h == o + N + 1 + P + V + P + 2
<1>1. /\ u \in Seq(Letters) /\ Len(u) = N + 1 + P + V + P + 2
      /\ Has(u, 0, f.name) /\ Has(u, (N + 1) - 1, <<":">>)
      /\ Has(u, N + 1, Pad(P)) /\ Has(u, N + 1 + P, f.value) /\ Has(u, N + 1 + P + V, Pad(P))
      /\ Has(u, N + 1 + P + V + P, CRLF)
  BY FirstLineHas
<1>2. N \in Nat /\ V \in Nat /\ P \in Nat /\ N # 0
  <2>1. \A s \in Seq(Letters) : Len(s) \in Nat /\ (Len(s) = 0) = (s = <<>>)
    BY EmptySeq, LenProperties
  <2> QED
    BY <2>1 DEF FieldForm
<1>3. o \in Nat
  BY DEF Has
<1>4. /\ Len(<<":">>) \in Nat /\ Len(CRLF) \in Nat /\ Len(Pad(P)) = P /\ Len(u) \in Nat
      /\ \A i \in 1 .. P : Pad(P)[i] = " "
  <2>1. Len(u) \in Nat
    BY <1>1, LenProperties
  <2>2. Len(<<":">>) \in Nat /\ Len(CRLF) \in Nat
    BY DEF CRLF
  <2>3. \A n \in Nat : Len(Pad(n)) = n /\ \A i \in 1 .. n : Pad(n)[i] = " "
    BY DEF Pad
  <2> QED
    BY <1>2, <2>1, <2>2, <2>3
<1>5. /\ \A i \in 1 .. N : f.name[i] \notin {":", "CR", "LF"}
      /\ f.name[1] \notin Blank \cup {"CR"}
      /\ \A i \in 1 .. V : f.value[i] \notin Blank \cup {"CR"}
  BY DEF FieldForm
<1>0. N = Len(f.name) /\ V = Len(f.value) /\ P = f.pad
  OBVIOUS
<1> HIDE DEF u, N, V, P
<1>6. Has(t, o + 0, f.name)
  BY <1>1, <1>2, <1>4, <1>0, HasIn DEF u
<1>7. Has(t, o + ((N + 1) - 1), <<":">>)
  BY <1>1, <1>2, <1>4, <1>0, HasIn DEF u
<1>8. Has(t, o + (N + 1), Pad(P))
  BY <1>1, <1>2, <1>4, <1>0, HasIn DEF u
<1>9. Has(t, o + (N + 1 + P), f.value)
  BY <1>1, <1>2, <1>4, <1>0, HasIn DEF u
<1>10. Has(t, o + (N + 1 + P + V), Pad(P))
  BY <1>1, <1>2, <1>4, <1>0, HasIn DEF u
<1>11. Has(t, o + (N + 1 + P + V + P), CRLF)
  BY <1>1, <1>2, <1>4, <1>0, HasIn DEF u
<1>12. /\ \A i \in 1 .. N : t[o + i] = f.name[i]
       /\ t[o + N + 1] = ":"
       /\ \A i \in 1 .. P : t[o + N + 1 + i] = " "
       /\ \A i \in 1 .. V : t[o + N + 1 + P + i] = f.value[i]
       /\ \A i \in 1 .. P : t[o + N + 1 + P + V + i] = " "
       /\ t[h - 1] = "CR" /\ t[h] = "LF"
  <2>1. \A i \in 1 .. N : t[o + i] = f.name[i]
    <3>1. o + 0 = o
      BY <1>3
    <3> QED
      BY <1>6, <1>0, <3>1 DEF Has
  <2>2. t[o + N + 1] = ":"
    <3>1. t[o + ((N + 1) - 1) + 1] = ":"
      BY <1>7, HasOne
    <3>2. o + ((N + 1) - 1) + 1 = o + N + 1
      BY <1>2, <1>3
    <3> QED
      BY <3>1, <3>2
  <2>3. \A i \in 1 .. P : t[o + N + 1 + i] = " "
    <3>1. \A i \in 1 .. P : t[o + (N + 1) + i] = Pad(P)[i]
      BY <1>4, <1>8 DEF Has
    <3>2. o + (N + 1) = o + N + 1
      BY <1>2, <1>3
    <3> QED
      BY <1>4, <3>1, <3>2
  <2>4. \A i \in 1 .. V : t[o + N + 1 + P + i] = f.value[i]
    <3>1. o + (N + 1 + P) = o + N + 1 + P
      BY <1>2, <1>3
    <3> QED
      BY <1>9, <1>0, <3>1 DEF Has
  <2>5. \A i \in 1 .. P : t[o + N + 1 + P + V + i] = " "
    <3>1. \A i \in 1 .. P : t[o + (N + 1 + P + V) + i] = Pad(P)[i]
      BY <1>4, <1>10 DEF Has
    <3>2. o + (N + 1 + P + V) = o + N + 1 + P + V
      BY <1>2, <1>3
    <3> QED
      BY <1>4, <3>1, <3>2
  <2>6. t[h - 1] = "CR" /\ t[h] = "LF"
    <3>1. /\ t[o + (N + 1 + P + V + P) + 1] = "CR"
          /\ t[o + (N + 1 + P + V + P) + 2] = "LF"
      BY <1>11, HasCRLF
    <3>2. o + (N + 1 + P + V + P) + 1 = h - 1 /\ o + (N + 1 + P + V + P) + 2 = h
      BY <1>2, <1>3
    <3> HIDE DEF h
    <3> QED
      BY <3>1, <3>2
  <2> QED
    BY <2>1, <2>2, <2>3, <2>4, <2>5, <2>6
<1> DEFINE c == o + N + 1
           v == c + P
           w == v + V
<1>13. /\ c \in Nat /\ v \in Nat /\ w \in Nat /\ h \in Nat
       /\ v = c + P /\ w = v + V /\ h = w + P + 2 /\ c \in o + 1 .. h - 2
  BY <1>2, <1>3
<1>14. /\ \A i \in o + 1 .. c - 1 : t[i] \notin {":", "CR"}
       /\ t[o + 1] = f.name[1]
  <2>1. \A i \in o + 1 .. c - 1 : i - o \in 1 .. N /\ o + (i - o) = i
    BY <1>2, <1>3
  <2>2. 1 \in 1 .. N
    BY <1>2
  <2>3. \A i \in 1 .. N : t[o + i] = f.name[i] /\ f.name[i] \notin {":", "CR"}
    BY <1>5, <1>12
  <2> HIDE DEF c
  <2>4. \A i \in o + 1 .. c - 1 : t[i] \notin {":", "CR"}
    BY <2>1, <2>3, Zenon
  <2> QED
    BY <2>2, <2>3, <2>4
<1>15. \A i \in c + 1 .. h - 2 : i \in v + 1 .. w \/ t[i] = " "
  <2> SUFFICES ASSUME NEW i \in c + 1 .. h - 2, i \notin v + 1 .. w PROVE t[i] = " "
    OBVIOUS
  <2>1. \/ i - c \in 1 .. P /\ c + (i - c) = i
        \/ i - w \in 1 .. P /\ w + (i - w) = i
    <3> HIDE DEF c, v, w, h
    <3> QED
      BY <1>2, <1>13
  <2>2. (\A j \in 1 .. P : t[c + j] = " ") /\ \A j \in 1 .. P : t[w + j] = " "
    BY <1>12
  <2> HIDE DEF c, v, w, h
  <2> QED
    BY <2>1, <2>2
<1>16. \A i \in c .. h - 2 : t[i] # "CR"
  <2> SUFFICES ASSUME NEW i \in c .. h - 2 PROVE t[i] # "CR"
    OBVIOUS
  <2>1. CASE i \in v + 1 .. w
    <3>1. i - v \in 1 .. V /\ v + (i - v) = i
      <4> HIDE DEF c, v, w, h
      <4> QED
        BY <1>2, <1>13, <2>1
    <3>2. \A j \in 1 .. V : t[v + j] = f.value[j]
      BY <1>12
    <3> HIDE DEF v
    <3> QED
      BY <1>5, <3>1, <3>2
  <2>2. CASE i = c
    BY <1>12, <2>2
  <2>3. CASE i # c /\ i \notin v + 1 .. w
    <3>1. i \in c + 1 .. h - 2
      BY <1>13, <2>3
    <3> HIDE DEF c, v, w, h
    <3>2. t[i] = " "
      BY <1>15, <2>3, <3>1
    <3> QED
      BY <3>2
  <2> QED
    BY <2>1, <2>2, <2>3
<1>17. o + FirstLen(f) = h /\ FirstLen(f) \in Nat /\ FirstLen(f) >= 4 /\ Len(u) = FirstLen(f)
  <2>1. FirstLen(f) = N + 1 + P + V + P + 2
    BY <1>0 DEF FirstLen
  <2>2. /\ o + (N + 1 + P + V + P + 2) = h
        /\ N + 1 + P + V + P + 2 \in Nat /\ N + 1 + P + V + P + 2 >= 4
    BY <1>2, <1>3
  <2> QED
    BY <1>1, <2>1, <2>2
<1>18. Has(t, o, f.name) /\ Has(t, v, f.value)
  <2>1. o + 0 = o /\ o + (N + 1 + P) = v
    BY <1>2, <1>3
  <2> QED
    BY <1>6, <1>9, <2>1
<1>19. ColonLine(t, o + 1, c, h)
  <2>1. t[c] = ":" /\ t[h - 1] = "CR" /\ t[h] = "LF"
    BY <1>12
  <2> HIDE DEF c, h
  <2> QED
    BY <1>13, <1>14, <1>16, <2>1 DEF ColonLine
<1>20. Colon(o, f) = c
  BY <1>0 DEF Colon
<1>21. FirstAt(t, o, f)
  <2>1. t[o + 1] \notin Blank \cup {"CR"}
    BY <1>5, <1>14
  <2> HIDE DEF c, h
  <2> QED
    BY <1>15, <1>17, <1>18, <1>19, <1>20, <1>0, <2>1 DEF FirstAt, v, w
<1> QED
  BY <1>2, <1>3, <1>17, <1>21, <1>0 DEF u

\* The length of a field with its continuation line.
FieldLen(f) == FirstLen(f) + IF f.fold = <<>> THEN 0 ELSE Len(f.fold) + 3

\* The characters of the continuation line of a field f behind the first o of t.
SecondAt(t, o, f) ==
  LET h == o + FirstLen(f)
      e == o + FieldLen(f)
  IN  /\ t[h + 1] = " " /\ Has(t, h + 1, f.fold)
      /\ \A i \in h + 1 .. e - 2 : t[i] # "CR"
      /\ t[e - 1] = "CR" /\ t[e] = "LF"

\* A field with its continuation line, wherever it stands in a text.
LEMMA FieldTextAt ==
  ASSUME NEW f, FieldForm(f), NEW t, Len(t) \in Nat, NEW o, Has(t, o, FieldText(f))
  PROVE  /\ FirstLen(f) \in Nat /\ FirstLen(f) >= 4 /\ FieldLen(f) \in Nat
         /\ Len(f.fold) \in Nat /\ Len(f.name) \in Nat \ {0} /\ Len(f.value) \in Nat
         /\ FieldLen(f) = Len(FieldText(f)) /\ FieldText(f) \in Seq(Letters)
         /\ f.fold = <<>> => FieldLen(f) = FirstLen(f)
         /\ f.fold # <<>> => FieldLen(f) = FirstLen(f) + Len(f.fold) + 3 /\ Len(f.fold) > 0
         /\ FirstAt(t, o, f)
         /\ f.fold # <<>> => SecondAt(t, o, f)
<1> DEFINE a == FirstLine(f)
           b == <<" ">>
           w == f.fold
           z == CRLF
           c == b \o w
           d == c \o z
           t0 == FieldText(f)
           L == Len(a)
           W == Len(w)
           Q == Seq(Letters)
<1>1. a \in Q /\ w \in Q /\ \A i \in 1 .. W : w[i] # "CR"
  BY FirstLineHas DEF FieldForm
<1>2. b \in Q /\ Len(b) = 1 /\ b[1] = " " /\ z \in Q /\ Len(z) = 2
  BY DEF Letters, CRLF
<1>3. W \in Nat /\ L \in Nat /\ (W = 0) = (w = <<>>)
  BY <1>1, EmptySeq, LenProperties
<1>4. t0 = a \o IF w = <<>> THEN <<>> ELSE d
  BY DEF FieldText
<1>5. \A x, y \in Q : /\ x \o y \in Q /\ Len(x \o y) = Len(x) + Len(y)
                      /\ Len(x) \in Nat /\ Len(y) \in Nat
                      /\ \A i, s : Len(s) \in Nat /\ Has(x, i, s) => Has(x \o y, i, s)
                      /\ Has(x \o y, 0, x) /\ Has(x \o y, Len(x), y)
  BY HasJoin
<1>6. o \in Nat
  BY DEF Has
<1>7. c = b \o w
  OBVIOUS
<1>8. d = c \o z
  OBVIOUS
<1>9. Len(<<>>) = 0 /\ <<>> \in Q
  OBVIOUS
<1>0. W = Len(w) /\ L = Len(a) /\ w = f.fold /\ a = FirstLine(f)
  OBVIOUS
<1> HIDE DEF a, b, w, z, c, d, t0, L, W, Q
<1>10. /\ c \in Q /\ Len(c) = W + 1 /\ Has(c, 0, b) /\ Has(c, 1, w)
  <2>1. b \in Q /\ w \in Q /\ Len(b) = 1 /\ Len(w) = W
    BY <1>0, <1>1, <1>2
  <2>2. c \in Q /\ Len(c) = Len(b) + Len(w) /\ Has(c, 0, b) /\ Has(c, Len(b), w)
    BY <1>5, <1>7, <2>1
  <2> QED
    BY <1>3, <2>1, <2>2
<1>11. /\ d \in Q /\ Len(d) = W + 3 /\ Has(d, 0, b) /\ Has(d, 1, w) /\ Has(d, W + 1, z)
  <2>1. c \in Q /\ z \in Q /\ Len(c) = W + 1 /\ Len(z) = 2
    BY <1>2, <1>10
  <2>2. /\ d \in Q /\ Len(d) = Len(c) + Len(z) /\ Has(d, Len(c), z)
        /\ \A i, s : Len(s) \in Nat /\ Has(c, i, s) => Has(d, i, s)
    BY <1>5, <1>8, <2>1
  <2>3. Len(b) \in Nat /\ Len(w) \in Nat
    <3>1. Len(b) = 1 /\ 1 \in Nat
      BY <1>2
    <3> QED
      BY <1>0, <1>3, <3>1, Zenon
  <2>4. Has(d, 0, b) /\ Has(d, 1, w)
    BY <1>10, <2>2, <2>3
  <2>5. Len(d) = W + 3 /\ Has(d, W + 1, z)
    BY <1>3, <2>1, <2>2
  <2> QED
    BY <2>2, <2>4, <2>5
<1>12. t0 \in Q /\ Has(t0, 0, a) /\ Len(t0) \in Nat
       /\ Len(t0) = L + IF w = <<>> THEN 0 ELSE W + 3
  <2>1. CASE w = <<>>
    <3>1. t0 = a \o <<>>
      BY <1>4, <2>1
    <3> QED
      BY <1>0, <1>1, <1>2, <1>3, <1>5, <1>9, <2>1, <3>1
  <2>2. CASE w # <<>>
    <3>1. t0 = a \o d
      BY <1>4, <2>2
    <3> QED
      BY ZenonT(40), <1>0, <1>1, <1>3, <1>5, <1>11, <2>2, <3>1
  <2> QED
    BY <2>1, <2>2
<1>13. Has(t, o, t0)
  BY DEF t0
<1>14. Has(t, o, FirstLine(f))
  <2>1. Has(t, o + 0, a)
    BY <1>0, <1>3, <1>12, <1>13, HasIn
  <2>2. o + 0 = o
    BY <1>6
  <2> QED
    BY <1>0, <2>1, <2>2
<1>15. /\ L = FirstLen(f) /\ FirstLen(f) \in Nat /\ FirstLen(f) >= 4
       /\ Len(f.name) \in Nat \ {0} /\ Len(f.value) \in Nat /\ FirstAt(t, o, f)
  BY <1>0, <1>14, FirstLineAt
<1>16. FieldLen(f) = Len(t0)
  BY <1>0, <1>12, <1>15 DEF FieldLen
<1>17. ASSUME w # <<>> PROVE SecondAt(t, o, f) /\ W > 0
  <2> DEFINE h == o + L
             e == o + Len(t0)
  <2>1. t0 = a \o d /\ Len(t0) = L + (W + 3) /\ W > 0
    BY <1>3, <1>4, <1>12, <1>17
  <2>2. Has(t0, L, d)
    BY <1>0, <1>1, <1>5, <1>11, <2>1
  <2>0. Len(b) \in Nat /\ Len(w) \in Nat /\ Len(z) \in Nat /\ Len(d) \in Nat /\ Len(t0) \in Nat
    <3>1. Len(b) = 1 /\ Len(z) = 2
      BY <1>2
    <3>2. 1 \in Nat /\ 2 \in Nat /\ W + 3 \in Nat
      BY <1>3
    <3> QED
      BY <1>0, <1>3, <1>11, <1>12, <3>1, <3>2
  <2>3. Has(t, o + L, d)
    BY <2>0, <1>13, <2>2, HasIn
  <2>4. Has(t, o + L + 0, b)
    BY <2>0, <1>11, <2>3, HasIn
  <2>5. Has(t, o + L + 1, w)
    BY <2>0, <1>11, <2>3, HasIn
  <2>6. Has(t, o + L + (W + 1), z)
    BY <2>0, <1>11, <2>3, HasIn
  <2>7. /\ o + L + 0 = h /\ o + L + 1 = h + 1 /\ e = h + W + 3 /\ h \in Nat
        /\ o + L + (W + 1) + 1 = e - 1 /\ o + L + (W + 1) + 2 = e
    BY <1>3, <1>6, <2>1
  <2>8. Len(b) = 1 /\ b[1] = " " /\ 1 \in 1 .. 1
    <3>1. 1 \in 1 .. 1
      OBVIOUS
    <3> QED
      BY <1>2, <3>1, Zenon
  <2>9. t[h + 1] = " "
    <3>1. Has(t, h, b)
      BY <2>4, <2>7
    <3> HIDE DEF h
    <3> QED
      BY <2>8, <3>1 DEF Has
  <2>10. Has(t, h + 1, w)
    BY <2>5, <2>7
  <2>11. t[e - 1] = "CR" /\ t[e] = "LF"
    <3>1. t[o + L + (W + 1) + 1] = "CR" /\ t[o + L + (W + 1) + 2] = "LF"
      BY <2>6, HasCRLF DEF z
    <3> HIDE DEF e
    <3> QED
      BY <2>7, <3>1
  <2>12. ASSUME NEW i \in h + 1 .. e - 2 PROVE t[i] # "CR"
    <3>1. i = h + 1 \/ (i - (h + 1) \in 1 .. W /\ (h + 1) + (i - (h + 1)) = i)
      <4> HIDE DEF h, e
      <4> QED
        BY <1>3, <2>7
    <3>2. \A j \in 1 .. W : t[(h + 1) + j] = w[j]
      BY <1>0, <2>10 DEF Has
    <3> HIDE DEF h, e
    <3> QED
      BY <1>1, <2>9, <3>1, <3>2
  <2>13. o + FirstLen(f) = h /\ o + FieldLen(f) = e
    BY <1>15, <1>16
  <2> HIDE DEF h, e
  <2>14. SecondAt(t, o, f)
    BY <1>0, <2>9, <2>10, <2>11, <2>12, <2>13 DEF SecondAt
  <2> QED
    BY <2>1, <2>14
<1>18. /\ f.fold = <<>> => FieldLen(f) = FirstLen(f)
       /\ f.fold # <<>> => FieldLen(f) = FirstLen(f) + Len(f.fold) + 3
  BY <1>0, <1>3, <1>15 DEF FieldLen
<1> QED
  BY <1>0, <1>3, <1>12, <1>15, <1>16, <1>17, <1>18 DEF t0, Q

\* What the parsers need of a request line.
LineForm(l) ==
  /\ l.method \in Seq(Letters) /\ l.path \in Seq(Letters) /\ l.version \in Seq(Letters)
  /\ \A i \in 1 .. Len(l.method) : l.method[i] # " "
  /\ \A i \in 1 .. Len(l.path) : l.path[i] # " "
  /\ \A i \in 1 .. Len(l.version) : l.version[i] # "CR"

\* Every request line is of this form.
LEMMA LinesForm ==
  ASSUME NEW l \in Lines \cup {StdLine}
  PROVE  LineForm(l)
<1> DEFINE g == <<"g">>
           gg == <<"g", "g">>
           p == <<"/">>
           pp == <<"/", "?">>
           v2 == <<"H", "T", "T", "P", "/", "2", ".", "0">>
           v3 == <<"H">>
           In(s, x) == s \in Seq(Letters) /\ \A i \in 1 .. Len(s) : s[i] # x
<1>1. In(g, " ") /\ In(p, " ") /\ In(v3, "CR")
  <2>1. g \in Seq(Letters) /\ p \in Seq(Letters) /\ v3 \in Seq(Letters)
    BY DEF Letters
  <2>2. /\ Len(g) = 1 /\ g[1] = "g" /\ Len(p) = 1 /\ p[1] = "/" /\ Len(v3) = 1 /\ v3[1] = "H"
        /\ \A i \in 1 .. 1 : i = 1
    OBVIOUS
  <2> HIDE DEF g, p, v3
  <2> QED
    BY <2>1, <2>2
<1>2. In(gg, " ") /\ In(pp, " ")
  <2>1. gg \in Seq(Letters) /\ pp \in Seq(Letters)
    BY DEF Letters
  <2>2. /\ Len(gg) = 2 /\ gg[1] = "g" /\ gg[2] = "g" /\ Len(pp) = 2 /\ pp[1] = "/" /\ pp[2] = "?"
        /\ \A i \in 1 .. 2 : i = 1 \/ i = 2
    OBVIOUS
  <2> HIDE DEF gg, pp
  <2> QED
    BY <2>1, <2>2
<1>3. \A s \in {Version, v2} : /\ Len(s) = 8 /\ s[1] = "H" /\ s[2] = "T" /\ s[3] = "T" /\ s[4] = "P"
                               /\ s[5] = "/" /\ s[7] = "."
  <2>1. /\ Len(Version) = 8 /\ Version[1] = "H" /\ Version[2] = "T" /\ Version[3] = "T"
        /\ Version[4] = "P" /\ Version[5] = "/" /\ Version[7] = "."
    BY DEF Version
  <2>2. /\ Len(v2) = 8 /\ v2[1] = "H" /\ v2[2] = "T" /\ v2[3] = "T" /\ v2[4] = "P"
        /\ v2[5] = "/" /\ v2[7] = "."
    OBVIOUS
  <2> HIDE DEF v2
  <2> QED
    BY <2>1, <2>2
<1>4. Version[6] = "1" /\ Version[8] = "1" /\ v2[6] = "2" /\ v2[8] = "0"
  BY DEF Version
<1>5. Version \in Seq(Letters) /\ v2 \in Seq(Letters)
  <2>1. Version \in Seq(Letters)
    BY DEF Version, Letters
  <2>2. v2 \in Seq(Letters)
    BY DEF Letters
  <2> QED
    BY <2>1, <2>2
<1> HIDE DEF v2
<1>6. \A i \in 1 .. 8 : i \in {1, 2, 3, 4, 5, 6, 7, 8}
  OBVIOUS
<1>7. ASSUME NEW s \in {Version, v2} PROVE In(s, "CR")
  <2>1. /\ s \in Seq(Letters) /\ Len(s) = 8 /\ s[1] = "H" /\ s[2] = "T" /\ s[3] = "T" /\ s[4] = "P"
        /\ s[5] = "/" /\ s[7] = "." /\ s[6] # "CR" /\ s[8] # "CR"
    BY <1>3, <1>4, <1>5
  <2> QED
    BY <1>6, <2>1
<1> HIDE DEF g, gg, p, pp, v3, In
<1>8. /\ l.method = g \/ l.method = gg
      /\ l.path = p \/ l.path = pp
      /\ l.version = Version \/ l.version = v2 \/ l.version = v3
  <2>1. CASE l \in Lines
    BY <2>1 DEF Lines, g, gg, p, pp, v2, v3
  <2>2. CASE l = StdLine
    BY <2>2 DEF StdLine, g, p
  <2> QED
    BY <2>1, <2>2
<1>9. In(l.method, " ") /\ In(l.path, " ") /\ In(l.version, "CR")
  BY <1>1, <1>2, <1>7, <1>8
<1> QED
  BY <1>9 DEF In, LineForm

\* Where the two spaces of a request line are, and how long it is.
Space1(l) == Len(l.method) + 1
Space2(l) == Space1(l) + Len(l.path) + 1
LineLen(l) == Space2(l) + Len(l.version) + 2

\* The characters of a request line in front of the text t.
LineAt(t, l) ==
  LET s1 == Space1(l)
      s2 == Space2(l)
      R == LineLen(l)
  IN  /\ Has(t, 0, l.method) /\ Has(t, s1, l.path) /\ Has(t, s2, l.version)
      /\ t[s1] = " " /\ t[s2] = " "
      /\ \A i \in 1 .. s2 - 1 : i # s1 => t[i] # " "
      /\ \A i \in s2 .. R - 2 : t[i] # "CR"
      /\ t[R - 1] = "CR" /\ t[R] = "LF"

\* Where the parts of a request line are.
LEMMA LineTextHas ==
  ASSUME NEW l, LineForm(l)
  PROVE  LET t == LineText(l)
         IN  /\ t \in Seq(Letters) /\ Len(t) = LineLen(l)
             /\ Len(l.method) \in Nat /\ Len(l.path) \in Nat /\ Len(l.version) \in Nat
             /\ Has(t, 0, l.method) /\ Has(t, Len(l.method), <<" ">>)
             /\ Has(t, Space1(l), l.path) /\ Has(t, Space1(l) + Len(l.path), <<" ">>)
             /\ Has(t, Space2(l), l.version) /\ Has(t, Space2(l) + Len(l.version), CRLF)
<1> DEFINE n == l.method
           p == l.path
           x == l.version
           d == <<" ">>
           z == CRLF
           t1 == n \o d
           t2 == t1 \o p
           t3 == t2 \o d
           t4 == t3 \o x
           t5 == t4 \o z
           Q == Seq(Letters)
           N == Len(n)
           P == Len(p)
           X == Len(x)
<1>1. n \in Q /\ x \in Q /\ p \in Q
  BY DEF LineForm
<1>2. N \in Nat /\ P \in Nat /\ X \in Nat
  BY <1>1, LenProperties
<1>3. d \in Q /\ Len(d) = 1 /\ z \in Q /\ Len(z) = 2
  BY DEF Letters, CRLF
<1>4. LineText(l) = t5
  BY DEF LineText
<1>5. t1 = n \o d
  OBVIOUS
<1>6. t2 = t1 \o p
  OBVIOUS
<1>7. t3 = t2 \o d
  OBVIOUS
<1>8. t4 = t3 \o x
  OBVIOUS
<1>9. t5 = t4 \o z
  OBVIOUS
<1> DEFINE keeps(a, b) == \A o, s : Len(s) \in Nat /\ Has(a, o, s) => Has(b, o, s)
<1>10. \A a, b \in Q : /\ a \o b \in Q /\ Len(a \o b) = Len(a) + Len(b)
                       /\ keeps(a, a \o b)
                       /\ Has(a \o b, 0, a) /\ Has(a \o b, Len(a), b)
  BY HasJoin
<1>0. N = Len(n) /\ P = Len(p) /\ X = Len(x) /\ n = l.method /\ p = l.path /\ x = l.version
  OBVIOUS
<1> HIDE DEF n, p, x, d, z, t1, t2, t3, t4, t5, Q, keeps, N, P, X
<1>11. t1 \in Q /\ Len(t1) = N + 1 /\ Has(t1, 0, n) /\ Has(t1, N, d)
  <2>1. n \in Q /\ d \in Q /\ Len(n) = N /\ Len(d) = 1
    BY <1>0, <1>1, <1>3
  <2>2. t1 \in Q /\ Len(t1) = Len(n) + Len(d) /\ Has(t1, 0, n) /\ Has(t1, Len(n), d)
    BY <1>5, <1>10, <2>1
  <2> QED
    BY <2>1, <2>2
<1>12. t2 \in Q /\ Len(t2) = N + 1 + P /\ Has(t2, N + 1, p) /\ keeps(t1, t2)
  <2>1. t1 \in Q /\ p \in Q /\ Len(t1) = N + 1 /\ Len(p) = P
    BY <1>0, <1>1, <1>11
  <2>2. t2 \in Q /\ Len(t2) = Len(t1) + Len(p) /\ keeps(t1, t2) /\ Has(t2, Len(t1), p)
    BY <1>6, <1>10, <2>1
  <2> QED
    BY <2>1, <2>2
<1>13. t3 \in Q /\ Len(t3) = N + 1 + P + 1 /\ Has(t3, N + 1 + P, d) /\ keeps(t2, t3)
  <2>1. t2 \in Q /\ d \in Q /\ Len(t2) = N + 1 + P /\ Len(d) = 1
    BY <1>3, <1>12
  <2>2. t3 \in Q /\ Len(t3) = Len(t2) + Len(d) /\ keeps(t2, t3) /\ Has(t3, Len(t2), d)
    BY <1>7, <1>10, <2>1
  <2> QED
    BY <2>1, <2>2
<1>14. t4 \in Q /\ Len(t4) = N + 1 + P + 1 + X /\ Has(t4, N + 1 + P + 1, x) /\ keeps(t3, t4)
  <2>1. t3 \in Q /\ x \in Q /\ Len(t3) = N + 1 + P + 1 /\ Len(x) = X
    BY <1>0, <1>1, <1>13
  <2>2. t4 \in Q /\ Len(t4) = Len(t3) + Len(x) /\ keeps(t3, t4) /\ Has(t4, Len(t3), x)
    BY <1>8, <1>10, <2>1
  <2> QED
    BY <2>1, <2>2
<1>15. t5 \in Q /\ Len(t5) = N + 1 + P + 1 + X + 2 /\ Has(t5, N + 1 + P + 1 + X, z) /\ keeps(t4, t5)
  <2>1. t4 \in Q /\ z \in Q /\ Len(z) = 2
    BY <1>3, <1>14
  <2>2. t5 \in Q /\ Len(t5) = Len(t4) + Len(z) /\ keeps(t4, t5) /\ Has(t5, Len(t4), z)
    BY <1>9, <1>10, <2>1
  <2> QED
    BY <1>14, <2>1, <2>2
<1>16. /\ Has(t5, 0, n) /\ Has(t5, N, d) /\ Has(t5, N + 1, p)
       /\ Has(t5, N + 1 + P, d) /\ Has(t5, N + 1 + P + 1, x)
  <2>1. Len(n) \in Nat /\ Len(d) \in Nat /\ Len(p) \in Nat /\ Len(x) \in Nat
    BY <1>0, <1>2, <1>3
  <2> QED
    BY <1>11, <1>12, <1>13, <1>14, <1>15, <2>1, Zenon DEF keeps
<1>17. /\ Space1(l) = N + 1 /\ Space2(l) = N + 1 + P + 1 /\ LineLen(l) = N + 1 + P + 1 + X + 2
  BY <1>0 DEF Space1, Space2, LineLen
<1> QED
  BY <1>0, <1>2, <1>4, <1>15, <1>16, <1>17 DEF d, z, Q

\* The request line in front of a text is read like this.
LEMMA LineTextAt ==
  ASSUME NEW l, LineForm(l), NEW t, Len(t) \in Nat, Has(t, 0, LineText(l))
  PROVE  /\ LineText(l) \in Seq(Letters) /\ Len(LineText(l)) = LineLen(l)
         /\ Space1(l) \in Nat \ {0} /\ Space2(l) \in Space1(l) + 1 .. LineLen(l) - 2
         /\ LineLen(l) \in Nat
         /\ LineAt(t, l)
<1> DEFINE u == LineText(l)
           N == Len(l.method)
           P == Len(l.path)
           X == Len(l.version)
           s1 == N + 1
           s2 == N + 1 + P + 1
           R == N + 1 + P + 1 + X + 2
<1>1. /\ u \in Seq(Letters) /\ Len(u) = LineLen(l) /\ N \in Nat /\ P \in Nat /\ X \in Nat
      /\ Has(u, 0, l.method) /\ Has(u, N, <<" ">>)
      /\ Has(u, Space1(l), l.path) /\ Has(u, Space1(l) + P, <<" ">>)
      /\ Has(u, Space2(l), l.version) /\ Has(u, Space2(l) + X, CRLF)
  BY LineTextHas
<1>2. Space1(l) = s1 /\ Space2(l) = s2 /\ LineLen(l) = R
  BY DEF Space1, Space2, LineLen
<1>0. N = Len(l.method) /\ P = Len(l.path) /\ X = Len(l.version)
  OBVIOUS
<1>3. /\ \A i \in 1 .. N : l.method[i] # " "
      /\ \A i \in 1 .. P : l.path[i] # " "
      /\ \A i \in 1 .. X : l.version[i] # "CR"
  BY DEF LineForm
<1>4. Len(<<" ">>) \in Nat /\ Len(CRLF) \in Nat /\ Len(u) \in Nat
  <2>1. Len(<<" ">>) \in Nat /\ Len(CRLF) \in Nat
    BY DEF CRLF
  <2> QED
    BY <1>1, <2>1, LenProperties
<1> HIDE DEF u, N, P, X
<1>14. N \in Nat /\ P \in Nat /\ X \in Nat
  BY <1>1
<1>5. /\ s1 \in Nat \ {0} /\ s2 \in s1 + 1 .. R - 2 /\ R \in Nat /\ s2 \in Nat
      /\ s2 = s1 + P + 1 /\ R = s2 + X + 2 /\ s1 = N + 1 /\ s1 + P = s2 - 1
  BY <1>14
<1> HIDE DEF s1, s2, R
<1>6. /\ Has(t, 0 + 0, l.method) /\ Has(t, 0 + N, <<" ">>)
      /\ Has(t, 0 + s1, l.path) /\ Has(t, 0 + (s1 + P), <<" ">>)
      /\ Has(t, 0 + s2, l.version) /\ Has(t, 0 + (s2 + X), CRLF)
  <2>1. Has(t, 0, u) /\ Len(l.method) \in Nat /\ Len(l.path) \in Nat /\ Len(l.version) \in Nat
    BY <1>0, <1>1 DEF u
  <2>2. /\ Has(u, 0, l.method) /\ Has(u, N, <<" ">>)
        /\ Has(u, s1, l.path) /\ Has(u, s1 + P, <<" ">>)
        /\ Has(u, s2, l.version) /\ Has(u, s2 + X, CRLF)
    BY <1>1, <1>2
  <2>3. \A o, s : Len(s) \in Nat /\ Has(u, o, s) => Has(t, 0 + o, s)
    BY <1>4, <2>1, HasIn
  <2> QED
    BY <1>4, <2>1, <2>2, <2>3, Zenon
<1>7. /\ 0 + 0 = 0 /\ 0 + N = N /\ 0 + s1 = s1 /\ 0 + (s1 + P) = s2 - 1 /\ 0 + s2 = s2
      /\ 0 + (s2 + X) = R - 2 /\ (s2 - 1) + 1 = s2 /\ N + 1 = s1
      /\ (R - 2) + 1 = R - 1 /\ (R - 2) + 2 = R
  BY <1>5, <1>14
<1>8. Has(t, 0, l.method) /\ Has(t, s1, l.path) /\ Has(t, s2, l.version)
  BY <1>6, <1>7
<1>9. t[s1] = " " /\ t[s2] = " "
  <2>1. Has(t, N, <<" ">>) /\ Has(t, s2 - 1, <<" ">>)
    BY <1>6, <1>7
  <2>2. t[N + 1] = " " /\ t[(s2 - 1) + 1] = " "
    BY <2>1, HasOne
  <2> QED
    BY <1>7, <2>2
<1>10. t[R - 1] = "CR" /\ t[R] = "LF"
  <2>1. Has(t, R - 2, CRLF)
    BY <1>6, <1>7
  <2>2. t[(R - 2) + 1] = "CR" /\ t[(R - 2) + 2] = "LF"
    BY <2>1, HasCRLF
  <2> QED
    BY <1>7, <2>2
<1>11. ASSUME NEW i \in 1 .. s2 - 1, i # s1 PROVE t[i] # " "
  <2>1. i \in 1 .. N \/ (i - s1 \in 1 .. P /\ s1 + (i - s1) = i)
    BY <1>5, <1>11, <1>14
  <2>2. \A j \in 1 .. N : t[j] = l.method[j]
    <3>1. \A j \in 1 .. N : t[0 + j] = l.method[j]
      BY <1>0, <1>8 DEF Has
    <3>2. \A j \in 1 .. N : 0 + j = j
      BY <1>14
    <3> QED
      BY <3>1, <3>2
  <2>3. \A j \in 1 .. P : t[s1 + j] = l.path[j]
    BY <1>0, <1>8 DEF Has
  <2> QED
    BY <1>3, <2>1, <2>2, <2>3
<1>12. ASSUME NEW i \in s2 .. R - 2 PROVE t[i] # "CR"
  <2>1. i = s2 \/ (i - s2 \in 1 .. X /\ s2 + (i - s2) = i)
    BY <1>5, <1>14
  <2>2. \A j \in 1 .. X : t[s2 + j] = l.version[j]
    BY <1>0, <1>8 DEF Has
  <2> QED
    BY <1>3, <1>9, <2>1, <2>2
<1>13. LineAt(t, l)
  BY <1>2, <1>8, <1>9, <1>10, <1>11, <1>12 DEF LineAt
<1> QED
  BY <1>1, <1>2, <1>5, <1>13 DEF u

\* The texts of the fields of a request, where the k-th of them ends, and where its first
\* line does.
FieldTexts(m) == [k \in DOMAIN m.fields |-> FieldText(m.fields[k])]
End(m, k) == Len(LineText(m.line)) + EndOf(FieldTexts(m), k)
Half(m, k) == End(m, k - 1) + FirstLen(m.fields[k])

\* What the text of a request looks like, for the first field and the last, and in between.
LaidField(m, k) ==
  LET f == m.fields[k]
      o == End(m, k - 1)
  IN  /\ f \in Fields /\ FieldForm(f)
      /\ FirstLen(f) \in Nat /\ FirstLen(f) >= 4 /\ Len(f.fold) \in Nat
      /\ Len(f.name) \in Nat \ {0} /\ Len(f.value) \in Nat
      /\ End(m, k) = o + FieldLen(f)
      /\ f.fold = <<>> => FieldLen(f) = FirstLen(f)
      /\ f.fold # <<>> => FieldLen(f) = FirstLen(f) + Len(f.fold) + 3 /\ Len(f.fold) > 0
      /\ FirstAt(m.text, o, f)
      /\ f.fold # <<>> => SecondAt(m.text, o, f)

Laid(m) ==
  LET D == Len(m.fields)
      t == m.text
  IN  /\ D \in Nat /\ DOMAIN m.fields = 1 .. D
      /\ t \in Seq(Letters) /\ Len(t) = End(m, D) + 2
      /\ t[End(m, D) + 1] = "CR" /\ t[End(m, D) + 2] = "LF"
      /\ LineForm(m.line) /\ LineAt(t, m.line) /\ End(m, 0) = LineLen(m.line)
      /\ Space1(m.line) \in Nat \ {0}
      /\ Space2(m.line) \in Space1(m.line) + 1 .. LineLen(m.line) - 2
      /\ \A k \in 0 .. D : End(m, k) \in Nat
      /\ \A j, k \in 0 .. D : j <= k => End(m, j) <= End(m, k)
      /\ \A k \in 1 .. D : LaidField(m, k)

\* Every request looks like this.
LEMMA RequestLaid ==
  ASSUME NEW m \in Requests
  PROVE  Laid(m)
<1> DEFINE l == m.line
           fs == m.fields
           t == m.text
           U == FieldTexts(m)
           a == LineText(l)
           b == Concat(U)
           z == CRLF
           c == b \o z
           Q == Seq(Letters)
           R == Len(a)
<1>1. /\ l \in Lines \cup {StdLine} /\ t = a \o BlockText(fs)
      /\ \E D \in Nat : fs \in [1 .. D -> Fields]
  BY RequestForm
<1>2. PICK D \in Nat : fs \in [1 .. D -> Fields]
  BY <1>1
<1>3. DOMAIN fs = 1 .. D /\ Len(fs) = D
  BY <1>2
<1>4. \A k \in 1 .. D : fs[k] \in Fields /\ FieldForm(fs[k])
  BY <1>2, FieldsForm
<1>5. U \in [1 .. D -> Seq(Letters)] /\ \A k \in 1 .. D : U[k] = FieldText(fs[k])
  <2>1. \A k \in 1 .. D : FieldText(fs[k]) \in Seq(Letters)
    BY <1>4, FieldTextIn
  <2> QED
    BY <1>3, <2>1 DEF FieldTexts
<1>6. U \in Seq(Seq(Letters)) /\ Len(U) = D
  <2>1. U \in [1 .. D -> Q]
    BY <1>5
  <2> HIDE DEF Q, U
  <2>2. U \in Seq(Q) /\ Len(U) = D
    BY <2>1, <1>2
  <2> QED
    BY <2>2 DEF Q
<1>7. BlockText(fs) = c
  BY DEF BlockText, FieldTexts
<1>8. a \in Q /\ LineForm(l)
  BY <1>1, LineTextIn, LinesForm
<1>9. b \in Q /\ z \in Q /\ Len(z) = 2
  <2>1. b \in Q
    BY <1>2, <1>5, ConcatIn
  <2>2. z \in Q /\ Len(z) = 2
    BY DEF CRLF, Letters
  <2> QED
    BY <2>1, <2>2
<1> HIDE DEF a, b, z, c, Q, U, fs, l, t
<1>10. \A x, y \in Q : /\ x \o y \in Q /\ Len(x \o y) = Len(x) + Len(y)
                       /\ Len(x) \in Nat /\ Len(y) \in Nat
                       /\ \A i, s : Len(s) \in Nat /\ Has(x, i, s) => Has(x \o y, i, s)
                       /\ Has(x \o y, 0, x) /\ Has(x \o y, Len(x), y)
  BY HasJoin DEF Q
<1>11. c \in Q /\ Len(c) = Len(b) + 2 /\ Has(c, 0, b) /\ Has(c, Len(b), z)
  BY <1>9, <1>10 DEF c
<1>12. t \in Q /\ Len(t) = R + Len(c) /\ Has(t, 0, a) /\ Has(t, R, c)
  BY <1>1, <1>7, <1>8, <1>10, <1>11
<1>13. Len(a) \in Nat /\ Len(b) \in Nat /\ Len(c) \in Nat /\ Len(t) \in Nat /\ Len(z) \in Nat
  <2>1. \A x \in Q : Len(x) \in Nat
    BY <1>10
  <2> QED
    BY <1>8, <1>9, <1>11, <1>12, <2>1
<1>14. Has(t, R + 0, b) /\ Has(t, R + Len(b), z)
  BY <1>11, <1>12, <1>13, HasIn
<1>15. /\ EndOf(U, 0) = 0 /\ \A k \in 0 .. D : EndOf(U, k) \in Nat
       /\ \A k \in 1 .. D : /\ U[k] \in Seq(Letters) /\ Len(U[k]) \in Nat
                            /\ EndOf(U, k) = EndOf(U, k - 1) + Len(U[k])
       /\ EndOf(U, D) = Len(b)
  <2>1. EndOf(U, D) = Len(b)
    BY <1>6 DEF EndOf, b, Concat
  <2> QED
    BY <1>6, <2>1, EndOfLemma
<1>16. \A k \in 0 .. D : End(m, k) = R + EndOf(U, k)
  BY DEF End, R, U, a, l
<1>17. /\ End(m, 0) = R /\ \A k \in 0 .. D : End(m, k) \in Nat
       /\ \A j, k \in 0 .. D : j <= k => End(m, j) <= End(m, k)
  <2>1. \A j, k \in 0 .. D : j <= k => EndOf(U, j) <= EndOf(U, k)
    BY <1>6, EndsGrow
  <2>2. 0 \in 0 .. D
    BY <1>2
  <2>3. R \in Nat
    BY <1>13
  <2> HIDE DEF R
  <2>4. \A x, y \in Nat : R + x \in Nat /\ (x <= y => R + x <= R + y) /\ R + 0 = R
    BY <2>3
  <2> QED
    BY <1>15, <1>16, <2>1, <2>2, <2>4
<1>18. ASSUME NEW k \in 1 .. D PROVE LaidField(m, k)
  <2> DEFINE f == fs[k]
             u == U[k]
             o == End(m, k - 1)
  <2>1. k \in 0 .. D /\ k - 1 \in 0 .. D
    BY <1>2
  <2>2. FieldForm(f) /\ u = FieldText(f) /\ u \in Q /\ Len(u) \in Nat /\ f \in Fields
    BY <1>4, <1>5, <1>15 DEF Q
  <2>3. Has(b, EndOf(U, k - 1), u)
    <3>1. EndOf(U, k) <= Len(b) /\ EndOf(U, k - 1) \in Nat
          /\ EndOf(U, k - 1) + Len(u) = EndOf(U, k)
      <4>1. k <= D /\ D \in 0 .. D
        BY <1>2
      <4>2. EndOf(U, k) <= EndOf(U, D)
        BY <1>6, <2>1, <4>1, EndsGrow
      <4> QED
        BY <1>15, <2>1, <4>2
    <3>2. ASSUME NEW i \in 1 .. Len(u) PROVE b[EndOf(U, k - 1) + i] = u[i]
      <4>1. D \in k .. D /\ k \in 1 .. Len(U) /\ D \in k .. Len(U)
        BY <1>2, <1>6
      <4>2. Concats(U)[D][EndOf(U, k - 1) + i] = u[i]
        BY <1>6, <4>1, ConcatsAt
      <4> QED
        BY <1>6, <4>2 DEF b, Concat
    <3> QED
      BY <3>1, <3>2 DEF Has
  <2> HIDE DEF f, u
  <2>4. Has(t, R + 0 + EndOf(U, k - 1), u)
    BY <1>13, <1>14, <2>2, <2>3, HasIn
  <2>5. R + 0 + EndOf(U, k - 1) = o
    <3>1. R \in Nat /\ EndOf(U, k - 1) \in Nat
      BY <1>13, <1>15, <2>1
    <3>2. R + 0 + EndOf(U, k - 1) = R + EndOf(U, k - 1)
      BY <3>1
    <3> QED
      BY <1>16, <2>1, <3>2
  <2>6. Has(t, o, FieldText(f))
    BY <2>2, <2>4, <2>5
  <2>7. /\ FirstLen(f) \in Nat /\ FirstLen(f) >= 4 /\ Len(f.fold) \in Nat
        /\ Len(f.name) \in Nat \ {0} /\ Len(f.value) \in Nat
        /\ FieldLen(f) = Len(FieldText(f))
        /\ f.fold = <<>> => FieldLen(f) = FirstLen(f)
        /\ f.fold # <<>> => FieldLen(f) = FirstLen(f) + Len(f.fold) + 3 /\ Len(f.fold) > 0
        /\ FirstAt(t, o, f)
        /\ f.fold # <<>> => SecondAt(t, o, f)
    BY <1>13, <2>2, <2>6, FieldTextAt
  <2>8. End(m, k) = o + FieldLen(f)
    <3>1. EndOf(U, k) = EndOf(U, k - 1) + Len(u) /\ Len(u) = FieldLen(f)
      BY <1>15, <2>2, <2>7 DEF u
    <3>2. R \in Nat /\ EndOf(U, k - 1) \in Nat /\ Len(u) \in Nat
      BY <1>13, <1>15, <2>1, <2>2
    <3>3. End(m, k) = R + EndOf(U, k) /\ o = R + EndOf(U, k - 1)
      BY <1>16, <2>1
    <3> HIDE DEF R, o
    <3>4. R + (EndOf(U, k - 1) + Len(u)) = (R + EndOf(U, k - 1)) + Len(u)
      BY <3>2
    <3> QED
      BY <3>1, <3>3, <3>4
  <2> QED
    BY <2>2, <2>7, <2>8 DEF LaidField, f, fs, t
<1>19. /\ Len(t) = End(m, D) + 2 /\ t[End(m, D) + 1] = "CR" /\ t[End(m, D) + 2] = "LF"
  <2>1. D \in 0 .. D
    BY <1>2
  <2>2. End(m, D) = R + Len(b)
    BY <1>15, <1>16, <2>1
  <2>3. Len(t) = End(m, D) + 2
    <3>1. R \in Nat /\ Len(b) \in Nat
      BY <1>13
    <3> HIDE DEF R
    <3>2. R + (Len(b) + 2) = R + Len(b) + 2
      BY <3>1
    <3> QED
      BY <1>11, <1>12, <2>2, <3>2
  <2>4. Has(t, End(m, D), CRLF)
    BY <1>14, <2>2 DEF z
  <2> QED
    BY <2>3, <2>4, HasCRLF
<1>20. /\ End(m, 0) = LineLen(l) /\ Space1(l) \in Nat \ {0} /\ LineAt(t, l)
       /\ Space2(l) \in Space1(l) + 1 .. LineLen(l) - 2
  BY <1>8, <1>12, <1>13, <1>17, LineTextAt DEF a
<1> QED
  BY <1>2, <1>3, <1>8, <1>12, <1>17, <1>18, <1>19, <1>20 DEF Laid, l, fs, t, Q

-----------------------------------------------------------------------------
(* Reading the lines of a request. *)

\* The scan for the line feed ends at the first carriage return, if a line feed is
\* behind it.
LEMMA LineFeedIs ==
  ASSUME IsSeq(data), NEW from \in 1 .. Len(data), NEW q \in Nat, from <= q,
         \A i \in from .. q - 1 : i <= Len(data) => data[i] # "CR",
         q <= Len(data) => data[q] = "CR",
         q + 1 <= Len(data) => data[q + 1] = "LF"
  PROVE  LineFeed(from) = IF q < Len(data) THEN q + 1 ELSE IF q = Len(data) THEN -1 ELSE 0
<1> DEFINE D == Len(data)
           x == IF q < D THEN q + 1 ELSE IF q = D THEN -1 ELSE 0
           top == IF q <= D THEN q ELSE D + 1
           K == top - from
<1>1. D \in Nat /\ from \in Nat /\ from >= 1 /\ from <= D /\ q \in Nat
  BY DEF IsSeq
<1>2. PICK w : /\ LineFeed(from) = w[from]
               /\ \A k \in from .. D + 2 : w[k] = LineStep(k, w[k + 1], w[k + 2])
  BY LineFeedSteps
<1> HIDE DEF D
<1>3. top \in from .. D + 1 /\ K \in Nat /\ top \in Int
  BY <1>1
<1>4. w[top] = x
  <2>1. w[top] = LineStep(top, w[top + 1], w[top + 2])
    <3>1. top \in from .. D + 2
      BY <1>1, <1>3
    <3> HIDE DEF top
    <3> QED
      BY <1>2, <3>1
  <2>2. CASE q < D
    <3>1. top = q /\ x = q + 1 /\ q <= D /\ q + 1 <= D /\ ~(q > D) /\ q # D
      BY <1>1, <2>2
    <3>2. data[q] = "CR" /\ data[q + 1] = "LF"
      BY <3>1 DEF D
    <3> HIDE DEF top, x
    <3> QED
      BY <2>1, <3>1, <3>2 DEF LineStep, D
  <2>3. CASE q = D
    <3>1. top = q /\ x = -1 /\ q <= D /\ ~(q > D)
      BY <1>1, <2>3
    <3>2. data[q] = "CR"
      BY <3>1 DEF D
    <3> HIDE DEF top, x
    <3> QED
      BY <2>1, <2>3, <3>1, <3>2 DEF LineStep, D
  <2>4. CASE q > D
    <3>1. top = D + 1 /\ x = 0 /\ D + 1 > D
      BY <1>1, <2>4
    <3> HIDE DEF top, x
    <3> QED
      BY <2>1, <3>1 DEF LineStep, D
  <2> QED
    BY <1>1, <2>2, <2>3, <2>4
<1>5. ASSUME NEW k \in from .. top - 1 PROVE w[k] = w[k + 1]
  <2>1. k \in from .. D + 2 /\ k <= D /\ ~(k > D) /\ k \in from .. q - 1
    BY <1>1, <1>3
  <2>2. data[k] # "CR"
    BY <2>1 DEF D
  <2>3. w[k] = LineStep(k, w[k + 1], w[k + 2])
    BY <1>2, <2>1
  <2> QED
    BY <2>1, <2>2, <2>3 DEF LineStep, D
<1> HIDE DEF top, x
<1> DEFINE T == {j \in 0 .. K : w[top - j] = x}
<1>6. 0 \in T
  BY <1>3, <1>4
<1>7. ASSUME NEW j \in 1 .. K, j - 1 \in T PROVE j \in T
  <2>1. /\ top - j \in from .. top - 1 /\ j \in 0 .. K
        /\ (top - j) + 1 = top - (j - 1)
    BY <1>1, <1>3
  <2> QED
    BY <1>5, <1>7, <2>1
<1>8. 0 .. K \subseteq T
  <2> HIDE DEF T, K
  <2> QED
    BY <1>3, <1>6, <1>7, UpTo
<1>9. w[top - K] = x
  <2>1. K \in 0 .. K
    BY <1>3
  <2> HIDE DEF K
  <2> QED
    BY <1>8, <2>1
<1>10. top - K = from
  BY <1>1, <1>3
<1> QED
  BY <1>2, <1>9, <1>10 DEF x, D

\* Where a field is, and its first line.
LEMMA FieldPlaces ==
  ASSUME NEW m, Laid(m), NEW k \in 1 .. Len(m.fields)
  PROVE  LET f == m.fields[k]
             o == End(m, k - 1)
         IN  /\ f \in Fields /\ FieldForm(f)
             /\ Len(f.name) \in Nat \ {0} /\ Len(f.value) \in Nat /\ Len(f.fold) \in Nat
             /\ k \in 0 .. Len(m.fields) /\ k - 1 \in 0 .. Len(m.fields)
             /\ o \in Nat /\ Half(m, k) \in Nat /\ End(m, k) \in Nat
             /\ Half(m, k) = o + FirstLen(f) /\ o + 4 <= Half(m, k) /\ Half(m, k) <= End(m, k)
             /\ f.fold = <<>> => End(m, k) = Half(m, k)
             /\ f.fold # <<>> => End(m, k) = Half(m, k) + Len(f.fold) + 3 /\ Len(f.fold) > 0
             /\ End(m, k) <= End(m, Len(m.fields))
             /\ FirstAt(m.text, o, f) /\ (f.fold # <<>> => SecondAt(m.text, o, f))
             /\ ColonLine(m.text, o + 1, Colon(o, f), Half(m, k))
             /\ m.text[o + 1] \notin Blank \cup {"CR"}
<1> DEFINE D == Len(m.fields)
           f == m.fields[k]
           o == End(m, k - 1)
           L == FirstLen(f)
           W == Len(f.fold)
<1>1. /\ D \in Nat /\ LaidField(m, k) /\ \A j \in 0 .. D : End(m, j) \in Nat
      /\ \A i, j \in 0 .. D : i <= j => End(m, i) <= End(m, j)
  BY DEF Laid
<1>2. k \in 0 .. D /\ k - 1 \in 0 .. D /\ k <= D /\ D \in 0 .. D
  BY <1>1
<1>3. o \in Nat /\ End(m, k) \in Nat /\ End(m, k) <= End(m, D)
  BY <1>1, <1>2
<1>4. /\ f \in Fields /\ FieldForm(f) /\ L \in Nat /\ L >= 4 /\ W \in Nat
      /\ Len(f.name) \in Nat \ {0} /\ Len(f.value) \in Nat
      /\ End(m, k) = o + FieldLen(f)
      /\ f.fold = <<>> => FieldLen(f) = L
      /\ f.fold # <<>> => FieldLen(f) = L + W + 3 /\ W > 0
      /\ FirstAt(m.text, o, f) /\ (f.fold # <<>> => SecondAt(m.text, o, f))
  BY <1>1 DEF LaidField
<1>5. Half(m, k) = o + L
  BY DEF Half
<1>6. /\ ColonLine(m.text, o + 1, Colon(o, f), Half(m, k))
      /\ m.text[o + 1] \notin Blank \cup {"CR"}
  BY <1>4, <1>5 DEF FirstAt
<1> HIDE DEF o, L, W, f
<1>7. Half(m, k) \in Nat /\ o + 4 <= Half(m, k)
  BY <1>3, <1>4, <1>5
<1>8. f.fold = <<>> => End(m, k) = Half(m, k)
  BY <1>4, <1>5
<1>9. f.fold # <<>> => End(m, k) = Half(m, k) + W + 3 /\ W > 0
  <2>1. o + (L + W + 3) = o + L + W + 3
    BY <1>3, <1>4
  <2> QED
    BY <1>4, <1>5, <2>1
<1>10. Half(m, k) <= End(m, k)
  BY <1>4, <1>7, <1>8, <1>9
<1> QED
  BY <1>2, <1>3, <1>4, <1>5, <1>6, <1>7, <1>8, <1>9, <1>10 DEF o, L, W, f

\* Where the request line and the lines of the fields end.
Stops(m) ==
  {End(m, k) : k \in 0 .. Len(m.fields)} \cup {Half(m, k) : k \in 1 .. Len(m.fields)}

\* No line ends within another.
LEMMA NoStop ==
  ASSUME NEW m, Laid(m), NEW x \in Stops(m)
  PROVE  /\ x \in Nat /\ End(m, 0) <= x /\ x <= End(m, Len(m.fields))
         /\ \A k \in 1 .. Len(m.fields) : x <= End(m, k - 1) \/ x = Half(m, k) \/ x >= End(m, k)
<1> DEFINE D == Len(m.fields)
<1>1. /\ D \in Nat /\ \A j \in 0 .. D : End(m, j) \in Nat
      /\ \A i, j \in 0 .. D : i <= j => End(m, i) <= End(m, j)
  BY DEF Laid
<1>2. \A k \in 1 .. D : /\ k \in 0 .. D /\ k - 1 \in 0 .. D /\ Half(m, k) \in Nat
                        /\ End(m, k - 1) + 4 <= Half(m, k) /\ Half(m, k) <= End(m, k)
  BY FieldPlaces
<1>3. (\E j \in 0 .. D : x = End(m, j)) \/ \E j \in 1 .. D : x = Half(m, j)
  BY DEF Stops
<1> HIDE DEF D
<1>4. 0 \in 0 .. D /\ D \in 0 .. D
  BY <1>1
<1>5. CASE \E j \in 0 .. D : x = End(m, j)
  <2>1. PICK j \in 0 .. D : x = End(m, j)
    BY <1>5
  <2>2. 0 <= j /\ j <= D /\ j \in Nat
    BY <1>1
  <2>3. x \in Nat /\ End(m, 0) <= x /\ x <= End(m, D)
    BY <1>1, <1>4, <2>1, <2>2
  <2>4. ASSUME NEW k \in 1 .. D PROVE x <= End(m, k - 1) \/ x >= End(m, k)
    <3>1. k \in 0 .. D /\ k - 1 \in 0 .. D
      BY <1>2
    <3>2. j <= k - 1 \/ k <= j
      BY <1>1, <2>2
    <3>3. End(m, j) \in Nat /\ End(m, k) \in Nat /\ End(m, k - 1) \in Nat
      BY <1>1, <3>1
    <3>4. End(m, j) <= End(m, k - 1) \/ End(m, k) <= End(m, j)
      BY <1>1, <3>1, <3>2
    <3> QED
      BY <2>1, <3>3, <3>4
  <2> QED
    BY <2>3, <2>4 DEF D
<1>6. CASE \E j \in 1 .. D : x = Half(m, j)
  <2>1. PICK j \in 1 .. D : x = Half(m, j)
    BY <1>6
  <2>2. /\ j \in 0 .. D /\ j - 1 \in 0 .. D /\ x \in Nat
        /\ End(m, j - 1) + 4 <= x /\ x <= End(m, j)
    BY <1>2, <2>1
  <2>3. /\ End(m, j - 1) \in Nat /\ End(m, j) \in Nat /\ End(m, 0) \in Nat /\ End(m, D) \in Nat
        /\ End(m, 0) <= End(m, j - 1) /\ End(m, j) <= End(m, D)
    <3>1. 0 <= j - 1 /\ j <= D
      BY <1>1
    <3> QED
      BY <1>1, <1>4, <2>2, <3>1
  <2>4. End(m, 0) <= x /\ x <= End(m, D)
    BY <2>2, <2>3
  <2>5. ASSUME NEW k \in 1 .. D
        PROVE  x <= End(m, k - 1) \/ x = Half(m, k) \/ x >= End(m, k)
    <3>1. k \in 0 .. D /\ k - 1 \in 0 .. D
      BY <1>2
    <3>2. j <= k - 1 \/ j = k \/ k <= j - 1
      BY <1>1
    <3>3. End(m, k) \in Nat /\ End(m, k - 1) \in Nat
      BY <1>1, <3>1
    <3>4. End(m, j) <= End(m, k - 1) \/ j = k \/ End(m, k) <= End(m, j - 1)
      BY <1>1, <2>2, <3>1, <3>2
    <3> QED
      BY <2>1, <2>2, <2>3, <3>3, <3>4
  <2> QED
    BY <2>2, <2>4, <2>5 DEF D
<1> QED
  BY <1>3, <1>5, <1>6

\* A line of the request begins at q, and k fields have begun in front of it: the first
\* line of the next field, or the continuation line of the last of the k.
At(m, q, k) ==
  /\ k \in 0 .. Len(m.fields)
  /\ \/ q = End(m, k) + 1
     \/ k > 0 /\ Half(m, k) < End(m, k) /\ q = Half(m, k) + 1

\* Every continuation line has a colon.
Colons(m) ==
  \A k \in 1 .. Len(m.fields) :
    m.fields[k].fold # <<>> => \E i \in 1 .. Len(m.fields[k].fold) : m.fields[k].fold[i] = ":"

\* What http_parse_header takes for the line at q: it ends at e, and its colon is at c.
\* A continuation line without a colon takes the next line with it.
Line(m, q, k, c, e, j) ==
  /\ ColonLine(m.text, q, c, e) /\ c \in Nat /\ e \in Nat /\ q < e /\ e <= End(m, Len(m.fields))
  /\ At(m, e + 1, j) /\ k <= j
  /\ \/ /\ m.text[q] \notin Blank
        /\ j = k + 1 /\ q = End(m, k) + 1 /\ c = Colon(End(m, k), m.fields[j]) /\ e = Half(m, j)
     \/ /\ m.text[q] \in Blank
        /\ k > 0 /\ Half(m, k) < End(m, k) /\ q = Half(m, k) + 1
        /\ Colons(m) => j = k /\ e = End(m, k)
  /\ Colons(m) => \A x \in Stops(m) : q <= x => e <= x

\* No line with a colon is there any more.
Over(m, q) ==
  /\ \A i \in q .. Len(m.text) : m.text[i] # ":"
  /\ Colons(m) => q = End(m, Len(m.fields)) + 1

\* The first line of a field.
LEMMA FreshLine ==
  ASSUME NEW m, Laid(m), NEW k \in 1 .. Len(m.fields)
  PROVE  Line(m, End(m, k - 1) + 1, k - 1, Colon(End(m, k - 1), m.fields[k]), Half(m, k), k)
<1> DEFINE D == Len(m.fields)
           o == End(m, k - 1)
           f == m.fields[k]
           h == Half(m, k)
           c == Colon(o, f)
<1>1. /\ k \in 0 .. D /\ k - 1 \in 0 .. D /\ o \in Nat /\ h \in Nat /\ End(m, k) \in Nat
      /\ o + 4 <= h /\ h <= End(m, k) /\ End(m, k) <= End(m, D)
      /\ f.fold = <<>> => End(m, k) = h
      /\ f.fold # <<>> => End(m, k) = h + Len(f.fold) + 3 /\ Len(f.fold) > 0
      /\ Len(f.fold) \in Nat /\ Len(f.name) \in Nat
      /\ ColonLine(m.text, o + 1, c, h)
      /\ m.text[o + 1] \notin Blank \cup {"CR"}
  BY FieldPlaces
<1>2. D \in Nat /\ End(m, D) \in Nat
  <2>1. D \in Nat /\ \A j \in 0 .. D : End(m, j) \in Nat
    BY DEF Laid
  <2>2. D \in 0 .. D
    BY <2>1
  <2> QED
    BY <2>1, <2>2
<1>3. c \in Nat
  <2>1. c = o + Len(f.name) + 1
    BY DEF Colon
  <2> HIDE DEF c, o, f
  <2> QED
    BY <1>1, <2>1
<1>4. \A x \in Stops(m) : o + 1 <= x => h <= x
  <2>1. ASSUME NEW x \in Stops(m), o + 1 <= x PROVE h <= x
    <3>1. x \in Nat /\ (x <= o \/ x = h \/ x >= End(m, k))
      BY NoStop
    <3> HIDE DEF o, h
    <3> QED
      BY <1>1, <2>1, <3>1
  <2> QED
    BY <2>1
<1> HIDE DEF o, h, c, f
<1>5. o + 1 < h /\ h <= End(m, D) /\ k - 1 <= k /\ (k - 1) + 1 = k /\ k > 0
  BY <1>1, <1>2
<1>6. At(m, h + 1, k)
  <2>1. CASE f.fold = <<>>
    BY <1>1, <2>1 DEF At, D
  <2>2. CASE f.fold # <<>>
    <3>1. h < End(m, k)
      BY SMTT(40), <1>1, <2>2
    <3> QED
      BY <1>1, <1>5, <3>1 DEF At, D, h
  <2> QED
    BY <2>1, <2>2
<1> QED
  BY <1>1, <1>3, <1>4, <1>5, <1>6 DEF Line, o, h, c, f, D

\* Behind the last field there is no colon.
LEMMA LastLine ==
  ASSUME NEW m, Laid(m)
  PROVE  Over(m, End(m, Len(m.fields)) + 1)
<1> DEFINE E == End(m, Len(m.fields))
<1>1. /\ Len(m.text) = E + 2 /\ m.text[E + 1] = "CR" /\ m.text[E + 2] = "LF"
      /\ Len(m.fields) \in 0 .. Len(m.fields)
      /\ \A k \in 0 .. Len(m.fields) : End(m, k) \in Nat
  BY DEF Laid
<1>2. E \in Nat
  BY <1>1
<1> HIDE DEF E
<1>3. \A i \in E + 1 .. E + 2 : i = E + 1 \/ i = E + 2
  BY <1>2
<1> QED
  BY <1>1, <1>3 DEF Over, E

\* A continuation line.
LEMMA FoldedLine ==
  ASSUME NEW m, Laid(m), NEW k \in 1 .. Len(m.fields), Half(m, k) < End(m, k)
  PROVE  \/ Over(m, Half(m, k) + 1)
         \/ \E c, e, j : Line(m, Half(m, k) + 1, k, c, e, j)
<1> DEFINE D == Len(m.fields)
           t == m.text
           f == m.fields[k]
           h == Half(m, k)
           e == End(m, k)
           q == h + 1
           W == Len(f.fold)
<1>1. /\ k \in 0 .. D /\ h \in Nat /\ e \in Nat /\ e <= End(m, D) /\ W \in Nat
      /\ f.fold = <<>> => e = h
      /\ f.fold # <<>> => e = h + W + 3
      /\ f.fold # <<>> => SecondAt(t, End(m, k - 1), f)
      /\ h = End(m, k - 1) + FirstLen(f) /\ f \in Fields
      /\ End(m, k - 1) \in Nat
  BY FieldPlaces
<1>2. D \in Nat /\ End(m, D) \in Nat /\ e = End(m, k - 1) + FieldLen(f) /\ Len(t) = End(m, D) + 2
  <2>1. /\ D \in Nat /\ \A j \in 0 .. D : End(m, j) \in Nat
        /\ LaidField(m, k) /\ Len(t) = End(m, D) + 2
    BY DEF Laid
  <2>2. D \in 0 .. D
    BY <2>1
  <2> QED
    BY <2>1, <2>2 DEF LaidField
<1>3. h < e
  OBVIOUS
<1>0. h = Half(m, k) /\ e = End(m, k)
  OBVIOUS
<1> HIDE DEF h, e, W
<1>4. f.fold # <<>> /\ e = h + W + 3
  BY <1>1, <1>3
<1>5. /\ t[q] = " " /\ Has(t, q, f.fold)
      /\ \A i \in q .. e - 2 : t[i] # "CR"
      /\ t[e - 1] = "CR" /\ t[e] = "LF"
  BY <1>1, <1>2, <1>4 DEF SecondAt
<1>6. \A i \in 1 .. W : t[q + i] = f.fold[i]
  BY <1>5 DEF Has, W
<1>7. At(m, q, k) /\ At(m, e + 1, k) /\ k > 0
  BY <1>0, <1>1, <1>2, <1>3 DEF At, D
<1>8. \A x \in Stops(m) : q <= x => e <= x
  <2>1. ASSUME NEW x \in Stops(m), q <= x PROVE e <= x
    <3>1. /\ x \in Nat /\ (x <= End(m, k - 1) \/ x = h \/ x >= e)
          /\ End(m, k - 1) + 4 <= h
      BY <1>0, NoStop, FieldPlaces
    <3> QED
      BY <1>1, <2>1, <3>1
  <2> QED
    BY <2>1
<1>9. t[q] \in Blank /\ t[q] # ":"
  BY <1>5 DEF Blank
<1>13. h \in Nat /\ W \in Nat /\ e = h + W + 3 /\ e \in Nat
  BY <1>1, <1>4
<1>10. /\ q \in Nat /\ q < e /\ e - 2 = q + W /\ e - 2 \in Nat
       /\ \A i \in q .. e : i \in q + 1 .. q + W \/ i = q \/ i = e - 1 \/ i = e
  BY <1>13
<1>11. CASE \E i \in 1 .. W : f.fold[i] = ":"
  <2>1. \E i \in q .. e - 2 : t[i] = ":"
    <3>1. PICK i \in 1 .. W : f.fold[i] = ":"
      BY <1>11
    <3>2. q + i \in q .. e - 2
      BY <1>13
    <3> QED
      BY <1>6, <3>1, <3>2
  <2>2. q \in Nat /\ e - 2 \in Nat
    BY <1>10
  <2> HIDE DEF q
  <2>3. PICK c \in q .. e - 2 : t[c] = ":" /\ \A i \in q .. c - 1 : t[i] # ":"
    <3> DEFINE S == {i \in q .. e - 2 : t[i] = ":"}
    <3>1. S \in SUBSET Nat /\ S # {}
      BY <2>1, <2>2
    <3>2. PICK c \in S : \A i \in S : c <= i
      BY <3>1, LeastNat
    <3>3. ASSUME NEW i \in q .. c - 1 PROVE t[i] # ":"
      <4>1. i \in q .. e - 2 /\ ~(c <= i)
        BY <2>2
      <4> QED
        BY <3>2, <4>1
    <3> QED
      BY <3>2, <3>3
  <2>4. c \in Nat /\ \A i \in c .. e - 2 : i \in q .. e - 2
    BY <2>2
  <2>5. ColonLine(t, q, c, e) /\ c \in Nat
    BY <1>5, <2>3, <2>4 DEF ColonLine
  <2>8. q = h + 1 /\ k <= k
    BY <1>1 DEF q
  <2>7. Line(m, q, k, c, e, k)
    BY <1>0, <1>1, <1>3, <1>7, <1>8, <1>9, <1>10, <2>5, <2>8, Zenon DEF Line, D
  <2> QED
    BY <1>0, <2>7 DEF q
<1>12. CASE \A i \in 1 .. W : f.fold[i] # ":"
  <2>1. \A i \in q .. e : t[i] # ":"
    <3>1. \A i \in q + 1 .. q + W : t[i] # ":"
      <4>1. \A i \in q + 1 .. q + W : i - q \in 1 .. W /\ q + (i - q) = i
        BY SMTT(40), <1>1
      <4> QED
        BY <1>6, <1>12, <4>1
    <3> QED
      BY <1>5, <1>9, <1>10, <3>1
  <2>2. ~Colons(m)
    BY <1>4, <1>12 DEF Colons, D, W
  <2>3. CASE k = D
    <3>1. \A i \in e + 1 .. Len(t) : t[i] # ":"
      BY <1>0, <2>3, LastLine DEF Over
    <3>2. \A i \in q .. Len(t) : i \in q .. e \/ i \in e + 1 .. Len(t)
      BY <1>1, <1>2
    <3>3. Over(m, q)
      BY <2>1, <2>2, <3>1, <3>2 DEF Over
    <3> QED
      BY <1>0, <3>3
  <2>4. CASE k # D
    <3> DEFINE j == k + 1
               c == Colon(e, m.fields[j])
               e2 == Half(m, j)
    <3>1. j \in 1 .. D /\ j - 1 = k
      BY <1>1, <1>2, <2>4
    <3>2. Line(m, e + 1, k, c, e2, j)
      <4> HIDE DEF j, c, e2
      <4>1. Line(m, End(m, j - 1) + 1, j - 1, Colon(End(m, j - 1), m.fields[j]), Half(m, j), j)
        BY <3>1, FreshLine
      <4> QED
        BY <1>0, <3>1, <4>1 DEF c, e2
    <3> HIDE DEF c, e2, j
    <3>3. /\ ColonLine(t, e + 1, c, e2) /\ c \in Nat /\ e2 \in Nat /\ e + 1 < e2
          /\ e2 <= End(m, D) /\ At(m, e2 + 1, j) /\ k <= j
      BY <3>2 DEF Line
    <3>4. ColonLine(t, q, c, e2)
      <4>1. c \in e + 1 .. e2 - 2 /\ \A i \in e + 1 .. c - 1 : t[i] # ":"
        BY <3>3 DEF ColonLine
      <4>2. c \in q .. e2 - 2 /\ \A i \in q .. c - 1 : i \in q .. e \/ i \in e + 1 .. c - 1
        <5>1. c \in Nat /\ e2 \in Nat /\ c \in e + 1 .. e2 - 2
          BY <3>3, <4>1
        <5> QED
          BY <1>13, <5>1
      <4> QED
        BY <2>1, <3>3, <4>1, <4>2 DEF ColonLine
    <3>5. q < e2
      BY SMTT(40), <1>1, <1>10, <3>3
    <3>6. Line(m, q, k, c, e2, j)
      BY <1>0, <1>3, <1>7, <1>9, <2>2, <3>3, <3>4, <3>5 DEF Line, D
    <3> QED
      BY <1>0, <3>6
  <2> QED
    BY <2>3, <2>4
<1> QED
  BY <1>11, <1>12

\* So what http_parse_header sees is a line of the request, or the end.
LEMMA NextLine ==
  ASSUME NEW m, Laid(m), NEW q, NEW k, At(m, q, k)
  PROVE  /\ q \in Nat /\ End(m, 0) < q
         /\ Over(m, q) \/ \E c, e, j : Line(m, q, k, c, e, j)
<1> DEFINE D == Len(m.fields)
<1>1. D \in Nat /\ k \in 0 .. D /\ (\A j \in 0 .. D : End(m, j) \in Nat)
      /\ (\A i, j \in 0 .. D : i <= j => End(m, i) <= End(m, j))
  BY DEF Laid, At
<1>2. /\ End(m, k) \in Nat /\ End(m, 0) \in Nat /\ End(m, 0) <= End(m, k)
  <2>1. 0 \in 0 .. D /\ 0 <= k
    BY <1>1
  <2> QED
    BY <1>1, <2>1
<1>3. CASE q = End(m, k) + 1
  <2>1. q \in Nat /\ End(m, 0) < q
    BY <1>2, <1>3
  <2>2. CASE k = D
    BY <1>3, <2>1, <2>2, LastLine
  <2>3. CASE k # D
    <3> DEFINE j == k + 1
    <3>1. j \in 1 .. D /\ j - 1 = k
      BY <1>1, <2>3
    <3> HIDE DEF j
    <3>2. Line(m, End(m, j - 1) + 1, j - 1, Colon(End(m, j - 1), m.fields[j]), Half(m, j), j)
      BY <3>1, FreshLine
    <3> QED
      BY <1>3, <2>1, <3>1, <3>2
  <2> QED
    BY <2>2, <2>3
<1>4. CASE k > 0 /\ Half(m, k) < End(m, k) /\ q = Half(m, k) + 1
  <2>1. k \in 1 .. D
    BY <1>1, <1>4
  <2>2. /\ Half(m, k) \in Nat /\ End(m, k - 1) \in Nat /\ End(m, k - 1) + 4 <= Half(m, k)
        /\ k - 1 \in 0 .. D
    BY <2>1, FieldPlaces
  <2>3. End(m, 0) <= End(m, k - 1)
    <3>1. 0 \in 0 .. D /\ 0 <= k - 1
      BY <1>1, <2>1
    <3> QED
      BY <1>1, <2>2, <3>1
  <2>4. q \in Nat /\ End(m, 0) < q
    BY <1>2, <1>4, <2>2, <2>3
  <2> QED
    BY <1>4, <2>1, <2>4, FoldedLine
<1> QED
  BY <1>3, <1>4 DEF At

\* What http_parse_header does with a line from p1 to e, whose colon is at c.
Taken(c, e) ==
  /\ \/ /\ data[p1] \notin Blank
        /\ headers' = Store(c, e)
        /\ UNCHANGED data
     \/ /\ data[p1] \in Blank /\ headers # <<>>
        /\ Fold(e)
     \/ /\ data[p1] \in Blank /\ headers = <<>>
        /\ UNCHANGED <<data, headers>>
  /\ After(e, IF copy = "server" THEN e + 2 ELSE e)

\* A parse that has read past the end.
Overruns == Finish("overrun") /\ UNCHANGED <<data, headers, p1, read>>

\* It takes the line, if it is there as a whole.
LEMMA LineRead ==
  ASSUME Shape, HeaderLine, NEW t, \A i \in p1 .. Cut : data[i] = t[i],
         NEW c \in Nat, NEW e \in Nat, ColonLine(t, p1, c, e)
  PROVE  (Cut < e /\ Overruns) \/ (e <= Cut /\ Taken(c, e))
<1> DEFINE colons == Find(p1, {":"})
           colon == Least(colons)
           lf == IF colons = {} THEN 0 ELSE LineFeed(colon)
<1>1. /\ phase = "header" /\ p1 <= Len(data)
      /\ (lf \in {-1, 0} /\ Overruns) \/ (lf > 0 /\ Taken(colon, lf))
  BY DEF HeaderLine, Overruns, Taken
<1>2. Cut \in Nat /\ Len(data) = Cut /\ p1 \in 1 .. Cut + 1 /\ IsSeq(data)
  BY <1>1, ShapeCut DEF Shape, Under, Cut
<1>3. p1 \in Nat \ {0} /\ p1 \in Nat
  BY <1>2
<1>4. /\ c \in p1 .. e - 2 /\ t[c] = ":"
      /\ \A i \in p1 .. c - 1 : t[i] # ":"
      /\ \A i \in c .. e - 2 : t[i] # "CR"
      /\ t[e - 1] = "CR" /\ t[e] = "LF"
  BY DEF ColonLine
<1>5. colons \in SUBSET Nat /\ \A i \in colons : i \in p1 .. Cut /\ data[i] = ":"
  BY <1>3, FindIn
<1>6. CASE Cut < c
  <2>1. colons = {}
    <3>1. \A i \in p1 .. Cut : i \in p1 .. c - 1
      BY <1>2, <1>3, <1>6
    <3>2. \A i \in p1 .. Cut : data[i] # ":"
      BY <1>4, <3>1
    <3> HIDE DEF colons
    <3> QED
      BY <1>5, <3>2
  <2>2. lf = 0
    BY <2>1
  <2>3. Overruns
    <3>1. ~(0 > 0)
      OBVIOUS
    <3> HIDE DEF lf
    <3> QED
      BY <1>1, <2>2, <3>1
  <2>4. Cut < e
    BY <1>2, <1>3, <1>4, <1>6
  <2> QED
    BY <2>3, <2>4
<1>7. CASE c <= Cut
  <2>1. c \in p1 .. Cut /\ c \in 1 .. Cut
    BY <1>2, <1>3, <1>4, <1>7
  <2>2. c \in colons
    BY <1>2, <1>4, <2>1 DEF Find
  <2>3. \A i \in colons : c <= i
    <3>1. ASSUME NEW i \in colons PROVE ~(i < c)
      <4>1. i \in p1 .. Cut /\ data[i] = ":"
        BY <1>5
      <4>2. i < c => i \in p1 .. c - 1
        BY <1>3, <4>1
      <4> QED
        BY <1>4, <4>1, <4>2
    <3>2. \A i \in colons : i \in Nat
      BY <1>5
    <3> HIDE DEF colons
    <3> QED
      BY <3>1, <3>2
  <2>4. colon = c
    <3>1. colons \in SUBSET Int
      BY <1>5
    <3> HIDE DEF colons
    <3> QED
      BY <2>2, <2>3, <3>1, LeastIs
  <2>5. lf = LineFeed(c)
    BY <2>2, <2>4
  <2> DEFINE q == e - 1
  <2>6. LineFeed(c) = IF q < Cut THEN q + 1 ELSE IF q = Cut THEN -1 ELSE 0
    <3>1. q \in Nat /\ c <= q /\ q + 1 = e /\ p1 <= c
      BY <1>3, <1>4
    <3>2. \A i \in c .. q - 1 : i <= Cut => data[i] # "CR"
      <4>1. \A i \in c .. q - 1 : i \in c .. e - 2 /\ (i <= Cut => i \in p1 .. Cut)
        BY <1>3, <3>1
      <4> QED
        BY <1>4, <4>1
    <3>3. q <= Cut => data[q] = "CR"
      <4>1. q <= Cut => q \in p1 .. Cut
        BY <1>2, <1>3, <3>1
      <4> QED
        BY <1>4, <4>1
    <3>4. q + 1 <= Cut => data[q + 1] = "LF"
      <4>1. q + 1 <= Cut => q + 1 \in p1 .. Cut
        BY <1>2, <1>3, <3>1
      <4> QED
        BY <1>4, <3>1, <4>1
    <3> HIDE DEF q
    <3> QED
      BY <1>2, <2>1, <3>1, <3>2, <3>3, <3>4, LineFeedIs
  <2> HIDE DEF colons, colon
  <2>7. CASE q < Cut
    <3>1. lf = e /\ e <= Cut /\ e # 0 /\ e # -1
      <4>1. q + 1 = e /\ e <= Cut /\ e # 0 /\ e # -1
        <5>1. Cut \in Nat
          BY <1>2
        <5>2. e # 0
          <6>1. c >= 1 /\ c <= e - 2
            BY <1>3, <1>4
          <6> QED
            BY <6>1
        <5> QED
          BY <2>7, <5>1, <5>2
      <4> HIDE DEF lf, q
      <4> QED
        BY <2>5, <2>6, <2>7, <4>1
    <3> HIDE DEF lf
    <3> QED
      BY <1>1, <2>4, <3>1
  <2>8. CASE ~(q < Cut)
    <3>1. Cut < e /\ lf \in {-1, 0}
      <4>1. Cut < e
        BY <1>2, <2>8
      <4> HIDE DEF q, lf
      <4> QED
        BY <2>5, <2>6, <2>8, <4>1
    <3>2. ~(-1 > 0) /\ ~(0 > 0)
      OBVIOUS
    <3> HIDE DEF lf
    <3> QED
      BY <1>1, <3>1, <3>2
  <2> QED
    BY <2>7, <2>8
<1> QED
  BY <1>2, <1>6, <1>7

\* Without a colon there is no line to take.
LEMMA NoLine ==
  ASSUME Shape, HeaderLine, \A i \in p1 .. Cut : data[i] # ":"
  PROVE  Overruns
<1> DEFINE colons == Find(p1, {":"})
<1>1. p1 \in Nat \ {0}
  <2>1. Cut \in Nat /\ p1 \in 1 .. Cut + 1
    BY ShapeCut DEF HeaderLine, Shape, Under
  <2> QED
    BY <2>1
<1>2. colons = {}
  BY <1>1, FindIn
<1>3. ~(0 > 0)
  OBVIOUS
<1> QED
  BY <1>2, <1>3 DEF HeaderLine, Overruns

\* The elements of a part, whatever they are.
LEMMA PartOf ==
  ASSUME NEW s, NEW a \in Int, NEW b \in Int
  PROVE  /\ SubSeq(s, a, b) \in Seq({s[i] : i \in a .. b})
         /\ Len(SubSeq(s, a, b)) = IF a <= b THEN b - a + 1 ELSE 0
         /\ \A i \in 1 .. b - a + 1 : SubSeq(s, a, b)[i] = s[a + i - 1]
<1> DEFINE X == {s[i] : i \in a .. b}
<1>1. \A i \in a .. b : s[i] \in X
  OBVIOUS
<1> HIDE DEF X
<1>2. /\ SubSeq(s, a, b) \in Seq(X)
      /\ Len(SubSeq(s, a, b)) = IF a <= b THEN b - a + 1 ELSE 0
      /\ \A i \in 1 .. b - a + 1 : SubSeq(s, a, b)[i] = s[a + i - 1]
  BY <1>1, SubSeqProperties
<1> QED
  BY <1>2 DEF X

\* No line of a field begins with a carriage return.
LEMMA LineStart ==
  ASSUME NEW m, Laid(m), NEW q, NEW k, At(m, q, k), q <= End(m, Len(m.fields))
  PROVE  m.text[q] # "CR"
<1> DEFINE D == Len(m.fields)
<1>1. D \in Nat /\ k \in 0 .. D /\ \A j \in 0 .. D : End(m, j) \in Nat
  BY DEF Laid, At
<1>2. CASE q = End(m, k) + 1
  <2>1. k # D
    BY <1>1, <1>2
  <2> DEFINE j == k + 1
  <2>2. j \in 1 .. D /\ j - 1 = k
    BY <1>1, <2>1
  <2> HIDE DEF j
  <2>3. m.text[End(m, j - 1) + 1] \notin Blank \cup {"CR"}
    BY <2>2, FieldPlaces
  <2> QED
    BY <1>2, <2>2, <2>3
<1>3. CASE k > 0 /\ Half(m, k) < End(m, k) /\ q = Half(m, k) + 1
  <2>1. k \in 1 .. D
    BY <1>1, <1>3
  <2>2. /\ Half(m, k) \in Nat /\ End(m, k) \in Nat
        /\ m.fields[k].fold = <<>> => End(m, k) = Half(m, k)
        /\ m.fields[k].fold # <<>> => SecondAt(m.text, End(m, k - 1), m.fields[k])
        /\ Half(m, k) = End(m, k - 1) + FirstLen(m.fields[k])
    BY <2>1, FieldPlaces
  <2>3. m.fields[k].fold # <<>>
    BY <1>3, <2>2
  <2>4. m.text[Half(m, k) + 1] = " "
    BY <2>2, <2>3 DEF SecondAt
  <2> QED
    BY <1>3, <2>4
<1> QED
  BY <1>2, <1>3 DEF At

\* What follows a line of a request: nothing yet, the end of the request, or another line.
Followed(e) ==
  \/ /\ Cut < Whole
     /\ Finish(IF copy = "server" THEN "incomplete" ELSE "ok")
  \/ /\ Cut = Whole /\ e = End(msg, Len(msg.fields))
     /\ Finish("ok") /\ read' = IF copy = "server" THEN Whole ELSE Whole - 2
  \/ /\ e < End(msg, Len(msg.fields)) /\ e + 1 <= Cut
     /\ p1' = e + 1 /\ UNCHANGED <<phase, outcome>>

\* A line that is read is followed by one of these.
LEMMA AfterLine ==
  ASSUME Shape, Laid(msg), Cut <= Whole, NEW e \in Nat \ {0}, e <= Cut,
         e <= End(msg, Len(msg.fields)), NEW j, At(msg, e + 1, j),
         \A i \in e + 1 .. Cut : data[i] = msg.text[i],
         After(e, IF copy = "server" THEN e + 2 ELSE e)
  PROVE  Followed(e)
<1> DEFINE E == End(msg, Len(msg.fields))
           t == msg.text
<1>1. Cut \in Nat /\ Len(data) = Cut /\ IsSeq(data)
  BY ShapeCut DEF Shape, Cut
<1>2. /\ Whole = E + 2 /\ t[E + 1] = "CR" /\ t[E + 2] = "LF"
      /\ Len(msg.fields) \in 0 .. Len(msg.fields)
      /\ \A k \in 0 .. Len(msg.fields) : End(msg, k) \in Nat
  BY DEF Laid, Whole
<1>3. E \in Nat
  BY <1>2
<1>4. e < E => t[e + 1] # "CR"
  <2>1. e < E => e + 1 <= E
    BY <1>3
  <2> QED
    BY <2>1, LineStart
<1> HIDE DEF E, t
<1>5. (e + 1 <= Cut => data[e + 1] = t[e + 1]) /\ (e + 2 <= Cut => data[e + 2] = t[e + 2])
  <2>1. (e + 1 <= Cut => e + 1 \in e + 1 .. Cut) /\ (e + 2 <= Cut => e + 2 \in e + 1 .. Cut)
    BY <1>1
  <2> QED
    BY <2>1 DEF t
<1>6. CASE /\ Len(data) \in {e, e + 1}
           /\ Finish(IF copy = "server" THEN "incomplete" ELSE "ok")
  <2>1. Cut < Whole
    <3>1. Cut = e \/ Cut = e + 1
      BY <1>1, <1>6
    <3>2. Cut < E + 2
      BY <1>3, <3>1 DEF E
    <3> QED
      BY <1>2, <3>2
  <2> QED
    BY <1>6, <2>1 DEF Followed
<1>7. CASE /\ e + 2 <= Len(data) /\ SubSeq(data, e + 1, e + 2) = CRLF
           /\ Finish("ok")
           /\ read' = IF copy = "server" THEN e + 2 ELSE e
  <2>1. e + 2 <= Cut /\ e + 1 <= Cut
    BY <1>1, <1>7
  <2>2. data[e + 1] = "CR"
    <3> DEFINE a == e + 1
               b == e + 2
    <3>1. a \in Int /\ b \in Int /\ 1 \in 1 .. b - a + 1 /\ a + 1 - 1 = a
      OBVIOUS
    <3> HIDE DEF a, b
    <3>2. \A i \in 1 .. b - a + 1 : SubSeq(data, a, b)[i] = data[a + i - 1]
      BY <3>1, PartOf
    <3>6. SubSeq(data, a, b)[1] = data[a]
      BY <3>1, <3>2
    <3>7. CRLF[1] = "CR"
      BY DEF CRLF
    <3> QED
      BY <1>7, <3>6, <3>7 DEF a, b
  <2>3. ~(e < E)
    BY <1>4, <1>5, <2>1, <2>2
  <2>4. e = E /\ Cut = Whole /\ e + 2 = Whole /\ e = Whole - 2
    BY <1>1, <1>2, <1>3, <2>1, <2>3 DEF E
  <2> QED
    BY <1>7, <2>4 DEF Followed, E
<1>8. CASE /\ e + 1 <= Len(data)
           /\ data[e + 1] = "CR" => e + 2 <= Len(data) /\ data[e + 2] # "LF"
           /\ p1' = e + 1 /\ UNCHANGED <<phase, outcome>>
  <2>1. e < E
    <3>1. SUFFICES ASSUME ~(e < E) PROVE FALSE
      OBVIOUS
    <3>2. e = E
      BY <1>3, <3>1 DEF E
    <3> QED
      BY <1>1, <1>2, <1>5, <1>8, <3>2
  <2> QED
    BY <1>1, <1>8, <2>1 DEF Followed, E
<1> QED
  BY <1>6, <1>7, <1>8 DEF After

\* Sequences of the same elements are the same.
LEMMA SameSeq ==
  ASSUME NEW S, NEW T, NEW s \in Seq(S), NEW t \in Seq(T), Len(s) = Len(t),
         \A i \in 1 .. Len(t) : s[i] = t[i]
  PROVE  s = t
<1> DEFINE n == Len(t)
<1>1. s = [i \in 1 .. n |-> s[i]] /\ t = [i \in 1 .. n |-> t[i]]
  <2>1. s = [i \in 1 .. Len(s) |-> s[i]] /\ t = [i \in 1 .. Len(t) |-> t[i]]
    OBVIOUS
  <2> QED
    BY <2>1
<1> HIDE DEF n
<1>2. \A i \in 1 .. n : s[i] = t[i]
  BY DEF n
<1> QED
  BY <1>1, <1>2

\* A span of the buffer d spells the text u.
Spells(d, span, u) ==
  span.from \in Int /\ span.len = Len(u) /\ Has(d, span.from - 1, u)

\* What a span spells is its text.
LEMMA TextIs ==
  ASSUME NEW S, NEW u \in Seq(S), NEW d, NEW span, Spells(d, span, u)
  PROVE  SubSeq(d, span.from, span.from + span.len - 1) = u
<1> DEFINE a == span.from
           n == Len(u)
           b == a + n - 1
           p == SubSeq(d, a, b)
<1>1. /\ a \in Int /\ n \in Nat /\ span.len = n
      /\ \A i \in 1 .. n : d[(a - 1) + i] = u[i]
  BY LenProperties DEF Spells, Has
<1>2. b \in Int /\ b - a + 1 = n /\ (a <= b <=> n > 0) /\ (~(n > 0) => n = 0)
  BY <1>1
<1>3. \A i \in 1 .. n : a + i - 1 = (a - 1) + i
  BY <1>1
<1>0. n = Len(u)
  OBVIOUS
<1> HIDE DEF a, b, n
<1>4. /\ p \in Seq({d[i] : i \in a .. b})
      /\ Len(p) = IF a <= b THEN b - a + 1 ELSE 0
      /\ \A i \in 1 .. b - a + 1 : p[i] = d[a + i - 1]
  BY <1>1, <1>2, PartOf
<1> HIDE DEF p
<1>5. Len(p) = n
  BY <1>1, <1>2, <1>4
<1>6. \A i \in 1 .. n : p[i] = u[i]
  BY <1>1, <1>2, <1>3, <1>4
<1>7. p = u
  BY <1>0, <1>4, <1>5, <1>6, SameSeq
<1> QED
  BY <1>1, <1>7 DEF p, a, b

\* The spans of method and path.
LineFound(m) ==
  [method |-> [from |-> 1, len |-> Len(m.line.method)],
   path |-> [from |-> Space1(m.line) + 1, len |-> Len(m.line.path)]]

\* http_parse_request_line finds the line of a request, if it is there as a whole.
LEMMA RequestLineRead ==
  ASSUME Shape, RequestLine, Laid(msg), \A i \in 1 .. Cut : data[i] = msg.text[i]
  PROVE  \/ Cut < End(msg, 0) /\ phase' = "end" /\ outcome' \in {"incomplete", "overrun"}
         \/ /\ End(msg, 0) <= Cut /\ msg.line.version # Version
            /\ phase' = "end" /\ outcome' = "error"
         \/ /\ End(msg, 0) <= Cut /\ p1' = End(msg, 0) + 1 /\ line' = LineFound(msg)
            /\ phase' = "header" /\ UNCHANGED outcome
<1> DEFINE spaces == Find(1, {" "})
           s1 == Least(spaces)
           s2 == Least(spaces \ {s1})
           lf == IF Cardinality(spaces) < 2 THEN 0 ELSE LineFeed(s2)
           version == lf - s2 = 10 /\ SubSeq(data, s2 + 1, s2 + 7) = SubSeq(Version, 1, 7)
           found == [method |-> [from |-> 1, len |-> s1 - 1],
                     path |-> [from |-> s1 + 1, len |-> s2 - s1 - 1]]
           l == msg.line
           t == msg.text
           a == Space1(l)
           b == Space2(l)
           R == End(msg, 0)
<1>1. /\ phase = "line"
      /\ \/ /\ lf \in {-1, 0}
            /\ phase' = "end" /\ outcome' \in {"incomplete", "overrun"}
         \/ /\ lf > 0 /\ ~version
            /\ phase' = "end" /\ outcome' = "error"
         \/ /\ lf > 0 /\ version
            /\ line' = found
            /\ p1' = lf + 1
            /\ phase' = "header" /\ UNCHANGED outcome
  BY DEF RequestLine, Finish
<1>2. Cut \in Nat /\ Len(data) = Cut /\ IsSeq(data)
  BY ShapeCut DEF Shape, Cut
<1>3. /\ R = LineLen(l) /\ a \in Nat \ {0} /\ b \in a + 1 .. R - 2 /\ LineAt(t, l) /\ LineForm(l)
      /\ R \in Nat
  <2>1. 0 \in 0 .. Len(msg.fields)
    BY DEF Laid
  <2> QED
    BY <2>1 DEF Laid
<1>4. a \in Nat /\ b \in Nat /\ 1 <= a /\ a < b /\ b <= R - 2
  BY <1>3
<1>5. /\ t[a] = " " /\ t[b] = " "
      /\ \A i \in 1 .. b - 1 : i # a => t[i] # " "
      /\ \A i \in b .. R - 2 : t[i] # "CR"
      /\ t[R - 1] = "CR" /\ t[R] = "LF"
  BY <1>3 DEF LineAt
<1>6. /\ Len(l.method) = a - 1 /\ Len(l.path) = b - a - 1
      /\ Len(l.version) = R - 2 - b
  <2> DEFINE N == Len(l.method)
             P == Len(l.path)
             X == Len(l.version)
  <2>1. N \in Nat /\ P \in Nat /\ X \in Nat
    BY <1>3, LenProperties DEF LineForm
  <2>2. a = N + 1 /\ b = a + P + 1 /\ R = b + X + 2
    BY <1>3 DEF Space1, Space2, LineLen
  <2> HIDE DEF N, P, X, a, b, R
  <2>3. N = a - 1 /\ P = b - a - 1 /\ X = R - 2 - b
    BY <1>4, <2>1, <2>2
  <2> QED
    BY <2>3 DEF N, P, X
<1> HIDE DEF a, b, R
<1>7. spaces = {i \in 1 .. Cut : t[i] = " "}
  BY <1>2 DEF Find
<1>8. spaces \in SUBSET Int
  <2>1. \A i \in 1 .. Cut : i \in Int
    OBVIOUS
  <2> HIDE DEF spaces
  <2> QED
    BY <1>7, <2>1
<1> HIDE DEF spaces
<1>9. CASE Cut < b
  <2>1. spaces \subseteq {a}
    <3>1. \A i \in 1 .. Cut : i \in 1 .. b - 1
      BY <1>2, <1>4, <1>9
    <3> QED
      BY <1>5, <1>7, <3>1
  <2>2. Cardinality(spaces) < 2
    <3>1. IsFiniteSet({a}) /\ Cardinality({a}) = 1
      BY FS_Singleton
    <3>2. IsFiniteSet(spaces) /\ Cardinality(spaces) <= Cardinality({a})
      BY <2>1, <3>1, FS_Subset
    <3>3. Cardinality(spaces) \in Nat
      BY <3>2, FS_CardinalityType
    <3>4. \A n \in Nat : n <= 1 => n < 2
      OBVIOUS
    <3> QED
      BY <3>1, <3>2, <3>3, <3>4, Zenon
  <2>3. lf = 0 /\ ~(0 > 0)
    BY <2>2
  <2>4. Cut < R
    BY <1>2, <1>3, <1>4, <1>9
  <2> HIDE DEF lf, version
  <2> QED
    BY <1>1, <2>3, <2>4 DEF R
<1>10. CASE b <= Cut
  <2>1. a \in spaces /\ b \in spaces /\ b \in 1 .. Cut
    <3>1. a \in 1 .. Cut /\ b \in 1 .. Cut
      BY <1>2, <1>4, <1>10
    <3> QED
      BY <1>5, <1>7, <3>1
  <2>2. \A i \in spaces : i = a \/ b <= i
    <3>1. ASSUME NEW i \in spaces, i # a PROVE ~(i < b)
      <4>1. i \in 1 .. Cut /\ t[i] = " "
        BY <1>7
      <4>2. i < b => i \in 1 .. b - 1
        <5>1. Cut \in Nat /\ b \in Nat
          BY <1>2, <1>4
        <5>2. \A x \in 1 .. Cut : x < b => x \in 1 .. b - 1
          BY <5>1
        <5> QED
          BY <4>1, <5>2
      <4> QED
        BY <1>5, <3>1, <4>1, <4>2
    <3>2. \A i \in spaces : ~(i < b) => b <= i
      BY <1>4, <1>8
    <3> QED
      BY <3>1, <3>2
  <2>3. s1 = a
    <3>1. \A i \in spaces : a <= i
      BY <1>4, <1>8, <2>2
    <3> QED
      BY <1>8, <2>1, <3>1, LeastIs
  <2>4. s2 = b
    <3> DEFINE S == spaces \ {a}
    <3>1. S \in SUBSET Int /\ b \in S /\ \A i \in S : b <= i
      BY <1>4, <1>8, <2>1, <2>2
    <3> HIDE DEF S
    <3>2. Least(S) = b
      BY <3>1, LeastIs
    <3> QED
      BY <2>3, <3>2 DEF S
  <2>5. ~(Cardinality(spaces) < 2)
    <3>1. IsFiniteSet(spaces)
      <4>1. IsFiniteSet(1 .. Cut)
        BY <1>2, FS_Interval
      <4> QED
        BY <1>7, <4>1, FS_Subset
    <3>2. a # b
      BY <1>4
    <3>3. Cardinality({a, b}) = 2 /\ IsFiniteSet({a, b})
      <4>1. IsFiniteSet({a}) /\ Cardinality({a}) = 1
        BY FS_Singleton
      <4>2. /\ IsFiniteSet({a} \cup {b})
            /\ Cardinality({a} \cup {b}) = IF b \in {a} THEN Cardinality({a}) ELSE Cardinality({a}) + 1
        BY <4>1, FS_AddElement
      <4>3. {a} \cup {b} = {a, b} /\ b \notin {a}
        BY <3>2
      <4> QED
        BY <4>1, <4>2, <4>3
    <3>4. Cardinality({a, b}) <= Cardinality(spaces) /\ Cardinality(spaces) \in Nat
      <4>1. {a, b} \subseteq spaces
        BY <2>1
      <4> QED
        BY <3>1, <4>1, FS_Subset, FS_CardinalityType
    <3>5. \A n \in Nat : 2 <= n => ~(n < 2)
      OBVIOUS
    <3> QED
      BY <3>3, <3>4, <3>5, Zenon
  <2> HIDE DEF s1, s2
  <2>6. lf = LineFeed(b)
    BY <2>4, <2>5
  <2> DEFINE q == R - 1
  <2>7. LineFeed(b) = IF q < Cut THEN q + 1 ELSE IF q = Cut THEN -1 ELSE 0
    <3>1. q \in Nat /\ b <= q /\ q + 1 = R
      BY <1>3, <1>4
    <3>2. \A i \in b .. q - 1 : i <= Cut => data[i] # "CR"
      <4>1. \A i \in b .. q - 1 : i \in b .. R - 2 /\ (i <= Cut => i \in 1 .. Cut)
        BY <1>4, <3>1
      <4> QED
        BY <1>5, <4>1
    <3>3. (q <= Cut => data[q] = "CR") /\ (q + 1 <= Cut => data[q + 1] = "LF")
      <4>1. (q <= Cut => q \in 1 .. Cut) /\ (q + 1 <= Cut => q + 1 \in 1 .. Cut)
        BY <1>2, <1>4, <3>1
      <4> QED
        BY <1>5, <3>1, <4>1
    <3> HIDE DEF q
    <3> QED
      BY <1>2, <2>1, <3>1, <3>2, <3>3, LineFeedIs
  <2>8. CASE Cut < R
    <3>1. lf \in {-1, 0}
      <4>1. ~(q < Cut)
        BY <1>2, <1>3, <2>8
      <4> HIDE DEF q, lf
      <4> QED
        BY <2>6, <2>7, <4>1
    <3>2. ~(-1 > 0) /\ ~(0 > 0)
      OBVIOUS
    <3> HIDE DEF lf, version
    <3> QED
      BY <1>1, <2>8, <3>1, <3>2 DEF R
  <2>9. CASE R <= Cut
    <3>1. lf = R /\ R \notin {-1, 0}
      <4>1. q < Cut /\ q + 1 = R /\ R # -1 /\ R # 0
        BY <1>2, <1>3, <1>4, <2>9
      <4> HIDE DEF q, lf
      <4> QED
        BY <2>6, <2>7, <4>1
    <3>2. found = LineFound(msg)
      BY <1>6, <2>3, <2>4 DEF LineFound, a
    <3>3. ASSUME l.version = Version PROVE version
      <4>1. Len(Version) = 8
        BY DEF Version
      <4>2. R - b = 10
        <5>1. Len(l.version) = 8
          BY <3>3, <4>1
        <5>2. R - 2 - b = 8
          BY <1>6, <5>1
        <5> QED
          BY <1>3, <1>4, <5>2
      <4>3. \A i \in 1 .. 8 : t[b + i] = Version[i]
        BY <1>3, <3>3, <4>1 DEF LineAt, Has, b
      <4>4. \A i \in 1 .. 7 : data[(b + 1) + i - 1] = Version[1 + i - 1]
        <5>1. \A i \in 1 .. 7 : /\ i \in 1 .. 8 /\ b + i \in 1 .. Cut
                                /\ (b + 1) + i - 1 = b + i /\ 1 + i - 1 = i
          BY <1>2, <1>3, <1>4, <2>9, <4>2
        <5> QED
          BY <4>3, <5>1
      <4> DEFINE x == b + 1
                 y == b + 7
                 u == SubSeq(data, x, y)
                 v == SubSeq(Version, 1, 7)
      <4>5. x \in Int /\ y \in Int /\ x <= y /\ y - x + 1 = 7 /\ 1 <= 7 /\ 7 - 1 + 1 = 7
        BY <1>4
      <4>6. /\ u \in Seq({data[i] : i \in x .. y}) /\ Len(u) = 7
            /\ \A i \in 1 .. 7 : u[i] = data[x + i - 1]
        <5> HIDE DEF x, y
        <5>1. /\ u \in Seq({data[i] : i \in x .. y})
              /\ Len(u) = IF x <= y THEN y - x + 1 ELSE 0
              /\ \A i \in 1 .. y - x + 1 : u[i] = data[x + i - 1]
          BY SMTT(40), <4>5, PartOf
        <5> HIDE DEF u
        <5> QED
          BY <4>5, <5>1
      <4>7. /\ v \in Seq({Version[i] : i \in 1 .. 7}) /\ Len(v) = 7
            /\ \A i \in 1 .. 7 : v[i] = Version[1 + i - 1]
        <5>1. /\ v \in Seq({Version[i] : i \in 1 .. 7})
              /\ Len(v) = IF 1 <= 7 THEN 7 - 1 + 1 ELSE 0
              /\ \A i \in 1 .. 7 - 1 + 1 : v[i] = Version[1 + i - 1]
          BY PartOf
        <5> HIDE DEF v
        <5> QED
          BY <4>5, <5>1
      <4>8. u = v
        <5>1. \A i \in 1 .. 7 : u[i] = v[i]
          <6> HIDE DEF u, v
          <6> QED
            BY <4>4, <4>6, <4>7 DEF x
        <5> HIDE DEF u, v
        <5>2. Len(u) = Len(v) /\ \A i \in 1 .. Len(v) : u[i] = v[i]
          BY <4>6, <4>7, <5>1
        <5>3. u \in Seq({data[i] : i \in x .. y}) /\ v \in Seq({Version[i] : i \in 1 .. 7})
          BY <4>6, <4>7
        <5> DEFINE X == {data[i] : i \in x .. y}
                   Y == {Version[i] : i \in 1 .. 7}
        <5>4. u \in Seq(X) /\ v \in Seq(Y)
          BY <5>3
        <5> HIDE DEF X, Y
        <5> QED
          BY <5>2, <5>4, SameSeq
      <4> QED
        BY <2>4, <3>1, <4>2, <4>8
    <3> HIDE DEF lf, version, found
    <3> QED
      BY <1>1, <2>9, <3>1, <3>2, <3>3 DEF R
  <2> QED
    BY <1>2, <1>3, <2>8, <2>9
<1> QED
  BY <1>2, <1>4, <1>9, <1>10

-----------------------------------------------------------------------------
(* The names of the headers. *)

\* Where a span ends, and where the value of the last header does.
Past(span) == span.from + span.len
Reach(h) == Past(h[Len(h)].value)

\* The fields among the first k whose names have no spaces.
Plain(m, k) == {j \in 1 .. k : " " \notin ToSet(m.fields[j].name)}

\* The headers h are named as some of these fields are, in the buffer d.
Named(m, h, d, k) ==
  \E pick \in [DOMAIN h -> Plain(m, k)] :
    /\ \A i, j \in DOMAIN h : i < j => pick[i] < pick[j]
    /\ \A i \in DOMAIN h :
         /\ Spells(d, h[i].name, m.fields[pick[i]].name)
         /\ End(m, 0) < h[i].name.from /\ Past(h[i].name) <= Reach(h)

\* A header that is made longer keeps the rest.
LEMMA Longer ==
  ASSUME NEW h \in Seq(Spans), h # <<>>, NEW d \in Nat
  PROVE  LET g == [h EXCEPT ![Len(h)].value.len = @ + d]
         IN  /\ g \in Seq(Spans) /\ Len(g) = Len(h) /\ DOMAIN g = DOMAIN h
             /\ Len(h) \in DOMAIN h /\ DOMAIN h = 1 .. Len(h) /\ Len(h) \in Nat
             /\ \A k \in DOMAIN h : /\ g[k].name = h[k].name
                                    /\ g[k].value.from = h[k].value.from
                                    /\ k # Len(h) => g[k] = h[k]
             /\ g[Len(h)].value.len = h[Len(h)].value.len + d
             /\ Reach(g) = Reach(h) + d /\ Reach(h) \in Int /\ Reach(g) \in Int
<1> DEFINE n == Len(h)
           r == h[n]
           x == [r EXCEPT !.value.len = @ + d]
           g == [h EXCEPT ![n] = x]
<1>1. n \in Nat /\ n \in 1 .. n /\ DOMAIN h = 1 .. n
  BY EmptySeq, LenProperties
<1>2. r \in Spans
  BY <1>1
<1>3. /\ x \in Spans /\ x.name = r.name /\ x.value.from = r.value.from
      /\ x.value.len = r.value.len + d
      /\ r.value.from \in Int /\ r.value.len \in Int
  <2>1. x = [r EXCEPT !.value.len = @ + d] /\ r \in Spans
    BY <1>2
  <2> HIDE DEF r, x
  <2>2. r = [name |-> r.name, value |-> r.value] /\ r.name \in Span /\ r.value \in Span
    BY <2>1 DEF Spans
  <2>3. /\ r.value = [from |-> r.value.from, len |-> r.value.len]
        /\ r.value.from \in Int /\ r.value.len \in Int /\ r.value.len + d \in Int
    BY <2>2 DEF Span
  <2>4. x = [name |-> r.name, value |-> [from |-> r.value.from, len |-> r.value.len + d]]
    BY <2>1, <2>2, <2>3
  <2> QED
    BY <2>2, <2>3, <2>4 DEF Spans, Span
<1>4. [h EXCEPT ![Len(h)].value.len = @ + d] = g
  OBVIOUS
<1> HIDE DEF x, r
<1>5. g \in Seq(Spans) /\ Len(g) = n /\ DOMAIN g = 1 .. n
      /\ \A k \in 1 .. n : g[k] = IF k = n THEN x ELSE h[k]
  BY <1>1, <1>3
<1> HIDE DEF g
<1>6. r = h[n]
  BY DEF r
<1>7. ASSUME NEW k \in 1 .. n
      PROVE  g[k].name = h[k].name /\ g[k].value.from = h[k].value.from /\ (k # n => g[k] = h[k])
  <2>1. CASE k = n
    BY <1>3, <1>5, <1>6, <2>1
  <2>2. CASE k # n
    BY <1>5, <2>2
  <2> QED
    BY <2>1, <2>2
<1>8. g[n] = x
  BY <1>1, <1>5
<1>9. Reach(g) = x.value.from + x.value.len /\ Reach(h) = r.value.from + r.value.len
  BY <1>5, <1>6, <1>8 DEF Reach, Past
<1>10. Reach(g) = Reach(h) + d /\ Reach(h) \in Int /\ Reach(g) \in Int
  <2> DEFINE a == r.value.from
             b == r.value.len
  <2>1. a \in Int /\ b \in Int /\ Reach(g) = a + (b + d) /\ Reach(h) = a + b
    BY <1>3, <1>9
  <2> HIDE DEF a, b
  <2> QED
    BY <2>1
<1> QED
  BY <1>1, <1>3, <1>4, <1>5, <1>6, <1>7, <1>8, <1>10

\* The last value ends before the line.
LEMMA ReachBefore ==
  ASSUME Shape, Under, headers # <<>>
  PROVE  Reach(headers) \in Int /\ Reach(headers) <= p1
<1> DEFINE n == Len(headers)
<1>1. headers \in Seq(Spans) /\ \A k \in DOMAIN headers : InBuffer(headers[k], p1)
  BY DEF Shape, Under
<1>2. n \in DOMAIN headers /\ headers[n] \in Spans
  <2>1. n \in 1 .. n /\ DOMAIN headers = 1 .. n
    BY <1>1, EmptySeq, LenProperties
  <2> QED
    BY <1>1, <2>1
<1>3. headers[n].value.from + headers[n].value.len <= p1
  BY <1>1, <1>2 DEF InBuffer
<1>4. headers[n].value.from \in Int /\ headers[n].value.len \in Int
  BY <1>2 DEF Spans, Span
<1> QED
  BY <1>3, <1>4 DEF Reach, Past

\* What a continuation line does to the buffer and to the last header.
LEMMA FoldDoes ==
  ASSUME Shape, Under, headers # <<>>, 0 < Reach(headers),
         NEW e \in Nat, p1 < e, e <= Cut, Fold(e)
  PROVE  LET n == IF copy = "server" THEN e - p1 - 2 ELSE e - p1 - 1
             d == IF n > 0 THEN n ELSE 0
         IN  /\ d \in Nat /\ headers' = [headers EXCEPT ![Len(headers)].value.len = @ + d]
             /\ Cut' = Cut /\ DOMAIN data' = 1 .. Cut
             /\ \A i \in 1 .. Cut : i < Reach(headers) \/ e <= i => data'[i] = data[i]
             /\ copy = "server" => \A i \in 1 .. d : data'[Reach(headers) + i - 1] = data[p1 + i]
<1> DEFINE n == IF copy = "server" THEN e - p1 - 2 ELSE e - p1 - 1
           d == IF n > 0 THEN n ELSE 0
           to == Reach(headers)
<1>1. /\ Cut \in Nat /\ p1 \in 1 .. Cut + 1 /\ DOMAIN data = 1 .. Cut /\ IsSeq(data)
      /\ to \in Int /\ to <= p1 /\ headers \in Seq(Spans)
  BY ShapeCut, ReachBefore DEF Shape, Under
<1>2. p1 \in Int /\ n \in Int /\ d \in Nat
  BY <1>1
<1>3. /\ headers' = [headers EXCEPT ![Len(headers)].value.len = @ + d]
      /\ data' = IF copy = "runtime" THEN data
                 ELSE [k \in DOMAIN data |->
                         IF k \in to .. to + n - 1 THEN data[p1 + 1 + k - to] ELSE data[k]]
  BY DEF Fold, Reach, Past
<1>4. CASE copy = "runtime"
  BY <1>1, <1>2, <1>3, <1>4 DEF Cut
<1>5. CASE copy = "server"
  <2>0. data' = [k \in 1 .. Cut |->
                   IF k \in to .. to + n - 1 THEN data[p1 + 1 + k - to] ELSE data[k]]
    BY <1>1, <1>3, <1>5
  <2>1. n = e - p1 - 2
    BY <1>5
  <2> HIDE DEF n, d, to
  <2>2. /\ DOMAIN data' = 1 .. Cut
        /\ \A k \in 1 .. Cut :
             data'[k] = IF k \in to .. to + n - 1 THEN data[p1 + 1 + k - to] ELSE data[k]
    BY <2>0
  <2>3. Cut' = Cut
    <3>1. data' = [k \in 1 .. Cut |-> data'[k]]
      BY <2>0
    <3> QED
      BY <1>1, <3>1, SeqByLength DEF Cut
  <2>4. ASSUME NEW i \in 1 .. Cut, i < to \/ e <= i PROVE data'[i] = data[i]
    <3>1. i \notin to .. to + n - 1
      BY <1>1, <1>2, <2>1, <2>4
    <3> QED
      BY <2>2, <3>1
  <2>5. ASSUME NEW i \in 1 .. d PROVE data'[to + i - 1] = data[p1 + i]
    <3> DEFINE k == to + i - 1
    <3>1. d = n /\ i \in 1 .. n
      BY <1>2, <2>5 DEF d
    <3>2. k \in to .. to + n - 1 /\ p1 + 1 + k - to = p1 + i /\ k \in Int /\ k <= Cut
      BY <1>1, <1>2, <2>1, <3>1
    <3> HIDE DEF k
    <3>3. k \in 1 .. Cut
      <4>1. 0 < to
        BY DEF to
      <4> HIDE DEF k
      <4> QED
        BY <1>1, <3>2, <4>1
    <3> QED
      BY <2>2, <3>2, <3>3 DEF k
  <2> QED
    BY <1>2, <1>3, <1>5, <2>2, <2>3, <2>4, <2>5 DEF to, d, n
<1> QED
  BY <1>4, <1>5 DEF Shape

\* A span spells what it did if its characters are as they were.
LEMMA SpellsStill ==
  ASSUME NEW d, NEW g, NEW span, NEW u, Len(u) \in Nat, Len(d) \in Nat, Len(g) = Len(d),
         Spells(d, span, u),
         \A i \in 1 .. Len(d) : span.from <= i /\ i < Past(span) => g[i] = d[i]
  PROVE  Spells(g, span, u)
<1> DEFINE a == span.from
           n == Len(u)
           D == Len(d)
<1>1. /\ a \in Int /\ span.len = n /\ n \in Nat /\ D \in Nat
      /\ a - 1 \in Nat /\ (a - 1) + n <= D
      /\ \A i \in 1 .. n : d[(a - 1) + i] = u[i]
  BY DEF Spells, Has
<1>2. Past(span) = a + n
  BY <1>1 DEF Past
<1> HIDE DEF a, n, D
<1>3. ASSUME NEW i \in 1 .. n PROVE g[(a - 1) + i] = u[i]
  <2> DEFINE j == (a - 1) + i
  <2>1. j \in 1 .. D /\ a <= j /\ j < a + n
    BY <1>1
  <2> HIDE DEF j
  <2>2. g[j] = d[j]
    BY <1>2, <2>1 DEF a, D
  <2> QED
    BY <1>1, <2>2 DEF j
<1>4. Has(g, a - 1, u)
  BY <1>1, <1>3 DEF Has, n, D
<1> QED
  BY <1>1, <1>4 DEF Spells, a, n

\* The length of the name of a field.
LEMMA NameLength ==
  ASSUME NEW m, Laid(m), NEW k \in 0 .. Len(m.fields), NEW j \in Plain(m, k)
  PROVE  j \in 1 .. Len(m.fields) /\ Len(m.fields[j].name) \in Nat \ {0}
<1>1. Len(m.fields) \in Nat /\ j \in 1 .. k
  BY DEF Laid, Plain
<1>2. j \in 1 .. Len(m.fields)
  BY <1>1
<1> QED
  BY <1>2, FieldPlaces

\* A header's name is in front of the reach, behind the request line.
LEMMA NamedReach ==
  ASSUME NEW m, Laid(m), NEW k \in 0 .. Len(m.fields), NEW h \in Seq(Spans), NEW d,
         h # <<>>, Reach(h) \in Int, Named(m, h, d, k)
  PROVE  End(m, 0) < Reach(h) /\ 0 < Reach(h)
<1>1. PICK pick \in [DOMAIN h -> Plain(m, k)] :
        \A i \in DOMAIN h :
          /\ Spells(d, h[i].name, m.fields[pick[i]].name)
          /\ End(m, 0) < h[i].name.from /\ Past(h[i].name) <= Reach(h)
  BY DEF Named
<1>2. 1 \in DOMAIN h
  <2>1. DOMAIN h = 1 .. Len(h) /\ Len(h) \in Nat /\ Len(h) # 0
    BY EmptySeq, LenProperties
  <2> QED
    BY <2>1
<1> DEFINE a == h[1].name.from
           n == Len(m.fields[pick[1]].name)
<1>3. n \in Nat \ {0}
  BY <1>1, <1>2, NameLength
<1>4. a \in Int /\ h[1].name.len = n /\ End(m, 0) < a /\ h[1].name.from + h[1].name.len <= Reach(h)
  BY <1>1, <1>2 DEF Spells, Past
<1>5. End(m, 0) \in Nat
  <2>1. 0 \in 0 .. Len(m.fields)
    BY DEF Laid
  <2> QED
    BY <2>1 DEF Laid
<1>6. a + n <= Reach(h)
  BY <1>4
<1> HIDE DEF a, n
<1> QED
  BY <1>3, <1>4, <1>5, <1>6

\* A continuation line leaves the names as they are, and the request line.
LEMMA NamedFold ==
  ASSUME Shape, Under, headers # <<>>, NEW e \in Nat, p1 < e, e <= Cut, Fold(e),
         Laid(msg), NEW k \in 0 .. Len(msg.fields), Named(msg, headers, data, k)
  PROVE  /\ Named(msg, headers', data', k)
         /\ Cut' = Cut
         /\ \A i \in 1 .. Cut : i <= End(msg, 0) \/ e <= i => data'[i] = data[i]
<1> DEFINE n == IF copy = "server" THEN e - p1 - 2 ELSE e - p1 - 1
           d == IF n > 0 THEN n ELSE 0
           h == headers
           g == headers'
           R == Reach(h)
<1>1. Cut \in Nat /\ Len(data) = Cut /\ h \in Seq(Spans) /\ R \in Int
  BY ShapeCut, ReachBefore DEF Shape, Cut
<1>2. End(msg, 0) < R /\ 0 < R /\ End(msg, 0) \in Nat
  <2>1. 0 \in 0 .. Len(msg.fields)
    BY DEF Laid
  <2>2. End(msg, 0) \in Nat
    BY <2>1 DEF Laid
  <2> QED
    BY <1>1, <2>2, NamedReach
<1>3. /\ d \in Nat /\ g = [h EXCEPT ![Len(h)].value.len = @ + d]
      /\ Cut' = Cut
      /\ \A i \in 1 .. Cut : i < R \/ e <= i => data'[i] = data[i]
  BY <1>2, FoldDoes
<1> HIDE DEF d
<1>4. /\ DOMAIN g = DOMAIN h
      /\ \A i \in DOMAIN h : g[i].name = h[i].name
      /\ Reach(g) = R + d /\ Reach(g) \in Int
  BY <1>1, <1>3, Longer
<1> HIDE DEF h, g, R
<1>5. PICK pick \in [DOMAIN h -> Plain(msg, k)] :
        /\ \A i, j \in DOMAIN h : i < j => pick[i] < pick[j]
        /\ \A i \in DOMAIN h :
             /\ Spells(data, h[i].name, msg.fields[pick[i]].name)
             /\ End(msg, 0) < h[i].name.from /\ Past(h[i].name) <= R
  BY DEF Named, h, R
<1>6. ASSUME NEW i \in DOMAIN h
      PROVE  /\ Spells(data', h[i].name, msg.fields[pick[i]].name)
             /\ Past(h[i].name) <= Reach(g)
  <2> DEFINE x == h[i].name
             u == msg.fields[pick[i]].name
  <2>1. Spells(data, x, u) /\ Past(x) <= R /\ pick[i] \in Plain(msg, k)
    BY <1>5
  <2>2. Len(u) \in Nat
    BY <2>1, NameLength
  <2> HIDE DEF x, u
  <2>3. Past(x) \in Int
    BY <2>1, <2>2 DEF Spells, Past
  <2>4. \A j \in 1 .. Cut : x.from <= j /\ j < Past(x) => data'[j] = data[j]
    <3>1. \A j \in 1 .. Cut : j < Past(x) => j < R
      BY <1>1, <2>1, <2>3
    <3> QED
      BY <1>3, <3>1
  <2>5. Len(data') = Len(data)
    BY <1>1, <1>3 DEF Cut
  <2>6. Spells(data', x, u)
    BY <1>1, <2>1, <2>2, <2>4, <2>5, SpellsStill
  <2>7. Past(x) <= Reach(g)
    BY <1>1, <1>3, <1>4, <2>1, <2>3
  <2> QED
    BY <2>6, <2>7 DEF x, u
<1>7. Named(msg, g, data', k)
  BY <1>4, <1>5, <1>6 DEF Named
<1>8. \A i \in 1 .. Cut : i <= End(msg, 0) \/ e <= i => data'[i] = data[i]
  <2>1. \A i \in 1 .. Cut : i <= End(msg, 0) => i < R
    BY <1>1, <1>2
  <2> QED
    BY <1>3, <2>1
<1> QED
  BY <1>3, <1>7, <1>8 DEF g

\* A line of a field in the buffer.
LEMMA NameRead ==
  ASSUME Shape, Under, Laid(msg), NEW k \in 1 .. Len(msg.fields),
         NEW o, o = End(msg, k - 1), p1 = o + 1, Half(msg, k) <= Cut,
         \A i \in p1 .. Cut : data[i] = msg.text[i]
  PROVE  LET c == Colon(o, msg.fields[k])
             e == Half(msg, k)
             name == msg.fields[k].name
             s == [from |-> p1, len |-> c - p1]
         IN  /\ s \in Span /\ Spells(data, s, name) /\ Past(s) = c /\ Text(s) = name
             /\ SubSeq(data, p1, c - 1) = name
             /\ c \in p1 .. Cut /\ c \in 1 .. Cut /\ e \in c + 1 .. Cut
             /\ data[c] = ":" /\ data[e - 1] = "CR"
<1> DEFINE f == msg.fields[k]
           name == f.name
           c == Colon(o, f)
           e == Half(msg, k)
           s == [from |-> p1, len |-> c - p1]
           N == Len(name)
           t == msg.text
<1>1. Cut \in Nat /\ Len(data) = Cut
  BY ShapeCut DEF Cut
<1>2. /\ FieldForm(f) /\ N \in Nat \ {0} /\ o \in Nat /\ e \in Nat
      /\ FirstAt(t, o, f) /\ ColonLine(t, o + 1, c, e)
  BY FieldPlaces
<1>3. c = o + N + 1 /\ e <= Cut
  BY DEF Colon
<1>4. Has(t, o, name)
  BY <1>2 DEF FirstAt
<1>5. /\ c \in o + 1 .. e - 2 /\ t[c] = ":" /\ t[e - 1] = "CR"
  BY <1>2 DEF ColonLine
<1>0. p1 = o + 1
  OBVIOUS
<1> HIDE DEF c, e, N
<1>60. c \in Int /\ N \in Nat /\ N > 0 /\ o \in Nat /\ e \in Nat /\ Cut \in Nat /\ p1 \in Int
  BY <1>0, <1>1, <1>2, <1>5
<1>61. c <= e - 2 /\ c = o + N + 1 /\ p1 = o + 1 /\ e <= Cut
  BY <1>0, <1>2, <1>3, <1>5
<1>6. /\ c \in Nat /\ c \in p1 .. Cut /\ c \in 1 .. Cut /\ e \in c + 1 .. Cut /\ e - 1 \in p1 .. Cut
      /\ c - p1 = N /\ p1 - 1 = o /\ p1 \in Int /\ p1 + (c - p1) = c /\ p1 + (c - p1) - 1 = c - 1
      /\ o + N <= Cut
  BY ONLY <1>60, <1>61
<1>7. data[c] = ":" /\ data[e - 1] = "CR"
  BY <1>5, <1>6
<1>8. Has(data, o, name)
  <2>1. \A i \in 1 .. N : t[o + i] = name[i]
    BY <1>4 DEF Has, N
  <2>2. \A i \in 1 .. N : o + i \in p1 .. Cut
    BY ONLY <1>60, <1>61, <1>6
  <2>3. \A i \in 1 .. N : data[o + i] = name[i]
    BY <2>1, <2>2
  <2> QED
    BY <1>1, <1>2, <1>6, <2>3 DEF Has, N
<1>9. s.from = p1 /\ s.len = c - p1
  OBVIOUS
<1>10. s \in Span
  BY <1>6 DEF Span
<1> HIDE DEF s
<1>11. Spells(data, s, name) /\ Past(s) = c
  BY <1>6, <1>8, <1>9 DEF Spells, Past, N
<1>12. SubSeq(data, s.from, s.from + s.len - 1) = name
  <2>1. name \in Seq(Letters)
    BY <1>2 DEF FieldForm
  <2> QED
    BY <1>11, <2>1, TextIs
<1>13. Text(s) = name /\ SubSeq(data, p1, c - 1) = name
  BY <1>6, <1>9, <1>12 DEF Text
<1> QED
  BY <1>6, <1>7, <1>10, <1>11, <1>13 DEF s, c, e

\* A header that is stored is named as its field.
LEMMA NamedStore ==
  ASSUME Shape, Under, Laid(msg), NEW k \in 1 .. Len(msg.fields),
         NEW o, o = End(msg, k - 1), p1 = o + 1, Half(msg, k) <= Cut,
         \A i \in p1 .. Cut : data[i] = msg.text[i],
         headers' = Store(Colon(o, msg.fields[k]), Half(msg, k)),
         Named(msg, headers, data, k - 1)
  PROVE  Named(msg, headers', data, k)
<1> DEFINE c == Colon(o, msg.fields[k])
           e == Half(msg, k)
           name == msg.fields[k].name
           s == [from |-> p1, len |-> c - p1]
           v == Value(c, e)
           h == headers
           x == Header(c, e)
           g == Append(h, x)
<1>1. /\ s \in Span /\ Spells(data, s, name) /\ Past(s) = c
      /\ SubSeq(data, p1, c - 1) = name
      /\ c \in p1 .. Cut /\ c \in 1 .. Cut /\ e \in c + 1 .. Cut
      /\ data[c] = ":" /\ data[e - 1] = "CR"
  BY NameRead
<1>2. v \in Span /\ c < v.from + v.len
  <2> HIDE DEF c, e
  <2> QED
    BY <1>1, ValueShape
<1>3. Cut \in Nat /\ p1 \in 1 .. Cut + 1 /\ h \in Seq(Spans)
  BY ShapeCut DEF Shape, Under
<1>4. Len(msg.fields) \in Nat /\ End(msg, 0) \in Nat /\ End(msg, 0) <= o /\ o \in Nat
  <2>1. /\ Len(msg.fields) \in Nat /\ \A i \in 0 .. Len(msg.fields) : End(msg, i) \in Nat
        /\ \A i, j \in 0 .. Len(msg.fields) : i <= j => End(msg, i) <= End(msg, j)
    BY DEF Laid
  <2>2. 0 \in 0 .. Len(msg.fields) /\ k - 1 \in 0 .. Len(msg.fields) /\ 0 <= k - 1
    BY <2>1
  <2> QED
    BY <2>1, <2>2
<1>5. x = [name |-> s, value |-> v]
  BY DEF Header
<1>6. headers' = g \/ headers' = h
  BY DEF Store
<1>7. headers' # h => is_token(name)
  BY <1>1 DEF Store
<1>0. h = headers /\ name = msg.fields[k].name
  OBVIOUS
<1> HIDE DEF c, e, s, v, x, g, h, name
<1>8. PICK pick \in [DOMAIN h -> Plain(msg, k - 1)] :
        /\ \A i, j \in DOMAIN h : i < j => pick[i] < pick[j]
        /\ \A i \in DOMAIN h :
             /\ Spells(data, h[i].name, msg.fields[pick[i]].name)
             /\ End(msg, 0) < h[i].name.from /\ Past(h[i].name) <= Reach(h)
  BY <1>0 DEF Named
<1>9. \A j \in Plain(msg, k - 1) : j \in Plain(msg, k) /\ j < k
  <2>1. \A j \in 1 .. k - 1 : j \in 1 .. k /\ j < k
    BY <1>4
  <2> QED
    BY <2>1 DEF Plain
<1>10. CASE headers' = h
  <2>1. pick \in [DOMAIN h -> Plain(msg, k)]
    BY <1>9
  <2> QED
    BY <1>8, <1>10, <2>1 DEF Named
<1>11. CASE headers' = g /\ is_token(name)
  <2> DEFINE n == Len(h)
             p == [i \in 1 .. n + 1 |-> IF i = n + 1 THEN k ELSE pick[i]]
  <2>1. x \in Spans /\ x.name = s /\ x.value = v
    BY <1>1, <1>2, <1>5 DEF Spans
  <2>2. /\ n \in Nat /\ DOMAIN h = 1 .. n /\ g \in Seq(Spans) /\ Len(g) = n + 1
        /\ DOMAIN g = 1 .. n + 1 /\ g[n + 1] = x /\ \A i \in 1 .. n : g[i] = h[i]
    BY <1>3, <2>1, AppendProperties, LenProperties DEF g
  <2>3. k \in Plain(msg, k)
    <3>1. " " \notin ToSet(name)
      <4>1. \A i \in DOMAIN name : name[i] # " "
        BY <1>11 DEF is_token, Blank
      <4> QED
        BY <4>1 DEF ToSet
    <3>2. k \in 1 .. k
      BY <1>4
    <3> QED
      BY <1>0, <3>1, <3>2 DEF Plain
  <2>4. Reach(g) = v.from + v.len /\ Reach(g) \in Int /\ c < Reach(g)
    <3>1. v.from \in Int /\ v.len \in Int
      BY <1>2 DEF Span
    <3>2. Reach(g) = v.from + v.len
      BY <2>1, <2>2 DEF Reach, Past
    <3> QED
      BY <1>2, <3>1, <3>2
  <2> HIDE DEF n
  <2>5. p \in [1 .. n + 1 -> Plain(msg, k)]
    <3>1. \A i \in 1 .. n + 1 : i # n + 1 => i \in 1 .. n
      BY <2>2
    <3>2. \A i \in 1 .. n + 1 : (IF i = n + 1 THEN k ELSE pick[i]) \in Plain(msg, k)
      BY <1>8, <1>9, <2>2, <2>3, <3>1
    <3> QED
      BY <3>2
  <2>6. p[n + 1] = k /\ \A i \in 1 .. n : p[i] = pick[i]
    <3>1. n + 1 \in 1 .. n + 1 /\ \A i \in 1 .. n : i \in 1 .. n + 1 /\ i # n + 1
      BY <2>2
    <3> QED
      BY <3>1
  <2> HIDE DEF p
  <2>7. ASSUME NEW i \in 1 .. n + 1, NEW j \in 1 .. n + 1, i < j PROVE p[i] < p[j]
    <3>1. i \in 1 .. n /\ (j = n + 1 \/ j \in 1 .. n)
      BY <2>2, <2>7
    <3>2. CASE j = n + 1
      <4>1. pick[i] \in Plain(msg, k - 1)
        BY <1>8, <2>2, <3>1
      <4> QED
        BY <1>9, <2>6, <3>1, <3>2, <4>1
    <3>3. CASE j \in 1 .. n
      BY <1>8, <2>2, <2>6, <2>7, <3>1, <3>3
    <3> QED
      BY <3>1, <3>2, <3>3
  <2>8. ASSUME NEW i \in 1 .. n + 1
        PROVE  /\ Spells(data, g[i].name, msg.fields[p[i]].name)
               /\ End(msg, 0) < g[i].name.from /\ Past(g[i].name) <= Reach(g)
    <3>1. CASE i = n + 1
      <4>1. g[i].name = s /\ p[i] = k
        BY <2>1, <2>2, <2>6, <3>1
      <4>2. s.from = p1 /\ End(msg, 0) < p1
        <5>1. End(msg, 0) < o + 1
          BY <1>4
        <5> QED
          BY <5>1 DEF s
      <4>3. c <= Reach(g)
        BY <1>1, <2>4
      <4> QED
        BY <1>0, <1>1, <4>1, <4>2, <4>3
    <3>2. CASE i # n + 1
      <4>1. i \in 1 .. n
        BY <2>2, <3>2
      <4>2. g[i] = h[i] /\ p[i] = pick[i] /\ i \in DOMAIN h
        BY <2>2, <2>6, <4>1
      <4>3. Reach(h) \in Int /\ Reach(h) <= p1
        <5>1. h # <<>>
          BY <4>2
        <5> QED
          BY <5>1, ReachBefore DEF h
      <4>4. Reach(h) <= Reach(g)
        BY <1>1, <1>3, <2>4, <4>3
      <4>5. Past(h[i].name) \in Int
        <5>1. h[i] \in Spans
          BY <1>3, <4>2
        <5> QED
          BY <5>1 DEF Spans, Span, Past
      <4>6. Past(h[i].name) <= Reach(h)
        BY <1>8, <4>2
      <4>7. Past(h[i].name) <= Reach(g)
        BY <2>4, <4>3, <4>4, <4>5, <4>6
      <4> QED
        BY <1>8, <4>2, <4>7
    <3> QED
      BY <3>1, <3>2
  <2> QED
    BY <1>11, <2>2, <2>5, <2>7, <2>8 DEF Named
<1> QED
  BY <1>6, <1>7, <1>10, <1>11

-----------------------------------------------------------------------------
(* The names of the headers and what a part is answered with. *)

\* What CutNeverAnswered calls the ends of lines are stops.
LEMMA LineEndsStop ==
  ASSUME msg \in Requests
  PROVE  LineEnds \subseteq Stops(msg)
<1> DEFINE Q == Seq(Letters)
           fs == msg.fields
           a == LineText(msg.line)
           U == FieldTexts(msg)
           D == Len(fs)
           B(n) == [k \in 1 .. n |-> FieldText(fs[k])]
<1>1. D \in Nat /\ DOMAIN fs = 1 .. D /\ Laid(msg)
  BY RequestLaid DEF Laid
<1>2. \A k \in 1 .. D : FieldForm(fs[k]) /\ FieldText(fs[k]) \in Q
  <2>1. \A k \in 1 .. D : fs[k] \in Fields /\ FieldForm(fs[k])
    BY <1>1 DEF Laid, LaidField
  <2> QED
    BY <2>1, FieldTextIn
<1>3. a \in Q
  <2>1. msg.line \in Lines \cup {StdLine}
    BY RequestForm
  <2> QED
    BY <2>1, LineTextIn
<1>4. U \in Seq(Q) /\ Len(U) = D /\ \A k \in 1 .. D : U[k] = FieldText(fs[k])
  <2> HIDE DEF Q, fs
  <2>1. U = [k \in 1 .. D |-> FieldText(fs[k])]
    BY <1>1 DEF FieldTexts, fs
  <2> HIDE DEF U
  <2>2. U \in [1 .. D -> Q]
    BY <1>2, <2>1
  <2> QED
    BY <1>1, <2>1, <2>2
<1>5. ASSUME NEW n \in 0 .. D
      PROVE  a \o Concat(B(n)) \in Q /\ Len(a \o Concat(B(n))) = End(msg, n)
  <2>0. n \in Nat /\ \A k \in 1 .. n : k \in 1 .. D
    BY <1>1
  <2>1. B(n) \in [1 .. n -> Q]
    <3> HIDE DEF Q, fs
    <3> QED
      BY <1>2, <2>0
  <2>2. B(n) \in Seq(Q) /\ Len(B(n)) = n
    <3> HIDE DEF Q
    <3> QED
      BY <2>0, <2>1
  <2>3. \A k \in 1 .. n : B(n)[k] = U[k]
    BY <1>4, <2>0
  <2>4. Concat(B(n)) = Concats(U)[n]
    <3> DEFINE b == B(n)
    <3> HIDE DEF b, U, D, fs, B
    <3>1. /\ U \in Seq(Seq(Letters)) /\ b \in Seq(Seq(Letters)) /\ n \in 0 .. Len(U)
          /\ Len(b) = n /\ \A k \in 1 .. n : b[k] = U[k]
      BY <1>4, <2>2, <2>3 DEF b
    <3> HIDE DEF Q
    <3> QED
      BY <3>1, ConcatOfFirst DEF b
  <2>5. Concat(B(n)) \in Q
    BY <2>0, <2>1, ConcatIn
  <2>6. a \o Concat(B(n)) \in Q /\ Len(a \o Concat(B(n))) = Len(a) + Len(Concat(B(n)))
    <3> HIDE DEF a, B
    <3> QED
      BY <1>3, <2>5, HasJoin
  <2> QED
    BY <2>4, <2>6 DEF End, EndOf
<1>6. ASSUME NEW n \in 0 .. D
      PROVE  Len(a \o Concat(B(n))) \in Stops(msg)
  <2>1. End(msg, n) \in Stops(msg)
    BY DEF Stops
  <2> QED
    BY <1>5, <2>1
<1>7. ASSUME NEW n \in DOMAIN fs
      PROVE  Len(a \o Concat(B(n - 1)) \o FirstLine(fs[n])) \in Stops(msg)
  <2>1. n \in 1 .. D /\ n - 1 \in 0 .. D
    BY <1>1
  <2>2. /\ FirstLine(fs[n]) \in Q /\ Len(FirstLine(fs[n])) = FirstLen(fs[n])
    <3>1. FieldForm(fs[n])
      BY <1>2, <2>1
    <3>2. /\ FirstLine(fs[n]) \in Q
          /\ Len(FirstLine(fs[n]))
               = Len(fs[n].name) + 1 + fs[n].pad + Len(fs[n].value) + fs[n].pad + 2
      <4> HIDE DEF fs
      <4> QED
        BY <3>1, FirstLineHas
    <3> QED
      BY <3>2 DEF FirstLen
  <2>3. a \o Concat(B(n - 1)) \in Q /\ Len(a \o Concat(B(n - 1))) = End(msg, n - 1)
    BY <1>5, <2>1
  <2>4. Len(a \o Concat(B(n - 1)) \o FirstLine(fs[n])) = End(msg, n - 1) + FirstLen(fs[n])
    <3> DEFINE x == a \o Concat(B(n - 1))
               y == FirstLine(fs[n])
    <3> HIDE DEF x, y, Q
    <3>1. x \in Q /\ y \in Q
      BY <2>2, <2>3 DEF x, y
    <3>2. Len(x \o y) = Len(x) + Len(y)
      BY <3>1, HasJoin DEF Q
    <3> QED
      BY <2>2, <2>3, <3>2 DEF x, y
  <2>5. Half(msg, n) \in Stops(msg)
    BY <2>1 DEF Stops
  <2> QED
    BY <2>4, <2>5 DEF Half
<1>8. LineEnds = {Len(a \o Concat(B(n))) : n \in 0 .. D}
                   \cup {Len(a \o Concat(B(n - 1)) \o FirstLine(fs[n])) : n \in DOMAIN fs}
  BY DEF LineEnds
<1> HIDE DEF a, B, D, fs
<1> QED
  BY <1>6, <1>7, <1>8

\* The colons of the continuations, by their places.
LEMMA FoldColons ==
  ASSUME Laid(msg), ColonsInFolds
  PROVE  Colons(msg)
<1> SUFFICES ASSUME NEW k \in 1 .. Len(msg.fields), msg.fields[k].fold # <<>>
             PROVE  \E i \in 1 .. Len(msg.fields[k].fold) : msg.fields[k].fold[i] = ":"
  BY DEF Colons
<1> DEFINE w == msg.fields[k].fold
<1>1. DOMAIN msg.fields = 1 .. Len(msg.fields)
  BY DEF Laid
<1>2. ":" \in ToSet(w)
  BY <1>1 DEF ColonsInFolds
<1>3. w \in Seq(Letters)
  BY FieldPlaces DEF FieldForm
<1> HIDE DEF w
<1>4. DOMAIN w = 1 .. Len(w)
  BY <1>3
<1>5. ToSet(w) = {w[i] : i \in DOMAIN w}
  BY DEF ToSet
<1> QED
  BY <1>2, <1>4, <1>5 DEF w

\* Of the fields up to a later one, too.
LEMMA NamedMore ==
  ASSUME NEW m, NEW h, NEW d, NEW j \in Int, NEW k \in Int, j <= k, Named(m, h, d, j)
  PROVE  Named(m, h, d, k)
<1>1. Plain(m, j) \subseteq Plain(m, k)
  <2>1. \A i \in 1 .. j : i \in 1 .. k
    OBVIOUS
  <2> QED
    BY <2>1 DEF Plain
<1>2. [DOMAIN h -> Plain(m, j)] \subseteq [DOMAIN h -> Plain(m, k)]
  <2> HIDE DEF Plain
  <2> QED
    BY <1>1
<1> QED
  BY <1>2, Zenon DEF Named

\* No headers are named as they should be.
LEMMA NamedNone ==
  ASSUME NEW m, NEW d, NEW k
  PROVE  Named(m, <<>>, d, k)
<1> DEFINE e == [i \in {} |-> i]
<1>1. DOMAIN <<>> = {}
  OBVIOUS
<1>2. e \in [DOMAIN <<>> -> Plain(m, k)]
  BY <1>1
<1> HIDE DEF e
<1> QED
  BY <1>1, <1>2 DEF Named

\* Headers that are named as fields are what NamesInOrder says.
LEMMA NamedNames ==
  ASSUME Laid(msg), Named(msg, headers, data, Len(msg.fields))
  PROVE  NamesInOrder
<1> DEFINE D == Len(msg.fields)
           P == {k \in DOMAIN msg.fields : " " \notin ToSet(msg.fields[k].name)}
<1>1. DOMAIN msg.fields = 1 .. D
  BY DEF Laid
<1>2. P = Plain(msg, D)
  BY <1>1 DEF Plain
<1>3. PICK pick \in [DOMAIN headers -> Plain(msg, D)] :
        /\ \A i, j \in DOMAIN headers : i < j => pick[i] < pick[j]
        /\ \A i \in DOMAIN headers : Spells(data, headers[i].name, msg.fields[pick[i]].name)
  BY DEF Named
<1>4. ASSUME NEW i \in DOMAIN headers
      PROVE  Text(headers[i].name) = msg.fields[pick[i]].name
  <2> DEFINE u == msg.fields[pick[i]].name
  <2>1. pick[i] \in 1 .. D
    <3>1. pick[i] \in Plain(msg, D)
      BY <1>3
    <3> QED
      BY <3>1 DEF Plain
  <2>2. u \in Seq(Letters)
    BY <2>1, FieldPlaces DEF FieldForm
  <2>3. Spells(data, headers[i].name, u)
    BY <1>3
  <2> HIDE DEF u
  <2>4. SubSeq(data, headers[i].name.from, headers[i].name.from + headers[i].name.len - 1) = u
    BY <2>2, <2>3, TextIs
  <2> QED
    BY <2>4 DEF Text, u
<1>5. pick \in [DOMAIN headers -> P]
  BY <1>2, <1>3
<1> HIDE DEF P
<1>6. \E q \in [DOMAIN headers -> P] :
        /\ \A i, j \in DOMAIN headers : i < j => q[i] < q[j]
        /\ \A i \in DOMAIN headers : Text(headers[i].name) = msg.fields[q[i]].name
  BY <1>3, <1>4, <1>5, Zenon
<1> QED
  BY <1>6 DEF NamesInOrder, P

-----------------------------------------------------------------------------
(* Every line of a request. *)

\* Between two lines, behind the k-th field or the first line of it: the rest is there as
\* it came, and so is the request line.
Reading(k) ==
  /\ At(msg, p1, k)
  /\ \A i \in 1 .. Cut : i <= End(msg, 0) \/ p1 <= i => data[i] = msg.text[i]
  /\ line = LineFound(msg)
  /\ Named(msg, headers, data, k)

\* A line that is there as a whole is taken, and the rest stays as it came.
LEMMA TakenDoes ==
  ASSUME Shape, phase = "header", Laid(msg), Cut <= Whole, NEW k, Reading(k),
         NEW c, NEW e, NEW j, Line(msg, p1, k, c, e, j), e <= Cut, Taken(c, e)
  PROVE  /\ Followed(e) /\ Cut' = Cut /\ j \in 0 .. Len(msg.fields) /\ At(msg, e + 1, j)
         /\ Named(msg, headers', data', j)
         /\ \A i \in 1 .. Cut : i <= End(msg, 0) \/ e + 1 <= i => data'[i] = msg.text[i]
<1> DEFINE D == Len(msg.fields)
           t == msg.text
<1>1. /\ Under /\ Cut \in Nat /\ p1 \in 1 .. Cut + 1
  BY ShapeCut DEF Shape, Under
<1>2. /\ c \in Nat /\ e \in Nat /\ p1 < e /\ e <= End(msg, D) /\ At(msg, e + 1, j) /\ k <= j
  BY DEF Line
<1>3. j \in 0 .. D /\ k \in 0 .. D /\ At(msg, p1, k)
  BY <1>2 DEF At, Reading
<1>4. D \in Nat /\ End(msg, 0) \in Nat
  <2>1. D \in Nat /\ \A i \in 0 .. D : End(msg, i) \in Nat
    BY DEF Laid
  <2>2. 0 \in 0 .. D
    BY <2>1
  <2> QED
    BY <2>1, <2>2
<1>5. \A i \in 1 .. Cut : i <= End(msg, 0) \/ p1 <= i => data[i] = t[i]
  BY DEF Reading
<1>6. data[p1] = t[p1] /\ p1 \in 1 .. Cut
  <2>1. p1 \in 1 .. Cut /\ p1 <= p1
    BY <1>1, <1>2
  <2> QED
    BY <1>5, <2>1
<1>7. Named(msg, headers, data, k)
  BY DEF Reading
<1>8. Named(msg, headers, data, j)
  <2>1. j \in Int /\ k \in Int
    BY <1>3
  <2> QED
    BY <1>2, <1>7, <2>1, NamedMore
<1>9. /\ Named(msg, headers', data', j) /\ Cut' = Cut
      /\ \A i \in 1 .. Cut : i <= End(msg, 0) \/ e <= i => data'[i] = data[i]
  <2>1. CASE data[p1] \notin Blank /\ headers' = Store(c, e) /\ UNCHANGED data
    <3>1. j = k + 1 /\ p1 = End(msg, k) + 1 /\ c = Colon(End(msg, k), msg.fields[j]) /\ e = Half(msg, j)
      BY <1>6, <2>1 DEF Line
    <3>2. j \in 1 .. D /\ k = j - 1
      BY <1>3, <1>4, <3>1
    <3>3. \A i \in p1 .. Cut : data[i] = t[i]
      BY <1>1, <1>5
    <3>4. Named(msg, headers', data, j)
      <4> DEFINE o == End(msg, j - 1)
      <4>1. /\ o = End(msg, j - 1) /\ p1 = o + 1 /\ Half(msg, j) <= Cut
            /\ headers' = Store(Colon(o, msg.fields[j]), Half(msg, j))
            /\ Named(msg, headers, data, j - 1)
        BY <1>7, <2>1, <3>1, <3>2
      <4> HIDE DEF o, D
      <4> QED
        BY <1>1, <3>2, <3>3, <4>1, NamedStore DEF D
    <3> QED
      BY <2>1, <3>4 DEF Cut
  <2>2. CASE headers # <<>> /\ Fold(e)
    BY <1>1, <1>2, <1>3, <1>8, <2>2, NamedFold
  <2>3. CASE UNCHANGED <<data, headers>>
    BY <1>8, <2>3 DEF Cut
  <2> QED
    BY <2>1, <2>2, <2>3 DEF Taken
<1>10. \A i \in 1 .. Cut : i <= End(msg, 0) \/ e + 1 <= i => data'[i] = t[i]
  <2>1. ASSUME NEW i \in 1 .. Cut, i <= End(msg, 0) \/ e + 1 <= i
        PROVE  (i <= End(msg, 0) \/ e <= i) /\ (i <= End(msg, 0) \/ p1 <= i)
    BY <1>1, <1>2, <2>1
  <2> QED
    BY <1>5, <1>9, <2>1
<1>11. Followed(e)
  <2>1. After(e, IF copy = "server" THEN e + 2 ELSE e)
    BY DEF Taken
  <2>2. \A i \in e + 1 .. Cut : data[i] = t[i]
    <3>1. ASSUME NEW i \in e + 1 .. Cut PROVE i \in 1 .. Cut /\ p1 <= i
      BY <1>1, <1>2
    <3> QED
      BY <1>5, <3>1
  <2>3. e \in Nat \ {0}
    BY <1>1, <1>2
  <2> QED
    BY <1>2, <2>1, <2>2, <2>3, AfterLine
<1> QED
  BY <1>2, <1>3, <1>9, <1>10, <1>11

\* What a step that ends the parse of a part may answer.
LEMMA Unanswered ==
  ASSUME UNCHANGED <<msg, copy>>, Cut' = Cut, Cut \in Nat,
         \/ Cut = Whole
         \/ msg.line.version # Version
         \/ /\ outcome' # "error"
            /\ copy = "server" => outcome' # "ok"
            /\ Cut \in LineEnds /\ ColonsInFolds => outcome' # "overrun"
  PROVE  CutNeverAnswered'
<1>1. Whole' = Whole /\ Cut' = Cut /\ copy' = copy /\ msg' = msg
  BY DEF Whole
<1>2. LineEnds' = LineEnds
  BY DEF LineEnds
<1>3. ColonsInFolds' = ColonsInFolds
  BY DEF ColonsInFolds
<1> QED
  BY <1>1, <1>2, <1>3 DEF CutNeverAnswered

\* The parse of a request: what it has found, and how it ends.
RequestInv ==
  /\ phase # "chunked" /\ Cut <= Whole
  /\ phase = "line" => headers = <<>> /\ \A i \in 1 .. Cut : data[i] = msg.text[i]
  /\ phase = "header" => \E k : Reading(k)
  /\ phase = "end" => CutNeverAnswered /\ Named(msg, headers, data, Len(msg.fields))

\* The same whatever the message, which may be a chunked body.
Asked == msg \in Requests \cup Bodies /\ (msg \in Requests => RequestInv)

\* A message of this kind is a request.
LEMMA RequestKind ==
  ASSUME NEW m \in Requests \cup Bodies
  PROVE  m \in Requests <=> m.kind = "request"
<1>1. ASSUME m \in Requests PROVE m.kind = "request"
  BY <1>1, SMTT(30) DEF Requests
<1>2. ASSUME m \in Bodies PROVE m.kind = "chunked"
  <2>1. PICK cs \in BoundedSeq(Chunks, MaxChunks) :
          m = [kind |-> "chunked", chunks |-> Append(cs, LastChunk),
               text |-> Concat([k \in DOMAIN cs |-> ChunkText(cs[k])]) \o ChunkText(LastChunk)]
    BY <1>2 DEF Bodies
  <2> QED
    BY <2>1
<1> QED
  BY <1>1, <1>2

\* A parse begins with a request that is not looked at yet.
LEMMA AskedInit == ASSUME Init PROVE Asked
<1> SUFFICES ASSUME msg \in Requests PROVE RequestInv
  BY DEF Init, Asked
<1>1. msg.kind = "request"
  BY RequestKind
<1>2. phase = "line" /\ headers = <<>>
  BY <1>1 DEF Init
<1>3. PICK cut \in 0 .. Len(msg.text) : data = SubSeq(msg.text, 1, cut)
  BY DEF Init
<1>4. Len(msg.text) \in Nat
  <2>1. msg.text \in Seq(Letters)
    BY TextIn
  <2> QED
    BY <2>1, LenProperties
<1>5. cut \in Int /\ 1 \in Int /\ cut - 1 + 1 = cut
  BY <1>3
<1>6. /\ Len(SubSeq(msg.text, 1, cut)) = IF 1 <= cut THEN cut - 1 + 1 ELSE 0
      /\ \A i \in 1 .. cut - 1 + 1 : SubSeq(msg.text, 1, cut)[i] = msg.text[1 + i - 1]
  BY <1>5, PartOf
<1>7. \A i \in 1 .. cut : 1 + i - 1 = i
  OBVIOUS
<1>8. Len(data) = cut /\ \A i \in 1 .. cut : data[i] = msg.text[i]
  BY <1>3, <1>4, <1>5, <1>6, <1>7
<1> QED
  BY <1>2, <1>3, <1>8 DEF RequestInv, Cut, Whole

\* Behind the request line.
LEMMA FirstReading ==
  ASSUME Laid(msg), headers = <<>>, \A i \in 1 .. Cut : data[i] = msg.text[i],
         UNCHANGED <<msg, data, headers>>,
         p1' = End(msg, 0) + 1, line' = LineFound(msg)
  PROVE  Reading(0)'
<1>1. Len(msg.fields) \in Nat
  BY DEF Laid
<1>2. At(msg, p1', 0)
  BY <1>1 DEF At
<1>3. Cut' = Cut /\ headers' = <<>> /\ msg' = msg /\ line' = LineFound(msg')
      /\ \A i \in 1 .. Cut : data'[i] = msg.text[i]
  BY DEF Cut
<1>4. Named(msg, headers', data', 0)
  BY <1>3, NamedNone
<1> QED
  BY <1>2, <1>3, <1>4 DEF Reading

\* The request line.
LEMMA LineAsked ==
  ASSUME Shape, msg \in Requests, RequestInv, RequestLine
  PROVE  RequestInv'
<1> DEFINE D == Len(msg.fields)
<1>1. Laid(msg)
  BY RequestLaid
<1>2. Cut \in Nat
  BY ShapeCut
<1>3. /\ phase = "line" /\ headers = <<>> /\ \A i \in 1 .. Cut : data[i] = msg.text[i]
      /\ UNCHANGED <<msg, copy, maxHeader, data, headers>> /\ Cut <= Whole
  BY DEF RequestLine, RequestInv
<1>4. D \in Nat /\ End(msg, 0) \in Nat
  <2>1. D \in Nat /\ \A i \in 0 .. D : End(msg, i) \in Nat
    BY <1>1 DEF Laid
  <2>2. 0 \in 0 .. D
    BY <2>1
  <2> QED
    BY <2>1, <2>2
<1>5. Cut' = Cut /\ Whole' = Whole /\ headers' = <<>> /\ msg' = msg /\ data' = data
  BY <1>3 DEF Cut, Whole
<1>6. \A k : Named(msg, headers', data', k)
  BY <1>5, NamedNone
<1>7. CASE phase' = "end" /\ CutNeverAnswered'
  BY <1>3, <1>5, <1>6, <1>7 DEF RequestInv
<1>8. CASE Cut < End(msg, 0) /\ phase' = "end" /\ outcome' \in {"incomplete", "overrun"}
  <2>1. Cut \notin LineEnds
    <3>1. \A x \in Stops(msg) : End(msg, 0) <= x
      BY <1>1, NoStop
    <3>2. Cut \notin Stops(msg)
      BY <1>2, <1>4, <1>8, <3>1
    <3> QED
      BY <3>2, LineEndsStop
  <2> QED
    BY <1>2, <1>3, <1>5, <1>7, <1>8, <2>1, Unanswered
<1>9. CASE msg.line.version # Version /\ phase' = "end" /\ outcome' = "error"
  BY <1>2, <1>3, <1>5, <1>7, <1>9, Unanswered
<1>10. CASE /\ p1' = End(msg, 0) + 1 /\ line' = LineFound(msg)
            /\ phase' = "header" /\ UNCHANGED outcome
  <2>2. Reading(0)'
    BY <1>1, <1>3, <1>10, FirstReading
  <2> QED
    BY <1>3, <1>5, <1>10, <2>2 DEF RequestInv
<1> QED
  BY <1>1, <1>3, <1>8, <1>9, <1>10, RequestLineRead

\* No line of a header is there.
LEMMA NoHeaderAsked ==
  ASSUME Shape, msg \in Requests, RequestInv, NoHeader
  PROVE  RequestInv'
<1>1. Cut \in Nat /\ Laid(msg)
  BY ShapeCut, RequestLaid
<1>2. /\ phase = "header" /\ phase' = "end" /\ outcome' = "incomplete" /\ Cut <= Whole
      /\ UNCHANGED <<msg, copy, data, headers>>
  BY DEF NoHeader, Finish, RequestInv
<1>3. Cut' = Cut /\ Whole' = Whole /\ msg' = msg
  BY <1>2 DEF Cut, Whole
<1>4. PICK k : Reading(k)
  BY <1>2 DEF RequestInv
<1>5. k \in 0 .. Len(msg.fields) /\ Named(msg, headers, data, k)
  BY <1>4 DEF Reading, At
<1>6. k \in Int /\ Len(msg.fields) \in Int /\ k <= Len(msg.fields)
  BY <1>1, <1>5 DEF Laid
<1>7. Named(msg, headers, data, Len(msg.fields))
  BY <1>5, <1>6, NamedMore
<1>8. CutNeverAnswered'
  BY <1>1, <1>2, <1>3, Unanswered
<1> QED
  BY <1>2, <1>3, <1>7, <1>8 DEF RequestInv

\* A line that is read past the end is not where a line ends, if all have their colons.
LEMMA NotWithin ==
  ASSUME Shape, msg \in Requests, RequestInv, phase = "header", p1 <= Cut, NEW k, Reading(k),
         \/ Over(msg, p1)
         \/ \E c, e, j : Line(msg, p1, k, c, e, j) /\ Cut < e,
         Cut \in LineEnds, ColonsInFolds
  PROVE  FALSE
<1>1. Laid(msg) /\ Cut \in Nat /\ p1 \in Int
  BY RequestLaid, ShapeCut DEF Shape, Under
<1>2. Colons(msg)
  BY <1>1, FoldColons
<1>3. Cut \in Stops(msg)
  BY LineEndsStop
<1>4. Cut <= End(msg, Len(msg.fields))
  BY <1>1, <1>3, NoStop
<1>5. CASE Over(msg, p1)
  <2>1. p1 = End(msg, Len(msg.fields)) + 1
    BY <1>2, <1>5 DEF Over
  <2>2. End(msg, Len(msg.fields)) \in Nat
    <3>1. Len(msg.fields) \in 0 .. Len(msg.fields) /\ \A i \in 0 .. Len(msg.fields) : End(msg, i) \in Nat
      BY <1>1 DEF Laid
    <3> QED
      BY <3>1
  <2> QED
    BY <1>1, <1>4, <2>1, <2>2
<1>6. CASE \E c, e, j : Line(msg, p1, k, c, e, j) /\ Cut < e
  <2>1. PICK c, e, j : Line(msg, p1, k, c, e, j) /\ Cut < e
    BY <1>6
  <2>2. e <= Cut /\ e \in Nat
    BY <1>2, <1>3, <2>1 DEF Line
  <2> QED
    BY <1>1, <2>1, <2>2
<1> QED
  BY <1>5, <1>6

\* A line of a header.
LEMMA HeaderLineAsked ==
  ASSUME Shape, msg \in Requests, RequestInv, HeaderLine
  PROVE  RequestInv'
<1> DEFINE D == Len(msg.fields)
           t == msg.text
<1>1. Cut \in Nat /\ Laid(msg) /\ Len(data) = Cut
  BY ShapeCut, RequestLaid DEF Cut
<1>2. /\ phase = "header" /\ p1 <= Cut /\ Cut <= Whole
      /\ UNCHANGED <<msg, copy, line>>
  BY <1>1 DEF HeaderLine, RequestInv
<1>3. PICK k : Reading(k)
  BY <1>2 DEF RequestInv
<1>4. k \in 0 .. D /\ At(msg, p1, k) /\ Named(msg, headers, data, k)
  BY <1>3 DEF Reading, At
<1>5. D \in Nat /\ D \in 0 .. D /\ p1 \in Nat /\ Len(t) \in Nat
  <2>1. t \in Seq(Letters) /\ D \in Nat
    BY <1>1 DEF Laid
  <2>2. Len(t) \in Nat
    BY <2>1, LenProperties
  <2> QED
    BY <1>1, <1>4, <2>1, <2>2, NextLine
<1>6. Named(msg, headers, data, D)
  <2>1. k \in Int /\ D \in Int /\ k <= D
    BY <1>4, <1>5
  <2> QED
    BY <1>4, <2>1, NamedMore
<1>7. \A i \in p1 .. Cut : data[i] = t[i] /\ i \in p1 .. Len(t)
  <2>1. \A i \in p1 .. Cut : p1 <= i /\ i \in p1 .. Len(t) /\ i \in 1 .. Cut
    <3>1. 1 <= p1
      BY <1>2 DEF Shape, Under
    <3> QED
      BY <1>1, <1>2, <1>5, <3>1 DEF Whole
  <2>2. \A i \in 1 .. Cut : i <= End(msg, 0) \/ p1 <= i => data[i] = t[i]
    BY <1>3 DEF Reading
  <2> QED
    BY <2>1, <2>2
<1>8. Whole' = Whole /\ msg' = msg
  BY <1>2 DEF Whole
<1>9. ASSUME Overruns,
             \/ Over(msg, p1)
             \/ \E c, e, j : Line(msg, p1, k, c, e, j) /\ Cut < e
      PROVE  RequestInv'
  <2>1. /\ phase' = "end" /\ outcome' = "overrun" /\ Cut' = Cut
        /\ UNCHANGED <<data, headers>>
    BY <1>9 DEF Overruns, Finish, Cut
  <2>2. ~(Cut \in LineEnds /\ ColonsInFolds)
    BY <1>2, <1>3, <1>9, NotWithin
  <2>3. CutNeverAnswered'
    BY <1>1, <1>2, <2>1, <2>2, Unanswered
  <2> QED
    BY <1>2, <1>6, <1>8, <2>1, <2>3 DEF RequestInv
<1>10. CASE Over(msg, p1)
  <2>1. \A i \in p1 .. Cut : data[i] # ":"
    BY <1>7, <1>10 DEF Over
  <2>2. Overruns
    BY <2>1, NoLine
  <2> QED
    BY <1>9, <1>10, <2>2
<1>11. CASE \E c, e, j : Line(msg, p1, k, c, e, j)
  <2>1. PICK c, e, j : Line(msg, p1, k, c, e, j)
    BY <1>11
  <2>2. c \in Nat /\ e \in Nat /\ ColonLine(t, p1, c, e) /\ e <= End(msg, D)
    BY <2>1 DEF Line
  <2>3. (Cut < e /\ Overruns) \/ (e <= Cut /\ Taken(c, e))
    BY <1>7, <2>2, LineRead
  <2>4. CASE Cut < e /\ Overruns
    BY <1>9, <2>1, <2>4
  <2>5. CASE e <= Cut /\ Taken(c, e)
    <3>1. /\ Followed(e) /\ Cut' = Cut /\ j \in 0 .. D /\ At(msg, e + 1, j)
          /\ Named(msg, headers', data', j)
          /\ \A i \in 1 .. Cut : i <= End(msg, 0) \/ e + 1 <= i => data'[i] = t[i]
      BY <1>1, <1>2, <1>3, <2>1, <2>5, TakenDoes
    <3>2. Named(msg, headers', data', D)
      <4>1. j \in Int /\ D \in Int /\ j <= D
        BY <1>5, <3>1
      <4> QED
        BY <3>1, <4>1, NamedMore
    <3>3. CASE phase' = "end" /\ CutNeverAnswered'
      BY <1>2, <1>8, <3>1, <3>2, <3>3 DEF RequestInv
    <3>4. CASE Cut < Whole /\ Finish(IF copy = "server" THEN "incomplete" ELSE "ok")
      BY <1>1, <1>2, <3>1, <3>3, <3>4, Unanswered DEF Finish
    <3>5. CASE Cut = Whole /\ Finish("ok")
      BY <1>1, <1>2, <3>1, <3>3, <3>5, Unanswered DEF Finish
    <3>6. CASE p1' = e + 1 /\ UNCHANGED <<phase, outcome>>
      <4>1. Reading(j)'
        <5>1. line' = LineFound(msg)
          BY <1>2, <1>3 DEF Reading
        <5> QED
          BY <1>8, <3>1, <3>6, <5>1 DEF Reading
      <4> QED
        BY <1>2, <1>8, <3>1, <3>6, <4>1 DEF RequestInv
    <3> QED
      BY <3>1, <3>4, <3>5, <3>6 DEF Followed
  <2> QED
    BY <2>3, <2>4, <2>5
<1> QED
  BY <1>1, <1>4, <1>10, <1>11, NextLine

\* Every step of a parse.
LEMMA AskedNext ==
  ASSUME Shape, Asked, [Next]_vars
  PROVE  Asked'
<1>1. msg' = msg
  BY DEF Next, vars, RequestLine, NoHeader, HeaderLine, Chunk, DecodeChunk
<1> SUFFICES ASSUME msg \in Requests PROVE RequestInv'
  BY <1>1 DEF Asked
<1>2. RequestInv
  BY DEF Asked
<1>3. CASE UNCHANGED vars
  <2>1. CutNeverAnswered' = CutNeverAnswered
    BY <1>3 DEF vars, CutNeverAnswered, Request, Cut, Whole, LineEnds, ColonsInFolds
  <2>2. \A k : Reading(k)' = Reading(k)
    BY <1>3 DEF vars, Reading, Cut
  <2> QED
    BY <1>2, <1>3, <2>1, <2>2 DEF vars, RequestInv, Cut, Whole
<1>4. CASE Chunk \/ DecodeChunk
  BY <1>2, <1>4 DEF Chunk, DecodeChunk, RequestInv
<1> QED
  BY <1>2, <1>3, <1>4, LineAsked, NoHeaderAsked, HeaderLineAsked DEF Next

\* What is asked for is in the invariant.
LEMMA AskedMeans ==
  ASSUME Asked
  PROVE  NamesInOrder /\ CutNeverAnswered
<1>1. CASE Request
  <2>1. msg \in Requests /\ phase = "end"
    BY <1>1, RequestKind DEF Asked, Request
  <2>2. CutNeverAnswered /\ Named(msg, headers, data, Len(msg.fields))
    BY <2>1 DEF Asked, RequestInv
  <2> QED
    BY <2>1, <2>2, RequestLaid, NamedNames
<1>2. CASE ~Request
  BY <1>2 DEF NamesInOrder, CutNeverAnswered
<1> QED
  BY <1>1, <1>2

\* The headers that http_parse_header reports are fields of the request, in their order
\* and under their names: a continuation line that it moves may spoil a value, no name.
THEOREM HeadersKeepNames == Spec => []NamesInOrder
<1>1. Init => Shape /\ Asked
  BY ShapeInit, AskedInit
<1>2. Shape /\ Asked /\ [Next]_vars => Shape' /\ Asked'
  BY ShapeNext, AskedNext
<1> QED
  BY <1>1, <1>2, AskedMeans, PTL DEF Spec

\* A request of which a part is missing is not refused by http_parse_request_line, nor is
\* it taken for a whole one by the server's http_parse_header; neither reads past the end if
\* it is cut between lines and every continuation has a colon.
THEOREM CutRequests == Spec => []CutNeverAnswered
<1>1. Init => Shape /\ Asked
  BY ShapeInit, AskedInit
<1>2. Shape /\ Asked /\ [Next]_vars => Shape' /\ Asked'
  BY ShapeNext, AskedNext
<1> QED
  BY <1>1, <1>2, AskedMeans, PTL DEF Spec

-----------------------------------------------------------------------------
(* A request that is there as a whole. *)

\* The greatest of some numbers.
LEMMA GreatestOfSome ==
  ASSUME NEW S \in SUBSET Int, NEW x \in S, \A y \in S : y <= x
  PROVE  Greatest(S) = x
<1>1. \A z \in S : (\A y \in S : y <= z) => z = x
  OBVIOUS
<1> QED
  BY <1>1 DEF Greatest

\* The value of a field, if it is not of blanks only.
LEMMA ValueRead ==
  ASSUME Shape, Under, Laid(msg), NEW k \in 1 .. Len(msg.fields),
         NEW o, o = End(msg, k - 1), p1 = o + 1, Half(msg, k) <= Cut,
         \A i \in p1 .. Cut : data[i] = msg.text[i],
         Readable(msg.fields[k])
  PROVE  LET c == Colon(o, msg.fields[k])
             e == Half(msg, k)
             v == Value(c, e)
         IN  v \in Span /\ Spells(data, v, msg.fields[k].value) /\ Past(v) <= e /\ c < Past(v)
<1> DEFINE f == msg.fields[k]
           c == Colon(o, f)
           e == Half(msg, k)
           V == Len(f.value)
           N == Len(f.name)
           P == f.pad
           t == msg.text
           F == {i \in c + 1 .. Cut : data[i] \notin Blank}
           T == {i \in c .. e - 2 : data[i] \notin Blank}
<1>1. /\ FieldForm(f) /\ N \in Nat \ {0} /\ V \in Nat /\ o \in Nat /\ e \in Nat
      /\ e = o + FirstLen(f) /\ FirstAt(t, o, f)
  BY FieldPlaces
<1>2. P \in Nat /\ f.value \in Seq(Letters) /\ (f.value = <<>> => P = 0)
      /\ \A i \in 1 .. V : f.value[i] \notin Blank
  BY <1>1 DEF FieldForm, Readable
<1>3. c = o + N + 1 /\ e = o + N + 1 + P + V + P + 2
  <2>1. e = o + (N + 1 + P + V + P + 2) /\ c = o + N + 1
    BY <1>1 DEF FirstLen, Colon
  <2>2. N \in Nat /\ V \in Nat /\ P \in Nat /\ o \in Nat
    BY <1>1, <1>2
  <2> HIDE DEF N, V, P, e, c
  <2> QED
    BY ONLY <2>1, <2>2
<1>4. Has(t, c + P, f.value) /\ t[c] = ":" /\ t[e - 1] = "CR"
      /\ \A i \in c + 1 .. e - 2 : i \in c + P + 1 .. c + P + V \/ t[i] = " "
  BY <1>1 DEF FirstAt, ColonLine
<1>5. /\ c \in p1 .. Cut /\ c \in 1 .. Cut /\ e \in c + 1 .. Cut
      /\ data[c] = ":" /\ data[e - 1] = "CR"
  BY NameRead
<1>6. Cut \in Nat /\ Len(data) = Cut /\ p1 \in Nat
  BY <1>1, ShapeCut DEF Cut
<1>7. V = 0 => f.value = <<>>
  BY <1>2, EmptySeq
<1>8. Value(c, e) = [from |-> Least(F), len |-> Greatest(T) + 1 - Least(F)]
  <2>1. (c + 1) - 1 = c /\ Len(data) = Cut
    BY <1>5, <1>6
  <2>2. (c + 1) - 1 .. e - 2 = c .. e - 2 /\ c + 1 .. Len(data) = c + 1 .. Cut
    BY <2>1
  <2> HIDE DEF c, e
  <2> QED
    BY <2>2 DEF Value, Trimmed
<1> HIDE DEF N, V, P, c, e
<1>90. N \in Nat /\ V \in Nat /\ P \in Nat /\ o \in Nat /\ Cut \in Nat /\ p1 = o + 1 /\ e <= Cut
  BY <1>1, <1>2, <1>6 DEF e
<1>9. /\ c \in Nat /\ c > 0 /\ e = c + P + V + P + 2 /\ e <= Cut /\ p1 <= c
  BY ONLY <1>3, <1>90
<1>10. \A i \in 1 .. V : t[c + P + i] = f.value[i] /\ c + P + i \in p1 .. Cut
  <2>1. \A i \in 1 .. V : c + P + i \in p1 .. Cut
    BY ONLY <1>9, <1>90
  <2>2. \A i \in 1 .. V : t[c + P + i] = f.value[i]
    BY <1>4 DEF Has, V
  <2> QED
    BY <2>1, <2>2
<1>11. \A i \in 1 .. V : data[c + P + i] = f.value[i]
  BY <1>10
<1>12. \A i \in 1 .. V : data[c + P + i] \notin Blank
  BY <1>2, <1>11 DEF V
<1>13. \A i \in c + 1 .. e - 2 : i \in c + P + 1 .. c + P + V \/ data[i] \in Blank
  <2>1. \A i \in c + 1 .. e - 2 : i \in p1 .. Cut
    BY <1>2, <1>6, <1>9
  <2> QED
    BY <1>4, <2>1 DEF Blank
<1>14. ":" \notin Blank /\ "CR" \notin Blank
  BY DEF Blank
<1>15. data[c + P + 1] \notin Blank
  <2>1. CASE V = 0
    <3>1. P = 0
      BY <1>2, <1>7, <2>1
    <3>2. c + P + 1 = e - 1
      BY <1>9, <2>1, <3>1
    <3> QED
      BY <1>5, <1>14, <3>2
  <2>2. CASE V # 0
    <3>1. 1 \in 1 .. V
      BY <1>1, <2>2
    <3> QED
      BY <1>12, <3>1
  <2> QED
    BY <2>1, <2>2
<1>16. data[c + P + V] \notin Blank
  <2>1. CASE V = 0
    <3>1. P = 0
      BY <1>2, <1>7, <2>1
    <3>2. c + P + V = c
      BY <1>9, <2>1, <3>1
    <3> QED
      BY <1>5, <1>14, <3>2
  <2>2. CASE V # 0
    <3>1. V \in 1 .. V
      BY <1>1, <2>2
    <3> QED
      BY <1>12, <3>1
  <2> QED
    BY <2>1, <2>2
<1>17. Least(F) = c + P + 1
  <2>1. c + P + 1 \in F
    <3>1. c + P + 1 \in c + 1 .. Cut
      BY <1>1, <1>2, <1>6, <1>9
    <3> QED
      BY <1>15, <3>1
  <2>2. \A i \in F : i \in Int /\ c + P + 1 <= i
    <3> SUFFICES ASSUME NEW i \in c + 1 .. Cut, data[i] \notin Blank, ~(c + P + 1 <= i)
                 PROVE  FALSE
      OBVIOUS
    <3>1. i \in c + 1 .. e - 2 /\ ~(i \in c + P + 1 .. c + P + V)
      BY <1>1, <1>2, <1>6, <1>9
    <3> QED
      BY <1>13, <3>1
  <2> HIDE DEF F
  <2> QED
    BY <2>1, <2>2, LeastIs
<1>18. Greatest(T) = c + P + V
  <2>1. c + P + V \in T
    <3>1. c + P + V \in c .. e - 2
      BY <1>1, <1>2, <1>6, <1>9
    <3> QED
      BY <1>16, <3>1
  <2>2. \A i \in T : i \in Int /\ i <= c + P + V
    <3> SUFFICES ASSUME NEW i \in c .. e - 2, data[i] \notin Blank, ~(i <= c + P + V)
                 PROVE  FALSE
      OBVIOUS
    <3>1. i \in c + 1 .. e - 2 /\ ~(i \in c + P + 1 .. c + P + V)
      BY <1>1, <1>2, <1>6, <1>9
    <3> QED
      BY <1>13, <3>1
  <2> HIDE DEF T
  <2> QED
    BY <2>1, <2>2, GreatestOfSome
<1> HIDE DEF F, T
<1> DEFINE v == Value(c, e)
<1>19. v.from = c + P + 1 /\ v.len = V
  <2>1. c + P + V + 1 - (c + P + 1) = V
    BY <1>1, <1>2, <1>9
  <2> QED
    BY <1>8, <1>17, <1>18, <2>1
<1>20. v \in Span
  BY <1>5, ValueShape
<1> HIDE DEF v
<1>21. Has(data, c + P, f.value)
  <2>1. c + P \in Nat /\ c + P + V <= Cut
    BY <1>1, <1>2, <1>6, <1>9
  <2> QED
    BY <1>6, <1>11, <2>1 DEF Has, V
<1>22. (c + P + 1) - 1 = c + P /\ c + P + 1 \in Int /\ c + P + 1 + V <= e /\ c < c + P + 1 + V
  BY ONLY <1>9, <1>90
<1>23. Spells(data, v, f.value)
  <2>1. v.from - 1 = c + P /\ v.from \in Int
    <3>1. v.from = c + P + 1
      BY <1>19
    <3> QED
      BY ONLY <1>22, <3>1
  <2> QED
    BY <1>19, <1>21, <2>1 DEF Spells, V
<1>24. Past(v) = c + P + 1 + V
  BY <1>19 DEF Past
<1> QED
  BY <1>20, <1>22, <1>23, <1>24 DEF v, c, e

\* What the value of the i-th header is, once all in front of q is read: its continuation
\* line may be still to come.
Content(m, i, q) ==
  IF q <= End(m, i) THEN m.fields[i].value ELSE m.fields[i].value \o m.fields[i].fold

\* The headers are the first fields, and their values too.
Exact(m, h, d, q) ==
  \A i \in DOMAIN h :
    /\ Spells(d, h[i].name, m.fields[i].name) /\ Past(h[i].name) <= Reach(h)
    /\ Spells(d, h[i].value, Content(m, i, q)) /\ Past(h[i].value) <= Reach(h)

\* As many as there is room for, of k.
Counted(h, k) == Len(h) = IF k <= maxHeader THEN k ELSE maxHeader

\* A value that is read does not change when more is read.
LEMMA ContentStays ==
  ASSUME NEW m, NEW i, NEW q \in Int, NEW r \in Int, End(m, i) \in Int, End(m, i) < q, q <= r
  PROVE  Content(m, i, r) = Content(m, i, q)
<1>1. ~(q <= End(m, i)) /\ ~(r <= End(m, i))
  OBVIOUS
<1> QED
  BY <1>1 DEF Content

\* A field whose name has no spaces.
Unspaced(f) == " " \notin ToSet(f.name)

\* A name without spaces is a token.
LEMMA NameIsToken ==
  ASSUME NEW f, FieldForm(f), Unspaced(f)
  PROVE  is_token(f.name)
<1> DEFINE u == f.name
<1>1. u \in Seq(Letters) /\ \A i \in 1 .. Len(u) : u[i] \notin {":", "CR", "LF"}
  BY DEF FieldForm
<1>2. \A i \in DOMAIN u : u[i] # " "
  BY Zenon DEF Unspaced, ToSet
<1> HIDE DEF u
<1>3. DOMAIN u = 1 .. Len(u) /\ \A i \in DOMAIN u : u[i] \in Letters
  BY <1>1
<1>5. \A i \in DOMAIN u : u[i] # "TAB"
  <2>1. "TAB" \notin Letters
    BY DEF Letters
  <2> QED
    BY <1>3, <2>1
<1> QED
  BY <1>1, <1>2, <1>3, <1>5 DEF is_token, Blank, u

\* A header that is stored is the next field, without its continuation.
LEMMA ExactStore ==
  ASSUME Shape, Under, Laid(msg), NEW k \in 1 .. Len(msg.fields),
         NEW o, o = End(msg, k - 1), p1 = o + 1, Half(msg, k) <= Cut,
         \A i \in p1 .. Cut : data[i] = msg.text[i],
         Readable(msg.fields[k]), Unspaced(msg.fields[k]),
         headers' = Store(Colon(o, msg.fields[k]), Half(msg, k)),
         Counted(headers, k - 1), Exact(msg, headers, data, p1)
  PROVE  Counted(headers', k) /\ Exact(msg, headers', data, Half(msg, k) + 1)
<1> DEFINE f == msg.fields[k]
           c == Colon(o, f)
           e == Half(msg, k)
           s == [from |-> p1, len |-> c - p1]
           v == Value(c, e)
           h == headers
           x == Header(c, e)
           g == Append(h, x)
<1>1. /\ s \in Span /\ Spells(data, s, f.name) /\ Past(s) = c
      /\ SubSeq(data, p1, c - 1) = f.name
      /\ c \in p1 .. Cut /\ e \in c + 1 .. Cut
  BY NameRead
<1>2. v \in Span /\ Spells(data, v, f.value) /\ Past(v) <= e /\ c < Past(v)
  BY ValueRead
<1>3. /\ Cut \in Nat /\ p1 \in 1 .. Cut + 1 /\ h \in Seq(Spans) /\ maxHeader \in Nat
      /\ Len(h) \in Nat /\ Len(h) <= maxHeader
  BY ShapeCut, LenProperties DEF Shape, Under
<1>4. /\ FieldForm(f) /\ k \in Nat /\ k > 0 /\ o \in Nat /\ e \in Nat /\ End(msg, k) \in Nat
      /\ f.fold = <<>> => End(msg, k) = e
      /\ f.fold # <<>> => e < End(msg, k)
  <2>1. /\ FieldForm(f) /\ o \in Nat /\ e \in Nat /\ End(msg, k) \in Nat /\ k \in 0 .. Len(msg.fields)
        /\ f.fold = <<>> => End(msg, k) = e
        /\ f.fold # <<>> => End(msg, k) = e + Len(f.fold) + 3 /\ Len(f.fold) > 0
        /\ Len(f.fold) \in Nat
    BY FieldPlaces
  <2> HIDE DEF f, e
  <2>2. f.fold # <<>> => e < End(msg, k)
    <3> DEFINE n == Len(f.fold)
               z == End(msg, k)
    <3>1. n \in Nat /\ e \in Nat /\ (f.fold # <<>> => z = e + n + 3)
      BY <2>1
    <3> HIDE DEF n, z
    <3>2. f.fold # <<>> => e < z
      BY <3>1
    <3> QED
      BY <3>2 DEF z
  <2> QED
    BY <2>1, <2>2
<1>5. x = [name |-> s, value |-> v]
  BY DEF Header
<1>6. is_token(SubSeq(data, p1, c - 1))
  BY <1>1, <1>4, NameIsToken
<1>7. headers' = IF Len(h) < maxHeader THEN g ELSE h
  BY <1>6 DEF Store
<1>0. h = headers
  OBVIOUS
<1>8. \A i \in 1 .. k - 1 : End(msg, i) \in Nat /\ End(msg, i) < p1
  <2>1. /\ Len(msg.fields) \in Nat /\ \A i \in 0 .. Len(msg.fields) : End(msg, i) \in Nat
        /\ \A i, j \in 0 .. Len(msg.fields) : i <= j => End(msg, i) <= End(msg, j)
    BY DEF Laid
  <2>2. ASSUME NEW i \in 1 .. k - 1
        PROVE  i \in 0 .. Len(msg.fields) /\ k - 1 \in 0 .. Len(msg.fields) /\ i <= k - 1
    BY <2>1
  <2>3. ASSUME NEW i \in 1 .. k - 1 PROVE End(msg, i) \in Nat /\ End(msg, i) <= o
    BY <2>1, <2>2
  <2>4. p1 = o + 1
    OBVIOUS
  <2> QED
    BY <1>4, <2>3, <2>4
<1>9. Len(h) = IF k - 1 <= maxHeader THEN k - 1 ELSE maxHeader
  BY <1>0 DEF Counted
<1>10. \A i \in DOMAIN h :
         /\ Spells(data, h[i].name, msg.fields[i].name) /\ Past(h[i].name) <= Reach(h)
         /\ Spells(data, h[i].value, Content(msg, i, p1)) /\ Past(h[i].value) <= Reach(h)
  BY <1>0 DEF Exact
<1>11. p1 \in Int /\ e + 1 \in Int /\ p1 <= e + 1 /\ c \in Int
  BY SMTT(40), <1>1, <1>3
<1> HIDE DEF c, e, s, v, x, g, h, f
<1>12. DOMAIN h = 1 .. Len(h) /\ \A i \in 1 .. Len(h) : i \in 1 .. k - 1
  <2>1. DOMAIN h = 1 .. Len(h)
    BY <1>3, LenProperties
  <2>2. Len(h) <= k - 1
    BY <1>3, <1>4, <1>9
  <2> QED
    BY <1>3, <1>4, <2>1, <2>2
<1>13. \A i \in DOMAIN h : Content(msg, i, e + 1) = Content(msg, i, p1)
  <2> SUFFICES ASSUME NEW i \in DOMAIN h PROVE Content(msg, i, e + 1) = Content(msg, i, p1)
    OBVIOUS
  <2>1. End(msg, i) \in Int /\ End(msg, i) < p1
    BY <1>8, <1>12
  <2> QED
    BY <1>11, <2>1, ContentStays
<1>14. CASE ~(Len(h) < maxHeader)
  <2>1. headers' = h
    BY <1>7, <1>14
  <2>2. Len(h) = maxHeader /\ Len(h) = IF k <= maxHeader THEN k ELSE maxHeader
    BY <1>3, <1>4, <1>9, <1>14
  <2>3. Exact(msg, h, data, e + 1)
    BY <1>10, <1>13 DEF Exact
  <2> QED
    BY <2>1, <2>2, <2>3 DEF Counted, e
<1>15. CASE Len(h) < maxHeader
  <2> DEFINE n == Len(h)
  <2>1. headers' = g
    BY <1>7, <1>15
  <2>2. x \in Spans /\ x.name = s /\ x.value = v
    BY <1>1, <1>2, <1>5 DEF Spans
  <2>3. /\ n \in Nat /\ DOMAIN h = 1 .. n /\ Len(g) = n + 1
        /\ DOMAIN g = 1 .. n + 1 /\ g[n + 1] = x /\ \A i \in 1 .. n : g[i] = h[i]
    BY <1>3, <2>2, AppendProperties, LenProperties DEF g
  <2>4. n + 1 = k /\ k <= maxHeader
    BY <1>3, <1>4, <1>9, <1>15
  <2>5. Reach(g) = Past(v) /\ Past(v) \in Int /\ c < Reach(g)
    <3>1. Reach(g) = Past(v)
      BY <2>2, <2>3 DEF Reach
    <3>2. Past(v) \in Int
      BY <1>2 DEF Past, Span
    <3> QED
      BY <1>2, <3>1, <3>2
  <2>6. Content(msg, k, e + 1) = f.value
    <3>1. CASE f.fold = <<>>
      <4>1. ~(e + 1 <= End(msg, k))
        BY <1>4, <3>1
      <4>2. f.value \o f.fold = f.value
        <5>1. f.value \in Seq(Letters)
          BY <1>4 DEF FieldForm
        <5> QED
          BY <3>1, <5>1
      <4> QED
        BY <4>1, <4>2 DEF Content, f
    <3>2. CASE f.fold # <<>>
      <4>1. e + 1 <= End(msg, k)
        BY <1>4, <3>2
      <4> QED
        BY <4>1 DEF Content, f
    <3> QED
      BY <3>1, <3>2
  <2> HIDE DEF n
  <2>7. ASSUME NEW i \in 1 .. n + 1
        PROVE  /\ Spells(data, g[i].name, msg.fields[i].name) /\ Past(g[i].name) <= Reach(g)
               /\ Spells(data, g[i].value, Content(msg, i, e + 1)) /\ Past(g[i].value) <= Reach(g)
    <3>1. CASE i = n + 1
      <4>1. g[i].name = s /\ g[i].value = v /\ i = k
        BY <2>2, <2>3, <2>4, <3>1
      <4>2. Past(s) <= Reach(g) /\ Past(v) <= Reach(g)
        BY <1>1, <1>11, <2>5
      <4> QED
        BY <1>1, <1>2, <2>6, <4>1, <4>2 DEF f
    <3>2. CASE i # n + 1
      <4>1. i \in 1 .. n
        BY <2>3, <3>2
      <4>2. g[i] = h[i] /\ i \in DOMAIN h
        BY <2>3, <4>1
      <4>3. Reach(h) \in Int /\ Reach(h) <= p1
        <5>1. h # <<>>
          BY <4>2
        <5> QED
          BY <1>0, <5>1, ReachBefore
      <4>4. p1 <= c
        BY <1>1, <1>3, <1>11
      <4>5. Reach(h) <= Reach(g)
        BY <1>11, <2>5, <4>3, <4>4
      <4>6. Past(h[i].name) \in Int /\ Past(h[i].value) \in Int
        <5>1. h[i] \in Spans
          BY <1>3, <4>2
        <5> QED
          BY <5>1 DEF Spans, Span, Past
      <4>7. Past(h[i].name) <= Reach(h) /\ Past(h[i].value) <= Reach(h)
        BY <1>10, <4>2
      <4>8. Past(h[i].name) <= Reach(g) /\ Past(h[i].value) <= Reach(g)
        BY <2>5, <4>3, <4>5, <4>6, <4>7
      <4> QED
        BY <1>10, <1>13, <4>2, <4>8
    <3> QED
      BY <3>1, <3>2
  <2>8. Exact(msg, g, data, e + 1)
    BY <2>3, <2>7 DEF Exact
  <2>9. Counted(g, k)
    BY <2>3, <2>4 DEF Counted
  <2> QED
    BY <2>1, <2>8, <2>9 DEF Counted, e
<1> QED
  BY <1>14, <1>15

\* A span that goes on spells what goes on.
LEMMA SpellsMore ==
  ASSUME NEW S, NEW u \in Seq(S), NEW w \in Seq(S), NEW d, Len(d) \in Nat,
         NEW s, NEW x, Spells(d, s, u), Has(d, Past(s) - 1, w),
         x.from = s.from, x.len = s.len + Len(w)
  PROVE  Spells(d, x, u \o w)
<1> DEFINE a == s.from
           U == Len(u)
           W == Len(w)
           D == Len(d)
           c == u \o w
<1>1. U \in Nat /\ W \in Nat /\ Len(c) = U + W
  BY ConcatProperties, LenProperties
<1>2. Joined(c, u, w)
  BY JoinedLemma
<1>3. /\ a \in Int /\ s.len = U /\ a - 1 \in Nat /\ (a - 1) + U <= D
      /\ \A i \in 1 .. U : d[(a - 1) + i] = u[i]
  BY DEF Spells, Has
<1>4. (\A i \in 1 .. U : c[i] = u[i]) /\ \A i \in 1 .. W : c[U + i] = w[i]
  BY <1>2 DEF Joined
<1>5. Past(s) = a + U
  BY <1>3 DEF Past
<1>6. /\ (a + U) - 1 \in Nat /\ ((a + U) - 1) + W <= D
      /\ \A i \in 1 .. W : d[((a + U) - 1) + i] = w[i]
  BY <1>5 DEF Has
<1> HIDE DEF a, U, W, D, c
<1>7. D \in Nat
  BY DEF D
<1>8. (a - 1) + (U + W) <= D
  BY <1>1, <1>3, <1>6, <1>7
<1>9. ASSUME NEW i \in 1 .. U + W PROVE d[(a - 1) + i] = c[i]
  <2>1. CASE i \in 1 .. U
    BY <1>3, <1>4, <2>1
  <2>2. CASE i \notin 1 .. U
    <3> DEFINE j == i - U
    <3>1. j \in 1 .. W /\ U + j = i /\ ((a + U) - 1) + j = (a - 1) + i
      BY SMTT(40), <1>1, <1>3, <2>2
    <3> HIDE DEF j
    <3>2. d[((a + U) - 1) + j] = w[j] /\ c[U + j] = w[j]
      BY <1>4, <1>6, <3>1
    <3> QED
      BY <3>1, <3>2
  <2> QED
    BY <2>1, <2>2
<1>10. Has(d, a - 1, c)
  BY <1>1, <1>3, <1>8, <1>9 DEF Has, D
<1>11. x.from = a /\ x.len = U + W
  BY <1>3 DEF a, W
<1> QED
  BY <1>1, <1>3, <1>10, <1>11 DEF Spells, c

\* A continuation line makes the last value whole.
LEMMA ExactFold ==
  ASSUME Shape, Under, Laid(msg), NEW k \in 1 .. Len(msg.fields), copy = "server",
         Half(msg, k) < End(msg, k), p1 = Half(msg, k) + 1, End(msg, k) <= Cut,
         \A i \in p1 .. Cut : data[i] = msg.text[i],
         Fold(End(msg, k)), k <= maxHeader, Counted(headers, k),
         Exact(msg, headers, data, p1), Named(msg, headers, data, k)
  PROVE  Counted(headers', k) /\ Exact(msg, headers', data', End(msg, k) + 1)
<1> DEFINE f == msg.fields[k]
           h == headers
           g == headers'
           R == Reach(h)
           e == End(msg, k)
           W == Len(f.fold)
           t == msg.text
<1>1. /\ Cut \in Nat /\ Len(data) = Cut /\ p1 \in 1 .. Cut + 1 /\ h \in Seq(Spans) /\ k \in Nat \ {0}
  BY ShapeCut DEF Shape, Under, Cut
<1>2. Len(h) = k /\ h # <<>> /\ DOMAIN h = 1 .. k
  <2>1. Len(h) = k
    BY DEF Counted
  <2> QED
    BY <1>1, <2>1, LenProperties
<1>3. /\ FieldForm(f) /\ W \in Nat /\ e \in Nat /\ Half(msg, k) \in Nat
      /\ W > 0 /\ e = Half(msg, k) + W + 3 /\ f.fold # <<>>
      /\ SecondAt(t, End(msg, k - 1), f)
      /\ Half(msg, k) = End(msg, k - 1) + FirstLen(f) /\ k \in 0 .. Len(msg.fields)
  <2>1. f.fold # <<>>
    <3>1. f.fold = <<>> => e = Half(msg, k)
      BY FieldPlaces
    <3>2. Half(msg, k) \in Nat
      BY FieldPlaces
    <3> QED
      BY <3>1, <3>2
  <2> QED
    BY <2>1, FieldPlaces
<1>4. Has(t, Half(msg, k) + 1, f.fold)
  BY <1>3 DEF SecondAt
<1>5. R \in Int /\ R <= p1 /\ 0 < R
  <2>1. R \in Int /\ R <= p1
    BY <1>2, ReachBefore
  <2> QED
    BY <1>1, <1>2, <1>3, <2>1, NamedReach
<1>6. /\ Has(t, p1, f.fold)
      /\ e = p1 + W + 2 /\ p1 < e /\ e <= Cut /\ e - p1 - 2 = W /\ e \in Nat
  <2>1. p1 = Half(msg, k) + 1
    OBVIOUS
  <2> DEFINE H == Half(msg, k)
  <2>2. H \in Nat /\ W \in Nat /\ e = H + W + 3 /\ p1 = H + 1 /\ e <= Cut
    BY <1>3, <2>1
  <2> HIDE DEF H, W, e
  <2>3. e = p1 + W + 2 /\ p1 < e /\ e <= Cut /\ e - p1 - 2 = W /\ e \in Nat
    BY <2>2
  <2> QED
    BY <1>4, <2>1, <2>3
<1>7. /\ g = [h EXCEPT ![Len(h)].value.len = @ + W]
      /\ Cut' = Cut
      /\ \A i \in 1 .. Cut : i < R \/ e <= i => data'[i] = data[i]
      /\ \A i \in 1 .. W : data'[R + i - 1] = data[p1 + i]
  <2> DEFINE n == IF copy = "server" THEN e - p1 - 2 ELSE e - p1 - 1
             d == IF n > 0 THEN n ELSE 0
  <2>1. n = W /\ d = W
    <3>1. n = W
      BY <1>6
    <3> HIDE DEF n
    <3> QED
      BY <1>3, <3>1
  <2>2. /\ headers' = [headers EXCEPT ![Len(headers)].value.len = @ + d]
        /\ Cut' = Cut
        /\ \A i \in 1 .. Cut : i < Reach(headers) \/ e <= i => data'[i] = data[i]
        /\ \A i \in 1 .. d : data'[Reach(headers) + i - 1] = data[p1 + i]
    BY <1>2, <1>5, <1>6, FoldDoes
  <2> HIDE DEF d
  <2> QED
    BY <2>1, <2>2
<1>8. /\ g \in Seq(Spans) /\ Len(g) = k /\ DOMAIN g = 1 .. k
      /\ \A i \in 1 .. k : /\ g[i].name = h[i].name
                           /\ g[i].value.from = h[i].value.from
                           /\ i # k => g[i] = h[i]
      /\ g[k].value.len = h[k].value.len + W
      /\ Reach(g) = R + W /\ Reach(g) \in Int
  <2> DEFINE y == [h EXCEPT ![Len(h)].value.len = @ + W]
  <2>1. /\ y \in Seq(Spans) /\ Len(y) = Len(h) /\ DOMAIN y = DOMAIN h
        /\ \A i \in DOMAIN h : /\ y[i].name = h[i].name
                               /\ y[i].value.from = h[i].value.from
                               /\ i # Len(h) => y[i] = h[i]
        /\ y[Len(h)].value.len = h[Len(h)].value.len + W
        /\ Reach(y) = Reach(h) + W /\ Reach(y) \in Int
    <3> HIDE DEF h, W
    <3> QED
      BY ZenonT(40), <1>1, <1>2, <1>3, Longer
  <2>2. g = y
    BY <1>7
  <2> HIDE DEF y, g, h, W
  <2> QED
    BY <1>2, <2>1, <2>2
<1>9. \A i \in 1 .. k :
         /\ Spells(data, h[i].name, msg.fields[i].name) /\ Past(h[i].name) <= R
         /\ Spells(data, h[i].value, Content(msg, i, p1)) /\ Past(h[i].value) <= R
  BY <1>2 DEF Exact
<1>10. \A i \in 1 .. k : Past(h[i].name) \in Int /\ Past(h[i].value) \in Int
                         /\ h[i].value.from \in Int /\ h[i].value.len \in Int
  <2>1. \A i \in 1 .. k : h[i] \in Spans
    BY <1>1, <1>2
  <2> QED
    BY <2>1 DEF Spans, Span, Past
<1>11. Len(data') = Cut
  BY <1>7 DEF Cut
<1>12. Past(h[k].value) = R
  BY <1>2 DEF Reach
<1> HIDE DEF h, g, R, W, e, f
<1>80. /\ Cut \in Nat /\ W \in Nat /\ W > 0 /\ R \in Int /\ 0 < R /\ R <= p1 /\ p1 \in Int
       /\ e = p1 + W + 2 /\ e <= Cut
  BY <1>1, <1>3, <1>5, <1>6
<1>13. \A x, u : Len(u) \in Nat /\ Spells(data, x, u) /\ Past(x) \in Int /\ Past(x) <= R
                 => Spells(data', x, u)
  <2> SUFFICES ASSUME NEW x, NEW u, Len(u) \in Nat, Spells(data, x, u), Past(x) \in Int, Past(x) <= R
               PROVE  Spells(data', x, u)
    OBVIOUS
  <2>1. \A i \in 1 .. Cut : x.from <= i /\ i < Past(x) => i < R
    BY <1>1, <1>5
  <2>2. \A i \in 1 .. Len(data) : x.from <= i /\ i < Past(x) => data'[i] = data[i]
    BY <1>1, <1>7, <2>1
  <2> QED
    BY <1>1, <1>11, <2>2, SpellsStill
<1>14. \A i \in 1 .. k : /\ Len(msg.fields[i].name) \in Nat /\ Len(Content(msg, i, p1)) \in Nat
                         /\ End(msg, i) \in Nat /\ (i # k => End(msg, i) < p1)
                         /\ FieldForm(msg.fields[i])
  <2> SUFFICES ASSUME NEW i \in 1 .. k
               PROVE  /\ Len(msg.fields[i].name) \in Nat /\ Len(Content(msg, i, p1)) \in Nat
                      /\ End(msg, i) \in Nat /\ (i # k => End(msg, i) < p1)
                      /\ FieldForm(msg.fields[i])
    OBVIOUS
  <2>1. i \in 1 .. Len(msg.fields) /\ Len(msg.fields) \in Nat
    <3>1. Len(msg.fields) \in Nat
      BY DEF Laid
    <3> QED
      BY <1>1, <3>1
  <2>2. /\ Len(msg.fields[i].name) \in Nat /\ End(msg, i) \in Nat /\ FieldForm(msg.fields[i])
    BY <2>1, FieldPlaces
  <2>3. Len(Content(msg, i, p1)) \in Nat
    <3> DEFINE u == msg.fields[i].value
               w == msg.fields[i].fold
    <3>1. u \in Seq(Letters) /\ w \in Seq(Letters)
      BY <2>2 DEF FieldForm
    <3> HIDE DEF u, w
    <3>2. Len(u) \in Nat /\ Len(u \o w) \in Nat
      BY <3>1
    <3> QED
      BY <3>2 DEF Content, u, w
  <2>4. i # k => End(msg, i) < p1
    <3> SUFFICES ASSUME i # k PROVE End(msg, i) < p1
      OBVIOUS
    <3>1. i \in 0 .. Len(msg.fields) /\ k - 1 \in 0 .. Len(msg.fields) /\ i <= k - 1
      BY <1>1, <2>1
    <3>2. End(msg, i) <= End(msg, k - 1) /\ End(msg, k - 1) \in Nat
      BY <3>1 DEF Laid
    <3>3. End(msg, k - 1) + 4 <= Half(msg, k)
      BY FieldPlaces
    <3> QED
      BY <1>3, <2>2, <3>2, <3>3
  <2> QED
    BY <2>2, <2>3, <2>4
<1>15. \A i \in 1 .. k : Spells(data', h[i].name, msg.fields[i].name)
                         /\ Spells(data', h[i].value, Content(msg, i, p1))
  BY <1>9, <1>10, <1>13, <1>14
<1>16. Has(data', R - 1, f.fold)
  <2>1. \A i \in 1 .. W : t[p1 + i] = f.fold[i]
    BY <1>6 DEF Has, W
  <2>2. \A i \in 1 .. W : p1 + i \in p1 .. Cut /\ R + i - 1 = (R - 1) + i
    BY ONLY <1>80
  <2>3. \A i \in 1 .. W : data'[(R - 1) + i] = f.fold[i]
    BY <1>7, <2>1, <2>2
  <2>4. R - 1 \in Nat /\ (R - 1) + W <= Cut
    BY ONLY <1>80
  <2> QED
    BY <1>11, <2>3, <2>4 DEF Has, W
<1>17. Spells(data', g[k].value, f.value \o f.fold)
  <2>1. k \in 1 .. k
    BY <1>1
  <2>2. Content(msg, k, p1) = f.value
    <3>1. p1 <= e
      BY <1>1, <1>6
    <3> QED
      BY <3>1 DEF Content, e, f
  <2>3. Spells(data', h[k].value, f.value)
    BY <1>15, <2>1, <2>2
  <2>4. f.value \in Seq(Letters) /\ f.fold \in Seq(Letters)
    BY <1>3 DEF FieldForm
  <2>5. Has(data', Past(h[k].value) - 1, f.fold)
    BY <1>12, <1>16
  <2>6. g[k].value.from = h[k].value.from /\ g[k].value.len = h[k].value.len + Len(f.fold)
    BY <1>8, <2>1 DEF W
  <2> QED
    BY <1>1, <1>11, <2>3, <2>4, <2>5, <2>6, SpellsMore
<1>18. R <= Reach(g)
  BY <1>3, <1>5, <1>8
<1>19. ASSUME NEW i \in 1 .. k
       PROVE  /\ Spells(data', g[i].name, msg.fields[i].name) /\ Past(g[i].name) <= Reach(g)
              /\ Spells(data', g[i].value, Content(msg, i, e + 1)) /\ Past(g[i].value) <= Reach(g)
  <2>1. /\ Spells(data', g[i].name, msg.fields[i].name) /\ Past(g[i].name) <= Reach(g)
    <3>1. g[i].name = h[i].name /\ Past(h[i].name) \in Int /\ Past(h[i].name) <= R
      BY <1>8, <1>9, <1>10
    <3>2. Past(h[i].name) <= Reach(g)
      BY <1>5, <1>8, <1>18, <3>1
    <3> QED
      BY <1>15, <3>1, <3>2
  <2>2. CASE i = k
    <3>1. Content(msg, k, e + 1) = f.value \o f.fold
      <4>1. ~(e + 1 <= e)
        BY <1>3
      <4> QED
        BY <4>1 DEF Content, e, f
    <3>2. Past(g[k].value) = Reach(g)
      BY <1>8 DEF Reach
    <3>3. Past(g[k].value) <= Reach(g)
      BY <1>8, <3>2
    <3> QED
      BY <1>17, <2>1, <2>2, <3>1, <3>3
  <2>3. CASE i # k
    <3>1. g[i] = h[i] /\ Past(h[i].value) \in Int /\ Past(h[i].value) <= R
      BY <1>8, <1>9, <1>10, <2>3
    <3>2. Past(h[i].value) <= Reach(g)
      BY <1>5, <1>8, <1>18, <3>1
    <3>3. Content(msg, i, e + 1) = Content(msg, i, p1)
      <4>1. End(msg, i) \in Int /\ End(msg, i) < p1 
        BY <1>14, <2>3
      <4>2. p1 \in Int /\ e + 1 \in Int /\ p1 <= e + 1
        BY ONLY <1>80
      <4> QED
        BY <4>1, <4>2, ContentStays
    <3> QED
      BY <1>15, <2>1, <3>1, <3>2, <3>3
  <2> QED
    BY <2>2, <2>3
<1>20. Exact(msg, g, data', e + 1)
  BY <1>8, <1>19 DEF Exact
<1>21. Counted(g, k)
  BY <1>8 DEF Counted
<1> QED
  BY <1>20, <1>21 DEF g, e

\* A request that is there as a whole, with a field, and with a colon in every
\* continuation; and one without a field.
Arrived == Cut = Whole /\ msg.line.version = Version
Steady == Arrived /\ msg.fields # <<>> /\ Colons(msg)
Bare == Arrived /\ msg.fields = <<>>

\* Fields that are read right.
Clear ==
  \A k \in 1 .. Len(msg.fields) :
    /\ Readable(msg.fields[k]) /\ Unspaced(msg.fields[k])
    /\ k > maxHeader => msg.fields[k].fold = <<>>

\* The parse of such a request, line by line, and what it is answered with.
Going(k) ==
  /\ Reading(k) /\ p1 <= End(msg, Len(msg.fields))
  /\ Clear => Counted(headers, k) /\ Exact(msg, headers, data, p1)

Reached ==
  LET D == Len(msg.fields)
  IN  /\ outcome = "ok" /\ read = (IF copy = "server" THEN Whole ELSE Whole - 2)
      /\ line = LineFound(msg) /\ \A i \in 1 .. End(msg, 0) : data[i] = msg.text[i]
      /\ Clear => Counted(headers, D) /\ Exact(msg, headers, data, End(msg, D) + 1)

WholeInv ==
  Steady => /\ phase = "header" => \E k : Going(k)
            /\ phase = "end" => Reached

\* The parse of a request without a field.
BareInv ==
  Bare => /\ phase = "header" => Reading(0) /\ p1 = End(msg, 0) + 1
          /\ phase = "end" => outcome = "overrun"

\* A request stays what it is.
LEMMA ClearStays ==
  ASSUME UNCHANGED <<msg, copy, maxHeader>>, Cut' = Cut
  PROVE  Clear' = Clear /\ Whole' = Whole /\ Steady' = Steady /\ Bare' = Bare
<1>1. Whole' = Whole
  BY DEF Whole
<1>2. Arrived' = Arrived
  BY <1>1 DEF Arrived
<1>3. Clear' = Clear
  BY DEF Clear, Readable, Unspaced
<1> QED
  BY <1>1, <1>2, <1>3 DEF Steady, Bare

\* Fields that are read right have a colon in every continuation.
LEMMA ClearColons ==
  ASSUME Laid(msg), Clear
  PROVE  Colons(msg)
<1>1. DOMAIN msg.fields = 1 .. Len(msg.fields)
  BY DEF Laid
<1>2. \A k \in DOMAIN msg.fields : Readable(msg.fields[k])
  BY <1>1 DEF Clear
<1>3. ColonsInFolds
  BY <1>2 DEF ColonsInFolds, Readable
<1> QED
  BY <1>3, FoldColons

\* Where a request ends that is there as a whole.
LEMMA WholeEnd ==
  ASSUME Shape, Laid(msg)
  PROVE  LET D == Len(msg.fields)
         IN  /\ D \in Nat /\ DOMAIN msg.fields = 1 .. D /\ Cut \in Nat
             /\ \A i \in 0 .. D : End(msg, i) \in Nat /\ End(msg, i) <= End(msg, D)
             /\ End(msg, 0) \in Nat /\ End(msg, D) \in Nat /\ End(msg, 0) <= End(msg, D)
             /\ Whole = End(msg, D) + 2 /\ End(msg, D) < Whole
<1> DEFINE D == Len(msg.fields)
<1>1. /\ D \in Nat /\ DOMAIN msg.fields = 1 .. D
      /\ \A i \in 0 .. D : End(msg, i) \in Nat
      /\ \A i, j \in 0 .. D : i <= j => End(msg, i) <= End(msg, j)
      /\ Whole = End(msg, D) + 2
  BY DEF Laid, Whole
<1> HIDE DEF D
<1>2. 0 \in 0 .. D /\ D \in 0 .. D /\ \A i \in 0 .. D : i <= D
  BY <1>1
<1>3. \A i \in 0 .. D : End(msg, i) <= End(msg, D)
  BY <1>1, <1>2
<1>4. End(msg, D) \in Nat
  BY <1>1, <1>2
<1>5. End(msg, D) < Whole
  BY <1>1, <1>4
<1> QED
  BY <1>1, <1>2, <1>3, <1>4, <1>5, ShapeCut DEF D

\* What the lines of a request that is clear do to the headers.
LEMMA TakenExact ==
  ASSUME Shape, phase = "header", Laid(msg), Clear, NEW k, Going(k),
         NEW c, NEW e, NEW j, Line(msg, p1, k, c, e, j), e <= Cut, Taken(c, e)
  PROVE  Counted(headers', j) /\ Exact(msg, headers', data', e + 1)
<1> DEFINE D == Len(msg.fields)
           t == msg.text
<1>1. /\ Under /\ Cut \in Nat /\ p1 \in 1 .. Cut + 1 /\ maxHeader \in Nat
  BY ShapeCut DEF Shape, Under
<1>2. /\ e \in Nat /\ p1 < e /\ At(msg, e + 1, j)
  BY DEF Line
<1>3. /\ j \in 0 .. D /\ k \in 0 .. D /\ Reading(k)
      /\ Counted(headers, k) /\ Exact(msg, headers, data, p1)
  <2>1. Reading(k) /\ Counted(headers, k) /\ Exact(msg, headers, data, p1)
    BY DEF Going
  <2> QED
    BY <1>2, <2>1 DEF At, Reading
<1>4. D \in Nat /\ DOMAIN msg.fields = 1 .. D
  BY WholeEnd
<1>5. \A i \in p1 .. Cut : data[i] = t[i]
  <2>1. \A i \in p1 .. Cut : i \in 1 .. Cut /\ p1 <= i
    BY <1>1
  <2> QED
    BY <1>3, <2>1 DEF Reading
<1>6. data[p1] = t[p1]
  <2>1. p1 \in p1 .. Cut
    BY <1>1, <1>2
  <2> QED
    BY <1>5, <2>1
<1>7. Colons(msg)
  BY ClearColons
<1>8. CASE t[p1] \notin Blank
  <2>1. headers' = Store(c, e) /\ data' = data
    BY <1>6, <1>8 DEF Taken
  <2>2. j = k + 1 /\ p1 = End(msg, k) + 1 /\ c = Colon(End(msg, k), msg.fields[j]) /\ e = Half(msg, j)
    BY <1>8 DEF Line
  <2>3. j \in 1 .. D /\ k = j - 1
    BY <1>3, <1>4, <2>2
  <2> DEFINE o == End(msg, j - 1)
  <2>4. /\ o = End(msg, j - 1) /\ p1 = o + 1 /\ Half(msg, j) <= Cut
        /\ headers' = Store(Colon(o, msg.fields[j]), Half(msg, j))
        /\ Counted(headers, j - 1)
    BY <1>3, <2>1, <2>2, <2>3
  <2>5. Readable(msg.fields[j]) /\ Unspaced(msg.fields[j])
    BY <2>3 DEF Clear
  <2> HIDE DEF o
  <2>6. Counted(headers', j) /\ Exact(msg, headers', data, Half(msg, j) + 1)
    BY <1>1, <1>3, <1>5, <2>3, <2>4, <2>5, ExactStore
  <2> QED
    BY <2>1, <2>2, <2>6
<1>9. CASE t[p1] \in Blank
  <2>1. k > 0 /\ Half(msg, k) < End(msg, k) /\ p1 = Half(msg, k) + 1 /\ j = k /\ e = End(msg, k)
    BY <1>7, <1>9 DEF Line
  <2>2. k \in 1 .. D /\ k \in Nat
    BY <1>3, <1>4, <2>1
  <2>3. msg.fields[k].fold # <<>>
    <3>1. msg.fields[k].fold = <<>> => End(msg, k) = Half(msg, k)
      BY <2>2, FieldPlaces
    <3>2. Half(msg, k) \in Nat
      BY <2>2, FieldPlaces
    <3> QED
      BY <2>1, <3>1, <3>2
  <2>4. k <= maxHeader /\ copy = "server"
    <3>1. ~(k > maxHeader) /\ Readable(msg.fields[k])
      BY <2>2, <2>3 DEF Clear
    <3> QED
      BY <1>1, <2>2, <2>3, <3>1 DEF Readable
  <2>5. headers # <<>>
    <3>1. Len(headers) = k
      BY <1>3, <2>4 DEF Counted
    <3>2. Len(<<>>) = 0
      OBVIOUS
    <3> QED
      BY <2>1, <2>2, <3>1, <3>2
  <2>6. Fold(e)
    BY <1>6, <1>9, <2>5 DEF Taken
  <2>7. Named(msg, headers, data, k)
    BY <1>3 DEF Reading
  <2> QED
    BY <1>1, <1>3, <1>5, <2>1, <2>2, <2>4, <2>6, <2>7, ExactFold
<1> QED
  BY <1>8, <1>9

\* Behind the last line are all the fields.
LEMMA LastIs ==
  ASSUME Laid(msg), NEW j, At(msg, End(msg, Len(msg.fields)) + 1, j)
  PROVE  j = Len(msg.fields)
<1> DEFINE D == Len(msg.fields)
<1>1. /\ D \in Nat
      /\ \A i \in 0 .. D : End(msg, i) \in Nat
  BY DEF Laid
<1>2. j \in 0 .. D /\ D \in 0 .. D
  BY <1>1 DEF At
<1>3. End(msg, D) \in Nat /\ End(msg, j) \in Nat
  BY <1>1, <1>2
<1>4. CASE j > 0 /\ Half(msg, j) < End(msg, j) /\ End(msg, D) + 1 = Half(msg, j) + 1
  <2>1. j \in 1 .. D
    BY <1>1, <1>2, <1>4
  <2>2. Half(msg, j) \in Nat /\ End(msg, j) <= End(msg, D)
    BY <2>1, FieldPlaces
  <2> QED
    BY <1>3, <1>4, <2>2
<1>5. CASE End(msg, D) + 1 = End(msg, j) + 1
  <2> SUFFICES ASSUME j # D PROVE FALSE
    OBVIOUS
  <2>1. j + 1 \in 1 .. D /\ (j + 1) - 1 = j
    BY <1>1, <1>2
  <2>2. /\ End(msg, j) + 4 <= Half(msg, j + 1) /\ Half(msg, j + 1) <= End(msg, j + 1)
        /\ End(msg, j + 1) <= End(msg, D) /\ Half(msg, j + 1) \in Nat /\ End(msg, j + 1) \in Nat
    <3> DEFINE i == j + 1
    <3>1. i \in 1 .. D /\ i - 1 = j
      BY <2>1
    <3> HIDE DEF i
    <3> QED
      BY <3>1, FieldPlaces DEF i
  <2> QED
    BY <1>3, <1>5, <2>2
<1> QED
  BY <1>4, <1>5 DEF At

\* The request line of a whole request.
LEMMA LineWhole ==
  ASSUME Shape, msg \in Requests, RequestInv, RequestLine
  PROVE  WholeInv'
<1> DEFINE D == Len(msg.fields)
<1>1. Laid(msg)
  BY RequestLaid
<1>2. /\ phase = "line" /\ headers = <<>> /\ \A i \in 1 .. Cut : data[i] = msg.text[i]
      /\ UNCHANGED <<msg, copy, maxHeader, data, headers>>
  BY DEF RequestLine, RequestInv
<1>3. Cut' = Cut /\ msg' = msg /\ headers' = <<>>
  BY <1>2 DEF Cut
<1> SUFFICES ASSUME Steady
             PROVE  /\ phase' = "header" => \E k : Going(k)'
                    /\ phase' = "end" => Reached'
  BY <1>2, <1>3, ClearStays DEF WholeInv
<1>4. /\ D \in Nat /\ Cut \in Nat /\ Cut = Whole /\ msg.line.version = Version
      /\ End(msg, 0) \in Nat /\ End(msg, D) \in Nat /\ End(msg, 0) <= End(msg, D)
      /\ End(msg, D) < Whole
  BY <1>1, WholeEnd DEF Steady, Arrived
<1>5. D # 0
  <2>1. msg.fields # <<>>
    BY DEF Steady
  <2>2. DOMAIN msg.fields = 1 .. D /\ \E n \in Nat : msg.fields \in [1 .. n -> Fields]
    BY <1>1, RequestForm DEF Laid
  <2>3. msg.fields \in Seq(Fields)
    BY <2>2
  <2> QED
    BY <2>1, <2>3, EmptySeq
<1>6. /\ p1' = End(msg, 0) + 1 /\ line' = LineFound(msg)
      /\ phase' = "header" /\ UNCHANGED outcome
  <2>1. ~(Cut < End(msg, 0))
    BY <1>4
  <2> QED
    BY <1>1, <1>2, <1>4, <2>1, RequestLineRead
<1>7. Reading(0)'
  BY <1>1, <1>2, <1>6, FirstReading
<1>8. p1' <= End(msg, D)
  <2>1. 1 \in 1 .. D /\ 1 - 1 = 0
    BY <1>4, <1>5
  <2>2. /\ End(msg, 0) + 4 <= Half(msg, 1) /\ Half(msg, 1) <= End(msg, 1)
        /\ End(msg, 1) <= End(msg, D) /\ Half(msg, 1) \in Nat /\ End(msg, 1) \in Nat
    BY <1>1, <2>1, FieldPlaces
  <2> QED
    BY <1>4, <1>6, <2>2
<1>9. Counted(<<>>, 0)' /\ Exact(msg, <<>>, data', p1')
  <2>1. maxHeader' \in Nat /\ Len(<<>>) = 0 /\ DOMAIN <<>> = {}
    BY <1>2 DEF Shape
  <2>2. 0 <= maxHeader'
    BY <2>1
  <2> QED
    BY <2>1, <2>2 DEF Counted, Exact
<1>10. Going(0)'
  BY <1>3, <1>7, <1>8, <1>9 DEF Going, Counted
<1> QED
  BY <1>6, <1>10

\* A whole request has lines left in its header.
LEMMA NoHeaderWhole ==
  ASSUME Shape, msg \in Requests, RequestInv, WholeInv, NoHeader
  PROVE  WholeInv'
<1>1. /\ phase = "header" /\ UNCHANGED <<msg, copy, maxHeader, data>> /\ Cut < p1
      /\ Laid(msg) /\ p1 \in Int
  <2>1. phase = "header" /\ UNCHANGED <<msg, copy, maxHeader, data>> /\ p1 > Len(data)
    BY DEF NoHeader
  <2>2. p1 \in Int /\ Len(data) \in Nat
    BY <2>1, ShapeCut DEF Shape, Under, Cut
  <2> QED
    BY <2>1, <2>2, RequestLaid DEF Cut
<1>2. Cut' = Cut
  BY <1>1 DEF Cut
<1> SUFFICES ASSUME Steady PROVE FALSE
  BY <1>1, <1>2, ClearStays DEF WholeInv
<1>3. \E k : Going(k)
  BY <1>1 DEF WholeInv
<1>4. p1 <= End(msg, Len(msg.fields))
  BY <1>3 DEF Going
<1>5. Cut = Whole /\ Cut \in Nat /\ End(msg, Len(msg.fields)) \in Nat /\ End(msg, Len(msg.fields)) < Whole
  BY <1>1, WholeEnd DEF Steady, Arrived
<1> QED
  BY <1>1, <1>4, <1>5

\* A line leaves the length of the buffer alone.
LEMMA HeaderLineCut ==
  ASSUME Shape, HeaderLine
  PROVE  Cut' = Cut
<1>1. Shape'
  BY HeaderLineShape
<1>2. DOMAIN data' = DOMAIN data \/ data' = data
  BY DEF HeaderLine, Fold
<1>3. data' = [i \in 1 .. Len(data') |-> data'[i]]
  BY <1>1 DEF Shape, IsSeq
<1>4. DOMAIN data' = 1 .. Len(data')
  BY <1>3
<1>5. DOMAIN data = 1 .. Cut
  BY ShapeCut
<1>6. Cut \in Nat
  BY ShapeCut
<1>7. CASE DOMAIN data' = DOMAIN data
  <2>1. data' = [i \in 1 .. Cut |-> data'[i]]
    BY <1>3, <1>4, <1>5, <1>7
  <2>2. Len(data') = Cut
    BY <1>6, <2>1, SeqByLength
  <2> QED
    BY <2>2 DEF Cut
<1> QED
  BY <1>2, <1>7 DEF Cut

\* A line of the header of a whole request.
LEMMA HeaderLineWhole ==
  ASSUME Shape, msg \in Requests, RequestInv, WholeInv, HeaderLine
  PROVE  WholeInv'
<1> DEFINE D == Len(msg.fields)
           t == msg.text
<1>1. Cut \in Nat /\ Laid(msg) /\ Len(data) = Cut
  BY ShapeCut, RequestLaid DEF Cut
<1>2. /\ phase = "header" /\ p1 <= Cut /\ Cut <= Whole
      /\ UNCHANGED <<msg, copy, maxHeader, line>>
  BY <1>1 DEF HeaderLine, RequestInv
<1>3. Cut' = Cut
  BY HeaderLineCut
<1> SUFFICES ASSUME Steady
             PROVE  /\ phase' = "header" => \E k : Going(k)'
                    /\ phase' = "end" => Reached'
  BY <1>2, <1>3, ClearStays DEF WholeInv
<1>4. PICK k : Going(k)
  BY <1>2 DEF WholeInv
<1>5. /\ D \in Nat /\ Cut = Whole /\ DOMAIN msg.fields = 1 .. D
      /\ End(msg, 0) \in Nat /\ End(msg, D) \in Nat /\ End(msg, 0) <= End(msg, D)
      /\ End(msg, D) < Whole
  BY <1>1, WholeEnd DEF Steady, Arrived
<1>6. Reading(k) /\ p1 <= End(msg, D) /\ At(msg, p1, k) /\ p1 \in Int /\ 1 <= p1
  <2>1. p1 \in Int /\ 1 <= p1
    BY <1>2, ShapeCut DEF Shape, Under
  <2> QED
    BY <1>4, <2>1 DEF Going, Reading
<1>7. \A i \in p1 .. Cut : data[i] = t[i]
  <2>1. \A i \in p1 .. Cut : p1 <= i /\ i \in 1 .. Cut
    BY <1>1, <1>6
  <2> QED
    BY <1>6, <2>1 DEF Reading
<1>8. Colons(msg)
  BY DEF Steady
<1>9. ~Over(msg, p1)
  BY <1>5, <1>6, <1>8 DEF Over
<1>10. PICK c, e, j : Line(msg, p1, k, c, e, j)
  BY <1>1, <1>6, <1>9, NextLine
<1>11. c \in Nat /\ e \in Nat /\ ColonLine(t, p1, c, e) /\ e <= End(msg, D)
  BY <1>10 DEF Line
<1>12. e <= Cut /\ Taken(c, e)
  <2>1. (Cut < e /\ Overruns) \/ (e <= Cut /\ Taken(c, e))
    BY <1>7, <1>11, LineRead
  <2>2. ~(Cut < e)
    BY <1>1, <1>5, <1>11
  <2> QED
    BY <2>1, <2>2
<1>13. /\ Followed(e) /\ At(msg, e + 1, j)
       /\ Named(msg, headers', data', j)
       /\ \A i \in 1 .. Cut : i <= End(msg, 0) \/ e + 1 <= i => data'[i] = t[i]
  BY <1>1, <1>2, <1>6, <1>10, <1>12, TakenDoes
<1>14. Clear => Counted(headers', j) /\ Exact(msg, headers', data', e + 1)
  BY <1>1, <1>2, <1>4, <1>10, <1>12, TakenExact
<1>15. /\ msg' = msg /\ copy' = copy /\ maxHeader' = maxHeader /\ line' = LineFound(msg)
       /\ Whole' = Whole /\ Clear' = Clear
  BY <1>2, <1>3, <1>6, ClearStays DEF Reading
<1>16. CASE Cut < Whole
  BY <1>1, <1>5, <1>16
<1>17. CASE /\ e = End(msg, D) /\ Finish("ok")
            /\ read' = IF copy = "server" THEN Whole ELSE Whole - 2
  <2>1. j = D
    BY <1>1, <1>13, <1>17, LastIs
  <2>2. \A i \in 1 .. End(msg, 0) : data'[i] = t[i]
    <3>1. \A i \in 1 .. End(msg, 0) : i \in 1 .. Cut /\ i <= End(msg, 0)
      BY <1>1, <1>5
    <3> QED
      BY <1>13, <3>1
  <2>3. Clear => Counted(headers, D)'
    BY <1>14, <1>15, <2>1 DEF Counted
  <2>4. outcome' = "ok" /\ phase' = "end" /\ read' = (IF copy' = "server" THEN Whole' ELSE Whole' - 2)
    BY <1>15, <1>17 DEF Finish
  <2>5. Clear => Exact(msg, headers', data', End(msg, D) + 1)
    BY <1>14, <1>17
  <2>6. Reached'
    BY <1>15, <2>2, <2>3, <2>4, <2>5 DEF Reached
  <2> QED
    BY <2>4, <2>6
<1>18. CASE /\ e < End(msg, D) /\ p1' = e + 1 /\ UNCHANGED <<phase, outcome>>
  <2>1. Reading(j)'
    BY <1>3, <1>13, <1>15, <1>18 DEF Reading
  <2>2. p1' <= End(msg, D)
    BY <1>5, <1>11, <1>18
  <2>3. Clear => Counted(headers, j)'
    BY <1>14, <1>15 DEF Counted
  <2>4. Going(j)'
    BY <1>14, <1>15, <1>18, <2>1, <2>2, <2>3 DEF Going
  <2> QED
    BY <1>2, <1>18, <2>4
<1> QED
  BY <1>13, <1>16, <1>17, <1>18 DEF Followed

\* Every step of the parse of a request.
LEMMA WholeNext ==
  ASSUME Shape, Asked, msg \in Requests => WholeInv, [Next]_vars
  PROVE  (msg \in Requests => WholeInv)'
<1>1. msg' = msg
  BY DEF Next, vars, RequestLine, NoHeader, HeaderLine, Chunk, DecodeChunk
<1> SUFFICES ASSUME msg \in Requests PROVE WholeInv'
  BY <1>1
<1>2. RequestInv /\ WholeInv
  BY DEF Asked
<1>3. CASE UNCHANGED vars
  <2>1. /\ UNCHANGED <<msg, copy, maxHeader>> /\ Cut' = Cut /\ phase' = phase
    BY <1>3 DEF vars, Cut
  <2>2. Clear' = Clear /\ Whole' = Whole /\ Steady' = Steady
    BY <2>1, ClearStays
  <2>3. \A k : Going(k)' = Going(k)
    BY <1>3, <2>2 DEF vars, Going, Reading, Counted, Cut
  <2>4. Reached' = Reached
    BY <1>3, <2>2 DEF vars, Reached, Counted
  <2> QED
    BY <1>2, <2>1, <2>2, <2>3, <2>4 DEF WholeInv
<1>4. CASE Chunk \/ DecodeChunk
  BY <1>2, <1>4 DEF Chunk, DecodeChunk, RequestInv
<1> QED
  BY <1>2, <1>3, <1>4, LineWhole, NoHeaderWhole, HeaderLineWhole DEF Next

\* A request without a field: in its empty line there is no colon.
LEMMA BareNext ==
  ASSUME Shape, Asked, msg \in Requests => BareInv, [Next]_vars
  PROVE  (msg \in Requests => BareInv)'
<1>1. msg' = msg
  BY DEF Next, vars, RequestLine, NoHeader, HeaderLine, Chunk, DecodeChunk
<1> SUFFICES ASSUME msg \in Requests PROVE BareInv'
  BY <1>1
<1>2. RequestInv /\ BareInv
  BY DEF Asked
<1>3. Laid(msg)
  BY RequestLaid
<1>4. Bare => /\ Cut = Whole /\ Cut \in Nat /\ msg.line.version = Version
              /\ End(msg, 0) \in Nat /\ Cut = End(msg, 0) + 2 /\ Len(msg.fields) = 0
  <2>1. Bare => Len(msg.fields) = 0
    BY DEF Bare
  <2> QED
    BY <1>3, <2>1, WholeEnd DEF Bare, Arrived
<1>5. CASE UNCHANGED vars
  <2>1. /\ UNCHANGED <<msg, copy, maxHeader>> /\ Cut' = Cut /\ phase' = phase
    BY <1>5 DEF vars, Cut
  <2>2. Bare' = Bare
    BY <2>1, ClearStays
  <2>3. Reading(0)' = Reading(0)
    BY <1>5 DEF vars, Reading, Cut
  <2> QED
    BY <1>2, <1>5, <2>1, <2>2, <2>3 DEF vars, BareInv
<1>6. CASE RequestLine
  <2>1. /\ phase = "line" /\ headers = <<>> /\ \A i \in 1 .. Cut : data[i] = msg.text[i]
        /\ UNCHANGED <<msg, copy, maxHeader, data, headers>>
    BY <1>2, <1>6 DEF RequestLine, RequestInv
  <2>2. Cut' = Cut
    BY <2>1 DEF Cut
  <2>3. ASSUME Bare
        PROVE  /\ p1' = End(msg, 0) + 1 /\ line' = LineFound(msg)
               /\ phase' = "header" /\ UNCHANGED outcome
    <3>1. ~(Cut < End(msg, 0))
      BY <1>4, <2>3
    <3> QED
      BY <1>3, <1>4, <1>6, <2>1, <2>3, <3>1, RequestLineRead
  <2>4. Bare => Reading(0)'
    BY <1>3, <2>1, <2>3, FirstReading
  <2> QED
    BY <1>1, <2>1, <2>2, <2>3, <2>4, ClearStays DEF BareInv
<1>7. CASE NoHeader
  <2>1. phase = "header" /\ UNCHANGED <<msg, copy, maxHeader, data>> /\ p1 > Cut
    BY <1>7 DEF NoHeader, Cut
  <2>2. Cut' = Cut
    BY <2>1 DEF Cut
  <2>3. ~Bare
    BY <1>2, <1>4, <2>1 DEF BareInv
  <2> QED
    BY <2>1, <2>2, <2>3, ClearStays DEF BareInv
<1>8. CASE HeaderLine
  <2>1. phase = "header" /\ UNCHANGED <<msg, copy, maxHeader>>
    BY <1>8 DEF HeaderLine
  <2>2. ASSUME Bare PROVE Overruns
    <3>1. Reading(0) /\ p1 = End(msg, 0) + 1
      BY <1>2, <2>1, <2>2 DEF BareInv
    <3>2. Over(msg, p1)
      BY <1>3, <1>4, <2>2, <3>1, LastLine
    <3>3. \A i \in p1 .. Cut : i \in 1 .. Cut /\ p1 <= i
      BY <1>4, <2>2, <3>1
    <3>4. \A i \in p1 .. Cut : data[i] = msg.text[i]
      BY <3>1, <3>3 DEF Reading
    <3>5. Cut = Len(msg.text)
      BY <1>4, <2>2 DEF Whole
    <3>6. \A i \in p1 .. Cut : data[i] # ":"
      BY <3>2, <3>4, <3>5 DEF Over
    <3> QED
      BY <1>8, <3>6, NoLine
  <2>3. CASE Bare
    <3>1. phase' = "end" /\ outcome' = "overrun"
      BY <2>2, <2>3 DEF Overruns, Finish
    <3> QED
      BY <3>1 DEF BareInv
  <2>4. CASE ~Bare
    <3>1. Cut' = Cut
      BY <1>8, HeaderLineCut
    <3> QED
      BY <2>1, <2>4, <3>1, ClearStays DEF BareInv
  <2> QED
    BY <2>3, <2>4
<1>9. CASE Chunk \/ DecodeChunk
  BY <1>2, <1>9 DEF Chunk, DecodeChunk, RequestInv
<1> QED
  BY <1>5, <1>6, <1>7, <1>8, <1>9 DEF Next

\* The lesser of two numbers.
LEMMA MinIs ==
  ASSUME NEW a \in Int, NEW b \in Int
  PROVE  Min({a, b}) = IF a <= b THEN a ELSE b
<1> DEFINE x == IF a <= b THEN a ELSE b
<1>1. x \in {a, b} /\ \A y \in {a, b} : x <= y
  OBVIOUS
<1>2. \A z \in {a, b} : (\A y \in {a, b} : z <= y) => z = x
  OBVIOUS
<1> HIDE DEF x
<1>3. Min({a, b}) = x
  BY <1>1, <1>2 DEF Min
<1> QED
  BY <1>3 DEF x

\* The texts of the request line.
LEMMA LineTexts ==
  ASSUME Shape, Laid(msg), line = LineFound(msg), End(msg, 0) <= Cut,
         \A i \in 1 .. End(msg, 0) : data[i] = msg.text[i]
  PROVE  Text(line.method) = msg.line.method /\ Text(line.path) = msg.line.path
<1> DEFINE l == msg.line
           t == msg.text
           M == Len(l.method)
           P == Len(l.path)
           R == End(msg, 0)
<1>1. /\ l.method \in Seq(Letters) /\ l.path \in Seq(Letters)
      /\ Has(t, 0, l.method) /\ Has(t, Space1(l), l.path) /\ R = LineLen(l)
      /\ Space2(l) \in Space1(l) + 1 .. LineLen(l) - 2
  BY DEF Laid, LineForm, LineAt
<1>2. M \in Nat /\ P \in Nat /\ Cut \in Nat /\ Len(data) = Cut /\ R \in Nat
  BY <1>1, LenProperties, ShapeCut, WholeEnd DEF Cut
<1>3. Space1(l) = M + 1 /\ Space2(l) = M + 1 + P + 1
  BY DEF Space1, Space2
<1>4. \A i \in 1 .. M : t[0 + i] = l.method[i]
  BY <1>1 DEF Has
<1>5. \A i \in 1 .. P : t[M + 1 + i] = l.path[i]
  BY <1>1, <1>3 DEF Has
<1>6. /\ line.method.from = 1 /\ line.method.len = M
      /\ line.path.from = M + 1 + 1 /\ line.path.len = P
  BY <1>3 DEF LineFound
<1>7. M + 1 + P + 1 \in Int /\ M + 1 + P + 1 <= R - 2 /\ R <= Cut
  <2>1. Space2(l) <= R - 2
    BY <1>1, <1>2
  <2> HIDE DEF M, P, R
  <2> QED
    BY <1>2, <1>3, <2>1 DEF R
<1>0. \A i \in 1 .. R : data[i] = t[i]
  OBVIOUS
<1> HIDE DEF l, M, P, R, t
<1>8. Spells(data, line.method, l.method)
  <2>1. \A i \in 1 .. M : 0 + i \in 1 .. R
    BY <1>2, <1>7
  <2>2. \A i \in 1 .. M : data[0 + i] = l.method[i]
    BY <1>0, <1>4, <2>1
  <2>3. 1 - 1 = 0 /\ 0 + M <= Cut /\ 0 \in Nat /\ 1 \in Int
    BY <1>2, <1>7
  <2>4. Has(data, 0, l.method)
    BY <1>2, <2>2, <2>3 DEF Has, M
  <2> QED
    BY <1>6, <2>3, <2>4 DEF Spells, M
<1>9. Spells(data, line.path, l.path)
  <2>1. \A i \in 1 .. P : M + 1 + i \in 1 .. R
    BY <1>2, <1>7
  <2>2. \A i \in 1 .. P : data[M + 1 + i] = l.path[i]
    BY <1>0, <1>5, <2>1
  <2>3. (M + 1 + 1) - 1 = M + 1 /\ M + 1 + P <= Cut /\ M + 1 \in Nat /\ M + 1 + 1 \in Int
    BY <1>2, <1>7
  <2>4. Has(data, M + 1, l.path)
    BY <1>2, <2>2, <2>3 DEF Has, P
  <2> QED
    BY <1>6, <2>3, <2>4 DEF Spells, P
<1>10. SubSeq(data, line.method.from, line.method.from + line.method.len - 1) = l.method
  BY <1>1, <1>8, TextIs
<1>11. SubSeq(data, line.path.from, line.path.from + line.path.len - 1) = l.path
  BY <1>1, <1>9, TextIs
<1> QED
  BY <1>10, <1>11 DEF Text, l

\* The headers of a whole request of fields that are read right.
LEMMA ReachedHeaders ==
  ASSUME Shape, Laid(msg), Clear, Reached
  PROVE  [k \in DOMAIN headers |-> <<Text(headers[k].name), Text(headers[k].value)>>]
           = [k \in 1..Min({Len(msg.fields), maxHeader}) |->
                LET f == msg.fields[k] IN <<f.name, f.value \o f.fold>>]
<1> DEFINE D == Len(msg.fields)
<1>2. Laid(msg)
  OBVIOUS
<1>3. /\ D \in Nat /\ DOMAIN msg.fields = 1 .. D /\ Cut \in Nat
      /\ \A i \in 0 .. D : End(msg, i) \in Nat /\ End(msg, i) <= End(msg, D)
      /\ End(msg, 0) \in Nat /\ End(msg, D) \in Nat /\ End(msg, 0) <= End(msg, D)
      /\ End(msg, D) < Whole
  BY <1>2, WholeEnd
<1>5. Counted(headers, D) /\ Exact(msg, headers, data, End(msg, D) + 1)
  BY DEF Reached
<1>7. Len(headers) = Min({D, maxHeader}) /\ DOMAIN headers = 1 .. Len(headers)
      /\ Len(headers) \in Nat /\ Len(headers) <= D
  <2>1. headers \in Seq(Spans) /\ maxHeader \in Nat
    BY DEF Shape
  <2>2. Len(headers) = IF D <= maxHeader THEN D ELSE maxHeader
    BY <1>5 DEF Counted
  <2>3. D \in Int /\ maxHeader \in Int
    BY <1>3, <2>1
  <2>4. Min({D, maxHeader}) = IF D <= maxHeader THEN D ELSE maxHeader
    <3> HIDE DEF D
    <3> QED
      BY <2>3, MinIs
  <2>5. Len(headers) = Min({D, maxHeader})
    BY <2>2, <2>4
  <2>6. Len(headers) <= D
    BY <1>3, <2>1, <2>2
  <2> QED
    BY <2>1, <2>5, <2>6, LenProperties
<1>8. ASSUME NEW i \in 1 .. Len(headers)
      PROVE  /\ Text(headers[i].name) = msg.fields[i].name
             /\ Text(headers[i].value) = msg.fields[i].value \o msg.fields[i].fold
  <2> DEFINE u == msg.fields[i].name
             v == msg.fields[i].value
             w == msg.fields[i].fold
  <2>1. i \in 1 .. D /\ i \in 0 .. D /\ i \in DOMAIN headers
    BY <1>3, <1>7
  <2>2. u \in Seq(Letters) /\ v \in Seq(Letters) /\ w \in Seq(Letters)
    BY <1>2, <2>1, FieldPlaces DEF FieldForm
  <2>3. Exact(msg, headers, data, End(msg, D) + 1)
    BY <1>5
  <2>4. /\ Spells(data, headers[i].name, u)
        /\ Spells(data, headers[i].value, Content(msg, i, End(msg, D) + 1))
    BY <2>1, <2>3 DEF Exact
  <2>5. Content(msg, i, End(msg, D) + 1) = v \o w
    <3>1. End(msg, i) \in Nat /\ End(msg, i) <= End(msg, D) /\ End(msg, D) \in Nat
      BY <1>3, <2>1
    <3>2. ~(End(msg, D) + 1 <= End(msg, i))
      BY <3>1
    <3> QED
      BY <3>2 DEF Content
  <2> HIDE DEF u, v, w
  <2>6. v \o w \in Seq(Letters)
    BY <2>2
  <2>7. Spells(data, headers[i].value, v \o w)
    BY <2>4, <2>5
  <2>8. SubSeq(data, headers[i].name.from, headers[i].name.from + headers[i].name.len - 1) = u
    BY <2>2, <2>4, TextIs
  <2>9. SubSeq(data, headers[i].value.from, headers[i].value.from + headers[i].value.len - 1)
          = v \o w
    BY <2>6, <2>7, TextIs
  <2> QED
    BY <2>8, <2>9 DEF Text, u, v, w
<1>9. [k \in DOMAIN headers |-> <<Text(headers[k].name), Text(headers[k].value)>>]
        = [k \in 1..Min({D, maxHeader}) |->
             LET f == msg.fields[k] IN <<f.name, f.value \o f.fold>>]
  BY <1>7, <1>8
<1> QED
  BY <1>9

\* What a whole request is answered with is what it says.
LEMMA ReachedRight ==
  ASSUME Shape, Asked, msg \in Requests => WholeInv /\ BareInv
  PROVE  RequestRight
<1> DEFINE D == Len(msg.fields)
           exact == [k \in DOMAIN headers |-> <<Text(headers[k].name), Text(headers[k].value)>>]
                      = [k \in 1..Min({D, maxHeader}) |->
                           LET f == msg.fields[k] IN <<f.name, f.value \o f.fold>>]
<1> SUFFICES ASSUME Request, Arrived
             PROVE  /\ msg.fields = <<>> => outcome = "overrun"
                    /\ msg.fields # <<>> /\ ColonsInFolds
                       => /\ outcome = "ok"
                          /\ read = IF copy = "server" THEN Whole ELSE Whole - 2
                          /\ Text(line.method) = msg.line.method
                          /\ Text(line.path) = msg.line.path
                    /\ msg.fields # <<>> /\ FieldsClear => exact
  BY Zenon DEF RequestRight, Arrived
<1>1. msg \in Requests /\ phase = "end"
  BY RequestKind DEF Asked, Request
<1>2. Laid(msg)
  BY <1>1, RequestLaid
<1>3. /\ DOMAIN msg.fields = 1 .. D /\ Cut \in Nat
      /\ End(msg, 0) \in Nat /\ End(msg, D) \in Nat /\ End(msg, 0) <= End(msg, D)
      /\ End(msg, D) < Whole
  BY <1>2, WholeEnd
<1>4. Cut = Whole
  BY DEF Arrived
<1>5. ASSUME msg.fields # <<>>, Colons(msg) PROVE Reached
  BY <1>1, <1>5 DEF WholeInv, Steady
<1>6. ASSUME Reached PROVE Text(line.method) = msg.line.method /\ Text(line.path) = msg.line.path
  <2>1. End(msg, 0) <= Cut
    BY <1>3, <1>4
  <2> QED
    BY <1>2, <1>6, <2>1, LineTexts DEF Reached
<1>7. msg.fields = <<>> => outcome = "overrun"
  BY <1>1 DEF BareInv, Bare
<1>8. ASSUME msg.fields # <<>>, FieldsClear PROVE exact
  <2>1. Clear
    BY <1>3, <1>8, Zenon DEF FieldsClear, Clear, Unspaced
  <2> QED
    BY <1>2, <1>5, <1>8, <2>1, ClearColons, ReachedHeaders
<1> HIDE DEF exact
<1>9. ASSUME msg.fields # <<>>, ColonsInFolds
      PROVE  /\ outcome = "ok"
             /\ read = IF copy = "server" THEN Whole ELSE Whole - 2
             /\ Text(line.method) = msg.line.method /\ Text(line.path) = msg.line.path
  <2>1. Reached
    BY <1>2, <1>5, <1>9, FoldColons
  <2> QED
    BY <1>6, <2>1 DEF Reached
<1> QED
  BY <1>7, <1>8, <1>9

\* A request that is there as a whole and has a field is answered with its method and its
\* path and read as a whole, if its continuations have colons, and one without a field is
\* read past its end.  The headers are the fields, their continuations moved behind their
\* values, if FieldsClear.
THEOREM WholeRequests == Spec => []RequestRight
<1> DEFINE I == msg \in Requests => WholeInv
           J == msg \in Requests => BareInv
<1>1. Init => Shape /\ Asked /\ I /\ J
  <2> SUFFICES ASSUME Init, msg \in Requests PROVE WholeInv /\ BareInv
    BY ShapeInit, AskedInit
  <2>1. msg.kind = "request"
    BY RequestKind
  <2>2. phase = "line"
    BY <2>1 DEF Init
  <2> QED
    BY <2>2 DEF WholeInv, BareInv
<1>2. Shape /\ Asked /\ I /\ J /\ [Next]_vars => Shape' /\ Asked' /\ I' /\ J'
  BY ShapeNext, AskedNext, WholeNext, BareNext
<1>3. Shape /\ Asked /\ I /\ J => RequestRight
  BY ReachedRight
<1> QED
  <2> HIDE DEF I, J
  <2> QED
    BY <1>1, <1>2, <1>3, PTL DEF Spec
=============================================================================
