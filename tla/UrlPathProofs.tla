--------------------------- MODULE UrlPathProofs ---------------------------
(***************************************************************************)
(* The properties of UrlPath for every set of names, every length of a     *)
(* name, a specifier and a chain of imports.                               *)
(*                                                                         *)
(* The walks of a path are recursive functions, so each has a lemma with   *)
(* its equations (by induction over the positions), and the three of them  *)
(* are then compared position by position: normalize_path's stack with the *)
(* walk that an import means, its sum with the text on the stack, and the  *)
(* prototypes' vector with the walk.                                       *)
(***************************************************************************)
EXTENDS UrlPath, SequenceTheorems, ListLemmas, TLAPS

\* What a path or a specifier is cut into, what stays of it, and the cut of a path that
\* starts with a slash.
Segment == Names \cup {"", ".", ".."}
AnySegment == Segment \cup {HostTail}
Stacked == Names \cup {"", HostTail}
Behind(s) == <<"">> \o s
SlashFirst(s) == \A n \in 1 .. Len(s) : s[n] = "" => n = 1
Plain(s) == \A n \in 1 .. Len(s) : s[n] # ""
Scanned == [stack: Seq(Stacked), under: Nat, astray: BOOLEAN, total: Int, prev: AnySegment]

-----------------------------------------------------------------------------
(* Sequences. *)

\* Removing what was added.
LEMMA FrontOfAppend ==
  ASSUME NEW S, NEW s \in Seq(S), NEW x \in S
  PROVE  Front(Append(s, x)) = s
<1> DEFINE t == Append(s, x)
           f == SubSeq(t, 1, Len(s))
<1>1. /\ t \in Seq(S) /\ Len(t) = Len(s) + 1 /\ Len(s) \in Nat
      /\ \A i \in 1 .. Len(s) : t[i] = s[i] /\ t[i] \in S
  OBVIOUS
<1> HIDE DEF t
<1>2. f \in Seq(S) /\ Len(f) = Len(s) /\ \A i \in 1 .. Len(s) : f[i] = t[i]
  BY <1>1, SubSeqProperties
<1> HIDE DEF f
<1>3. f = s
  BY <1>1, <1>2, SeqEqual
<1>4. Front(t) = f
  BY <1>1 DEF Front, f
<1> QED
  BY <1>3, <1>4 DEF t

\* What is left without the last element.
LEMMA FrontLemma ==
  ASSUME NEW S, NEW s \in Seq(S)
  PROVE  /\ Len(s) \in Nat
         /\ Front(s) \in Seq(S)
         /\ s # <<>> => /\ Len(s) > 0
                        /\ Len(Front(s)) = Len(s) - 1
                        /\ s[Len(s)] \in S
                        /\ s = Append(Front(s), s[Len(s)])
<1>1. CASE s = <<>>
  <2>1. Front(s) = <<>>
    BY <1>1, SubSeqEmpty DEF Front
  <2> QED
    BY <1>1, <2>1
<1>2. CASE s # <<>>
  <2>1. PICK r \in Seq(S), x \in S : s = Append(r, x)
    BY <1>2, SequenceEmptyOrAppend
  <2>2. Front(s) = r
    BY <2>1, FrontOfAppend
  <2>3. Len(r) \in Nat /\ Len(s) = Len(r) + 1 /\ s[Len(s)] = x
    BY <2>1, AppendProperties
  <2> QED
    BY <2>1, <2>2, <2>3
<1> QED
  BY <1>1, <1>2

\* A sequence of one segment.
LEMMA OneElement ==
  ASSUME NEW S, NEW x \in S
  PROVE  <<x>> \in Seq(S) /\ Len(<<x>>) = 1 /\ <<x>>[1] = x /\ <<x>> # <<>>
  OBVIOUS

\* A sequence of two.
LEMMA TwoElements ==
  ASSUME NEW S, NEW x \in S, NEW y \in S
  PROVE  <<x, y>> \in Seq(S) /\ Len(<<x, y>>) = 2 /\ <<x, y>> # <<>>
  OBVIOUS

\* The root is a path with one empty segment.
LEMMA RootType == <<"">> \in Seq(Segment) /\ <<"">> \in Seq(Stacked)
<1> DEFINE e == ""
<1>1. e \in Segment /\ e \in Stacked
  BY DEF Segment, Stacked
<1>2. <<e>> \in Seq(Segment) /\ <<e>> \in Seq(Stacked)
  <2> HIDE DEF e
  <2> QED
    BY <1>1, OneElement
<1> QED
  BY <1>2

-----------------------------------------------------------------------------
(* The equations of the recursive functions. *)

\* A walk stays among the names.
LEMMA WalkStepType ==
  ASSUME NEW at \in Seq(Names), NEW s \in Segment
  PROVE  WalkStep(at, s) \in Seq(Names)
<1>1. Front(at) \in Seq(Names)
  BY FrontLemma
<1> QED
  BY <1>1, AppendProperties DEF WalkStep, Segment

\* Where a walk is after each step.
LEMMA WalksLemma ==
  ASSUME NEW segs \in Seq(Segment)
  PROVE  /\ Len(segs) \in Nat
         /\ Walks(segs)[0] = <<>>
         /\ \A n \in 1 .. Len(segs) : /\ segs[n] \in Segment
                                      /\ Walks(segs)[n] = WalkStep(Walks(segs)[n - 1], segs[n])
         /\ \A n \in 0 .. Len(segs) : Walks(segs)[n] \in Seq(Names)
<1> DEFINE V == Seq(Names)
           N == Len(segs)
           start == <<>>
           F == [n \in 1 .. N |-> [v \in V |-> WalkStep(v, segs[n])]]
           Rhs(f) == [n \in 0 .. N |-> IF n = 0 THEN <<>> ELSE WalkStep(f[n - 1], segs[n])]
           w == Walks(segs)
<1>1. N \in Nat /\ start \in V /\ \A n \in 1 .. N : segs[n] \in Segment
  BY ElementOfSeq
<1>2. \A v \in V, s \in Segment : WalkStep(v, s) \in V
  BY WalkStepType
<1>3. w = CHOOSE g : g = Rhs(g)
  BY DEF Walks
<1> HIDE DEF V, N, w
<1>4. F \in Steps(V, N)
  BY <1>1, <1>2 DEF Steps
<1>5. PICK f \in [0 .. N -> V] : Follows(f, start, F, N)
  <2> HIDE DEF F, start
  <2> QED
    BY <1>1, <1>4, Recursion
<1>6. f = Rhs(f)
  <2>1. ASSUME NEW n \in 1 .. N PROVE n - 1 \in 0 .. N /\ f[n] = WalkStep(f[n - 1], segs[n])
    <3>1. n \in Nat /\ n # 0 /\ n - 1 \in 0 .. N /\ f[n - 1] \in V
      BY <1>1
    <3>2. F[n][f[n - 1]] = WalkStep(f[n - 1], segs[n])
      BY <3>1
    <3> HIDE DEF F
    <3> QED
      BY <1>5, <3>1, <3>2 DEF Follows
  <2> QED
    BY <1>1, <1>5, <2>1 DEF Follows
<1>7. w = Rhs(w)
  BY <1>3, <1>6
<1>8. w[0] = start /\ \A n \in 1 .. N : w[n] = WalkStep(w[n - 1], segs[n])
  BY <1>1, <1>7
<1>9. \A n \in 0 .. N : w[n] \in V
  <2>1. w[0] \in V /\ \A n \in 1 .. N : w[n - 1] \in V => w[n] \in V
    BY <1>1, <1>2, <1>8
  <2> QED
    BY <1>1, <2>1, StaysIn
<1> QED
  BY <1>1, <1>8, <1>9 DEF V, N, w

\* The fields that one segment changes.
LEMMA ScanStepFields ==
  ASSUME NEW a \in Scanned, NEW s \in AnySegment
  PROVE  LET b == ScanStep(a, s)
         IN  /\ b \in Scanned
             /\ b.prev = s
             /\ s = ".." => /\ b.stack = Front(a.stack)
                            /\ b.under = (IF a.stack = <<>> THEN a.under + 1 ELSE a.under)
                            /\ b.astray = a.astray
                            /\ b.total = a.total - (Len(a.prev) + 1)
             /\ s = "." => /\ b.stack = a.stack /\ b.under = a.under
                           /\ b.astray = a.astray /\ b.total = a.total
             /\ s \notin {".", ".."} =>
                  /\ b.total = a.total + Len(s) + 1
                  /\ a.under > 0 => b.astray = TRUE
                  /\ ~(a.under > 0) => /\ b.stack = Append(a.stack, s)
                                       /\ b.under = a.under /\ b.astray = a.astray
<1> DEFINE t == Total(a, s)
           c == [stack |-> a.stack, under |-> a.under, astray |-> a.astray,
                 total |-> t, prev |-> s]
<1>1. /\ a.stack \in Seq(Stacked) /\ a.under \in Nat /\ a.astray \in BOOLEAN
      /\ a.total \in Int /\ a.prev \in AnySegment
      /\ Front(a.stack) \in Seq(Stacked)
  BY FrontLemma DEF Scanned
<1>2. a = [stack |-> a.stack, under |-> a.under, astray |-> a.astray,
           total |-> a.total, prev |-> a.prev]
  BY DEF Scanned
<1>3. Len(s) \in Nat /\ Len(a.prev) \in Nat
  BY <1>1, LengthAssumption DEF AnySegment, Segment
<1>4. s \notin {".", ".."} => s \in Stacked
  BY DEF AnySegment, Segment, Stacked
<1>5. s \in Stacked => Append(a.stack, s) \in Seq(Stacked)
  BY <1>1, AppendProperties
<1>6. a.stack = <<>> => Front(a.stack) = a.stack
  BY SubSeqEmpty DEF Front
<1>7. /\ s = ".." => t = a.total - (Len(a.prev) + 1)
      /\ s = "." => t = a.total
      /\ s \notin {".", ".."} => t = a.total + Len(s) + 1
  BY DEF Total
<1>8. t \in Int
  BY <1>1, <1>3, <1>7
<1>9. [a EXCEPT !.total = t, !.prev = s] = c
  <2> DEFINE q == [a EXCEPT !.total = t]
  <2>1. q = [stack |-> a.stack, under |-> a.under, astray |-> a.astray,
             total |-> t, prev |-> a.prev]
    BY <1>2
  <2>2. [a EXCEPT !.total = t, !.prev = s] = [q EXCEPT !.prev = s]
    OBVIOUS
  <2> HIDE DEF q
  <2>3. [q EXCEPT !.prev = s] = c
    BY <2>1
  <2> QED
    BY <2>2, <2>3
<1> HIDE DEF t
<1>10. CASE s = ".." /\ a.stack # <<>>
  <2>1. ScanStep(a, s) = [c EXCEPT !.stack = Front(@)]
    BY <1>9, <1>10 DEF ScanStep, t
  <2>2. ScanStep(a, s) = [stack |-> Front(a.stack), under |-> a.under, astray |-> a.astray,
                          total |-> t, prev |-> s]
    BY <2>1
  <2> QED
    BY <1>1, <1>7, <1>8, <1>10, <2>2 DEF Scanned
<1>11. CASE s = ".." /\ a.stack = <<>>
  <2>1. ScanStep(a, s) = [c EXCEPT !.under = @ + 1]
    BY <1>9, <1>11 DEF ScanStep, t
  <2>2. ScanStep(a, s) = [stack |-> a.stack, under |-> a.under + 1, astray |-> a.astray,
                          total |-> t, prev |-> s]
    BY <2>1
  <2> QED
    BY <1>1, <1>6, <1>7, <1>8, <1>11, <2>2 DEF Scanned
<1>12. CASE s = "."
  <2>1. ScanStep(a, s) = c
    BY <1>9, <1>12 DEF ScanStep, t
  <2> QED
    BY <1>1, <1>7, <1>8, <1>12, <2>1 DEF Scanned
<1>13. CASE s \notin {".", ".."} /\ a.under > 0
  <2>1. ScanStep(a, s) = [c EXCEPT !.under = @ - 1, !.astray = TRUE]
    BY <1>9, <1>13 DEF ScanStep, t
  <2>2. ScanStep(a, s) = [stack |-> a.stack, under |-> a.under - 1, astray |-> TRUE,
                          total |-> t, prev |-> s]
    BY <2>1
  <2>3. a.under - 1 \in Nat
    BY <1>1, <1>13
  <2> DEFINE b == ScanStep(a, s)
  <2>4. b.astray = TRUE /\ b.prev = s /\ b.total = t
    BY <2>2
  <2>5. b \in Scanned
    BY <1>1, <1>8, <2>2, <2>3 DEF Scanned
  <2> HIDE DEF b
  <2>6. b.total = a.total + Len(s) + 1
    BY <1>7, <1>13, <2>4
  <2> QED
    BY <1>13, <2>4, <2>5, <2>6 DEF b
<1>14. CASE s \notin {".", ".."} /\ ~(a.under > 0)
  <2>1. ScanStep(a, s) = [c EXCEPT !.stack = Append(@, s)]
    BY <1>9, <1>14 DEF ScanStep, t
  <2>2. ScanStep(a, s) = [stack |-> Append(a.stack, s), under |-> a.under,
                          astray |-> a.astray, total |-> t, prev |-> s]
    BY <2>1
  <2> QED
    BY <1>1, <1>4, <1>5, <1>7, <1>8, <1>14, <2>2 DEF Scanned
<1> QED
  BY <1>10, <1>11, <1>12, <1>13, <1>14

\* A scan starts with the first segment as the last one.
LEMMA ScanStartType ==
  ASSUME NEW segs \in Seq(AnySegment), segs # <<>>
  PROVE  ScanStart(segs) \in Scanned
<1>1. Head(segs) \in AnySegment
  BY HeadTailProperties
<1>2. <<>> \in Seq(Stacked)
  OBVIOUS
<1> QED
  BY <1>1, <1>2 DEF ScanStart, Scanned

\* The stack, the sum and the last segment after each step.
LEMMA ScansLemma ==
  ASSUME NEW segs \in Seq(AnySegment), segs # <<>>
  PROVE  /\ Len(segs) \in Nat
         /\ Scans(segs)[0] = ScanStart(segs)
         /\ \A n \in 1 .. Len(segs) : /\ segs[n] \in AnySegment
                                      /\ Scans(segs)[n] = ScanStep(Scans(segs)[n - 1], segs[n])
         /\ \A n \in 0 .. Len(segs) : Scans(segs)[n] \in Scanned
<1> DEFINE V == Scanned
           N == Len(segs)
           start == ScanStart(segs)
           F == [n \in 1 .. N |-> [v \in V |-> ScanStep(v, segs[n])]]
           Rhs(f) == [n \in 0 .. N |-> IF n = 0 THEN ScanStart(segs) ELSE ScanStep(f[n - 1], segs[n])]
           w == Scans(segs)
<1>1. N \in Nat /\ start \in V /\ \A n \in 1 .. N : segs[n] \in AnySegment
  BY ScanStartType, ElementOfSeq
<1>2. \A v \in V, s \in AnySegment : ScanStep(v, s) \in V
  BY ScanStepFields
<1>3. w = CHOOSE g : g = Rhs(g)
  BY DEF Scans
<1> HIDE DEF V, N, w
<1>4. F \in Steps(V, N)
  BY <1>1, <1>2 DEF Steps
<1>5. PICK f \in [0 .. N -> V] : Follows(f, start, F, N)
  <2> HIDE DEF F, start
  <2> QED
    BY <1>1, <1>4, Recursion
<1>6. f = Rhs(f)
  <2>1. ASSUME NEW n \in 1 .. N PROVE n - 1 \in 0 .. N /\ f[n] = ScanStep(f[n - 1], segs[n])
    <3>1. n \in Nat /\ n # 0 /\ n - 1 \in 0 .. N /\ f[n - 1] \in V
      BY <1>1
    <3>2. F[n][f[n - 1]] = ScanStep(f[n - 1], segs[n])
      BY <3>1
    <3> HIDE DEF F
    <3> QED
      BY <1>5, <3>1, <3>2 DEF Follows
  <2> QED
    BY <1>1, <1>5, <2>1 DEF Follows
<1>7. w = Rhs(w)
  BY <1>3, <1>6
<1>8. w[0] = start /\ \A n \in 1 .. N : w[n] = ScanStep(w[n - 1], segs[n])
  BY <1>1, <1>7
<1>9. \A n \in 0 .. N : w[n] \in V
  <2>1. w[0] \in V /\ \A n \in 1 .. N : w[n - 1] \in V => w[n] \in V
    BY <1>1, <1>2, <1>8
  <2> QED
    BY <1>1, <2>1, StaysIn
<1> QED
  BY <1>1, <1>8, <1>9 DEF V, N, w

\* The length of the text on the stack after each segment.
LEMMA LengthsLemma ==
  ASSUME NEW stack \in Seq(Stacked)
  PROVE  /\ Len(stack) \in Nat
         /\ Lengths(stack)[0] = 0
         /\ \A n \in 1 .. Len(stack) : /\ stack[n] \in Stacked
                                      /\ Lengths(stack)[n] = Lengths(stack)[n - 1] + Len(stack[n]) + 1
         /\ \A n \in 0 .. Len(stack) : Lengths(stack)[n] \in Nat
<1> DEFINE V == Nat
           N == Len(stack)
           start == 0
           F == [n \in 1 .. N |-> [v \in V |-> v + Len(stack[n]) + 1]]
           Rhs(f) == [n \in 0 .. N |-> IF n = 0 THEN 0 ELSE f[n - 1] + Len(stack[n]) + 1]
           w == Lengths(stack)
<1>1. N \in Nat /\ start \in V /\ \A n \in 1 .. N : stack[n] \in Stacked
  BY ElementOfSeq
<1>2. \A v \in V, s \in Stacked : v + Len(s) + 1 \in V
  <2>1. \A s \in Stacked : Len(s) \in Nat
    BY LengthAssumption DEF Stacked
  <2> QED
    BY <2>1
<1>3. w = CHOOSE g : g = Rhs(g)
  BY DEF Lengths
<1> HIDE DEF V, N, w
<1>4. F \in Steps(V, N)
  BY <1>1, <1>2 DEF Steps
<1>5. PICK f \in [0 .. N -> V] : Follows(f, start, F, N)
  <2> HIDE DEF F, start
  <2> QED
    BY <1>1, <1>4, Recursion
<1>6. f = Rhs(f)
  <2>1. ASSUME NEW n \in 1 .. N PROVE n - 1 \in 0 .. N /\ f[n] = f[n - 1] + Len(stack[n]) + 1
    <3>1. n \in Nat /\ n # 0 /\ n - 1 \in 0 .. N /\ f[n - 1] \in V
      BY <1>1
    <3>2. F[n][f[n - 1]] = f[n - 1] + Len(stack[n]) + 1
      BY <3>1
    <3> HIDE DEF F
    <3> QED
      BY <1>5, <3>1, <3>2 DEF Follows
  <2> QED
    BY <1>1, <1>5, <2>1 DEF Follows
<1>7. w = Rhs(w)
  BY <1>3, <1>6
<1>8. w[0] = start /\ \A n \in 1 .. N : w[n] = w[n - 1] + Len(stack[n]) + 1
  BY <1>1, <1>7
<1>9. \A n \in 0 .. N : w[n] \in V
  <2>1. w[0] \in V /\ \A n \in 1 .. N : w[n - 1] \in V => w[n] \in V
    BY <1>1, <1>2, <1>8
  <2> QED
    BY <1>1, <2>1, StaysIn
<1> QED
  BY <1>1, <1>8, <1>9 DEF V, N, w

\* A vector keeps what is neither "." nor "..".
LEMMA PopStepType ==
  ASSUME NEW v \in Seq(Stacked), NEW s \in AnySegment
  PROVE  PopStep(v, s) \in Seq(Stacked)
<1>1. Front(v) \in Seq(Stacked)
  BY FrontLemma
<1>2. s \notin {".", ".."} => s \in Stacked
  BY DEF AnySegment, Segment, Stacked
<1>3. s \in Stacked => Append(v, s) \in Seq(Stacked)
  BY AppendProperties
<1> HIDE DEF Stacked
<1> QED
  BY <1>1, <1>2, <1>3 DEF PopStep

\* The vector after each step.
LEMMA PopsLemma ==
  ASSUME NEW segs \in Seq(AnySegment)
  PROVE  /\ Len(segs) \in Nat
         /\ Pops(segs)[0] = <<>>
         /\ \A n \in 1 .. Len(segs) : /\ segs[n] \in AnySegment
                                      /\ Pops(segs)[n] = PopStep(Pops(segs)[n - 1], segs[n])
         /\ \A n \in 0 .. Len(segs) : Pops(segs)[n] \in Seq(Stacked)
<1> DEFINE V == Seq(Stacked)
           N == Len(segs)
           start == <<>>
           F == [n \in 1 .. N |-> [v \in V |-> PopStep(v, segs[n])]]
           Rhs(f) == [n \in 0 .. N |-> IF n = 0 THEN <<>> ELSE PopStep(f[n - 1], segs[n])]
           w == Pops(segs)
<1>1. N \in Nat /\ start \in V /\ \A n \in 1 .. N : segs[n] \in AnySegment
  BY ElementOfSeq
<1>2. \A v \in V, s \in AnySegment : PopStep(v, s) \in V
  BY PopStepType
<1>3. w = CHOOSE g : g = Rhs(g)
  BY DEF Pops
<1> HIDE DEF V, N, w
<1>4. F \in Steps(V, N)
  BY <1>1, <1>2 DEF Steps
<1>5. PICK f \in [0 .. N -> V] : Follows(f, start, F, N)
  <2> HIDE DEF F, start
  <2> QED
    BY <1>1, <1>4, Recursion
<1>6. f = Rhs(f)
  <2>1. ASSUME NEW n \in 1 .. N PROVE n - 1 \in 0 .. N /\ f[n] = PopStep(f[n - 1], segs[n])
    <3>1. n \in Nat /\ n # 0 /\ n - 1 \in 0 .. N /\ f[n - 1] \in V
      BY <1>1
    <3>2. F[n][f[n - 1]] = PopStep(f[n - 1], segs[n])
      BY <3>1
    <3> HIDE DEF F
    <3> QED
      BY <1>5, <3>1, <3>2 DEF Follows
  <2> QED
    BY <1>1, <1>5, <2>1 DEF Follows
<1>7. w = Rhs(w)
  BY <1>3, <1>6
<1>8. w[0] = start /\ \A n \in 1 .. N : w[n] = PopStep(w[n - 1], segs[n])
  BY <1>1, <1>7
<1>9. \A n \in 0 .. N : w[n] \in V
  <2>1. w[0] \in V /\ \A n \in 1 .. N : w[n - 1] \in V => w[n] \in V
    BY <1>1, <1>2, <1>8
  <2> QED
    BY <1>1, <2>1, StaysIn
<1> QED
  BY <1>1, <1>8, <1>9 DEF V, N, w

-----------------------------------------------------------------------------
(* A sequence with one element in front. *)

\* What is in a sequence with one more element in front.
LEMMA InFront ==
  ASSUME NEW S, NEW r \in S, NEW s \in Seq(S)
  PROVE  /\ <<r>> \o s \in Seq(S) /\ <<r>> \o s # <<>>
         /\ Len(<<r>> \o s) = Len(s) + 1
         /\ (<<r>> \o s)[1] = r
         /\ \A n \in 1 .. Len(s) : (<<r>> \o s)[n + 1] = s[n]
         /\ Front(<<r>> \o <<>>) = <<>>
         /\ s # <<>> => Front(<<r>> \o s) = <<r>> \o Front(s)
<1> DEFINE one == <<r>>
<1>1. one \in Seq(S) /\ Len(one) = 1 /\ one[1] = r /\ one # <<>>
  OBVIOUS
<1>2. Front(<<r>> \o <<>>) = <<>>
  <2>1. <<>> \in Seq(S) /\ Append(<<>>, r) = <<r>> \o <<>>
    OBVIOUS
  <2> QED
    BY <2>1, FrontOfAppend
<1> HIDE DEF one
<1>3. /\ one \o s \in Seq(S) /\ Len(one \o s) = Len(s) + 1 /\ Len(s) \in Nat
      /\ (one \o s)[1] = r
      /\ \A n \in 1 .. Len(s) : (one \o s)[n + 1] = s[n]
  <2>0. /\ one \o s \in Seq(S) /\ Len(one \o s) = Len(one) + Len(s)
        /\ \A i \in 1 .. Len(one) + Len(s) :
              (one \o s)[i] = IF i <= Len(one) THEN one[i] ELSE s[i - Len(one)]
    BY <1>1, ConcatProperties
  <2>1. /\ one \o s \in Seq(S) /\ Len(one \o s) = 1 + Len(s)
        /\ \A i \in 1 .. 1 + Len(s) : (one \o s)[i] = IF i <= 1 THEN one[i] ELSE s[i - 1]
    BY <1>1, <2>0
  <2>2. Len(s) \in Nat
    OBVIOUS
  <2> DEFINE c == one \o s
             N == Len(s)
  <2>3. \A i \in 1 .. 1 + N : c[i] = IF i <= 1 THEN one[i] ELSE s[i - 1]
    BY <2>1
  <2> HIDE DEF c, N
  <2>4. ASSUME NEW n \in 1 .. N PROVE c[n + 1] = s[n]
    <3>1. n + 1 \in 1 .. 1 + N /\ ~(n + 1 <= 1) /\ (n + 1) - 1 = n
      BY <2>2 DEF N
    <3> QED
      BY <2>3, <3>1
  <2>5. c[1] = r
    BY <1>1, <2>2, <2>3 DEF N
  <2> QED
    BY <2>1, <2>2, <2>4, <2>5 DEF c, N
<1>4. one \o s # <<>>
  BY <1>3
<1>5. ASSUME s # <<>> PROVE Front(one \o s) = one \o Front(s)
  <2>1. Front(s) \in Seq(S) /\ s[Len(s)] \in S /\ s = Append(Front(s), s[Len(s)])
    BY <1>5, FrontLemma
  <2> DEFINE f == Front(s)
             x == s[Len(s)]
  <2>2. f \in Seq(S) /\ x \in S /\ s = Append(f, x)
    BY <2>1
  <2> HIDE DEF f, x
  <2>3. <<x>> \in Seq(S) /\ one \o f \in Seq(S)
    BY <1>1, <2>2, ConcatProperties
  <2>4. Append(one \o f, x) = (one \o f) \o <<x>> /\ Append(f, x) = f \o <<x>>
    BY <2>2, <2>3, AppendIsConcat
  <2>5. (one \o f) \o <<x>> = one \o (f \o <<x>>)
    BY <1>1, <2>2, <2>3, ConcatAssociative
  <2>6. Front(Append(one \o f, x)) = one \o f
    BY <2>2, <2>3, FrontOfAppend
  <2>7. one \o s = Append(one \o f, x)
    BY <2>2, <2>4, <2>5
  <2> QED
    BY <2>6, <2>7 DEF f
<1> QED
  BY <1>2, <1>3, <1>4, <1>5 DEF one

\* The cut of a path that starts with a slash, and its stack.
LEMMA BehindLemma ==
  ASSUME NEW s \in Seq(Segment)
  PROVE  /\ Behind(s) \in Seq(Segment) /\ Behind(s) # <<>>
         /\ Len(s) \in Nat /\ Len(Behind(s)) = Len(s) + 1
         /\ Behind(s)[1] = ""
         /\ \A n \in 1 .. Len(s) : Behind(s)[n + 1] = s[n]
         /\ Front(Behind(<<>>)) = <<>>
         /\ Behind(<<>>) = Append(<<>>, "")
         /\ \A x \in Segment : Append(Behind(s), x) = Behind(Append(s, x))
         /\ s # <<>> => Front(Behind(s)) = Behind(Front(s))
<1> DEFINE root == ""
<1>1. root \in Segment
  BY DEF Segment
<1>2. <<root>> \o <<>> = Append(<<>>, root)
  OBVIOUS
<1>3. \A u : Behind(u) = <<root>> \o u
  BY DEF Behind
<1> HIDE DEF root
<1>4. /\ Behind(s) \in Seq(Segment) /\ Behind(s) # <<>>
      /\ Len(Behind(s)) = Len(s) + 1
      /\ Behind(s)[1] = root
      /\ \A n \in 1 .. Len(s) : Behind(s)[n + 1] = s[n]
  <2>1. /\ <<root>> \o s \in Seq(Segment) /\ <<root>> \o s # <<>>
        /\ Len(<<root>> \o s) = Len(s) + 1
        /\ (<<root>> \o s)[1] = root
        /\ \A n \in 1 .. Len(s) : (<<root>> \o s)[n + 1] = s[n]
    BY <1>1, InFront
  <2>2. Behind(s) = <<root>> \o s
    BY <1>3
  <2> QED
    BY <2>1, <2>2
<1>5. Front(Behind(<<>>)) = <<>>
  BY <1>1, <1>3, InFront
<1>6. ASSUME NEW x \in Segment PROVE Append(Behind(s), x) = Behind(Append(s, x))
  <2> DEFINE one == <<root>>
  <2>1. one \in Seq(Segment)
    BY <1>1
  <2>2. Behind(s) = one \o s /\ Behind(Append(s, x)) = one \o Append(s, x)
    BY <1>3
  <2> HIDE DEF one
  <2>3. Append(one \o s, x) = one \o Append(s, x)
    <3>1. <<x>> \in Seq(Segment) /\ one \o s \in Seq(Segment)
      BY <2>1, ConcatProperties
    <3>2. Append(one \o s, x) = (one \o s) \o <<x>> /\ Append(s, x) = s \o <<x>>
      BY <3>1, AppendIsConcat
    <3> QED
      BY <2>1, <3>1, <3>2, ConcatAssociative
  <2> QED
    BY <2>2, <2>3
<1>7. s # <<>> => Front(Behind(s)) = Behind(Front(s))
  BY <1>1, <1>3, InFront
<1>8. Behind(<<>>) = Append(<<>>, root)
  BY <1>2, <1>3
<1>9. Len(s) \in Nat
  OBVIOUS
<1> QED
  BY <1>4, <1>5, <1>6, <1>7, <1>8, <1>9 DEF root

-----------------------------------------------------------------------------
(* What a walk makes of a path. *)

\* The slash in front changes nothing.
LEMMA WalkFromRoot ==
  ASSUME NEW s \in Seq(Segment)
  PROVE  /\ \A n \in 0 .. Len(s) : Walks(Behind(s))[n + 1] = Walks(s)[n]
         /\ Walk(Behind(s)) = Walk(s)
<1> DEFINE root == ""
           t == Behind(s)
           N == Len(s)
           v == Walks(t)
           w == Walks(s)
<1>2. /\ t \in Seq(Segment) /\ Len(t) = N + 1 /\ t[1] = root
      /\ \A n \in 1 .. N : t[n + 1] = s[n]
  BY BehindLemma
<1> HIDE DEF t, root
<1>4. N \in Nat /\ w[0] = <<>>
  BY WalksLemma
<1>5. \A n \in 1 .. N : w[n] = WalkStep(w[n - 1], s[n])
  BY WalksLemma
<1>6. v[0] = <<>>
  BY <1>2, WalksLemma
<1>7. \A n \in 1 .. N + 1 : v[n] = WalkStep(v[n - 1], t[n])
  BY <1>2, WalksLemma
<1>8. Walk(t) = v[N + 1] /\ Walk(s) = w[N]
  BY <1>2 DEF Walk
<1> HIDE DEF N, v, w
<1> DEFINE T == {n \in 0 .. N : v[n + 1] = w[n]}
<1>9. 0 \in T
  <2>1. 1 \in 1 .. N + 1 /\ 1 - 1 = 0 /\ 0 + 1 = 1 /\ 0 \in 0 .. N
    BY <1>4
  <2>2. v[1] = WalkStep(<<>>, root)
    BY <1>2, <1>6, <1>7, <2>1
  <2>3. WalkStep(<<>>, root) = <<>>
    BY DEF WalkStep, root
  <2> QED
    BY <1>4, <2>1, <2>2, <2>3
<1>10. ASSUME NEW n \in 1 .. N, n - 1 \in T PROVE n \in T
  <2>1. n + 1 \in 1 .. N + 1 /\ (n + 1) - 1 = n /\ (n - 1) + 1 = n /\ n \in 0 .. N
    BY <1>4
  <2>2. v[n + 1] = WalkStep(v[n], s[n])
    BY <1>2, <1>7, <2>1
  <2>3. v[n] = w[n - 1]
    BY <1>10, <2>1
  <2> QED
    BY <1>5, <2>1, <2>2, <2>3
<1>11. 0 .. N \subseteq T
  <2> HIDE DEF T
  <2> QED
    BY <1>4, <1>9, <1>10, UpTo
<1>12. \A n \in 0 .. N : v[n + 1] = w[n]
  BY <1>11
<1>13. Walk(t) = Walk(s)
  BY <1>4, <1>8, <1>12
<1> QED
  BY <1>12, <1>13 DEF t, N, v, w

\* A path of names is where it leads.
LEMMA WalkOfNames ==
  ASSUME NEW s \in Seq(Names)
  PROVE  s \in Seq(Segment) /\ Walk(s) = s
<1> DEFINE N == Len(s)
           w == Walks(s)
<1>1. s \in Seq(Segment)
  <2>1. Names \subseteq Segment
    BY DEF Segment
  <2> QED
    BY <2>1, SeqMonotonic
<1>2. N \in Nat /\ w[0] = <<>>
  BY <1>1, WalksLemma
<1>3. \A n \in 1 .. N : w[n] = WalkStep(w[n - 1], s[n])
  BY <1>1, WalksLemma
<1>4. \A n \in 1 .. N : s[n] \in Names /\ s[n] \notin {"", ".", ".."}
  BY ElementOfSeq, UrlPathAssumption
<1>5. Walk(s) = w[N]
  BY DEF Walk
<1> DEFINE T == {n \in 0 .. N : w[n] = SubSeq(s, 1, n)}
<1>6. 0 \in T
  <2>1. SubSeq(s, 1, 0) = <<>>
    BY SubSeqEmpty
  <2> HIDE DEF N, w
  <2>2. w[0] = SubSeq(s, 1, 0) /\ 0 \in 0 .. N
    BY <1>2, <2>1
  <2> QED
    BY <2>2
<1>7. ASSUME NEW n \in 1 .. N, n - 1 \in T PROVE n \in T
  <2>1. WalkStep(w[n - 1], s[n]) = Append(w[n - 1], s[n])
    BY <1>4 DEF WalkStep
  <2>2. w[n - 1] = SubSeq(s, 1, n - 1)
    BY <1>7
  <2>3. SubSeq(s, 1, n - 1) \in Seq(Names)
    <3> HIDE DEF N, w
    <3>1. ASSUME NEW i \in 1 .. n - 1 PROVE s[i] \in Names
      <4>1. i \in 1 .. N
        BY <1>2
      <4> QED
        BY <1>4, <4>1
    <3>2. n - 1 \in Int
      BY <1>2
    <3> QED
      BY <3>1, <3>2, SubSeqProperties
  <2>4. SubSeq(s, 1, n) = SubSeq(s, 1, n - 1) \o <<s[n]>>
    <3>1. 1 \in 1 .. Len(s) /\ n \in 1 .. Len(s)
      BY <1>2
    <3> QED
      BY <3>1, SubSeqRecursiveSecond
  <2>5. Append(SubSeq(s, 1, n - 1), s[n]) = SubSeq(s, 1, n - 1) \o <<s[n]>>
    BY <1>4, <2>3, AppendIsConcat
  <2>6. n \in 0 .. N
    BY <1>2
  <2> QED
    BY <1>3, <2>1, <2>2, <2>4, <2>5, <2>6
<1>8. 0 .. N \subseteq T
  <2> HIDE DEF T, N
  <2> QED
    BY <1>2, <1>6, <1>7, UpTo
<1>9. w[N] = SubSeq(s, 1, N)
  BY <1>2, <1>8
<1> QED
  BY <1>1, <1>5, <1>9, SubSeqFull

-----------------------------------------------------------------------------
(* normalize_path's stack and the walk. *)

\* One segment takes the stack and the walk alike, unless it takes the index below
\* zero, which it stays or leaves a segment in front of the stack.
LEMMA ScanStepFollows ==
  ASSUME NEW a \in Scanned, NEW w \in Seq(Names), NEW s \in Segment, s # ""
  PROVE  LET b == ScanStep(a, s)
             v == WalkStep(w, s)
         IN  /\ Below(a) => Below(b)
             /\ ~Below(a) /\ a.stack = w => \/ Below(b) /\ s = ".." /\ w = <<>>
                                            \/ ~Below(b) /\ b.stack = v
             /\ ~Below(a) /\ a.stack = Behind(w) => /\ ~Below(b)
                                                    /\ b.stack = v \/ b.stack = Behind(v)
<1> DEFINE b == ScanStep(a, s)
           v == WalkStep(w, s)
<1>1. /\ s = ".." => /\ b.stack = Front(a.stack) /\ b.astray = a.astray
                     /\ b.under = (IF a.stack = <<>> THEN a.under + 1 ELSE a.under)
      /\ s = "." => b.stack = a.stack /\ b.under = a.under /\ b.astray = a.astray
      /\ s \notin {".", ".."} =>
           /\ a.under > 0 => b.astray = TRUE
           /\ ~(a.under > 0) => /\ b.stack = Append(a.stack, s)
                                /\ b.under = a.under /\ b.astray = a.astray
  <2>1. s \in AnySegment
    BY DEF AnySegment
  <2> QED
    BY <2>1, ScanStepFields
<1>2. /\ s = ".." => v = IF w = <<>> THEN w ELSE Front(w)
      /\ s = "." => v = w
      /\ s \notin {".", ".."} => v = Append(w, s)
  BY DEF WalkStep, Segment
<1>3. w \in Seq(Segment) /\ a.under \in Nat
  BY WalkOfNames DEF Scanned
<1> HIDE DEF b, v
<1>4. /\ Front(Behind(<<>>)) = <<>> /\ Behind(w) # <<>>
      /\ Append(Behind(w), s) = Behind(Append(w, s))
      /\ w # <<>> => Front(Behind(w)) = Behind(Front(w))
  BY <1>3, BehindLemma
<1>5. ASSUME Below(a) PROVE Below(b)
  <2>1. CASE s = ".."
    BY <1>1, <1>3, <1>5, <2>1 DEF Below
  <2>2. CASE s # ".."
    BY <1>1, <1>3, <1>5, <2>2 DEF Below
  <2> QED
    BY <2>1, <2>2
<1>6. ASSUME ~Below(a), ~(s = ".." /\ a.stack = <<>>) PROVE ~Below(b)
  <2>1. ~(a.under > 0) /\ ~a.astray
    BY <1>6 DEF Below
  <2>2. b.under = a.under /\ b.astray = a.astray
    BY <1>1, <1>6, <2>1
  <2> QED
    BY <2>1, <2>2 DEF Below
<1>7. ASSUME ~Below(a), s = "..", a.stack = <<>> PROVE Below(b)
  BY <1>1, <1>3, <1>7 DEF Below
<1>8. ASSUME ~Below(a) PROVE s \notin {".", ".."} => b.stack = Append(a.stack, s)
  BY <1>1, <1>8 DEF Below
<1>9. ASSUME ~Below(a), a.stack = w
      PROVE  \/ Below(b) /\ s = ".." /\ w = <<>>
             \/ ~Below(b) /\ b.stack = v
  <2>1. CASE s = ".." /\ w = <<>>
    BY <1>7, <1>9, <2>1
  <2>2. CASE s = ".." /\ w # <<>>
    BY <1>1, <1>2, <1>6, <1>9, <2>2
  <2>3. CASE s = "."
    BY <1>1, <1>2, <1>6, <1>9, <2>3
  <2>4. CASE s \notin {".", ".."}
    BY <1>2, <1>6, <1>8, <1>9, <2>4
  <2> QED
    BY <2>1, <2>2, <2>3, <2>4
<1>10. ASSUME ~Below(a), a.stack = Behind(w)
       PROVE  ~Below(b) /\ (b.stack = v \/ b.stack = Behind(v))
  <2>1. CASE s = ".."
    BY <1>1, <1>2, <1>4, <1>6, <1>10, <2>1
  <2>2. CASE s = "."
    BY <1>1, <1>2, <1>6, <1>10, <2>2
  <2>3. CASE s \notin {".", ".."}
    BY <1>2, <1>4, <1>6, <1>8, <1>10, <2>3
  <2> QED
    BY <2>1, <2>2, <2>3
<1> QED
  BY <1>5, <1>9, <1>10 DEF b, v

\* The empty segment that dirname leaves of a file in the root, on an empty stack.
LEMMA ScanStepRoot ==
  ASSUME NEW a \in Scanned, a.stack = <<>>, ~Below(a)
  PROVE  /\ ScanStep(a, "").stack = Behind(WalkStep(<<>>, ""))
         /\ ~Below(ScanStep(a, ""))
<1>1. "" \in AnySegment
  BY DEF AnySegment, Segment
<1>2. ScanStep(a, "").stack = Append(<<>>, "") /\ ~Below(ScanStep(a, ""))
  <2> DEFINE root == ""
             b == ScanStep(a, root)
  <2>1. root \in AnySegment /\ root \notin {".", ".."}
    BY <1>1
  <2> HIDE DEF root
  <2>2. ~(a.under > 0) /\ ~a.astray
    BY DEF Below
  <2>3. b.stack = Append(a.stack, root) /\ b.under = a.under /\ b.astray = a.astray
    BY <2>1, <2>2, ScanStepFields
  <2> QED
    BY <2>2, <2>3 DEF root, Below
<1>3. Append(<<>>, "") = Behind(<<>>)
  <2>1. <<>> \in Seq(Segment)
    OBVIOUS
  <2> QED
    BY <2>1, BehindLemma
<1>4. WalkStep(<<>>, "") = <<>>
  BY DEF WalkStep
<1> QED
  BY <1>2, <1>3, <1>4

\* Unless the index has been below zero, the stack is the walk, or the walk behind the
\* empty segment that dirname leaves of a file in the root; and it has been below zero
\* only if the walk went up from its root.
LEMMA ScanFollowsWalk ==
  ASSUME NEW t \in Seq(Segment), t # <<>>, SlashFirst(t)
  PROVE  \/ Below(Scan(t)) /\ Leaves(t)
         \/ ~Below(Scan(t)) /\ \/ Scan(t).stack = Walk(t)
                               \/ t[1] = "" /\ Scan(t).stack = Behind(Walk(t))
<1> DEFINE N == Len(t)
           c == Scans(t)
           w == Walks(t)
           Near(n) == \/ Below(c[n]) /\ Leaves(t)
                      \/ ~Below(c[n]) /\ c[n].stack = w[n]
                      \/ ~Below(c[n]) /\ t[1] = "" /\ n # 0 /\ c[n].stack = Behind(w[n])
           T == {n \in 0 .. N : Near(n)}
<1>1. N \in Nat /\ N > 0
  BY FrontLemma
<1>2. \A n \in 1 .. N : w[n] = WalkStep(w[n - 1], t[n]) /\ t[n] \in Segment
  BY WalksLemma
<1>3. w[0] = <<>> /\ \A n \in 0 .. N : w[n] \in Seq(Names)
  BY WalksLemma
<1>4. t \in Seq(AnySegment)
  <2>1. Segment \subseteq AnySegment
    BY DEF AnySegment
  <2> QED
    BY <2>1, SeqMonotonic
<1>5. \A n \in 1 .. N : c[n] = ScanStep(c[n - 1], t[n])
  BY <1>4, ScansLemma
<1>6. \A n \in 0 .. N : c[n] \in Scanned
  BY <1>4, ScansLemma
<1>7. c[0].stack = <<>> /\ ~Below(c[0])
  <2>1. c[0] = ScanStart(t)
    BY <1>4, ScansLemma
  <2>2. c[0].stack = <<>> /\ c[0].under = 0 /\ c[0].astray = FALSE
    BY <2>1 DEF ScanStart
  <2> QED
    BY <2>2 DEF Below
<1>8. \A n \in 1 .. N : t[n] = "" => n = 1
  BY DEF SlashFirst
<1>9. c[N] = Scan(t) /\ w[N] = Walk(t)
  BY DEF Scan, Walk
<1>14. \A n \in 1 .. N : t[n] = ".." /\ w[n - 1] = <<>> => Leaves(t)
  BY DEF Leaves
<1> HIDE DEF N, c, w
<1>10. 0 \in T
  BY <1>1, <1>3, <1>7
<1>11. ASSUME NEW n \in 1 .. N, n - 1 \in T PROVE n \in T
  <2>1. n \in 0 .. N /\ n - 1 \in 0 .. N /\ n # 0
    BY <1>1
  <2>2. /\ c[n - 1] \in Scanned /\ w[n - 1] \in Seq(Names) /\ t[n] \in Segment
        /\ c[n] = ScanStep(c[n - 1], t[n]) /\ w[n] = WalkStep(w[n - 1], t[n])
    BY <1>2, <1>3, <1>5, <1>6, <2>1
  <2>3. Near(n - 1)
    BY <1>11
  <2>4. CASE t[n] # ""
    <3>1. /\ Below(c[n - 1]) => Below(c[n])
          /\ ~Below(c[n - 1]) /\ c[n - 1].stack = w[n - 1] =>
               \/ Below(c[n]) /\ t[n] = ".." /\ w[n - 1] = <<>>
               \/ ~Below(c[n]) /\ c[n].stack = w[n]
          /\ ~Below(c[n - 1]) /\ c[n - 1].stack = Behind(w[n - 1]) =>
               /\ ~Below(c[n])
               /\ c[n].stack = w[n] \/ c[n].stack = Behind(w[n])
      <4> DEFINE a == c[n - 1]
                 v == w[n - 1]
                 x == t[n]
      <4>1. a \in Scanned /\ v \in Seq(Names) /\ x \in Segment /\ x # ""
        BY <2>2, <2>4
      <4>2. c[n] = ScanStep(a, x) /\ w[n] = WalkStep(v, x)
        BY <2>2
      <4> HIDE DEF a, v, x
      <4>3. /\ Below(a) => Below(ScanStep(a, x))
            /\ ~Below(a) /\ a.stack = v =>
                 \/ Below(ScanStep(a, x)) /\ x = ".." /\ v = <<>>
                 \/ ~Below(ScanStep(a, x)) /\ ScanStep(a, x).stack = WalkStep(v, x)
            /\ ~Below(a) /\ a.stack = Behind(v) =>
                 /\ ~Below(ScanStep(a, x))
                 /\ \/ ScanStep(a, x).stack = WalkStep(v, x)
                    \/ ScanStep(a, x).stack = Behind(WalkStep(v, x))
        BY <4>1, ScanStepFollows
      <4> QED
        BY <4>2, <4>3 DEF a, v, x
    <3> QED
      BY <1>14, <2>1, <2>3, <3>1
  <2>5. CASE t[n] = ""
    <3>0. n = 1
      BY <1>8, <2>5
    <3>1. n = 1 /\ n - 1 = 0
      BY <3>0
    <3>2. c[n].stack = Behind(w[n]) /\ ~Below(c[n])
      BY <1>3, <1>7, <2>2, <2>5, <3>1, ScanStepRoot
    <3> QED
      BY <2>1, <2>5, <3>1, <3>2
  <2> QED
    BY <2>4, <2>5
<1>12. 0 .. N \subseteq T
  <2> HIDE DEF T
  <2> QED
    BY <1>1, <1>10, <1>11, UpTo
<1>13. Near(N)
  <2>1. N \in 0 .. N
    BY <1>1
  <2> QED
    BY <1>12, <2>1
<1> QED
  BY <1>9, <1>13

-----------------------------------------------------------------------------
(* normalize_path's sum and the text on the stack. *)

\* A push adds its segment and a slash to the text.
LEMMA WrittenOfAppend ==
  ASSUME NEW st \in Seq(Stacked), NEW x \in Stacked
  PROVE  /\ Written(st) \in Nat
         /\ Written(Append(st, x)) = Written(st) + Len(x) + 1
<1> DEFINE t == Append(st, x)
           N == Len(st)
           f == Lengths(st)
           g == Lengths(t)
           T == {n \in 0 .. N : g[n] = f[n]}
<1>1. t \in Seq(Stacked) /\ Len(t) = N + 1 /\ N \in Nat
  BY AppendProperties
<1>2. (\A n \in 1 .. N : t[n] = st[n]) /\ t[N + 1] = x
  BY AppendProperties
<1> HIDE DEF t
<1>3. f[0] = 0 /\ g[0] = 0
  BY <1>1, LengthsLemma
<1>4. \A n \in 1 .. N : f[n] = f[n - 1] + Len(st[n]) + 1
  BY LengthsLemma
<1>5. \A n \in 0 .. N : f[n] \in Nat
  BY LengthsLemma
<1>6. \A n \in 1 .. N + 1 : g[n] = g[n - 1] + Len(t[n]) + 1
  BY <1>1, LengthsLemma
<1>7. Written(st) = f[N] /\ Written(t) = g[N + 1]
  BY <1>1 DEF Written
<1> HIDE DEF N, f, g
<1>8. 0 \in T
  BY <1>1, <1>3
<1>9. ASSUME NEW n \in 1 .. N, n - 1 \in T PROVE n \in T
  <2>1. n \in 0 .. N /\ n \in 1 .. N + 1
    BY <1>1
  <2>2. g[n - 1] = f[n - 1]
    BY <1>9
  <2>3. g[n] = f[n - 1] + Len(st[n]) + 1
    BY <1>2, <1>6, <2>1, <2>2
  <2>4. f[n] = f[n - 1] + Len(st[n]) + 1
    BY <1>4
  <2> QED
    BY <2>1, <2>3, <2>4
<1>10. 0 .. N \subseteq T
  <2> HIDE DEF T
  <2> QED
    BY <1>1, <1>8, <1>9, UpTo
<1>11. N \in 0 .. N /\ N + 1 \in 1 .. N + 1 /\ (N + 1) - 1 = N
  BY <1>1
<1>12. g[N] = f[N] /\ f[N] \in Nat
  BY <1>5, <1>10, <1>11
<1>13. g[N + 1] = g[N] + Len(x) + 1
  BY <1>2, <1>6, <1>11
<1> QED
  BY <1>7, <1>12, <1>13 DEF t

\* An empty stack is no text.
LEMMA WrittenOfNothing == Written(<<>>) = 0
<1>1. <<>> \in Seq(Stacked) /\ Len(<<>>) = 0
  OBVIOUS
<1>2. Lengths(<<>>)[0] = 0
  BY <1>1, LengthsLemma
<1> QED
  BY <1>1, <1>2 DEF Written

\* A pop takes the last segment and its slash.
LEMMA WrittenOfFront ==
  ASSUME NEW st \in Seq(Stacked), st # <<>>
  PROVE  Written(Front(st)) = Written(st) - (Len(st[Len(st)]) + 1)
<1> DEFINE f == Front(st)
           x == st[Len(st)]
<1>1. f \in Seq(Stacked) /\ x \in Stacked /\ st = Append(f, x)
  BY FrontLemma
<1>2. Len(x) \in Nat
  BY <1>1, LengthAssumption DEF Stacked
<1> HIDE DEF f, x
<1>3. Written(f) \in Nat /\ Written(st) = Written(f) + Len(x) + 1
  BY <1>1, WrittenOfAppend
<1>4. Written(f) = Written(st) - (Len(x) + 1)
  BY <1>2, <1>3
<1> QED
  BY <1>4 DEF f, x

\* What is true of a scan while every ".." follows a name: the sum is right, and a
\* segment that is not "." or ".." is on top of the stack after it is read.
Balanced(a) ==
  /\ ~Below(a) /\ a.total = Written(a.stack)
  /\ a.prev \notin {".", ".."} => a.stack # <<>> /\ a.stack[Len(a.stack)] = a.prev

\* A segment keeps the sum right if ".." removes the segment that it follows.
LEMMA ScanStepBalanced ==
  ASSUME NEW a \in Scanned, NEW s \in AnySegment,
         ~Below(a), a.total = Written(a.stack),
         s = ".." => a.stack # <<>> /\ a.stack[Len(a.stack)] = a.prev
  PROVE  Balanced(ScanStep(a, s))
<1> DEFINE b == ScanStep(a, s)
<1> SUFFICES Balanced(b)
  OBVIOUS
<1>0. ~(a.under > 0) /\ ~a.astray
  BY DEF Below
<1>1. /\ b.prev = s
      /\ s = ".." => /\ b.stack = Front(a.stack)
                     /\ b.total = a.total - (Len(a.prev) + 1)
      /\ s = "." => b.stack = a.stack /\ b.total = a.total
      /\ s \notin {".", ".."} => /\ b.stack = Append(a.stack, s)
                                 /\ b.total = a.total + Len(s) + 1
  BY <1>0, ScanStepFields
<1>6. b.under = a.under /\ b.astray = a.astray
  BY <1>0, ScanStepFields
<1>2. a.stack \in Seq(Stacked)
  BY DEF Scanned
<1> HIDE DEF b
<1>7. ~Below(b)
  BY <1>0, <1>6 DEF Below
<1>3. CASE s = ".."
  <2>1. a.stack # <<>> /\ a.stack[Len(a.stack)] = a.prev
    BY <1>3
  <2>2. Written(Front(a.stack)) = Written(a.stack) - (Len(a.prev) + 1)
    BY <1>2, <2>1, WrittenOfFront
  <2> QED
    BY <1>1, <1>3, <1>7, <2>2 DEF Balanced
<1>4. CASE s = "."
  BY <1>1, <1>4, <1>7 DEF Balanced
<1>5. CASE s \notin {".", ".."}
  <2>1. s \in Stacked
    BY <1>5 DEF AnySegment, Segment, Stacked
  <2>2. Written(Append(a.stack, s)) = Written(a.stack) + Len(s) + 1
    BY <1>2, <2>1, WrittenOfAppend
  <2>3. /\ Append(a.stack, s) # <<>>
        /\ Append(a.stack, s)[Len(Append(a.stack, s))] = s
    BY <1>2, <2>1, AppendProperties
  <2> QED
    BY <1>1, <1>5, <1>7, <2>2, <2>3 DEF Balanced
<1> QED
  BY <1>3, <1>4, <1>5 DEF b

\* A path that starts with a segment and in which every ".." follows one is scanned with
\* the right sum.
LEMMA RegularScan ==
  ASSUME NEW t \in Seq(Segment), t # <<>>, t[1] \notin {".", ".."}, Regular(t)
  PROVE  ~Below(Scan(t)) /\ Scan(t).total = Written(Scan(t).stack)
<1> DEFINE N == Len(t)
           c == Scans(t)
           T == {n \in 0 .. N : n # 0 => Balanced(c[n]) /\ c[n].prev = t[n]}
<1>1. N \in Nat /\ N > 0
  BY FrontLemma
<1>2. t \in Seq(AnySegment)
  <2>1. Segment \subseteq AnySegment
    BY DEF AnySegment
  <2> QED
    BY <2>1, SeqMonotonic
<1>3. \A n \in 1 .. N : c[n] = ScanStep(c[n - 1], t[n]) /\ t[n] \in AnySegment
  BY <1>2, ScansLemma
<1>4. c[0] = ScanStart(t) /\ \A n \in 0 .. N : c[n] \in Scanned
  BY <1>2, ScansLemma
<1>5. Scan(t) = c[N]
  BY DEF Scan
<1>6. \A n \in 2 .. N : t[n] = ".." => t[n - 1] \notin {".", ".."}
  BY DEF Regular
<1>7. 0 \in T
  BY <1>1
<1>8. ASSUME NEW n \in 1 .. N, n - 1 \in T PROVE n \in T
  <2>1. n \in 0 .. N /\ n - 1 \in 0 .. N
    BY <1>1
  <2>2. /\ c[n - 1] \in Scanned /\ t[n] \in AnySegment
        /\ c[n] = ScanStep(c[n - 1], t[n])
    BY <1>3, <1>4, <2>1
  <2>3. c[n].prev = t[n]
    <3>1. ScanStep(c[n - 1], t[n]).prev = t[n]
      BY <2>2, ScanStepFields, ZenonT(30)
    <3> QED
      BY <2>2, <3>1
  <2>4. CASE n = 1
    <3>1. c[0].stack = <<>> /\ ~Below(c[0]) /\ c[0].total = 0
      <4>1. /\ c[0].stack = <<>> /\ c[0].under = 0 /\ c[0].astray = FALSE
            /\ c[0].total = 0
        BY <1>4 DEF ScanStart
      <4> QED
        BY <4>1 DEF Below
    <3>2. c[n - 1] = c[0] /\ t[n] # ".."
      BY <2>4
    <3>3. Written(<<>>) = 0
      BY WrittenOfNothing
    <3>4. Balanced(c[n])
      BY <2>2, <3>1, <3>2, <3>3, ScanStepBalanced
    <3> QED
      BY <2>1, <2>3, <3>4
  <2>5. CASE n # 1
    <3>1. n \in 2 .. N /\ n - 1 # 0
      BY <1>1, <2>5
    <3>2. Balanced(c[n - 1]) /\ c[n - 1].prev = t[n - 1]
      BY <1>8, <3>1
    <3>3. t[n] = ".." => c[n - 1].prev \notin {".", ".."}
      BY <1>6, <3>1, <3>2
    <3> DEFINE a == c[n - 1]
    <3>0. /\ ~Below(a) /\ a.total = Written(a.stack)
          /\ t[n] = ".." => a.stack # <<>> /\ a.stack[Len(a.stack)] = a.prev
      BY <3>2, <3>3 DEF Balanced
    <3>4. Balanced(c[n])
      BY <2>2, <3>0, ScanStepBalanced
    <3> QED
      BY <2>1, <2>3, <3>4
  <2> QED
    BY <2>4, <2>5
<1>9. 0 .. N \subseteq T
  <2> HIDE DEF T, N
  <2> QED
    BY <1>1, <1>7, <1>8, UpTo
<1>10. Balanced(c[N])
  BY <1>1, <1>9
<1> QED
  BY <1>5, <1>10 DEF Balanced

-----------------------------------------------------------------------------
(* The prototypes' vector and the walk. *)

\* One segment takes the vector and the walk alike, unless it leaves the root.
LEMMA PopStepFollows ==
  ASSUME NEW w \in Seq(Names), NEW s \in Segment, s # "", s = ".." => w # <<>>
  PROVE  /\ PopStep(w, s) = WalkStep(w, s)
         /\ PopStep(Behind(w), s) = Behind(WalkStep(w, s))
<1> DEFINE v == WalkStep(w, s)
           b == Behind(w)
           p == PopStep(b, s)
<1>1. PopStep(w, s) = v
  BY DEF PopStep, WalkStep, Segment
<1>2. /\ s = ".." => p = (IF b = <<>> THEN b ELSE Front(b)) /\ v = Front(w)
      /\ s = "." => p = b /\ v = w
      /\ s \notin {".", ".."} => p = Append(b, s) /\ v = Append(w, s)
  BY DEF PopStep, WalkStep, Segment
<1>3. w \in Seq(Segment)
  BY WalkOfNames
<1>4. b # <<>> /\ (w # <<>> => Front(b) = Behind(Front(w)))
  BY <1>3, BehindLemma
<1>5. Append(b, s) = Behind(Append(w, s))
  BY <1>3, BehindLemma
<1> HIDE DEF v, p
<1>6. p = Behind(v)
  <2>1. CASE s = ".."
    BY <1>2, <1>4, <2>1
  <2>2. CASE s = "."
    BY <1>2, <2>2
  <2>3. CASE s \notin {".", ".."}
    BY <1>2, <1>5, <2>3
  <2> QED
    BY <2>1, <2>2, <2>3
<1> QED
  BY <1>1, <1>6 DEF v, p

\* A path that does not leave its root is popped to where the walk leads, with the
\* slash in front that it had.
LEMMA PopsFollowWalk ==
  ASSUME NEW s \in Seq(Segment), Plain(s), ~Leaves(s)
  PROVE  /\ Pops(s)[Len(s)] = Walk(s)
         /\ Pops(Behind(s))[Len(Behind(s))] = Behind(Walk(s))
<1> DEFINE t == Behind(s)
           N == Len(s)
           w == Walks(s)
           p == Pops(s)
           q == Pops(t)
           T == {n \in 0 .. N : p[n] = w[n] /\ q[n + 1] = Behind(w[n])}
<1>1. t \in Seq(Segment) /\ Len(t) = N + 1 /\ t[1] = ""
  BY BehindLemma
<1>0. N \in Nat
  BY BehindLemma
<1>2. \A n \in 1 .. N : t[n + 1] = s[n]
  BY BehindLemma
<1> HIDE DEF t
<1>3. s \in Seq(AnySegment) /\ t \in Seq(AnySegment)
  <2>1. Segment \subseteq AnySegment
    BY DEF AnySegment
  <2> QED
    BY <1>1, <2>1, SeqMonotonic
<1>4. w[0] = <<>> /\ \A n \in 0 .. N : w[n] \in Seq(Names)
  BY WalksLemma
<1>5. \A n \in 1 .. N : w[n] = WalkStep(w[n - 1], s[n]) /\ s[n] \in Segment
  BY WalksLemma
<1>6. p[0] = <<>> /\ \A n \in 1 .. N : p[n] = PopStep(p[n - 1], s[n])
  BY <1>3, PopsLemma
<1>7. q[0] = <<>>
  BY <1>3, PopsLemma
<1>8. \A n \in 1 .. N + 1 : q[n] = PopStep(q[n - 1], t[n])
  BY <1>1, <1>3, PopsLemma
<1>9. \A n \in 1 .. N : s[n] # "" /\ (s[n] = ".." => w[n - 1] # <<>>)
  BY DEF Plain, Leaves
<1>10. Walk(s) = w[N] /\ Len(t) = N + 1
  BY <1>1 DEF Walk
<1> HIDE DEF N, w, p, q
<1>11. 0 \in T
  <2>1. 1 \in 1 .. N + 1 /\ 1 - 1 = 0 /\ 0 + 1 = 1 /\ 0 \in 0 .. N
    BY <1>0
  <2>2. q[1] = PopStep(<<>>, "")
    BY <1>1, <1>7, <1>8, <2>1
  <2>3. PopStep(<<>>, "") = Append(<<>>, "")
    BY DEF PopStep
  <2>4. Append(<<>>, "") = Behind(<<>>)
    <3>1. <<>> \in Seq(Segment)
      OBVIOUS
    <3> QED
      BY <3>1, BehindLemma
  <2> QED
    BY <1>4, <1>6, <2>1, <2>2, <2>3, <2>4
<1>12. ASSUME NEW n \in 1 .. N, n - 1 \in T PROVE n \in T
  <2>1. n + 1 \in 1 .. N + 1 /\ (n + 1) - 1 = n /\ (n - 1) + 1 = n /\ n \in 0 .. N
        /\ n - 1 \in 0 .. N
    BY <1>0
  <2>2. p[n - 1] = w[n - 1] /\ q[n] = Behind(w[n - 1])
    BY <1>12, <2>1
  <2>3. /\ w[n - 1] \in Seq(Names) /\ s[n] \in Segment /\ s[n] # ""
        /\ s[n] = ".." => w[n - 1] # <<>>
    BY <1>4, <1>5, <1>9, <2>1
  <2>4. /\ PopStep(w[n - 1], s[n]) = WalkStep(w[n - 1], s[n])
        /\ PopStep(Behind(w[n - 1]), s[n]) = Behind(WalkStep(w[n - 1], s[n]))
    BY <2>3, PopStepFollows
  <2>5. p[n] = PopStep(p[n - 1], s[n]) /\ w[n] = WalkStep(w[n - 1], s[n])
    BY <1>5, <1>6
  <2>6. q[n + 1] = PopStep(q[n], s[n])
    BY <1>2, <1>8, <2>1
  <2> QED
    BY <2>1, <2>2, <2>4, <2>5, <2>6
<1>13. 0 .. N \subseteq T
  <2> HIDE DEF T
  <2> QED
    BY <1>0, <1>11, <1>12, UpTo
<1>14. N \in 0 .. N
  BY <1>0
<1>15. p[N] = w[N] /\ q[N + 1] = Behind(w[N])
  BY <1>13, <1>14
<1> QED
  BY <1>10, <1>15 DEF t, N, p, q

-----------------------------------------------------------------------------
(* Specifiers. *)

\* A specifier ends in a name and has no empty segment.
LEMMA RelativeLemma ==
  ASSUME NEW spec \in Relative
  PROVE  /\ spec \in Seq(Segment) /\ spec # <<>> /\ Plain(spec)
         /\ spec[Len(spec)] \in Names
<1> DEFINE Q == Names \cup {".", ".."}
           D == BoundedSeq(Q, MaxDots)
<1>0. Relative = {Append(d, x) : d \in D, x \in Names}
  BY DEF Relative
<1>3. "" \notin Q /\ Q \subseteq Segment /\ Names \subseteq Q
  BY UrlPathAssumption DEF Segment
<1> HIDE DEF Q
<1>7. D \subseteq Seq(Q)
  <2>1. MaxDots \in Nat
    BY UrlPathAssumption
  <2>2. ASSUME NEW d \in D PROVE d \in Seq(Q)
    <3>1. D = UNION {[1 .. m -> Q] : m \in 0 .. MaxDots}
      BY DEF BoundedSeq, SeqOf
    <3>2. PICK m \in 0 .. MaxDots : d \in [1 .. m -> Q]
      BY <3>1
    <3>3. m \in Nat
      BY <2>1
    <3> QED
      BY <3>2, <3>3
  <2> QED
    BY <2>2
<1> HIDE DEF D
<1>1. PICK dots \in D, x \in Names : spec = Append(dots, x)
  BY <1>0
<1>2. dots \in Seq(Q) /\ x \in Q
  BY <1>7, <1>3
<1>4. spec \in Seq(Q) /\ spec # <<>> /\ spec[Len(spec)] = x
  BY <1>1, <1>2, AppendProperties
<1>5. spec \in Seq(Segment)
  BY <1>3, <1>4, SeqMonotonic
<1>6. \A n \in 1 .. Len(spec) : spec[n] \in Q
  BY <1>4, ElementOfSeq
<1> QED
  BY <1>3, <1>4, <1>5, <1>6 DEF Plain

\* What an import walks: a directory and a specifier.
LEMMA JoinedLemma ==
  ASSUME NEW dir \in Seq(Names), NEW spec \in Relative
  PROVE  LET s == dir \o spec
         IN  /\ s \in Seq(Segment) /\ s # <<>> /\ Plain(s)
             /\ Walk(s) \in Seq(Names) /\ Walk(s) # <<>>
             /\ dir # <<>> => s[1] \in Names
<1> DEFINE s == dir \o spec
           N == Len(s)
<1>1. dir \in Seq(Segment) /\ \A n \in 1 .. Len(dir) : dir[n] \in Names
  BY WalkOfNames, ElementOfSeq
<1>2. /\ spec \in Seq(Segment) /\ spec # <<>> /\ Plain(spec)
      /\ spec[Len(spec)] \in Names
  BY RelativeLemma
<1>3. /\ s \in Seq(Segment) /\ N = Len(dir) + Len(spec)
      /\ \A i \in 1 .. Len(dir) + Len(spec) :
            s[i] = IF i <= Len(dir) THEN dir[i] ELSE spec[i - Len(dir)]
  BY <1>1, <1>2, ConcatProperties
<1>4. Len(dir) \in Nat /\ Len(spec) \in Nat /\ Len(spec) > 0
  BY <1>2, FrontLemma
<1> HIDE DEF s, N
<1>5. N \in Nat /\ N > 0
  BY <1>3, <1>4
<1>6. s # <<>>
  BY <1>5 DEF N
<1>7. s[N] \in Names
  <2>1. N \in 1 .. Len(dir) + Len(spec) /\ ~(N <= Len(dir)) /\ N - Len(dir) = Len(spec)
    BY <1>3, <1>4
  <2> QED
    BY <1>2, <1>3, <2>1
<1>8. Plain(s)
  <2> SUFFICES ASSUME NEW n \in 1 .. N PROVE s[n] # ""
    BY DEF Plain, N
  <2>1. CASE n <= Len(dir)
    <3>1. n \in 1 .. Len(dir) /\ s[n] = dir[n]
      BY <1>3, <1>4, <2>1
    <3> QED
      BY <1>1, <3>1, UrlPathAssumption
  <2>2. CASE ~(n <= Len(dir))
    <3>1. n - Len(dir) \in 1 .. Len(spec) /\ s[n] = spec[n - Len(dir)]
      BY <1>3, <1>4, <2>2
    <3> QED
      BY <1>2, <3>1 DEF Plain
  <2> QED
    BY <2>1, <2>2
<1>9. Walk(s) \in Seq(Names) /\ Walk(s) # <<>>
  <2> DEFINE w == Walks(s)
  <2>1. /\ \A n \in 1 .. N : w[n] = WalkStep(w[n - 1], s[n])
        /\ \A n \in 0 .. N : w[n] \in Seq(Names)
    BY <1>3, WalksLemma DEF N
  <2>2. Walk(s) = w[N]
    BY DEF Walk, N
  <2> HIDE DEF w
  <2>3. N \in 1 .. N /\ N \in 0 .. N /\ N - 1 \in 0 .. N
    BY <1>5
  <2>4. w[N] = WalkStep(w[N - 1], s[N]) /\ w[N - 1] \in Seq(Names)
    BY <2>1, <2>3
  <2>5. WalkStep(w[N - 1], s[N]) = Append(w[N - 1], s[N])
    BY <1>7, UrlPathAssumption DEF WalkStep
  <2>6. Append(w[N - 1], s[N]) # <<>> /\ Append(w[N - 1], s[N]) \in Seq(Names)
    BY <1>7, <2>4, AppendProperties
  <2> QED
    BY <2>2, <2>4, <2>5, <2>6
<1>10. dir # <<>> => s[1] \in Names
  <2> SUFFICES ASSUME dir # <<>> PROVE s[1] \in Names
    OBVIOUS
  <2>1. Len(dir) > 0
    BY FrontLemma
  <2>2. 1 \in 1 .. Len(dir) /\ 1 \in 1 .. Len(dir) + Len(spec) /\ 1 <= Len(dir)
    BY <1>4, <2>1
  <2>3. s[1] = dir[1]
    BY <1>3, <2>2
  <2> QED
    BY <1>1, <2>2, <2>3
<1> QED
  BY <1>3, <1>6, <1>8, <1>9, <1>10 DEF s

-----------------------------------------------------------------------------
(* What an import computes in the current runtime. *)

\* The cut that a path has in either of its two forms, with a specifier behind it.
LEMMA BehindJoined ==
  ASSUME NEW s \in Seq(Segment), NEW t \in Seq(Segment)
  PROVE  Behind(s) \o t = Behind(s \o t)
<1> DEFINE one == <<"">>
<1>1. one \in Seq(Segment)
  BY RootType
<1>2. Behind(s) = one \o s /\ Behind(s \o t) = one \o (s \o t)
  BY DEF Behind
<1> HIDE DEF one
<1>3. (one \o s) \o t = one \o (s \o t)
  BY <1>1, ConcatAssociative
<1> QED
  BY <1>2, <1>3

\* Without empty segments of its own, a path has at most the one of its root.
LEMMA BehindPlain ==
  ASSUME NEW s \in Seq(Segment), Plain(s)
  PROVE  SlashFirst(s) /\ SlashFirst(Behind(s))
<1> DEFINE t == Behind(s)
           N == Len(s)
<1>1. N \in Nat
  OBVIOUS
<1>2. Len(t) = N + 1 /\ \A n \in 1 .. N : t[n + 1] = s[n]
  BY BehindLemma
<1>3. SlashFirst(s)
  BY DEF Plain, SlashFirst
<1>4. \A n \in 1 .. N : s[n] # ""
  BY DEF Plain
<1> HIDE DEF t, N
<1>5. ASSUME NEW n \in 1 .. N + 1, n # 1 PROVE t[n] # ""
  <2>1. n - 1 \in 1 .. N /\ (n - 1) + 1 = n
    BY <1>1, <1>5
  <2>2. t[n] = s[n - 1]
    BY <1>2, <2>1
  <2> QED
    BY <1>4, <2>1, <2>2
<1> QED
  BY <1>2, <1>3, <1>5 DEF SlashFirst, t

\* A slash in front of a regular path keeps it regular.
LEMMA BehindRegular ==
  ASSUME NEW s \in Seq(Segment), Regular(s)
  PROVE  Regular(Behind(s))
<1> DEFINE t == Behind(s)
           N == Len(s)
<1>1. N \in Nat
  OBVIOUS
<1>2. Len(t) = N + 1 /\ \A n \in 1 .. N : t[n + 1] = s[n]
  BY BehindLemma
<1>3. t[1] = ""
  BY BehindLemma
<1>4. \A n \in 2 .. N : s[n] = ".." => s[n - 1] \notin {".", ".."}
  BY DEF Regular
<1> HIDE DEF t, N
<1>5. ASSUME NEW n \in 2 .. N + 1, t[n] = ".." PROVE t[n - 1] \notin {".", ".."}
  <2>1. n - 1 \in 1 .. N /\ (n - 1) + 1 = n
    BY <1>1
  <2>2. t[n] = s[n - 1]
    BY <1>2, <2>1
  <2>3. CASE n = 2
    <3>1. n - 1 = 1
      BY <2>3
    <3> QED
      BY <1>3, <3>1
  <2>4. CASE n # 2
    <3>1. n - 1 \in 2 .. N /\ (n - 1) - 1 \in 1 .. N /\ ((n - 1) - 1) + 1 = n - 1
      BY <1>1, <2>4
    <3>2. t[n - 1] = s[(n - 1) - 1]
      BY <1>2, <3>1
    <3> QED
      BY <1>4, <1>5, <2>2, <3>1, <3>2
  <2> QED
    BY <2>3, <2>4
<1> QED
  BY <1>2, <1>5 DEF Regular, t

\* A slash in front leads nowhere that was not left without it.
LEMMA BehindLeaves ==
  ASSUME NEW s \in Seq(Segment), Leaves(Behind(s))
  PROVE  Leaves(s)
<1> DEFINE t == Behind(s)
           N == Len(s)
           v == Walks(t)
           w == Walks(s)
<1>1. /\ N \in Nat /\ Len(t) = N + 1 /\ t[1] = ""
      /\ \A n \in 1 .. N : t[n + 1] = s[n]
  BY BehindLemma
<1>2. \A n \in 0 .. N : v[n + 1] = w[n]
  BY WalkFromRoot
<1>3. PICK n \in 1 .. N + 1 : t[n] = ".." /\ v[n - 1] = <<>>
  BY <1>1 DEF Leaves
<1>4. \A m \in 1 .. N : s[m] = ".." /\ w[m - 1] = <<>> => Leaves(s)
  BY DEF Leaves
<1> HIDE DEF t, N, v, w
<1>5. n # 1
  BY <1>1, <1>3
<1>6. n - 1 \in 1 .. N /\ (n - 1) + 1 = n /\ n - 2 \in 0 .. N /\ (n - 2) + 1 = n - 1
      /\ (n - 1) - 1 = n - 2
  <2>1. N \in Nat
    BY <1>1
  <2>2. n \in 2 .. N + 1
    BY <1>5, <2>1
  <2> QED
    BY <2>1, <2>2
<1>7. s[n - 1] = ".." /\ w[n - 2] = <<>>
  BY <1>1, <1>2, <1>3, <1>6
<1> QED
  BY <1>4, <1>6, <1>7

\* From a path in either form, the result that is neither garbled nor astray is the walk
\* in one of them; it is so if every ".." follows a segment that it removes, and it is
\* not astray if the walk does not leave its root.
LEMMA ResolveLemma ==
  ASSUME NEW D \in Seq(Names), NEW spec \in Relative,
         NEW dir, dir.site \in {"file", "http"}, dir.segs # <<>>,
         dir.segs = D \/ (dir.site = "file" /\ dir.segs = Behind(D))
  PROVE  LET r == normalize_path(spec, dir)
             w == Walk(D \o spec)
         IN  /\ r.status = "ok" =>
                  /\ r.path.site = dir.site
                  /\ r.path.segs = w \/ (dir.site = "file" /\ r.path.segs = Behind(w))
             /\ Regular(D \o spec) => r.status = "ok"
             /\ ~Leaves(D \o spec) => r.status # "astray"
<1> DEFINE r == normalize_path(spec, dir)
           s == D \o spec
           w == Walk(s)
           t == dir.segs \o spec
<1>1. /\ s \in Seq(Segment) /\ s # <<>> /\ Plain(s)
      /\ D # <<>> => s[1] \in Names
  BY JoinedLemma
<1>2. D \in Seq(Segment) /\ spec \in Seq(Segment)
  BY WalkOfNames, RelativeLemma
<1>3. t = s \/ (dir.site = "file" /\ t = Behind(s))
  BY <1>2, BehindJoined
<1>4. t = s => D # <<>> \/ dir.segs = Behind(D)
  OBVIOUS
<1>5. /\ r.path.site = dir.site /\ r.path.segs = Scan(t).stack
      /\ r.status = "ok" => ~Below(Scan(t))
      /\ r.status = "astray" => Below(Scan(t))
      /\ ~Below(Scan(t)) /\ Scan(t).total = Written(Scan(t).stack) => r.status = "ok"
  <2>1. ~(dir.site = "http" /\ dir.segs = <<>>) /\ ~(dir.site = "nohost" /\ dir.segs = <<>>)
    OBVIOUS
  <2> DEFINE fits == Scan(t).total = Written(Scan(t).stack)
  <2>2. r = [path |-> [site |-> dir.site, segs |-> Scan(t).stack],
             status |-> CASE ~fits -> "garbled"
                          [] OTHER -> IF Below(Scan(t)) THEN "astray" ELSE "ok"]
    BY <2>1 DEF normalize_path
  <2> HIDE DEF r, fits
  <2>3. r.status = CASE ~fits -> "garbled"
                     [] OTHER -> IF Below(Scan(t)) THEN "astray" ELSE "ok"
    BY <2>2
  <2>4. r.path.site = dir.site /\ r.path.segs = Scan(t).stack
    BY <2>2
  <2> QED
    BY <2>3, <2>4 DEF fits
<1> HIDE DEF r, s, w, t
<1>6. t \in Seq(Segment) /\ t # <<>> /\ SlashFirst(t) /\ Walk(t) = w
  BY <1>1, <1>3, BehindLemma, BehindPlain, WalkFromRoot DEF w
<1>7. \/ Below(Scan(t)) /\ Leaves(t)
      \/ ~Below(Scan(t)) /\ \/ Scan(t).stack = w
                            \/ t[1] = "" /\ Scan(t).stack = Behind(w)
  BY <1>6, ScanFollowsWalk
<1>8. t[1] = "" => t = Behind(s) /\ dir.site = "file"
  <2>1. ASSUME t = s PROVE t[1] # ""
    <3>1. Len(s) \in Nat /\ Len(s) > 0
      BY <1>1, FrontLemma
    <3>2. 1 \in 1 .. Len(s)
      BY <3>1
    <3> QED
      BY <1>1, <2>1, <3>2 DEF Plain
  <2> QED
    BY <1>3, <2>1
<1>9. r.status = "ok" =>
        /\ r.path.site = dir.site
        /\ r.path.segs = w \/ (dir.site = "file" /\ r.path.segs = Behind(w))
  BY <1>5, <1>7, <1>8
<1>11. ~Leaves(s) => r.status # "astray"
  <2>1. Leaves(t) => Leaves(s)
    BY <1>1, <1>3, BehindLeaves
  <2> QED
    BY <1>5, <1>7, <2>1
<1>10. ASSUME Regular(s) PROVE r.status = "ok"
  <2>1. Regular(t)
    BY <1>1, <1>3, <1>10, BehindRegular
  <2>2. t[1] \notin {".", ".."}
    <3>1. CASE D # <<>> /\ t = s
      BY <1>1, <3>1, UrlPathAssumption
    <3>2. CASE t = Behind(s)
      BY <1>1, <3>2, BehindLemma
    <3>3. CASE D = <<>> /\ t = s
      <4>1. dir.segs = Behind(<<>>)
        BY <1>4, <3>3
      <4>2. t = Behind(s)
        BY <1>2, <3>3, <4>1, BehindJoined DEF t, s
      <4> QED
        BY <1>1, <4>2, BehindLemma
    <3> QED
      BY <1>3, <3>1, <3>2, <3>3
  <2>3. ~Below(Scan(t)) /\ Scan(t).total = Written(Scan(t).stack)
    BY <1>6, <2>1, <2>2, RegularScan
  <2> QED
    BY <1>5, <2>3
<1> QED
  BY <1>9, <1>10, <1>11 DEF r, s, w

-----------------------------------------------------------------------------
(* Types. *)

\* A path is stacked segments at a place.
LEMMA PathType == Path = [site: {"file", "http", "nohost", "rel"}, segs: Seq(Stacked)]
  BY DEF Path, Stacked

\* Names and stacked segments are segments.
LEMMA Subsets ==
  /\ Seq(Names) \subseteq Seq(Stacked) /\ Seq(Stacked) \subseteq Seq(AnySegment)
  /\ Seq(Segment) \subseteq Seq(AnySegment)
<1>1. Names \subseteq Stacked /\ Stacked \subseteq AnySegment /\ Segment \subseteq AnySegment
  BY DEF Stacked, AnySegment, Segment
<1> QED
  BY <1>1, SeqMonotonic

\* dirname of a path is a path.
LEMMA DirnameType ==
  ASSUME NEW p \in Path
  PROVE  dirname(p) \in Path
<1>1. p.segs \in Seq(Stacked) /\ Front(p.segs) \in Seq(Stacked)
  BY PathType, FrontLemma
<1>2. <<"">> \in Seq(Stacked)
  BY RootType
<1> QED
  BY <1>1, <1>2, PathType DEF dirname

\* What normalize_path writes is a path, right or garbled.
LEMMA NormalizeType ==
  ASSUME NEW spec \in Relative, NEW dir \in Path
  PROVE  LET r == normalize_path(spec, dir)
         IN  r.path \in Path /\ r.status \in {"ok", "garbled", "astray"}
<1> DEFINE hostless == dir.site = "http" /\ dir.segs = <<>>
           d == IF hostless THEN <<HostTail>> ELSE dir.segs
           t == d \o spec
<1>1. d \in Seq(AnySegment)
  <2>1. HostTail \in AnySegment
    BY DEF AnySegment
  <2>2. <<HostTail>> \in Seq(AnySegment) /\ dir.segs \in Seq(AnySegment)
    BY <2>1, PathType, Subsets
  <2> QED
    BY <2>2
<1>2. spec \in Seq(AnySegment) /\ spec # <<>>
  BY RelativeLemma, Subsets
<1>3. normalize_path(spec, dir).path =
         [site |-> IF hostless THEN "nohost" ELSE dir.site, segs |-> Scan(t).stack]
  BY DEF normalize_path
<1>8. normalize_path(spec, dir).status \in {"ok", "garbled", "astray"}
  <2> DEFINE sc == Scan(t)
             bad == (dir.site = "nohost" /\ dir.segs = <<>>) \/ sc.total # Written(sc.stack)
  <2>1. normalize_path(spec, dir).status =
           CASE bad -> "garbled" [] OTHER -> IF Below(sc) THEN "astray" ELSE "ok"
    BY DEF normalize_path
  <2> HIDE DEF bad, sc
  <2> QED
    BY <2>1
<1> HIDE DEF d
<1>4. t \in Seq(AnySegment) /\ t # <<>>
  BY <1>1, <1>2, ConcatProperties, ConcatEqualIffEmpty
<1>5. Len(t) \in 0 .. Len(t)
  <2>1. Len(t) \in Nat
    BY <1>4, FrontLemma
  <2> QED
    BY <2>1
<1> HIDE DEF t
<1>6. Scan(t) \in Scanned
  BY <1>4, <1>5, ScansLemma DEF Scan
<1>7. dir.site \in {"file", "http", "nohost", "rel"}
  BY PathType
<1>9. normalize_path(spec, dir).path \in Path
  BY <1>3, <1>6, <1>7, PathType DEF Scanned
<1> QED
  BY <1>8, <1>9

\* NormalizePath joins a path.
LEMMA NormalizePathType ==
  ASSUME NEW spec \in Relative, NEW p \in Path
  PROVE  NormalizePath(spec, Dir(p)) \in Path
<1> DEFINE root == <<"">>
           raw == IF p.site = "file" THEN root \o p.segs ELSE p.segs
           t == Dir(p) \o spec
           st == Pops(t)[Len(t)]
<1>1. root \in Seq(Stacked)
  BY RootType
<1>2. p.segs \in Seq(Stacked)
  BY PathType
<1>3. Dir(p) = IF Len(raw) > 1 THEN Front(raw) ELSE root
  BY DEF Dir
<1> HIDE DEF root
<1>4. raw \in Seq(Stacked)
  BY <1>1, <1>2, ConcatProperties
<1> HIDE DEF raw
<1>5. Dir(p) \in Seq(Stacked)
  BY <1>1, <1>3, <1>4, FrontLemma
<1>6. t \in Seq(AnySegment)
  <2>1. Dir(p) \in Seq(AnySegment) /\ spec \in Seq(AnySegment)
    BY <1>5, RelativeLemma, Subsets
  <2> QED
    BY <2>1, ConcatProperties
<1>7. NormalizePath(spec, Dir(p)) = Join(st)
  BY DEF NormalizePath
<1> HIDE DEF t
<1>8. st \in Seq(Stacked)
  <2>1. Len(t) \in Nat
    BY <1>6, FrontLemma
  <2>2. Len(t) \in 0 .. Len(t)
    BY <2>1
  <2> QED
    BY <1>6, <2>2, PopsLemma
<1> HIDE DEF st
<1>9. Join(st) \in Path
  <2>1. Len(st) > 1 => Tail(st) \in Seq(Stacked)
    <3>1. Len(st) > 1 => st # <<>>
      OBVIOUS
    <3> QED
      BY <1>8, <3>1, HeadTailProperties
  <2>2. (IF st = <<>> THEN root ELSE st) \in Seq(Stacked)
    BY <1>1, <1>8
  <2> QED
    BY <1>8, <2>1, <2>2, PathType DEF Join, root
<1> QED
  BY <1>7, <1>9

-----------------------------------------------------------------------------
(* The invariant. *)

\* A chain has reached a file, and each runtime one that it can reach.
FileInv ==
  /\ file.segs # <<>>
  /\ runtime = "src" => file.site # "cwd"
  /\ runtime = "proto" => file.site # "http"

\* A path that is neither garbled nor astray is the file's, or the file's with a second
\* slash in front.
SrcInv ==
  runtime = "src" /\ status = "ok" /\ kept =>
    /\ path.site = file.site
    /\ path.segs = file.segs \/ (path.site = "file" /\ path.segs = Behind(file.segs))

\* The prototypes' path is the file's; a file of the working directory lies in a
\* directory there, or the next referrer would seem to lie in the root.
ProtoInv ==
  runtime = "proto" /\ kept /\ rooted =>
    /\ path.segs = file.segs
    /\ path.site = IF file.site = "cwd" THEN "rel" ELSE "file"
    /\ file.site = "cwd" => Len(file.segs) > 1

\* Only a specifier that goes up from the root writes in front of the stack.
RootedInv == runtime = "src" /\ kept /\ rooted => status # "astray"

PathInv == TypeOK /\ FileInv /\ SrcInv /\ ProtoInv /\ RootedInv /\ LengthFits

-----------------------------------------------------------------------------
(* The entry module and absolute specifiers. *)

\* An absolute path or URL is a file and its own path.
LEMMA AbsoluteLemma ==
  ASSUME NEW a \in Absolute
  PROVE  /\ a \in Path /\ a \in File
         /\ a.site \in {"file", "http"} /\ a.segs # <<>>
<1> DEFINE Q == {<<n>> : n \in Names} \cup (Names \X Names)
<1>1. a \in [site: {"file", "http"}, segs: Q]
  BY DEF Absolute
<1>2. ASSUME NEW q \in Q PROVE q \in Seq(Names) /\ q # <<>>
  <2>1. CASE \E n \in Names : q = <<n>>
    BY <2>1, OneElement
  <2>2. CASE \E n, m \in Names : q = <<n, m>>
    BY <2>2, TwoElements
  <2> QED
    BY <2>1, <2>2
<1> HIDE DEF Q
<1>3. a.segs \in Seq(Names) /\ a.segs # <<>>
  BY <1>1, <1>2
<1>4. a.segs \in Seq(Stacked)
  BY <1>3, Subsets
<1> QED
  BY <1>1, <1>3, <1>4, PathType DEF File

\* The path of nothing leads nowhere.
LEMMA EmptyPath == <<>> \in Seq(Names) /\ <<>> \in Seq(Segment) /\ Walk(<<>>) = <<>>
<1>1. <<>> \in Seq(Names)
  OBVIOUS
<1> QED
  BY <1>1, WalkOfNames

\* The working directory is the root, or a directory in it.
Cwds == {<<"">>} \cup {<<n>> : n \in Names}

\* It is where its walk leads, possibly with a slash in front, and a specifier leads
\* from it to where it leads from there.
LEMMA CwdLemma ==
  ASSUME NEW cwd \in Cwds, NEW spec \in Relative
  PROVE  /\ cwd \in Seq(Stacked) /\ cwd # <<>>
         /\ Walk(cwd) \in Seq(Names)
         /\ cwd = Walk(cwd) \/ cwd = Behind(Walk(cwd))
         /\ Walk(cwd \o spec) = Walk(Walk(cwd) \o spec)
<1>1. <<>> \in Seq(Names) /\ <<>> \in Seq(Segment) /\ Walk(<<>>) = <<>>
  BY EmptyPath
<1>2. spec \in Seq(Segment)
  BY RelativeLemma
<1>3. CASE cwd = <<"">>
  <2>1. cwd = Behind(<<>>)
    <3>1. <<"">> = <<"">> \o <<>>
      BY RootType, ConcatEmptySeq
    <3> QED
      BY <1>3, <3>1 DEF Behind
  <2>2. Walk(cwd) = <<>> /\ cwd # <<>>
    BY <1>1, <2>1, WalkFromRoot, BehindLemma
  <2>3. <<>> \o spec = spec /\ cwd \o spec = Behind(<<>> \o spec)
    BY <1>1, <1>2, <2>1, ConcatEmptySeq, BehindJoined
  <2>4. Walk(cwd \o spec) = Walk(spec)
    BY <1>2, <2>3, WalkFromRoot
  <2> QED
    BY <1>1, <1>3, <2>1, <2>2, <2>3, <2>4, RootType
<1>4. CASE cwd # <<"">>
  <2>1. PICK n \in Names : cwd = <<n>>
    BY <1>4 DEF Cwds
  <2>2. cwd \in Seq(Names) /\ cwd # <<>>
    BY <2>1, OneElement
  <2> QED
    BY <2>2, WalkOfNames, Subsets
<1> QED
  BY <1>3, <1>4

\* What the start of a chain establishes.
LEMMA InitInv == Init => PathInv
<1> SUFFICES ASSUME Init PROVE PathInv
  OBVIOUS
<1>1. kept = TRUE /\ imports = 0 /\ imports \in 0 .. MaxImports
  <2>1. MaxImports \in Nat
    BY UrlPathAssumption
  <2>2. kept = TRUE /\ imports = 0
    BY DEF Init
  <2> QED
    BY <2>1, <2>2
<1>2. CASE runtime = "src" /\ EntrySrc
  <2>1. CASE \E a \in Absolute :
               path = a /\ file = a /\ status = "ok" /\ regular = TRUE /\ rooted = TRUE
    <3>1. PICK a \in Absolute :
            path = a /\ file = a /\ status = "ok" /\ regular = TRUE /\ rooted = TRUE
      BY <2>1
    <3>2. /\ path \in Path /\ file \in File
          /\ file.site \in {"file", "http"} /\ file.segs # <<>>
      BY <3>1, AbsoluteLemma
    <3>3. TypeOK
      BY <1>1, <1>2, <3>1, <3>2 DEF TypeOK
    <3> QED
      BY <1>2, <3>1, <3>2, <3>3 DEF PathInv, FileInv, SrcInv, ProtoInv, RootedInv, LengthFits
  <2>2. CASE \E cwd \in Cwds, spec \in Relative :
               LET result == normalize_path(spec, [site |-> "file", segs |-> cwd])
               IN  /\ path = result.path
                   /\ status = result.status
                   /\ file = [site |-> "file", segs |-> Walk(cwd \o spec)]
                   /\ regular = Regular(Walk(cwd) \o spec)
                   /\ rooted = ~Leaves(Walk(cwd) \o spec)
    <3>1. PICK cwd \in Cwds, spec \in Relative :
               LET result == normalize_path(spec, [site |-> "file", segs |-> cwd])
               IN  /\ path = result.path
                   /\ status = result.status
                   /\ file = [site |-> "file", segs |-> Walk(cwd \o spec)]
                   /\ regular = Regular(Walk(cwd) \o spec)
                   /\ rooted = ~Leaves(Walk(cwd) \o spec)
      BY <2>2
    <3> DEFINE dir == [site |-> "file", segs |-> cwd]
               D == Walk(cwd)
               r == normalize_path(spec, dir)
               w == Walk(D \o spec)
    <3>2. /\ cwd \in Seq(Stacked) /\ cwd # <<>> /\ D \in Seq(Names)
          /\ cwd = D \/ cwd = Behind(D)
          /\ Walk(cwd \o spec) = w
      BY CwdLemma
    <3>3. /\ path = r.path
          /\ status = r.status
          /\ file = [site |-> "file", segs |-> w]
          /\ regular = Regular(D \o spec)
          /\ rooted = ~Leaves(D \o spec)
      BY <3>1, <3>2
    <3>4. dir \in Path /\ dir.site = "file" /\ dir.segs = cwd
      BY <3>2, PathType
    <3> HIDE DEF dir, D
    <3>5. w \in Seq(Names) /\ w # <<>>
      BY <3>2, JoinedLemma
    <3>6. /\ r.status = "ok" => /\ r.path.site = "file"
                                /\ r.path.segs = w \/ r.path.segs = Behind(w)
          /\ Regular(D \o spec) => r.status = "ok"
          /\ ~Leaves(D \o spec) => r.status # "astray"
      BY <3>2, <3>4, ResolveLemma
    <3>7. r.path \in Path /\ r.status \in {"ok", "garbled", "astray"}
      BY <3>4, NormalizeType
    <3>8. regular \in BOOLEAN /\ rooted \in BOOLEAN
      BY <3>3 DEF Regular, Leaves
    <3> HIDE DEF r, w
    <3>9. TypeOK
      BY <1>1, <1>2, <3>3, <3>5, <3>7, <3>8 DEF TypeOK, File
    <3> QED
      BY <1>2, <3>3, <3>5, <3>6, <3>9 DEF PathInv, FileInv, SrcInv, ProtoInv, RootedInv, LengthFits
  <2> QED
    BY <1>2, <2>1, <2>2 DEF EntrySrc, Cwds
<1>3. CASE runtime = "proto" /\ EntryProto
  <2>1. PICK n \in Names, m \in Names :
          \/ /\ path = [site |-> "rel", segs |-> <<n, m>>]
             /\ file = [site |-> "cwd", segs |-> <<n, m>>]
          \/ /\ path = [site |-> "file", segs |-> <<n, m>>]
             /\ file = path
    BY <1>3 DEF EntryProto
  <2> DEFINE two == <<n, m>>
  <2>2. two \in Seq(Names) /\ Len(two) = 2 /\ two # <<>>
    OBVIOUS
  <2>3. two \in Seq(Stacked)
    BY <2>2, Subsets
  <2>4. \/ path = [site |-> "rel", segs |-> two] /\ file = [site |-> "cwd", segs |-> two]
        \/ path = [site |-> "file", segs |-> two] /\ file = [site |-> "file", segs |-> two]
    BY <2>1
  <2> HIDE DEF two
  <2>5. path \in Path /\ file \in File
    BY <2>2, <2>3, <2>4, PathType DEF File
  <2>6. TypeOK
    BY <1>1, <1>3, <2>5 DEF TypeOK, EntryProto
  <2>7. runtime = "proto" /\ runtime # "src"
    BY <1>3
  <2>8. /\ path.segs = two /\ file.segs = two
        /\ \/ path.site = "rel" /\ file.site = "cwd"
           \/ path.site = "file" /\ file.site = "file"
    BY <2>4
  <2>9. FileInv
    BY <2>2, <2>7, <2>8 DEF FileInv
  <2>10. Len(file.segs) > 1
    <3>1. file.segs = two /\ Len(two) = 2
      BY <2>2, <2>8
    <3>2. Len(file.segs) = 2
      BY <3>1
    <3> QED
      BY <3>2
  <2>11. ProtoInv
    BY <2>8, <2>10 DEF ProtoInv
  <2> QED
    BY <2>6, <2>7, <2>9, <2>11 DEF PathInv, SrcInv, RootedInv, LengthFits
<1> QED
  BY <1>2, <1>3 DEF Init

\* An absolute specifier starts the chain again.
LEMMA AbsoluteStep ==
  ASSUME PathInv, NEW a \in Absolute, ImportAbsolute(a)
  PROVE  PathInv'
<1>1. /\ a \in Path /\ a \in File
      /\ a.site \in {"file", "http"} /\ a.segs # <<>>
  BY AbsoluteLemma
<1>2. /\ path' = a /\ file' = a /\ regular' = TRUE /\ rooted' = TRUE /\ kept' = TRUE
      /\ status' = "ok" /\ runtime' = runtime
      /\ runtime = "proto" => a.site = "file"
  BY DEF ImportAbsolute
<1>3. imports' \in 0 .. MaxImports
  <2>1. MaxImports \in Nat
    BY UrlPathAssumption
  <2>2. imports \in 0 .. MaxImports /\ imports < MaxImports /\ imports' = imports + 1
    BY DEF ImportAbsolute, PathInv, TypeOK
  <2> QED
    BY <2>1, <2>2
<1>4. runtime \in {"src", "proto"}
  BY DEF PathInv, TypeOK
<1>5. TypeOK'
  BY <1>1, <1>2, <1>3, <1>4 DEF TypeOK
<1> QED
  BY <1>1, <1>2, <1>4, <1>5 DEF PathInv, FileInv, SrcInv, ProtoInv, RootedInv, LengthFits

-----------------------------------------------------------------------------
(* Relative specifiers. *)

\* What every relative import does to the file and the history of the chain.
LEMMA MeansLemma ==
  ASSUME PathInv, NEW spec \in Relative, Means(spec), imports < MaxImports
  PROVE  /\ Front(file.segs) \in Seq(Names)
         /\ file' \in File /\ file'.site = file.site
         /\ file'.segs = Walk(Front(file.segs) \o spec)
         /\ file'.segs \in Seq(Names) /\ file'.segs # <<>>
         /\ regular' \in BOOLEAN
         /\ regular' => regular /\ Regular(Front(file.segs) \o spec)
         /\ rooted' \in BOOLEAN
         /\ rooted' => rooted /\ ~Leaves(Front(file.segs) \o spec)
         /\ imports' \in 0 .. MaxImports
<1>1. file \in File /\ file.segs # <<>> /\ regular \in BOOLEAN /\ rooted \in BOOLEAN
  BY DEF PathInv, TypeOK, FileInv
<1>2. file.segs \in Seq(Names)
  BY <1>1 DEF File
<1> DEFINE D == Front(file.segs)
           w == Walk(D \o spec)
<1>3. D \in Seq(Names)
  BY <1>2, FrontLemma
<1>4. /\ file' = [file EXCEPT !.segs = w]
      /\ regular' = (regular /\ Regular(D \o spec))
      /\ rooted' = (rooted /\ ~Leaves(D \o spec))
      /\ imports' = imports + 1
  BY DEF Means
<1> HIDE DEF D
<1>5. w \in Seq(Names) /\ w # <<>>
  BY <1>3, JoinedLemma
<1> HIDE DEF w
<1>6. file' \in File /\ file'.site = file.site /\ file'.segs = w
  BY <1>1, <1>4, <1>5 DEF File
<1>7. imports' \in 0 .. MaxImports
  <2>1. MaxImports \in Nat
    BY UrlPathAssumption
  <2>2. imports \in 0 .. MaxImports
    BY DEF PathInv, TypeOK
  <2> QED
    BY <1>4, <2>1, <2>2
<1>8. Regular(D \o spec) \in BOOLEAN /\ Leaves(D \o spec) \in BOOLEAN
  BY DEF Regular, Leaves
<1>9. /\ regular' \in BOOLEAN /\ (regular' => regular /\ Regular(D \o spec))
      /\ rooted' \in BOOLEAN /\ (rooted' => rooted /\ ~Leaves(D \o spec))
  BY <1>1, <1>4, <1>8
<1> QED
  BY <1>3, <1>5, <1>6, <1>7, <1>9 DEF D, w

\* The directory of a path in either form is the directory of the file in one of them.
LEMMA DirnameLemma ==
  ASSUME NEW p \in Path, NEW f \in Seq(Names), f # <<>>, p.site \in {"file", "http"},
         p.segs = f \/ (p.site = "file" /\ p.segs = Behind(f)),
         p.site = "http" => Len(f) # 1
  PROVE  LET d == dirname(p)
         IN  /\ d.site = p.site /\ d.segs # <<>>
             /\ d.segs = Front(f) \/ (d.site = "file" /\ d.segs = Behind(Front(f)))
<1> DEFINE d == dirname(p)
           root == <<"">>
<1>1. f \in Seq(Segment)
  BY WalkOfNames
<1>2. /\ Len(f) \in Nat /\ Len(f) > 0 /\ Len(Front(f)) = Len(f) - 1
      /\ Front(f) \in Seq(Names)
  BY FrontLemma
<1>3. /\ d.site = p.site
      /\ d.segs = IF p.site = "file" /\ Len(p.segs) = 1 THEN root ELSE Front(p.segs)
  BY PathType DEF dirname
<1>4. root = Behind(<<>>)
  <2>1. root = root \o <<>>
    BY RootType, ConcatEmptySeq
  <2> QED
    BY <2>1 DEF Behind
<1> HIDE DEF d, root
<1>5. Front(f) = <<>> <=> Len(f) = 1
  <2>1. Front(f) = <<>> <=> Len(Front(f)) = 0
    BY <1>2, EmptySeq
  <2> QED
    BY <1>2, <2>1
<1>6. CASE p.segs = f /\ p.site = "file" /\ Len(f) = 1
  <2>1. d.segs = Behind(Front(f))
    BY <1>3, <1>4, <1>5, <1>6
  <2>2. d.segs # <<>>
    <3>1. Behind(<<>>) # <<>>
      BY EmptyPath, BehindLemma
    <3> QED
      BY <1>3, <1>4, <1>6, <3>1
  <2> QED
    BY <1>3, <1>6, <2>1, <2>2 DEF d
<1>7. CASE p.segs = f /\ Len(f) # 1
  <2>1. d.segs = Front(f) /\ d.segs # <<>>
    BY <1>3, <1>5, <1>7
  <2> QED
    BY <1>3, <2>1 DEF d
<1>8. CASE p.site = "file" /\ p.segs = Behind(f)
  <2>1. Len(p.segs) # 1
    <3>1. Len(p.segs) = Len(f) + 1
      BY <1>1, <1>8, BehindLemma
    <3> QED
      BY <1>2, <3>1
  <2>2. d.segs = Front(Behind(f)) /\ Front(Behind(f)) = Behind(Front(f))
    BY <1>1, <1>3, <1>8, <2>1, BehindLemma
  <2>3. Front(f) \in Seq(Segment)
    BY <1>2, WalkOfNames
  <2>4. d.segs # <<>>
    BY <2>2, <2>3, BehindLemma, ZenonT(30)
  <2> QED
    BY <1>3, <1>8, <2>2, <2>4 DEF d
<1> QED
  BY <1>6, <1>7, <1>8

\* A relative import of the current runtime.
LEMMA SrcStep ==
  ASSUME PathInv, NEW spec \in Relative, ImportSrc(spec)
  PROVE  PathInv'
<1> DEFINE D == Front(file.segs)
           r == normalize_path(spec, dirname(path))
           w == Walk(D \o spec)
<1>1. /\ runtime = "src" /\ status = "ok" /\ imports < MaxImports /\ Means(spec)
      /\ path' = r.path /\ status' = r.status
      /\ kept' = (kept /\ ~(file.site = "http" /\ Len(file.segs) = 1))
      /\ runtime' = runtime
  BY DEF ImportSrc
<1>2. /\ D \in Seq(Names) /\ file' \in File /\ file'.site = file.site
      /\ file'.segs = w /\ file'.segs # <<>> /\ regular' \in BOOLEAN
      /\ regular' => regular /\ Regular(D \o spec)
      /\ rooted' \in BOOLEAN /\ (rooted' => rooted /\ ~Leaves(D \o spec))
      /\ imports' \in 0 .. MaxImports
  BY <1>1, MeansLemma
<1>3. /\ path \in Path /\ file \in File /\ file.segs # <<>> /\ kept \in BOOLEAN
      /\ file.site \in {"file", "http"}
  BY <1>1 DEF PathInv, TypeOK, FileInv, File
<1>4. file.segs \in Seq(Names)
  BY <1>3 DEF File
<1>5. r.path \in Path /\ r.status \in {"ok", "garbled", "astray"}
  BY <1>3, DirnameType, NormalizeType
<1>6. ASSUME kept'
      PROVE  /\ r.status = "ok" =>
                  /\ r.path.site = file.site
                  /\ r.path.segs = w \/ (file.site = "file" /\ r.path.segs = Behind(w))
             /\ Regular(D \o spec) => r.status = "ok"
             /\ ~Leaves(D \o spec) => r.status # "astray"
  <2> DEFINE d == dirname(path)
  <2>1. kept /\ ~(file.site = "http" /\ Len(file.segs) = 1)
    BY <1>1, <1>6
  <2>2. /\ path.site = file.site
        /\ path.segs = file.segs \/ (path.site = "file" /\ path.segs = Behind(file.segs))
    BY <1>1, <2>1 DEF PathInv, SrcInv
  <2>3. /\ d.site = file.site /\ d.segs # <<>>
        /\ d.segs = D \/ (d.site = "file" /\ d.segs = Behind(D))
    BY <1>3, <1>4, <2>1, <2>2, DirnameLemma
  <2> HIDE DEF D, d
  <2> QED
    BY <1>2, <1>3, <2>3, ResolveLemma DEF d
<1> HIDE DEF D, r, w
<1>7. TypeOK'
  BY <1>1, <1>2, <1>3, <1>5 DEF TypeOK
<1>8. FileInv'
  BY <1>1, <1>2, <1>3 DEF FileInv
<1>9. SrcInv' /\ ProtoInv'
  BY <1>1, <1>2, <1>6 DEF SrcInv, ProtoInv
<1>10. LengthFits'
  BY <1>1, <1>2, <1>6 DEF LengthFits
<1>11. RootedInv'
  BY <1>1, <1>2, <1>6 DEF RootedInv
<1> QED
  BY <1>7, <1>8, <1>9, <1>10, <1>11 DEF PathInv

\* What is joined from a path with a slash in front, and from one without.
LEMMA JoinLemma ==
  ASSUME NEW w \in Seq(Names), w # <<>>
  PROVE  /\ Join(Behind(w)) = [site |-> "file", segs |-> w]
         /\ Len(w) > 1 => Join(w) = [site |-> "rel", segs |-> w]
<1> DEFINE b == Behind(w)
           t == Tail(b)
<1>1. w \in Seq(Segment)
  BY WalkOfNames
<1>2. /\ b \in Seq(Segment) /\ b # <<>> /\ Len(w) \in Nat /\ Len(b) = Len(w) + 1
      /\ b[1] = "" /\ \A n \in 1 .. Len(w) : b[n + 1] = w[n]
  BY <1>1, BehindLemma
<1>3. Len(w) > 0
  BY FrontLemma
<1>4. Head(b) = b[1]
  OBVIOUS
<1> HIDE DEF b
<1>5. t \in Seq(Segment) /\ Len(t) = Len(b) - 1 /\ \A i \in 1 .. Len(t) : t[i] = b[i + 1]
  BY <1>2, HeadTailProperties
<1> HIDE DEF t
<1>6. Len(t) = Len(w)
  <2>1. Len(t) = Len(b) - 1 /\ Len(b) = Len(w) + 1 /\ Len(w) \in Nat
    BY <1>2, <1>5
  <2> QED
    BY <2>1
<1>7. \A i \in 1 .. Len(w) : t[i] = w[i]
  BY <1>2, <1>5, <1>6
<1>8. t = w
  BY <1>1, <1>5, <1>6, <1>7, SeqEqual
<1>9. Len(b) > 1
  <2>1. Len(b) = Len(w) + 1 /\ Len(w) \in Nat
    BY <1>2
  <2> QED
    BY <1>3, <2>1
<1>10. Join(b) = [site |-> "file", segs |-> w]
  <2>1. Head(b) = ""
    BY <1>2, <1>4
  <2> QED
    BY <1>8, <1>9, <2>1 DEF Join, t
<1>11. ASSUME Len(w) > 1 PROVE Join(w) = [site |-> "rel", segs |-> w]
  <2>1. Head(w) # ""
    BY UrlPathAssumption, HeadTailProperties
  <2> QED
    BY <1>11, <2>1 DEF Join
<1> QED
  BY <1>10, <1>11 DEF b

\* A relative import of the prototypes.
LEMMA ProtoStep ==
  ASSUME PathInv, NEW spec \in Relative, ImportProto(spec)
  PROVE  PathInv'
<1> DEFINE D == Front(file.segs)
           s == D \o spec
           w == Walk(s)
           q == NormalizePath(spec, Dir(path))
<1>1. /\ runtime = "proto" /\ imports < MaxImports /\ Means(spec)
      /\ path' = q
      /\ kept' = (kept /\ (file.site = "cwd" => Len(file'.segs) > 1))
      /\ runtime' = runtime /\ status' = status
  BY DEF ImportProto
<1>2. /\ D \in Seq(Names) /\ file' \in File /\ file'.site = file.site
      /\ file'.segs = w /\ file'.segs # <<>> /\ regular' \in BOOLEAN
      /\ rooted' \in BOOLEAN /\ (rooted' => rooted /\ ~Leaves(s))
      /\ imports' \in 0 .. MaxImports
  BY <1>1, MeansLemma
<1>3. /\ path \in Path /\ file \in File /\ file.segs # <<>> /\ kept \in BOOLEAN
      /\ file.site \in {"file", "cwd"} /\ status \in {"ok", "garbled", "astray"}
  BY <1>1 DEF PathInv, TypeOK, FileInv, File
<1>4. file.segs \in Seq(Names)
  BY <1>3 DEF File
<1>5. q \in Path
  BY <1>3, NormalizePathType
<1>6. kept' \in BOOLEAN
  BY <1>1, <1>3
<1>7. ASSUME kept', rooted'
      PROVE  q = [site |-> IF file.site = "cwd" THEN "rel" ELSE "file", segs |-> w]
  <2>1. /\ kept /\ rooted /\ ~Leaves(s)
        /\ file.site = "cwd" => Len(w) > 1
    BY <1>1, <1>2, <1>7
  <2>2. /\ path.segs = file.segs
        /\ path.site = IF file.site = "cwd" THEN "rel" ELSE "file"
        /\ file.site = "cwd" => Len(file.segs) > 1
    BY <1>1, <2>1 DEF PathInv, ProtoInv
  <2> HIDE DEF D
  <2>3. s \in Seq(Segment) /\ Plain(s) /\ w \in Seq(Names) /\ w # <<>>
    BY <1>2, JoinedLemma
  <2>4. /\ Pops(s)[Len(s)] = w
        /\ Pops(Behind(s))[Len(Behind(s))] = Behind(w)
    BY <2>1, <2>3, PopsFollowWalk
  <2>5. CASE file.site = "cwd"
    <3>1. path.site # "file" /\ Len(path.segs) > 1
      BY <2>2, <2>5
    <3>2. Dir(path) = D
      BY <2>2, <3>1 DEF Dir, D
    <3>3. q = Join(w)
      BY <2>4, <3>2 DEF NormalizePath
    <3> QED
      BY <2>1, <2>3, <2>5, <3>3, JoinLemma
  <2>6. CASE file.site = "file"
    <3>1. path.site = "file"
      BY <2>2, <2>6
    <3> DEFINE b == Behind(file.segs)
    <3>2. file.segs \in Seq(Segment) /\ Len(file.segs) \in Nat /\ Len(file.segs) > 0
      BY <1>3, <1>4, WalkOfNames, FrontLemma
    <3>3. Len(b) = Len(file.segs) + 1 /\ Front(b) = Behind(D)
      BY <1>3, <3>2, BehindLemma DEF D
    <3>4. Len(b) > 1
      BY <3>2, <3>3
    <3>5. Dir(path) = IF Len(b) > 1 THEN Front(b) ELSE <<"">>
      BY <2>2, <3>1 DEF Dir, Behind
    <3> HIDE DEF b
    <3>6. Dir(path) = Behind(D)
      BY <3>3, <3>4, <3>5
    <3>7. Behind(D) \o spec = Behind(s)
      BY <1>2, WalkOfNames, RelativeLemma, BehindJoined
    <3>8. q = Join(Behind(w))
      BY <2>4, <3>6, <3>7 DEF NormalizePath
    <3> QED
      BY <2>3, <2>6, <3>8, JoinLemma
  <2> QED
    BY <1>3, <2>5, <2>6
<1> HIDE DEF D, s, w, q
<1>8. TypeOK'
  BY <1>1, <1>2, <1>3, <1>5, <1>6 DEF TypeOK
<1>9. FileInv'
  BY <1>1, <1>2, <1>3 DEF FileInv
<1>10. ProtoInv'
  <2> SUFFICES ASSUME kept', rooted'
               PROVE  /\ path'.segs = file'.segs
                      /\ path'.site = IF file'.site = "cwd" THEN "rel" ELSE "file"
                      /\ file'.site = "cwd" => Len(file'.segs) > 1
    BY DEF ProtoInv
  <2>1. file'.site = "cwd" => Len(file'.segs) > 1
    BY <1>1, <1>2
  <2>2. path'.segs = w /\ path'.site = IF file.site = "cwd" THEN "rel" ELSE "file"
    BY <1>1, <1>7
  <2> QED
    BY <1>2, <2>1, <2>2
<1>11. SrcInv' /\ RootedInv' /\ LengthFits'
  BY <1>1 DEF SrcInv, RootedInv, LengthFits
<1> QED
  BY <1>8, <1>9, <1>10, <1>11 DEF PathInv

-----------------------------------------------------------------------------
(* The properties. *)

\* The invariant holds on every chain of imports.
THEOREM Invariant == Spec => []PathInv
<1>1. Init => PathInv
  BY InitInv
<1>2. PathInv /\ [Next]_vars => PathInv'
  <2> SUFFICES ASSUME PathInv, [Next]_vars PROVE PathInv'
    OBVIOUS
  <2>1. CASE \E a \in Absolute : ImportAbsolute(a)
    BY <2>1, AbsoluteStep
  <2>2. ASSUME NEW spec \in Relative, ImportSrc(spec) PROVE PathInv'
    BY <2>2, SrcStep
  <2>3. ASSUME NEW spec \in Relative, ImportProto(spec) PROVE PathInv'
    BY <2>3, ProtoStep
  <2>4. CASE UNCHANGED vars
    BY <2>4 DEF vars, PathInv, TypeOK, FileInv, SrcInv, ProtoInv, RootedInv, LengthFits
  <2> QED
    BY <2>1, <2>2, <2>3, <2>4 DEF Next
<1> QED
  BY <1>1, <1>2, PTL DEF Spec

\* Paths keep their type: "." and ".." never survive into a computed path, and files
\* are names all the way.
THEOREM Types == Spec => []TypeOK
<1>1. PathInv => TypeOK
  BY DEF PathInv
<1> QED
  BY <1>1, Invariant, PTL

\* normalize_path computes a length that fits whenever every ".." of the chain removes
\* the segment just before it.
THEOREM LengthsFit == Spec => []LengthFits
<1>1. PathInv => LengthFits
  BY DEF PathInv
<1> QED
  BY <1>1, Invariant, PTL

\* While no specifier goes up from the root, a length that came out right means the path
\* of the right file, and nothing was written in front of the stack.
THEOREM FittingPathsAreRight == Spec => []FitsIsRight
<1>1. PathInv => FitsIsRight
  <2> SUFFICES ASSUME PathInv, runtime = "src", kept, rooted, status # "garbled"
               PROVE  status = "ok" /\ Found(path) = file
    BY DEF FitsIsRight
  <2>0. status = "ok"
    BY DEF PathInv, RootedInv, TypeOK
  <2>1. /\ path.site = file.site
        /\ path.segs = file.segs \/ path.segs = Behind(file.segs)
        /\ file \in File /\ file.site # "cwd"
    BY <2>0 DEF PathInv, SrcInv, TypeOK, FileInv
  <2>2. file.segs \in Seq(Names) /\ file.site \in {"file", "http"}
    BY <2>1 DEF File
  <2>3. Walk(path.segs) = file.segs
    BY <2>1, <2>2, WalkOfNames, WalkFromRoot
  <2> QED
    BY <2>0, <2>1, <2>2, <2>3 DEF Found, File
<1> QED
  BY <1>1, Invariant, PTL

\* The prototypes find the file that every chain means which never goes up from the root
\* nor reaches a file in the working directory itself.
THEOREM PrototypesResolve == Spec => []ProtoResolves
<1>1. PathInv => ProtoResolves
  <2> SUFFICES ASSUME PathInv, runtime = "proto", kept, rooted
               PROVE  Found(path) = file
    BY DEF ProtoResolves
  <2>1. /\ path.segs = file.segs
        /\ path.site = IF file.site = "cwd" THEN "rel" ELSE "file"
        /\ file \in File /\ file.site # "http"
    BY DEF PathInv, ProtoInv, TypeOK, FileInv
  <2>2. file.segs \in Seq(Names) /\ file.site \in {"file", "cwd"}
    BY <2>1 DEF File
  <2>3. Walk(path.segs) = file.segs
    BY <2>1, <2>2, WalkOfNames
  <2> QED
    BY <2>1, <2>2, <2>3 DEF Found, File
<1> QED
  BY <1>1, Invariant, PTL
=============================================================================
