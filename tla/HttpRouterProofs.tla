-------------------------- MODULE HttpRouterProofs --------------------------
(***************************************************************************)
(* Theorems about HttpRouter, for any patterns, paths and number of calls. *)
(***************************************************************************)
EXTENDS HttpRouter, SequenceTheorems, FiniteSetTheorems, WellFoundedInduction, TLAPS

SegmentSet == [kind : {"Literal", "Param", "CatchAll"}, text : STRING]
RouteSet   == [segments : Seq(SegmentSet), fn : Nat]

\* A set of naturals that is not empty has a least element.
LEMMA LeastIndex ==
    ASSUME NEW T \in SUBSET Nat, T # {}
    PROVE  \E x \in T : \A y \in T : x <= y
<1> DEFINE R == OpToRel(<, Nat)
<1>1. IsWellFoundedOn(R, Nat)
  BY NatLessThanWellFounded
<1>2. \A x, y \in Nat : y < x => <<y, x>> \in R
  BY DEF OpToRel
<1> HIDE DEF R
<1>3. PICK x \in T : \A y \in T : ~(<<y, x>> \in R)
  BY <1>1, WFMin
<1>4. ASSUME NEW y \in T PROVE x <= y
  <2>1. x \in Nat /\ y \in Nat
    OBVIOUS
  <2>2. ~(y < x)
    BY <1>2, <1>3, <2>1
  <2> QED
    BY <2>1, <2>2
<1> QED
  BY <1>4

\* and one of an interval a greatest.
LEMMA GreatestIndex ==
    ASSUME NEW n \in Nat, NEW S \in SUBSET (1 .. n), S # {}
    PROVE  \E x \in S : \A y \in S : y <= x
<1> DEFINE T == {d \in Nat : n - d \in S}
<1>1. T # {}
  <2>1. PICK x \in S : TRUE
    OBVIOUS
  <2>2. n - x \in Nat /\ n - (n - x) = x
    BY <2>1
  <2> QED
    BY <2>1, <2>2
<1>2. PICK d \in T : \A e \in T : d <= e
  BY <1>1, LeastIndex
<1>3. ASSUME NEW y \in S PROVE y <= n - d
  <2>1. n - y \in Nat /\ n - (n - y) = y
    OBVIOUS
  <2>2. d <= n - y
    BY <1>2, <2>1
  <2> QED
    BY <2>2
<1> QED
  BY <1>2, <1>3

\* A set that has n + 1 and goes down one by one has all of 1 .. n + 1.
LEMMA Downwards ==
    ASSUME NEW n \in Nat, NEW R, n + 1 \in R, \A k \in 1 .. n : k + 1 \in R => k \in R
    PROVE  \A k \in 1 .. n + 1 : k \in R
<1> DEFINE S == {k \in 1 .. n + 1 : k \notin R}
<1> SUFFICES ASSUME S # {} PROVE FALSE
  OBVIOUS
<1>1. S \in SUBSET (1 .. n + 1) /\ n + 1 \in Nat
  OBVIOUS
<1>2. PICK k \in S : \A y \in S : y <= k
  <2> HIDE DEF S
  <2> QED
    BY <1>1, GreatestIndex
<1>3. k \in 1 .. n + 1 /\ k \notin R /\ k # n + 1
  BY <1>2
<1>4. k \in 1 .. n /\ k + 1 \in 1 .. n + 1 /\ ~(k + 1 <= k)
  BY <1>3
<1>5. k + 1 \in R
  BY <1>2, <1>4
<1> QED
  BY <1>3, <1>4, <1>5

-----------------------------------------------------------------------------
(* Cutting.                                                                *)

\* One step of Without at k, f being what is left of the rest.
Kept(s, D, k, f) ==
    IF k > Len(s) THEN <<>> ELSE IF s[k] \in D THEN f[k + 1] ELSE <<s[k]>> \o f[k + 1]

KeepsFrom(s, D, k, f) == f = [i \in k .. Len(s) + 1 |-> Kept(s, D, i, f)]
Rest(s, D) == CHOOSE f : KeepsFrom(s, D, 1, f)

LEMMA WithoutIsRest ==
    ASSUME NEW s, NEW D PROVE Without(s, D) = Rest(s, D)[1]
BY DEF Without, Rest, KeepsFrom, Kept

LEMMA KeepsOneMore ==
    ASSUME NEW s, NEW D, Len(s) \in Nat, NEW k \in 1 .. Len(s), NEW f, KeepsFrom(s, D, k + 1, f)
    PROVE  \E g : KeepsFrom(s, D, k, g)
<1> DEFINE x == Kept(s, D, k, f)
           g == [i \in k .. Len(s) + 1 |-> IF i = k THEN x ELSE f[i]]
<1>1. ASSUME NEW i \in k .. Len(s) + 1 PROVE g[i] = Kept(s, D, i, g)
  <2>1. i <= Len(s) => g[i + 1] = f[i + 1]
    OBVIOUS
  <2>2. Kept(s, D, i, g) = Kept(s, D, i, f)
    BY <2>1 DEF Kept
  <2>3. i # k => f[i] = Kept(s, D, i, f)
    BY DEF KeepsFrom
  <2> QED
    BY <2>2, <2>3
<1>2. g = [i \in k .. Len(s) + 1 |-> Kept(s, D, i, g)]
  BY <1>1
<1> QED
  BY <1>2 DEF KeepsFrom

\* The recursion of Without has a solution: otherwise take the last place at
\* which it has none.
LEMMA RestExists ==
    ASSUME NEW s, NEW D, Len(s) \in Nat
    PROVE  KeepsFrom(s, D, 1, Rest(s, D))
<1> DEFINE S == {k \in 1 .. Len(s) + 1 : ~\E f : KeepsFrom(s, D, k, f)}
<1>1. S = {}
  <2> SUFFICES ASSUME S # {} PROVE FALSE
    OBVIOUS
  <2>1. S \in SUBSET (1 .. Len(s) + 1) /\ Len(s) + 1 \in Nat
    OBVIOUS
  <2>2. PICK k \in S : \A y \in S : y <= k
    <3> HIDE DEF S
    <3> QED
      BY <2>1, GreatestIndex
  <2>3. k # Len(s) + 1
    <3> DEFINE f == [i \in Len(s) + 1 .. Len(s) + 1 |-> <<>>]
    <3>1. \A i \in Len(s) + 1 .. Len(s) + 1 : Kept(s, D, i, f) = <<>>
      BY DEF Kept
    <3>2. f = [i \in Len(s) + 1 .. Len(s) + 1 |-> Kept(s, D, i, f)]
      BY <3>1
    <3>3. KeepsFrom(s, D, Len(s) + 1, f)
      BY <3>2 DEF KeepsFrom
    <3> QED
      BY <3>3
  <2>4. k \in 1 .. Len(s) /\ k + 1 \notin S
    <3>1. k \in 1 .. Len(s) + 1 /\ k \in Nat
      BY <2>1
    <3>2. k + 1 \in S => k + 1 <= k
      BY <2>2
    <3> QED
      BY <2>3, <3>1, <3>2
  <2>5. PICK f : KeepsFrom(s, D, k + 1, f)
    BY <2>4
  <2>6. \E g : KeepsFrom(s, D, k, g)
    BY <2>4, <2>5, KeepsOneMore
  <2> QED
    BY <2>2, <2>6
<1>2. \E f : KeepsFrom(s, D, 1, f)
  <2>1. 1 \in 1 .. Len(s) + 1
    OBVIOUS
  <2>2. ~(\E f : KeepsFrom(s, D, 1, f)) => 1 \in S
    BY <2>1
  <2> QED
    BY <1>1, <2>2
<1> QED
  BY <1>2 DEF Rest

LEMMA RestDrops ==
    ASSUME NEW s, NEW D, Len(s) \in Nat, NEW k \in 1 .. Len(s), s[k] \in D
    PROVE  Rest(s, D)[k] = Rest(s, D)[k + 1]
<1>1. k \in 1 .. Len(s) + 1 /\ ~(k > Len(s))
  OBVIOUS
<1>2. Rest(s, D)[k] = Kept(s, D, k, Rest(s, D))
  BY <1>1, RestExists DEF KeepsFrom
<1> QED
  BY <1>1, <1>2 DEF Kept

LEMMA RestKeeps ==
    ASSUME NEW s, NEW D, Len(s) \in Nat, NEW k \in 1 .. Len(s), s[k] \notin D
    PROVE  Rest(s, D)[k] = <<s[k]>> \o Rest(s, D)[k + 1]
<1>1. k \in 1 .. Len(s) + 1 /\ ~(k > Len(s))
  OBVIOUS
<1>2. Rest(s, D)[k] = Kept(s, D, k, Rest(s, D))
  BY <1>1, RestExists DEF KeepsFrom
<1> QED
  BY <1>1, <1>2 DEF Kept

LEMMA RestEnds ==
    ASSUME NEW s, NEW D, Len(s) \in Nat
    PROVE  Rest(s, D)[Len(s) + 1] = <<>>
<1>1. Len(s) + 1 \in 1 .. Len(s) + 1 /\ Len(s) + 1 > Len(s)
  OBVIOUS
<1>2. Rest(s, D)[Len(s) + 1] = Kept(s, D, Len(s) + 1, Rest(s, D))
  BY <1>1, RestExists DEF KeepsFrom
<1> QED
  BY <1>1, <1>2 DEF Kept

\* What is dropped is gone,
LEMMA WithoutTyped ==
    ASSUME NEW T, NEW D, NEW s \in Seq(T)
    PROVE  Without(s, D) \in Seq(T \ D)
<1> DEFINE right(k) == Rest(s, D)[k] \in Seq(T \ D)
           R == {k \in 1 .. Len(s) + 1 : right(k)}
<1> HIDE DEF right
<1>1. Len(s) \in Nat
  OBVIOUS
<1>2. right(Len(s) + 1)
  <2>1. Rest(s, D)[Len(s) + 1] = <<>>
    BY <1>1, RestEnds
  <2>2. <<>> \in Seq(T \ D)
    OBVIOUS
  <2> QED
    BY <2>1, <2>2 DEF right
<1>3. ASSUME NEW k \in 1 .. Len(s), right(k + 1) PROVE right(k)
  <2>1. s[k] \in T
    BY ElementOfSeq
  <2>2. CASE s[k] \in D
    <3>1. Rest(s, D)[k] = Rest(s, D)[k + 1]
      BY <1>1, <2>2, RestDrops
    <3> QED
      BY <1>3, <3>1 DEF right
  <2>3. CASE s[k] \notin D
    <3>1. s[k] \in T \ D
      BY <2>1, <2>3
    <3>2. <<s[k]>> \o Rest(s, D)[k + 1] \in Seq(T \ D)
      BY <1>3, <3>1 DEF right
    <3>3. Rest(s, D)[k] = <<s[k]>> \o Rest(s, D)[k + 1]
      BY <1>1, <2>3, RestKeeps
    <3> QED
      BY <3>2, <3>3 DEF right
  <2> QED
    BY <2>2, <2>3
<1>4. \A k \in 1 .. Len(s) + 1 : k \in R
  <2>1. Len(s) + 1 \in R
    BY <1>1, <1>2
  <2>2. ASSUME NEW k \in 1 .. Len(s), k + 1 \in R PROVE k \in R
    <3>1. right(k + 1) /\ k \in 1 .. Len(s) + 1
      BY <1>1, <2>2
    <3> QED
      BY <1>3, <3>1
  <2> HIDE DEF R
  <2> QED
    BY <1>1, <2>1, <2>2, Downwards
<1>5. right(1)
  BY <1>1, <1>4
<1> QED
  BY <1>5, WithoutIsRest DEF right

\* and what holds nothing of it stays as it is.
LEMMA WithoutSame ==
    ASSUME NEW T, NEW D, NEW s \in Seq(T), \A x \in T : x \notin D
    PROVE  Without(s, D) = s
<1> DEFINE n == Len(s)
           right(k) == Rest(s, D)[k] = SubSeq(s, k, n)
           R == {k \in 1 .. n + 1 : right(k)}
<1> HIDE DEF right
<1>1. n \in Nat /\ n \in Int /\ n + 1 \in Int /\ n < n + 1
  OBVIOUS
<1>2. right(n + 1)
  <2>1. SubSeq(s, n + 1, n) = <<>>
    BY <1>1, SubSeqEmpty
  <2> QED
    BY <1>1, <2>1, RestEnds DEF right
<1>3. ASSUME NEW k \in 1 .. n, right(k + 1) PROVE right(k)
  <2>1. s[k] \notin D
    BY ElementOfSeq
  <2>2. Rest(s, D)[k] = <<s[k]>> \o Rest(s, D)[k + 1]
    BY <1>1, <2>1, RestKeeps
  <2>3. n \in k .. Len(s) /\ k \in 1 .. Len(s)
    BY <1>1
  <2>4. SubSeq(s, k, n) = <<s[k]>> \o SubSeq(s, k + 1, n)
    BY <2>3, SubSeqRecursiveFirst
  <2> QED
    BY <1>3, <2>2, <2>4 DEF right
<1>4. \A k \in 1 .. n + 1 : k \in R
  <2>1. n + 1 \in R
    BY <1>1, <1>2
  <2>2. ASSUME NEW k \in 1 .. n, k + 1 \in R PROVE k \in R
    <3>1. right(k + 1) /\ k \in 1 .. n + 1
      BY <1>1, <2>2
    <3> QED
      BY <1>3, <3>1
  <2> HIDE DEF R
  <2> QED
    BY <1>1, <2>1, <2>2, Downwards
<1>5. Rest(s, D)[1] = SubSeq(s, 1, n)
  BY <1>1, <1>4 DEF right
<1>6. SubSeq(s, 1, n) = s
  BY SubSeqFull
<1> QED
  BY <1>5, <1>6, WithoutIsRest

\* Of a dropped part in front nothing is seen.
LEMMA WithoutFront ==
    ASSUME NEW T, NEW D, NEW s \in Seq(T), \A y \in T : y \notin D,
           NEW t, Len(t) = Len(s) + 1, t[1] \in D, \A k \in 1 .. Len(s) : t[k + 1] = s[k]
    PROVE  Without(t, D) = s
<1> DEFINE n == Len(s)
           right(k) == Rest(t, D)[k + 1] = SubSeq(s, k, n)
           R == {k \in 1 .. n + 1 : right(k)}
<1> HIDE DEF right
<1>1. n \in Nat /\ n \in Int /\ n + 1 \in Int /\ n < n + 1
  OBVIOUS
<1>2. Len(t) = n + 1 /\ Len(t) \in Nat
  BY <1>1
<1>3. right(n + 1)
  <2>1. SubSeq(s, n + 1, n) = <<>>
    BY <1>1, SubSeqEmpty
  <2>2. Rest(t, D)[Len(t) + 1] = <<>>
    BY <1>2, RestEnds
  <2> QED
    BY <1>2, <2>1, <2>2 DEF right
<1>4. ASSUME NEW k \in 1 .. n, right(k + 1) PROVE right(k)
  <2>1. s[k] \notin D
    BY ElementOfSeq
  <2>2. k + 1 \in 1 .. Len(t) /\ t[k + 1] = s[k] /\ t[k + 1] \notin D
    BY <1>1, <1>2, <2>1
  <2>3. Rest(t, D)[k + 1] = <<t[k + 1]>> \o Rest(t, D)[(k + 1) + 1]
    <3>1. PICK j : j = k + 1
      OBVIOUS
    <3>2. Len(t) \in Nat /\ j \in 1 .. Len(t) /\ t[j] \notin D
      BY <1>2, <2>2, <3>1
    <3> HIDE DEF n
    <3>3. Rest(t, D)[j] = <<t[j]>> \o Rest(t, D)[j + 1]
      BY ONLY <3>2, RestKeeps
    <3> QED
      BY <3>1, <3>3
  <2>4. n \in k .. Len(s) /\ k \in 1 .. Len(s)
    BY <1>1
  <2>5. SubSeq(s, k, n) = <<s[k]>> \o SubSeq(s, k + 1, n)
    BY <2>4, SubSeqRecursiveFirst
  <2> QED
    BY <1>4, <2>2, <2>3, <2>5 DEF right
<1>5. \A k \in 1 .. n + 1 : k \in R
  <2>1. n + 1 \in R
    BY <1>1, <1>3
  <2>2. ASSUME NEW k \in 1 .. n, k + 1 \in R PROVE k \in R
    <3>1. right(k + 1) /\ k \in 1 .. n + 1
      BY <1>1, <2>2
    <3> QED
      BY <1>4, <3>1
  <2> HIDE DEF R
  <2> QED
    BY <1>1, <2>1, <2>2, Downwards
<1>6. Rest(t, D)[1 + 1] = SubSeq(s, 1, n)
  <2>1. 1 \in 1 .. n + 1
    BY <1>1
  <2>2. 1 \in R
    BY <1>5, <2>1
  <2> QED
    BY <2>2 DEF right
<1>7. SubSeq(s, 1, n) = s
  BY SubSeqFull
<1>8. Rest(t, D)[1] = Rest(t, D)[1 + 1]
  <2>1. 1 \in 1 .. Len(t)
    BY <1>1, <1>2
  <2> QED
    BY <1>2, <2>1, RestDrops
<1>9. Without(t, D) = Rest(t, D)[1]
  BY WithoutIsRest
<1> QED
  BY <1>6, <1>7, <1>8, <1>9

LEMMA WithoutFirst ==
    ASSUME NEW T, NEW D, NEW s \in Seq(T), NEW x \in D, \A y \in T : y \notin D
    PROVE  Without(<<x>> \o s, D) = s
<1> DEFINE t == <<x>> \o s
<1>1. Len(t) = Len(s) + 1 /\ t[1] = x /\ \A k \in 1 .. Len(s) : t[k + 1] = s[k]
  <2>1. s \in Seq(T \cup {x}) /\ <<x>> \in Seq(T \cup {x}) /\ Len(<<x>>) = 1 /\ Len(s) \in Nat
    OBVIOUS
  <2>2. /\ Len(t) = 1 + Len(s)
        /\ \A i \in 1 .. 1 + Len(s) : t[i] = IF i <= 1 THEN <<x>>[i] ELSE s[i - 1]
    BY <2>1, ConcatProperties
  <2>3. \A k \in 1 .. Len(s) : k + 1 \in 1 .. 1 + Len(s) /\ ~(k + 1 <= 1) /\ (k + 1) - 1 = k
    BY <2>1
  <2>4. 1 \in 1 .. 1 + Len(s) /\ <<x>>[1] = x
    BY <2>1
  <2> QED
    BY <2>1, <2>2, <2>3, <2>4
<1> HIDE DEF t
<1>2. Without(t, D) = s
  BY <1>1, WithoutFront
<1> QED
  BY <1>2 DEF t

\* and of one or two alone nothing is left.
LEMMA OneDropped ==
    ASSUME NEW x PROVE Without(<<x>>, {x}) = <<>>
<1> DEFINE t == <<x>>
<1>1. Len(t) = 1 /\ t[1] \in {x} /\ Len(t) \in Nat
  OBVIOUS
<1> HIDE DEF t
<1>2. 1 \in 1 .. Len(t) /\ 1 + 1 = Len(t) + 1
  BY <1>1
<1>3. Rest(t, {x})[1] = Rest(t, {x})[1 + 1]
  BY <1>1, <1>2, RestDrops
<1>4. Rest(t, {x})[Len(t) + 1] = <<>>
  BY <1>1, RestEnds
<1>5. Without(t, {x}) = <<>>
  BY <1>2, <1>3, <1>4, WithoutIsRest
<1> QED
  BY <1>5 DEF t

LEMMA TwoDropped ==
    ASSUME NEW x PROVE Without(<<x, x>>, {x}) = <<>>
<1> DEFINE t == <<x, x>>
<1>1. Len(t) = 2 /\ t[1] \in {x} /\ t[2] \in {x} /\ Len(t) \in Nat
  OBVIOUS
<1> HIDE DEF t
<1>2. 1 \in 1 .. Len(t) /\ 2 \in 1 .. Len(t) /\ 1 + 1 = 2 /\ 2 + 1 = Len(t) + 1
  BY <1>1
<1>3. Rest(t, {x})[1] = Rest(t, {x})[1 + 1]
  BY <1>1, <1>2, RestDrops
<1>4. Rest(t, {x})[2] = Rest(t, {x})[2 + 1]
  BY <1>1, <1>2, RestDrops
<1>5. Rest(t, {x})[Len(t) + 1] = <<>>
  BY <1>1, RestEnds
<1>6. Without(t, {x}) = <<>>
  BY <1>2, <1>3, <1>4, <1>5, WithoutIsRest
<1> QED
  BY <1>6 DEF t

\* What is left of a path and of a pattern.
Word  == STRING \ {""}
Blank == [mark |-> "", text |-> ""]
Named == Part \ {Blank}

LEMMA Words ==
    /\ \A x \in Word : x \in STRING /\ x \notin {""}
    /\ Seq(Word) \subseteq Seq(STRING)
    /\ <<>> \in Seq(Word)
<1>1. \A x \in Word : x \in STRING /\ x \notin {""}
  BY DEF Word
<1>2. ASSUME NEW s \in Seq(Word) PROVE s \in Seq(STRING)
  <2>1. \A i \in 1 .. Len(s) : s[i] \in STRING
    BY <1>1, ElementOfSeq
  <2>2. s \in [1 .. Len(s) -> STRING] /\ Len(s) \in Nat
    BY <2>1, LenProperties
  <2> QED
    BY <2>2
<1>3. <<>> \in Seq(Word)
  OBVIOUS
<1> QED
  BY <1>1, <1>2, <1>3

\* The segments of a pattern; the path that literal ones make is cut into
\* their texts.
LEMMA PatternsCut ==
    ASSUME NEW pattern \in Patterns, NEW segs, segs = parse_pattern(pattern)
    PROVE  /\ segs \in Seq(SegmentSet)
           /\ Kinds(segs) \subseteq {"Literal"} =>
                 split_path(Canonical(segs)) = [k \in DOMAIN segs |-> segs[k].text]
<1> DEFINE parts == Without(pattern, {Blank})
           texts == [k \in DOMAIN segs |-> segs[k].text]
<1>1. parts \in Seq(Named)
  BY PatternsAssumption, WithoutTyped DEF Named
<1>2. segs = [k \in DOMAIN parts |-> Segment(parts[k])]
  BY DEF parse_pattern, Blank
<1> HIDE DEF parts
<1>3. DOMAIN parts = 1 .. Len(parts) /\ Len(parts) \in Nat /\ DOMAIN segs = 1 .. Len(parts)
  BY <1>1, <1>2
<1>4. ASSUME NEW k \in 1 .. Len(parts)
      PROVE  /\ segs[k] \in SegmentSet
             /\ segs[k].kind = "Literal" => segs[k].text \in Word
  <2> DEFINE part == parts[k]
  <2>1. part \in Named
    BY <1>1, ElementOfSeq
  <2>2. segs[k] = Segment(part)
    BY <1>2, <1>3
  <2> HIDE DEF part
  <2>3. part = [mark |-> part.mark, text |-> part.text]
    BY <2>1 DEF Named, Part
  <2>4. part.mark \in {"", ":", "*"} /\ part.text \in STRING
    BY <2>1 DEF Named, Part
  <2>5. Segment(part).text = part.text /\ Segment(part) \in SegmentSet
    BY <2>4 DEF Segment, SegmentSet
  <2>6. Segment(part).kind = "Literal" => part.mark = ""
    BY <2>4 DEF Segment
  <2>7. part.mark = "" => part.text # ""
    BY <2>1, <2>3 DEF Named, Blank
  <2>8. segs[k].kind = "Literal" => segs[k].text \in Word
    BY <2>2, <2>4, <2>5, <2>6, <2>7 DEF Word
  <2> QED
    BY <2>2, <2>5, <2>8
<1>5. segs \in Seq(SegmentSet)
  <2>1. segs \in [1 .. Len(parts) -> SegmentSet]
    BY <1>2, <1>3, <1>4
  <2> QED
    BY <1>3, <2>1
<1>6. ASSUME Kinds(segs) \subseteq {"Literal"} PROVE split_path(Canonical(segs)) = texts
  <2>1. ASSUME NEW k \in 1 .. Len(parts) PROVE segs[k].text \in Word
    <3>1. segs[k].kind = "Literal"
      BY <1>3, <1>6 DEF Kinds
    <3> QED
      BY <1>4, <3>1
  <2>2. texts \in Seq(Word)
    <3>1. texts \in [1 .. Len(parts) -> Word]
      BY <1>3, <2>1
    <3> QED
      BY <1>3, <3>1
  <2>3. CASE segs = <<>>
    <3>1. Canonical(segs) = <<"", "">>
      BY <2>3 DEF Canonical
    <3>2. texts = <<>>
      BY <2>3
    <3> QED
      BY <2>3, <3>1, <3>2, TwoDropped DEF split_path
  <2>4. CASE segs # <<>>
    <3>1. Canonical(segs) = <<"">> \o texts
      BY <2>4 DEF Canonical
    <3> HIDE DEF texts
    <3>2. PICK x, D : x = "" /\ D = {""}
      OBVIOUS
    <3>3. x \in D /\ \A y \in Word : y \notin D
      BY <3>2, Words
    <3>4. Without(<<x>> \o texts, D) = texts
      BY ONLY <2>2, <3>3, WithoutFirst
    <3> QED
      BY <3>1, <3>2, <3>4 DEF split_path
  <2> QED
    BY <2>3, <2>4
<1> QED
  BY <1>5, <1>6

\* The segments of a path; the rest of them, joined again, is cut as before.
LEMMA PathsCut ==
    ASSUME NEW path \in Paths, NEW segs, segs = split_path(path)
    PROVE  /\ segs \in Seq(STRING)
           /\ \A k \in 1 .. Len(segs) + 1 :
                 split_path(Join(SubSeq(segs, k, Len(segs)))) = SubSeq(segs, k, Len(segs))
<1>1. segs \in Seq(Word)
  BY PathsAssumption, WithoutTyped DEF split_path, Word
<1>2. ASSUME NEW rest \in Seq(Word) PROVE split_path(Join(rest)) = rest
  <2>1. CASE rest = <<>>
    <3> QED
      BY <2>1, OneDropped DEF split_path, Join
  <2>2. CASE rest # <<>>
    <3>1. Without(rest, {""}) = rest
      BY Words, WithoutSame
    <3> QED
      BY <2>2, <3>1 DEF split_path, Join
  <2> QED
    BY <2>1, <2>2
<1>3. ASSUME NEW k \in 1 .. Len(segs) + 1 PROVE SubSeq(segs, k, Len(segs)) \in Seq(Word)
  <2>1. Len(segs) \in Int /\ k \in Int
    BY <1>1, LenProperties
  <2>2. \A i \in k .. Len(segs) : segs[i] \in Word
    BY <1>1, <2>1, ElementOfSeq
  <2> QED
    BY <2>1, <2>2, SubSeqProperties
<1> QED
  BY <1>1, <1>2, <1>3, Words

-----------------------------------------------------------------------------
(* The registrations, by the table they belong to.                         *)

Registered == regs \in Seq([method : AnyMethod, pattern : Patterns])

Literals(segs) == Kinds(segs) \subseteq {"Literal"}
Captured(segs) == "Param" \in Kinds(segs) /\ "CatchAll" \notin Kinds(segs)
Trailing(segs) == "CatchAll" \in Kinds(segs) /\ CatchAllIsLast(segs)

Of(m)         == {i \in DOMAIN regs : regs[i].method = m}
StaticOf(m)   == {i \in Of(m) : Literals(Segs(i))}
DynamicOf(m)  == {i \in Of(m) : Captured(Segs(i))}
CatchAllOf(m) == {i \in Of(m) : Trailing(Segs(i))}

Routes == [i \in DOMAIN regs |-> [segments |-> Segs(i), fn |-> i]]

LEMMA SegsTyped ==
    ASSUME Registered, NEW i \in DOMAIN regs
    PROVE  /\ Segs(i) \in Seq(SegmentSet) /\ i \in Nat /\ Routes[i] \in RouteSet
           /\ Routes[i] = [segments |-> Segs(i), fn |-> i]
           /\ DOMAIN Segs(i) = 1 .. Len(Segs(i)) /\ Len(Segs(i)) \in Nat
           /\ regs[i].pattern \in Patterns
<1> DEFINE S == [method : AnyMethod, pattern : Patterns]
<1>0. regs \in Seq(S)
  BY DEF Registered
<1> HIDE DEF S
<1>1a. i \in 1 .. Len(regs) /\ regs[i] \in S
  BY <1>0, ElementOfSeq
<1>1. i \in 1 .. Len(regs) /\ regs[i].pattern \in Patterns
  BY <1>1a DEF S
<1>2. Segs(i) \in Seq(SegmentSet)
  BY <1>1, PatternsCut DEF Segs
<1> QED
  BY <1>1, <1>2 DEF Routes, RouteSet

LEMMA PrefixNat ==
    ASSUME NEW segs \in Seq(SegmentSet)
    PROVE  literal_prefix_length(segs) \in Nat
<1> DEFINE P == {k \in DOMAIN segs : \A j \in 1 .. k : segs[j].kind = "Literal"}
<1>1. P \subseteq 1 .. Len(segs) /\ IsFiniteSet(1 .. Len(segs))
  <2>1. DOMAIN segs = 1 .. Len(segs) /\ Len(segs) \in Int /\ 1 \in Int
    OBVIOUS
  <2> QED
    BY <2>1, FS_Interval
<1>2. IsFiniteSet(P)
  BY <1>1, FS_Subset
<1> QED
  BY <1>2, FS_CardinalityType DEF literal_prefix_length

-----------------------------------------------------------------------------
(* What the tables hold.                                                   *)

\* The canonical paths of the registrations S, with the latest of each.  R
\* tells the route of a registration.
StaticTable(f, S, R) ==
    /\ \A i \in S : /\ Canonical(R[i].segments) \in DOMAIN f
                     /\ i <= f[Canonical(R[i].segments)]
    /\ \A p \in DOMAIN f : f[p] \in S /\ Canonical(R[f[p]].segments) = p

\* The bucket B holds exactly the routes of the registrations S.
Holds(B, S, R) ==
    /\ B \in Seq(RouteSet)
    /\ \A k \in 1 .. Len(B) : B[k].fn \in S /\ B[k] = R[B[k].fn]
    /\ \A i \in S : \E k \in 1 .. Len(B) : B[k].fn = i

InOrder(B) == \A j, k \in 1 .. Len(B) : j < k => B[j].fn < B[k].fn
Sorted(B)  == \A j, k \in 1 .. Len(B) : j < k => ~Before(B[k], B[j])

OfLength(S, R, n) == {i \in S : Len(R[i].segments) = n}

DynamicTable(f, S, R) ==
    \A n \in Nat : /\ Holds(Lookup(f, n, <<>>), OfLength(S, R, n), R)
                   /\ InOrder(Lookup(f, n, <<>>))

CatchAllTable(B, S, R) == Holds(B, S, R) /\ Sorted(B)

Tables ==
    /\ Registered
    /\ DOMAIN static_routes = AnyMethod /\ DOMAIN dynamic_routes = AnyMethod
    /\ DOMAIN catchall_routes = AnyMethod
    /\ \A m \in AnyMethod :
          /\ StaticTable(static_routes[m], StaticOf(m), Routes)
          /\ DynamicTable(dynamic_routes[m], DynamicOf(m), Routes)
          /\ CatchAllTable(catchall_routes[m], CatchAllOf(m), Routes)

-----------------------------------------------------------------------------
(* add().                                                                  *)

\* The call of add() is the last registration; the others stay as they are.
LEMMA Appended ==
    ASSUME Registered, NEW mm \in AnyMethod, NEW pattern \in Patterns, Registers(mm, pattern),
           NEW n, n = Len(regs) + 1
    PROVE  /\ Registered' /\ Routes'[n] = [segments |-> parse_pattern(pattern), fn |-> n]
           /\ parse_pattern(pattern) \in Seq(SegmentSet)
           /\ DOMAIN regs' = DOMAIN regs \cup {n}
           /\ n \in Nat /\ n \notin DOMAIN regs
           /\ \A i \in DOMAIN regs : i \in Nat /\ i < n
           /\ \A i \in DOMAIN regs : regs'[i] = regs[i] /\ Segs(i)' = Segs(i)
                                     /\ Routes'[i] = Routes[i]
           /\ regs'[n].method = mm /\ Segs(n)' = parse_pattern(pattern)
<1> DEFINE r == [method |-> mm, pattern |-> pattern]
           S == [method : AnyMethod, pattern : Patterns]
<1>1. regs \in Seq(S) /\ r \in S /\ regs' = Append(regs, r)
  BY DEF Registered, Registers
<1>2. Len(regs) \in Nat /\ DOMAIN regs = 1 .. Len(regs)
  BY <1>1
<1> HIDE DEF S
<1>3. /\ regs' \in Seq(S) /\ Len(regs') = Len(regs) + 1
      /\ \A i \in 1 .. Len(regs) : regs'[i] = regs[i]
      /\ regs'[Len(regs) + 1] = r
  BY <1>1, AppendProperties
<1>4. /\ DOMAIN regs' = DOMAIN regs \cup {n} /\ n \in Nat /\ n \notin DOMAIN regs
      /\ \A i \in DOMAIN regs : i \in Nat /\ i < n
  <2>1. DOMAIN regs' = 1 .. Len(regs')
    BY <1>3
  <2> QED
    BY <1>2, <1>3, <2>1
<1>5. \A i \in DOMAIN regs : regs'[i] = regs[i] /\ Segs(i)' = Segs(i)
                                     /\ Routes'[i] = Routes[i]
  <2>1. ASSUME NEW i \in DOMAIN regs PROVE regs'[i] = regs[i] /\ Segs(i)' = Segs(i)
    BY <1>2, <1>3, <2>1 DEF Segs
  <2>2. Routes' = [i \in DOMAIN regs' |-> [segments |-> Segs(i)', fn |-> i]]
    BY DEF Routes
  <2>3. ASSUME NEW i \in DOMAIN regs PROVE Routes'[i] = Routes[i]
    BY <1>4, <2>1, <2>2, <2>3 DEF Routes
  <2> QED
    BY <2>1, <2>3
<1>6. regs'[n].method = mm /\ Segs(n)' = parse_pattern(pattern)
  <2>1. regs'[n] = r
    BY <1>3
  <2> QED
    BY <2>1 DEF Segs
<1>7. Registered'
  BY <1>3 DEF Registered, S
<1>8. Routes'[n] = [segments |-> parse_pattern(pattern), fn |-> n]
  <2>1. Routes' = [i \in DOMAIN regs' |-> [segments |-> Segs(i)', fn |-> i]]
    BY DEF Routes
  <2> QED
    BY <1>4, <1>6, <2>1
<1>9. parse_pattern(pattern) \in Seq(SegmentSet)
  BY PatternsCut
<1> QED
  BY <1>4, <1>5, <1>6, <1>7, <1>8, <1>9

LEMMA ClassesAfter ==
    ASSUME Registered, NEW mm \in AnyMethod, NEW pattern \in Patterns, Registers(mm, pattern),
           NEW n, n = Len(regs) + 1, NEW segs, segs = parse_pattern(pattern), NEW m
    PROVE  /\ StaticOf(m)' = StaticOf(m) \cup (IF m = mm /\ Literals(segs) THEN {n} ELSE {})
           /\ DynamicOf(m)' = DynamicOf(m) \cup (IF m = mm /\ Captured(segs) THEN {n} ELSE {})
           /\ CatchAllOf(m)' = CatchAllOf(m) \cup (IF m = mm /\ Trailing(segs) THEN {n} ELSE {})
<1>1. /\ DOMAIN regs' = DOMAIN regs \cup {n} /\ n \notin DOMAIN regs
      /\ \A i \in DOMAIN regs : regs'[i] = regs[i] /\ Segs(i)' = Segs(i)
      /\ regs'[n].method = mm /\ Segs(n)' = segs
  BY Appended
<1>2. Of(m)' = Of(m) \cup (IF m = mm THEN {n} ELSE {})
  BY <1>1 DEF Of
<1>3. \A i \in Of(m) : Segs(i)' = Segs(i) /\ i # n
  BY <1>1 DEF Of
<1>4. StaticOf(m)' = {i \in Of(m)' : Literals(Segs(i)')}
      /\ DynamicOf(m)' = {i \in Of(m)' : Captured(Segs(i)')}
      /\ CatchAllOf(m)' = {i \in Of(m)' : Trailing(Segs(i)')}
  BY DEF StaticOf, DynamicOf, CatchAllOf
<1>5. StaticOf(m)' = StaticOf(m) \cup (IF m = mm /\ Literals(segs) THEN {n} ELSE {})
  <2>1. \A i : i \in StaticOf(m)' <=> i \in Of(m)' /\ Literals(Segs(i)')
    BY <1>4
  <2>2. \A i : i \in StaticOf(m) <=> i \in Of(m) /\ Literals(Segs(i))
    BY DEF StaticOf
  <2> QED
    BY <1>1, <1>2, <1>3, <2>1, <2>2
<1>6. DynamicOf(m)' = DynamicOf(m) \cup (IF m = mm /\ Captured(segs) THEN {n} ELSE {})
  <2>1. \A i : i \in DynamicOf(m)' <=> i \in Of(m)' /\ Captured(Segs(i)')
    BY <1>4
  <2>2. \A i : i \in DynamicOf(m) <=> i \in Of(m) /\ Captured(Segs(i))
    BY DEF DynamicOf
  <2> QED
    BY <1>1, <1>2, <1>3, <2>1, <2>2
<1>7. CatchAllOf(m)' = CatchAllOf(m) \cup (IF m = mm /\ Trailing(segs) THEN {n} ELSE {})
  <2>1. \A i : i \in CatchAllOf(m)' <=> i \in Of(m)' /\ Trailing(Segs(i)')
    BY <1>4
  <2>2. \A i : i \in CatchAllOf(m) <=> i \in Of(m) /\ Trailing(Segs(i))
    BY DEF CatchAllOf
  <2> QED
    BY <1>1, <1>2, <1>3, <2>1, <2>2
<1> QED
  BY <1>5, <1>6, <1>7

\* A table looks at the routes of its own registrations only.
LEMMA TablesKept ==
    ASSUME NEW S, NEW R, NEW Q, \A i \in S : Q[i] = R[i]
    PROVE  /\ \A f : StaticTable(f, S, R) => StaticTable(f, S, Q)
           /\ \A B : Holds(B, S, R) => Holds(B, S, Q)
           /\ \A f : DynamicTable(f, S, R) => DynamicTable(f, S, Q)
           /\ \A B : CatchAllTable(B, S, R) => CatchAllTable(B, S, Q)
<1>1. ASSUME NEW f, StaticTable(f, S, R) PROVE StaticTable(f, S, Q)
  BY <1>1 DEF StaticTable
<1>2. ASSUME NEW T \in SUBSET S, NEW B, Holds(B, T, R) PROVE Holds(B, T, Q)
  BY <1>2 DEF Holds
<1>3. ASSUME NEW f, DynamicTable(f, S, R) PROVE DynamicTable(f, S, Q)
  <2>1. \A k \in Nat : OfLength(S, Q, k) = OfLength(S, R, k) /\ OfLength(S, R, k) \in SUBSET S
    BY DEF OfLength
  <2> QED
    BY <1>2, <1>3, <2>1 DEF DynamicTable
<1>4. ASSUME NEW B, CatchAllTable(B, S, R) PROVE CatchAllTable(B, S, Q)
  BY <1>2, <1>4 DEF CatchAllTable
<1> QED
  BY <1>1, <1>2, <1>3, <1>4

LEMMA StaticAdded ==
    ASSUME NEW f, NEW S \in SUBSET Nat, NEW R, NEW Q, \A i \in S : Q[i] = R[i],
           NEW n \in Nat, \A i \in S : i < n, StaticTable(f, S, R),
           NEW c, c = Canonical(Q[n].segments)
    PROVE  StaticTable(Insert(f, c, n), S \cup {n}, Q)
<1> DEFINE g == Insert(f, c, n)
<1>1. DOMAIN g = DOMAIN f \cup {c} /\ \A p \in DOMAIN g : g[p] = IF p = c THEN n ELSE f[p]
  BY DEF Insert
<1> HIDE DEF g
<1>2. ASSUME NEW i \in S \cup {n}
      PROVE  Canonical(Q[i].segments) \in DOMAIN g /\ i <= g[Canonical(Q[i].segments)]
  <2> DEFINE p == Canonical(Q[i].segments)
  <2>1. CASE i = n
    <3>1. p = c
      BY <2>1
    <3> HIDE DEF p
    <3>2. p \in DOMAIN g /\ g[p] = n /\ i <= n
      BY <1>1, <2>1, <3>1
    <3> QED
      BY <3>2 DEF p
  <2>2. CASE i # n
    <3>0. i \in S /\ i \in Nat /\ n \in Nat
      BY <2>2
    <3>1. i < n /\ Q[i] = R[i]
      BY <3>0
    <3> HIDE DEF p
    <3>2. p \in DOMAIN f /\ i <= f[p]
      BY <3>0, <3>1 DEF StaticTable, p
    <3>3. p \in DOMAIN g /\ i <= g[p]
      BY <1>1, <3>0, <3>1, <3>2
    <3> QED
      BY <3>3 DEF p
  <2> QED
    BY <2>1, <2>2
<1>3. ASSUME NEW p \in DOMAIN g
      PROVE  g[p] \in S \cup {n} /\ Canonical(Q[g[p]].segments) = p
  BY <1>1 DEF StaticTable
<1> QED
  BY <1>2, <1>3 DEF StaticTable, g

\* One more route at the end of a bucket.
LEMMA BucketAdded ==
    ASSUME NEW B, NEW S, NEW R, NEW Q, \A i \in S : Q[i] = R[i], Holds(B, S, R),
           NEW n \in Nat, NEW r \in RouteSet, r.fn = n, Q[n] = r
    PROVE  /\ Holds(Append(B, r), S \cup {n}, Q)
           /\ S \in SUBSET Nat /\ (\A i \in S : i < n) /\ InOrder(B) => InOrder(Append(B, r))
<1> DEFINE C == Append(B, r)
<1>1. B \in Seq(RouteSet) /\ Len(B) \in Nat
  BY DEF Holds
<1>2. /\ C \in Seq(RouteSet) /\ Len(C) = Len(B) + 1
      /\ \A k \in 1 .. Len(B) : C[k] = B[k]
      /\ C[Len(B) + 1] = r
  BY <1>1, AppendProperties
<1> HIDE DEF C
<1>3. \A k \in 1 .. Len(C) : k \in 1 .. Len(B) \/ k = Len(B) + 1
  BY <1>1, <1>2
<1>4. 1 .. Len(B) \subseteq 1 .. Len(C) /\ Len(B) + 1 \in 1 .. Len(C)
  BY <1>1, <1>2
<1>5. ASSUME NEW k \in 1 .. Len(C) PROVE C[k].fn \in S \cup {n} /\ C[k] = Q[C[k].fn]
  <2>1. CASE k \in 1 .. Len(B)
    <3>1. B[k].fn \in S /\ B[k] = R[B[k].fn] /\ C[k] = B[k]
      BY <1>2, <2>1 DEF Holds
    <3> QED
      BY <3>1
  <2>2. CASE k = Len(B) + 1
    BY <1>2, <2>2
  <2> QED
    BY <1>3, <2>1, <2>2
<1>6. \A i \in S \cup {n} : \E k \in 1 .. Len(C) : C[k].fn = i
  BY <1>2, <1>4 DEF Holds
<1>7. ASSUME S \in SUBSET Nat, \A i \in S : i < n, InOrder(B) PROVE InOrder(C)
  <2>1. ASSUME NEW j \in 1 .. Len(C), NEW k \in 1 .. Len(C), j < k PROVE C[j].fn < C[k].fn
    <3>1. j \in 1 .. Len(B)
      BY <1>1, <1>2, <2>1
    <3>2. C[j].fn \in S
      BY <1>2, <3>1 DEF Holds
    <3>3. CASE k \in 1 .. Len(B)
      BY <1>2, <1>7, <2>1, <3>1, <3>3 DEF InOrder
    <3>4. CASE k = Len(B) + 1
      BY <1>2, <1>7, <3>2, <3>4
    <3> QED
      BY <1>3, <3>3, <3>4
  <2> QED
    BY <2>1 DEF InOrder
<1>8. Holds(C, S \cup {n}, Q)
  BY <1>2, <1>5, <1>6 DEF Holds
<1> QED
  BY <1>7, <1>8 DEF C

LEMMA DynamicAdded ==
    ASSUME NEW f, NEW S \in SUBSET Nat, NEW R, NEW Q, \A i \in S : Q[i] = R[i],
           NEW n \in Nat, \A i \in S : i < n, DynamicTable(f, S, R),
           NEW r \in RouteSet, r.fn = n, Q[n] = r, NEW len \in Nat, len = Len(r.segments)
    PROVE  DynamicTable(Insert(f, len, Append(Lookup(f, len, <<>>), r)), S \cup {n}, Q)
<1> DEFINE g == Insert(f, len, Append(Lookup(f, len, <<>>), r))
<1>1. /\ Lookup(g, len, <<>>) = Append(Lookup(f, len, <<>>), r)
      /\ \A k \in Nat \ {len} : Lookup(g, k, <<>>) = Lookup(f, k, <<>>)
  BY DEF Lookup, Insert
<1>2. \A k \in Nat :
         /\ OfLength(S \cup {n}, Q, k) = OfLength(S, R, k) \cup (IF k = len THEN {n} ELSE {})
         /\ OfLength(S, R, k) \in SUBSET S
  BY DEF OfLength
<1>3. \A k \in Nat : /\ Holds(Lookup(f, k, <<>>), OfLength(S, R, k), R)
                     /\ InOrder(Lookup(f, k, <<>>))
  BY DEF DynamicTable
<1> HIDE DEF g
<1>4. ASSUME NEW k \in Nat
      PROVE  Holds(Lookup(g, k, <<>>), OfLength(S \cup {n}, Q, k), Q) /\ InOrder(Lookup(g, k, <<>>))
  <2> DEFINE T == OfLength(S, R, k)
             B == Lookup(f, k, <<>>)
  <2>1. T \in SUBSET S /\ Holds(B, T, R) /\ InOrder(B)
    BY <1>2, <1>3
  <2>2. OfLength(S \cup {n}, Q, k) = T \cup (IF k = len THEN {n} ELSE {})
    BY <1>2
  <2>3. Lookup(g, k, <<>>) = IF k = len THEN Append(B, r) ELSE B
    BY <1>1
  <2> HIDE DEF T, B
  <2>4. (\A i \in T : Q[i] = R[i]) /\ (\A i \in T : i < n) /\ T \in SUBSET Nat
    BY <2>1
  <2>5. Holds(Append(B, r), T \cup {n}, Q)
    BY <2>1, <2>4, BucketAdded
  <2>6. InOrder(Append(B, r))
    BY <2>1, <2>4, BucketAdded
  <2>7. Holds(B, T, Q)
    BY <2>1, <2>4, TablesKept
  <2> QED
    BY <2>1, <2>2, <2>3, <2>5, <2>6, <2>7
<1>5. DynamicTable(g, S \cup {n}, Q)
  BY <1>4 DEF DynamicTable
<1> QED
  BY <1>5 DEF g

LEMMA CatchAllAdded ==
    ASSUME NEW B, NEW S, NEW R, NEW Q, \A i \in S : Q[i] = R[i], CatchAllTable(B, S, R),
           NEW n \in Nat, NEW r \in RouteSet, r.fn = n, Q[n] = r,
           NEW t \in Sortings(Append(B, r))
    PROVE  CatchAllTable(t, S \cup {n}, Q)
<1> DEFINE C == Append(B, r)
<1>1. Holds(C, S \cup {n}, Q)
  BY BucketAdded DEF CatchAllTable
<1> HIDE DEF C
<1>2. C \in Seq(RouteSet) /\ DOMAIN C = 1 .. Len(C) /\ Len(C) \in Nat
  BY <1>1 DEF Holds
<1>3. /\ t \in [1 .. Len(C) -> {C[i] : i \in DOMAIN C}]
      /\ \A i \in DOMAIN C : \E j \in DOMAIN t : t[j] = C[i]
      /\ \A i, j \in DOMAIN t : i < j => ~Before(t[j], t[i])
  BY DEF Sortings, C
<1>4. t \in [1 .. Len(C) -> RouteSet]
  <2>1. \A i \in DOMAIN C : C[i] \in RouteSet
    BY <1>2, ElementOfSeq
  <2> QED
    BY <1>3, <2>1
<1>5. t \in Seq(RouteSet) /\ Len(t) = Len(C) /\ DOMAIN t = 1 .. Len(t)
  BY <1>2, <1>4
<1>6. \A k \in 1 .. Len(t) : \E i \in 1 .. Len(C) : t[k] = C[i]
  BY <1>2, <1>3, <1>5
<1>7. Holds(t, S \cup {n}, Q)
  <2>1. \A k \in 1 .. Len(t) : t[k].fn \in S \cup {n} /\ t[k] = Q[t[k].fn]
    BY <1>1, <1>6 DEF Holds
  <2>2. \A i \in S \cup {n} : \E k \in 1 .. Len(t) : t[k].fn = i
    <3>1. ASSUME NEW i \in S \cup {n} PROVE \E k \in 1 .. Len(t) : t[k].fn = i
      <4>1. PICK k \in 1 .. Len(C) : C[k].fn = i
        BY <1>1 DEF Holds
      <4>2. PICK j \in DOMAIN t : t[j] = C[k]
        BY <1>2, <1>3
      <4> QED
        BY <1>5, <4>1, <4>2
    <3> QED
      BY <3>1
  <2> QED
    BY <1>5, <2>1, <2>2 DEF Holds
<1> QED
  BY <1>3, <1>5, <1>7 DEF CatchAllTable, Sorted

-----------------------------------------------------------------------------
(* The tables after a call of add().                                       *)

\* The three kinds of route exclude each other, and a catch-all in the middle
\* is of none of them.
LEMMA KindsApart ==
    ASSUME NEW segs
    PROVE  /\ Literals(segs) => ~Captured(segs) /\ ~Trailing(segs)
           /\ Captured(segs) => ~Literals(segs) /\ ~Trailing(segs)
           /\ Trailing(segs) => ~Literals(segs) /\ ~Captured(segs)
           /\ ~CatchAllIsLast(segs) => ~Literals(segs) /\ ~Captured(segs) /\ ~Trailing(segs)
<1>1. ~CatchAllIsLast(segs) => "CatchAll" \in Kinds(segs)
  BY DEF CatchAllIsLast, Kinds
<1> QED
  BY <1>1 DEF Literals, Captured, Trailing

\* A table of a class that does not grow still tells the truth.
LEMMA OthersKept ==
    ASSUME Tables, NEW mm \in AnyMethod, NEW pattern \in Patterns, Registers(mm, pattern),
           NEW segs, segs = parse_pattern(pattern), NEW m \in AnyMethod
    PROVE  /\ ~(m = mm /\ Literals(segs)) => StaticTable(static_routes[m], StaticOf(m)', Routes')
           /\ ~(m = mm /\ Captured(segs)) => DynamicTable(dynamic_routes[m], DynamicOf(m)', Routes')
           /\ ~(m = mm /\ Trailing(segs)) => CatchAllTable(catchall_routes[m], CatchAllOf(m)', Routes')
<1> DEFINE n == Len(regs) + 1
<1>1. \A i \in DOMAIN regs : Routes'[i] = Routes[i]
  BY Appended DEF Tables
<1>2. /\ StaticOf(m) \subseteq DOMAIN regs /\ DynamicOf(m) \subseteq DOMAIN regs
      /\ CatchAllOf(m) \subseteq DOMAIN regs
  BY DEF StaticOf, DynamicOf, CatchAllOf, Of
<1>3. /\ ~(m = mm /\ Literals(segs)) => StaticOf(m)' = StaticOf(m)
      /\ ~(m = mm /\ Captured(segs)) => DynamicOf(m)' = DynamicOf(m)
      /\ ~(m = mm /\ Trailing(segs)) => CatchAllOf(m)' = CatchAllOf(m)
  <2>1. /\ StaticOf(m)' = StaticOf(m) \cup (IF m = mm /\ Literals(segs) THEN {n} ELSE {})
        /\ DynamicOf(m)' = DynamicOf(m) \cup (IF m = mm /\ Captured(segs) THEN {n} ELSE {})
        /\ CatchAllOf(m)' = CatchAllOf(m) \cup (IF m = mm /\ Trailing(segs) THEN {n} ELSE {})
    BY ClassesAfter DEF Tables
  <2> QED
    BY <2>1
<1>4. /\ StaticTable(static_routes[m], StaticOf(m), Routes)
      /\ DynamicTable(dynamic_routes[m], DynamicOf(m), Routes)
      /\ CatchAllTable(catchall_routes[m], CatchAllOf(m), Routes)
  BY DEF Tables
<1>5. /\ StaticTable(static_routes[m], StaticOf(m), Routes')
      /\ DynamicTable(dynamic_routes[m], DynamicOf(m), Routes')
      /\ CatchAllTable(catchall_routes[m], CatchAllOf(m), Routes')
  <2>1. StaticTable(static_routes[m], StaticOf(m), Routes')
    <3>1. \A i \in StaticOf(m) : Routes'[i] = Routes[i]
      BY <1>1, <1>2
    <3> QED
      BY <1>4, <3>1, TablesKept
  <2>2. DynamicTable(dynamic_routes[m], DynamicOf(m), Routes')
    <3>1. \A i \in DynamicOf(m) : Routes'[i] = Routes[i]
      BY <1>1, <1>2
    <3> QED
      BY <1>4, <3>1, TablesKept
  <2>3. CatchAllTable(catchall_routes[m], CatchAllOf(m), Routes')
    <3>1. \A i \in CatchAllOf(m) : Routes'[i] = Routes[i]
      BY <1>1, <1>2
    <3> QED
      BY <1>4, <3>1, TablesKept
  <2> QED
    BY <2>1, <2>2, <2>3
<1> QED
  BY <1>3, <1>5

\* The table of the class that grows: with the new route in it, it is that of
\* the class afterwards.
LEMMA OneAdded ==
    ASSUME Tables, NEW m \in AnyMethod, NEW pattern \in Patterns, Registers(m, pattern),
           NEW segs, segs = parse_pattern(pattern)
    PROVE  /\ Literals(segs) =>
                 StaticTable(Insert(static_routes[m], Canonical(segs), Len(regs) + 1),
                             StaticOf(m)', Routes')
           /\ Captured(segs) =>
                 DynamicTable(Insert(dynamic_routes[m], Len(segs),
                                     Append(Lookup(dynamic_routes[m], Len(segs), <<>>),
                                            NewRoute(segs))),
                              DynamicOf(m)', Routes')
           /\ Trailing(segs) =>
                 \A t \in Sortings(Append(catchall_routes[m], NewRoute(segs))) :
                     CatchAllTable(t, CatchAllOf(m)', Routes')
<1> DEFINE n == Len(regs) + 1
           r == NewRoute(segs)
           Q == Routes'
<1>1. /\ n \in Nat /\ segs \in Seq(SegmentSet) /\ DOMAIN regs \subseteq Nat
      /\ \A i \in DOMAIN regs : i < n /\ Q[i] = Routes[i]
      /\ Q[n] = [segments |-> segs, fn |-> n]
  <2>1. Registered
    BY DEF Tables
  <2>2. n = Len(regs) + 1 /\ Q = Routes'
    OBVIOUS
  <2> HIDE DEF n, Q
  <2>3. n \in Nat /\ \A i \in DOMAIN regs : i \in Nat /\ i < n
    BY <2>1, <2>2, Appended
  <2>4. \A i \in DOMAIN regs : Q[i] = Routes[i]
    BY <2>1, <2>2, Appended
  <2>5. Q[n] = [segments |-> segs, fn |-> n] /\ segs \in Seq(SegmentSet)
    BY <2>1, <2>2, Appended
  <2> QED
    BY <2>3, <2>4, <2>5
<1>2. r \in RouteSet /\ r.fn = n /\ r.segments = segs /\ Q[n] = r /\ Len(segs) \in Nat
  BY <1>1 DEF NewRoute, RouteSet
<1>3. /\ StaticOf(m) \subseteq DOMAIN regs /\ DynamicOf(m) \subseteq DOMAIN regs
      /\ CatchAllOf(m) \subseteq DOMAIN regs
  BY DEF StaticOf, DynamicOf, CatchAllOf, Of
<1>4. /\ Literals(segs) => StaticOf(m)' = StaticOf(m) \cup {n}
      /\ Captured(segs) => DynamicOf(m)' = DynamicOf(m) \cup {n}
      /\ Trailing(segs) => CatchAllOf(m)' = CatchAllOf(m) \cup {n}
  <2>1. /\ StaticOf(m)' = StaticOf(m) \cup (IF m = m /\ Literals(segs) THEN {n} ELSE {})
        /\ DynamicOf(m)' = DynamicOf(m) \cup (IF m = m /\ Captured(segs) THEN {n} ELSE {})
        /\ CatchAllOf(m)' = CatchAllOf(m) \cup (IF m = m /\ Trailing(segs) THEN {n} ELSE {})
    BY ClassesAfter DEF Tables
  <2> QED
    BY <2>1
<1> HIDE DEF n, r, Q
<1>5. StaticTable(Insert(static_routes[m], Canonical(segs), n), StaticOf(m) \cup {n}, Q)
  <2> DEFINE S == StaticOf(m)
             f == static_routes[m]
             c == Canonical(segs)
  <2>1. StaticTable(f, S, Routes) /\ S \in SUBSET Nat
    BY <1>1, <1>3 DEF Tables
  <2>2. (\A i \in S : Q[i] = Routes[i]) /\ (\A i \in S : i < n) /\ c = Canonical(Q[n].segments)
    BY <1>1, <1>2, <1>3
  <2> HIDE DEF S, f, c
  <2> QED
    BY <1>1, <2>1, <2>2, StaticAdded DEF S, f, c
<1>6. DynamicTable(Insert(dynamic_routes[m], Len(segs),
                          Append(Lookup(dynamic_routes[m], Len(segs), <<>>), r)),
                   DynamicOf(m) \cup {n}, Q)
  <2> DEFINE S == DynamicOf(m)
             f == dynamic_routes[m]
             len == Len(segs)
  <2>1. DynamicTable(f, S, Routes) /\ S \in SUBSET Nat
    BY <1>1, <1>3 DEF Tables
  <2>2. (\A i \in S : Q[i] = Routes[i]) /\ (\A i \in S : i < n) /\ len = Len(r.segments) /\ len \in Nat
    BY <1>1, <1>2, <1>3
  <2> HIDE DEF S, f, len
  <2>3. DynamicTable(Insert(f, len, Append(Lookup(f, len, <<>>), r)), S \cup {n}, Q)
    BY <1>1, <1>2, <2>1, <2>2, DynamicAdded
  <2> QED
    BY <2>3 DEF S, f, len
<1>7. ASSUME NEW t \in Sortings(Append(catchall_routes[m], r))
      PROVE  CatchAllTable(t, CatchAllOf(m) \cup {n}, Q)
  <2> DEFINE S == CatchAllOf(m)
             B == catchall_routes[m]
  <2>1. CatchAllTable(B, S, Routes)
    BY DEF Tables
  <2>2. (\A i \in S : Q[i] = Routes[i]) /\ t \in Sortings(Append(B, r))
    BY <1>1, <1>3, <1>7
  <2> HIDE DEF S, B
  <2>3. CatchAllTable(t, S \cup {n}, Q)
    BY <1>1, <1>2, <2>1, <2>2, CatchAllAdded
  <2> QED
    BY <2>3 DEF S
<1> QED
  BY <1>4, <1>5, <1>6, <1>7 DEF n, r, Q

LEMMA TablesAdd ==
    ASSUME Tables, NEW m \in AnyMethod, NEW pattern \in Patterns, Add(m, pattern)
    PROVE  Tables'
<1> DEFINE segs == parse_pattern(pattern)
           n    == Len(regs) + 1
<1>1. Registers(m, pattern)
  BY DEF Add, add_misplaced, add_static, add_dynamic, add_catchall
<1>2. Registered'
  BY <1>1, Appended DEF Tables
<1>3. \A k \in AnyMethod :
         /\ ~(k = m /\ Literals(segs)) => StaticTable(static_routes[k], StaticOf(k)', Routes')
         /\ ~(k = m /\ Captured(segs)) => DynamicTable(dynamic_routes[k], DynamicOf(k)', Routes')
         /\ ~(k = m /\ Trailing(segs)) => CatchAllTable(catchall_routes[k], CatchAllOf(k)', Routes')
  BY <1>1, OthersKept
<1>4. /\ Literals(segs) => StaticTable(Insert(static_routes[m], Canonical(segs), n), StaticOf(m)', Routes')
      /\ Captured(segs) => DynamicTable(Insert(dynamic_routes[m], Len(segs),
                                     Append(Lookup(dynamic_routes[m], Len(segs), <<>>),
                                            NewRoute(segs))), DynamicOf(m)', Routes')
      /\ Trailing(segs) => \A t \in Sortings(Append(catchall_routes[m], NewRoute(segs))) :
                               CatchAllTable(t, CatchAllOf(m)', Routes')
  BY <1>1, OneAdded
<1>5. /\ Literals(segs) => ~Captured(segs) /\ ~Trailing(segs)
      /\ Captured(segs) => ~Literals(segs) /\ ~Trailing(segs)
      /\ Trailing(segs) => ~Literals(segs) /\ ~Captured(segs)
      /\ ~CatchAllIsLast(segs) => ~Literals(segs) /\ ~Captured(segs) /\ ~Trailing(segs)
  BY KindsApart
<1>6. /\ DOMAIN static_routes = AnyMethod /\ DOMAIN dynamic_routes = AnyMethod
      /\ DOMAIN catchall_routes = AnyMethod
  BY DEF Tables
<1> SUFFICES /\ DOMAIN static_routes' = AnyMethod /\ DOMAIN dynamic_routes' = AnyMethod
             /\ DOMAIN catchall_routes' = AnyMethod
             /\ \A k \in AnyMethod :
                   /\ StaticTable(static_routes'[k], StaticOf(k)', Routes')
                   /\ DynamicTable(dynamic_routes'[k], DynamicOf(k)', Routes')
                   /\ CatchAllTable(catchall_routes'[k], CatchAllOf(k)', Routes')
  BY <1>2 DEF Tables
<1>7. CASE add_misplaced(m, pattern)
  <2>1. UNCHANGED <<static_routes, dynamic_routes, catchall_routes>> /\ ~CatchAllIsLast(segs)
    BY <1>7 DEF add_misplaced, tables
  <2> HIDE DEF segs
  <2> QED
    BY <1>3, <1>5, <1>6, <2>1
<1>8. CASE add_static(m, pattern)
  <2>1. /\ Literals(segs) /\ UNCHANGED <<dynamic_routes, catchall_routes>>
        /\ static_routes' = [static_routes EXCEPT ![m] = Insert(@, Canonical(segs), n)]
    BY <1>8 DEF add_static, Literals
  <2> DEFINE new == Insert(static_routes[m], Canonical(segs), n)
  <2>2. \A k \in AnyMethod : static_routes'[k] = IF k = m THEN new ELSE static_routes[k]
    BY <1>6, <2>1
  <2>3. StaticTable(new, StaticOf(m)', Routes') /\ DOMAIN static_routes' = AnyMethod
    BY <1>4, <1>6, <2>1
  <2> HIDE DEF segs, n, new
  <2>4. ASSUME NEW k \in AnyMethod PROVE StaticTable(static_routes'[k], StaticOf(k)', Routes')
    BY <1>3, <2>2, <2>3
  <2> QED
    BY <1>3, <1>5, <1>6, <2>1, <2>3, <2>4
<1>9. CASE add_dynamic(m, pattern)
  <2> DEFINE new == Insert(dynamic_routes[m], Len(segs),
                           Append(Lookup(dynamic_routes[m], Len(segs), <<>>), NewRoute(segs)))
  <2>1. /\ Captured(segs) /\ UNCHANGED <<static_routes, catchall_routes>>
        /\ dynamic_routes' = [dynamic_routes EXCEPT ![m] = new]
    BY <1>9 DEF add_dynamic, Captured
  <2>2. \A k \in AnyMethod : dynamic_routes'[k] = IF k = m THEN new ELSE dynamic_routes[k]
    BY <1>6, <2>1
  <2>3. DynamicTable(new, DynamicOf(m)', Routes') /\ DOMAIN dynamic_routes' = AnyMethod
    BY <1>4, <1>6, <2>1
  <2> HIDE DEF segs, n, new
  <2>4. ASSUME NEW k \in AnyMethod PROVE DynamicTable(dynamic_routes'[k], DynamicOf(k)', Routes')
    BY <1>3, <2>2, <2>3
  <2> QED
    BY <1>3, <1>5, <1>6, <2>1, <2>3, <2>4
<1>10. CASE add_catchall(m, pattern)
  <2>1. /\ Trailing(segs) /\ UNCHANGED <<static_routes, dynamic_routes>>
        /\ \E t \in Sortings(Append(catchall_routes[m], NewRoute(segs))) :
              catchall_routes' = [catchall_routes EXCEPT ![m] = t]
    BY <1>10 DEF add_catchall, Trailing
  <2>2. PICK new \in Sortings(Append(catchall_routes[m], NewRoute(segs))) :
           catchall_routes' = [catchall_routes EXCEPT ![m] = new]
    BY <2>1
  <2>3. \A k \in AnyMethod : catchall_routes'[k] = IF k = m THEN new ELSE catchall_routes[k]
    BY <1>6, <2>2
  <2>4. CatchAllTable(new, CatchAllOf(m)', Routes') /\ DOMAIN catchall_routes' = AnyMethod
    BY <1>4, <1>6, <2>1, <2>2
  <2> HIDE DEF segs, n
  <2>5. ASSUME NEW k \in AnyMethod PROVE CatchAllTable(catchall_routes'[k], CatchAllOf(k)', Routes')
    BY <1>3, <2>3, <2>4
  <2> QED
    BY <1>3, <1>5, <1>6, <2>1, <2>4, <2>5
<1> QED
  BY <1>7, <1>8, <1>9, <1>10 DEF Add

LEMMA TablesInit == RouterInit => Tables
<1> SUFFICES ASSUME RouterInit PROVE Tables
  OBVIOUS
<1>1. regs = <<>> /\ Registered
  BY DEF RouterInit, Registered
<1>2. ASSUME NEW m \in AnyMethod
      PROVE  /\ StaticTable(<<>>, StaticOf(m), Routes)
             /\ DynamicTable(<<>>, DynamicOf(m), Routes)
             /\ CatchAllTable(<<>>, CatchAllOf(m), Routes)
  <2>1. StaticOf(m) = {} /\ DynamicOf(m) = {} /\ CatchAllOf(m) = {}
    BY <1>1 DEF StaticOf, DynamicOf, CatchAllOf, Of
  <2>2. \A R : Holds(<<>>, {}, R) /\ InOrder(<<>>) /\ Sorted(<<>>)
    BY DEF Holds, InOrder, Sorted
  <2>3. \A R, k : OfLength({}, R, k) = {} /\ Lookup(<<>>, k, <<>>) = <<>>
    BY DEF OfLength, Lookup
  <2>4. \A R : StaticTable(<<>>, {}, R)
    BY DEF StaticTable
  <2> QED
    BY <2>1, <2>2, <2>3, <2>4 DEF DynamicTable, CatchAllTable
<1> QED
  BY <1>1, <1>2 DEF RouterInit, Tables

LEMMA TablesStep == Tables /\ [RouterNext]_routerVars => Tables'
<1> SUFFICES ASSUME Tables, [RouterNext]_routerVars PROVE Tables'
  OBVIOUS
<1>1. CASE \E m \in AnyMethod, pattern \in Patterns : Add(m, pattern)
  BY <1>1, TablesAdd
<1>2. CASE UNCHANGED <<regs, tables>>
  <2>1. UNCHANGED <<regs, static_routes, dynamic_routes, catchall_routes>>
    BY <1>2 DEF tables
  <2> QED
    BY <2>1 DEF Tables, Registered, Routes, Segs, StaticOf, DynamicOf, CatchAllOf, Of
<1>3. CASE set_not_found_handler
  BY <1>2, <1>3 DEF set_not_found_handler
<1>4. CASE set_method_not_allowed_handler
  BY <1>2, <1>4 DEF set_method_not_allowed_handler
<1>5. CASE \E m \in AnyMethod, path \in Paths : handle(m, path)
  BY <1>2, <1>5 DEF handle
<1>6. CASE UNCHANGED routerVars
  BY <1>2, <1>6 DEF routerVars
<1> QED
  BY <1>1, <1>3, <1>4, <1>5, <1>6 DEF RouterNext

\* Every table holds the routes that were registered for it and no others.
THEOREM TablesInvariant == RouterSpec => []Tables
<1> QED
  BY TablesInit, TablesStep, PTL DEF RouterSpec

-----------------------------------------------------------------------------
(* handle(): the three tables against the candidates.                      *)

StaticC(m, path)   == {i \in StaticOf(m) : path = Canonical(Segs(i))}
DynamicC(m, segs)  == {i \in DynamicOf(m) : Matches([segments |-> Segs(i)], segs)}
CatchAllC(m, segs) == {i \in CatchAllOf(m) : Matches([segments |-> Segs(i)], segs)}

\* Matching looks at the segments of a route only.
LEMMA MatchesSegments ==
    ASSUME NEW r, NEW q, r.segments = q.segments, NEW segs
    PROVE  Matches(r, segs) <=> Matches(q, segs)
BY DEF Matches

LEMMA KindsCover ==
    ASSUME NEW segs \in Seq(SegmentSet)
    PROVE  CatchAllIsLast(segs) <=> Literals(segs) \/ Captured(segs) \/ Trailing(segs)
<1>1. Kinds(segs) \subseteq {"Literal", "Param", "CatchAll"}
  <2>1. ASSUME NEW k \in DOMAIN segs PROVE segs[k].kind \in {"Literal", "Param", "CatchAll"}
    <3>1. segs[k] \in SegmentSet
      BY ElementOfSeq
    <3> QED
      BY <3>1 DEF SegmentSet
  <2> QED
    BY <2>1 DEF Kinds
<1>2. ~CatchAllIsLast(segs) => ~Literals(segs) /\ ~Captured(segs) /\ ~Trailing(segs)
  BY KindsApart
<1> QED
  BY <1>1, <1>2 DEF Literals, Captured, Trailing

LEMMA CandidatesByKind ==
    ASSUME Registered, NEW m, NEW path, NEW segs, segs = split_path(path)
    PROVE  /\ OfKind(Candidates(m, path), "static") = StaticC(m, path)
           /\ OfKind(Candidates(m, path), "dynamic") = DynamicC(m, segs)
           /\ OfKind(Candidates(m, path), "catchall") = CatchAllC(m, segs)
           /\ Candidates(m, path) = StaticC(m, path) \cup DynamicC(m, segs) \cup CatchAllC(m, segs)
<1> DEFINE C == Candidates(m, path)
<1>1. \A i : i \in C <=> /\ i \in Of(m) /\ CatchAllIsLast(Segs(i))
                         /\ IF Literals(Segs(i)) THEN path = Canonical(Segs(i))
                            ELSE Matches([segments |-> Segs(i)], segs)
  BY DEF Candidates, Serves, Of, Literals
<1>2. \A i \in Of(m) :
         CatchAllIsLast(Segs(i)) <=> Literals(Segs(i)) \/ Captured(Segs(i)) \/ Trailing(Segs(i))
  BY SegsTyped, KindsCover DEF Of
<1>3. \A i : /\ Literals(Segs(i)) => ~Captured(Segs(i)) /\ ~Trailing(Segs(i))
             /\ Captured(Segs(i)) => ~Literals(Segs(i)) /\ ~Trailing(Segs(i))
             /\ Trailing(Segs(i)) => ~Literals(Segs(i)) /\ ~Captured(Segs(i))
  BY KindsApart
<1>4. /\ \A i : i \in OfKind(C, "static") <=> i \in C /\ Literals(Segs(i))
      /\ \A i : i \in OfKind(C, "dynamic") <=> i \in C /\ Captured(Segs(i))
      /\ \A i : i \in OfKind(C, "catchall") <=> i \in C /\ "CatchAll" \in Kinds(Segs(i))
  BY DEF OfKind, Literals, Captured
<1>5. \A i : i \in OfKind(C, "catchall") <=> i \in C /\ Trailing(Segs(i))
  BY <1>1, <1>4 DEF Trailing
<1>6. /\ \A i : i \in StaticC(m, path) <=> i \in Of(m) /\ Literals(Segs(i)) /\ path = Canonical(Segs(i))
      /\ \A i : i \in DynamicC(m, segs) <=> /\ i \in Of(m) /\ Captured(Segs(i))
                                            /\ Matches([segments |-> Segs(i)], segs)
      /\ \A i : i \in CatchAllC(m, segs) <=> /\ i \in Of(m) /\ Trailing(Segs(i))
                                             /\ Matches([segments |-> Segs(i)], segs)
  BY DEF StaticC, DynamicC, CatchAllC, StaticOf, DynamicOf, CatchAllOf
<1> HIDE DEF C
<1>7. OfKind(C, "static") = StaticC(m, path)
  BY <1>1, <1>2, <1>4, <1>6
<1>8. OfKind(C, "dynamic") = DynamicC(m, segs)
  BY <1>1, <1>2, <1>3, <1>4, <1>6
<1>9. OfKind(C, "catchall") = CatchAllC(m, segs)
  BY <1>1, <1>2, <1>3, <1>5, <1>6
<1>10. C = StaticC(m, path) \cup DynamicC(m, segs) \cup CatchAllC(m, segs)
  BY <1>1, <1>2, <1>3, <1>6
<1> QED
  BY <1>7, <1>8, <1>9, <1>10 DEF C

\* The latest of the static routes for a path is the one in the table.
LEMMA StaticFound ==
    ASSUME Tables, NEW m \in AnyMethod, NEW path
    PROVE  /\ Static(m, path) <=> StaticC(m, path) # {}
           /\ Static(m, path) => /\ static_routes[m][path] \in StaticC(m, path)
                                 /\ \A j \in StaticC(m, path) : j <= static_routes[m][path]
<1> DEFINE f == static_routes[m]
           S == StaticOf(m)
<1>1. StaticTable(f, S, Routes) /\ S \subseteq DOMAIN regs
  BY DEF Tables, StaticOf, Of
<1>2. \A i \in S : Routes[i].segments = Segs(i)
  <2>1. ASSUME NEW i \in S PROVE Routes[i].segments = Segs(i)
    <3>1. i \in DOMAIN regs
      BY <1>1
    <3>2. Routes[i] = [segments |-> Segs(i), fn |-> i]
      BY <3>1 DEF Routes
    <3> QED
      BY <3>2
  <2> QED
    BY <2>1
<1>3. StaticC(m, path) = {i \in S : path = Canonical(Segs(i))}
  BY DEF StaticC
<1> HIDE DEF f, S
<1>4. /\ \A i \in S : Canonical(Segs(i)) \in DOMAIN f /\ i <= f[Canonical(Segs(i))]
      /\ \A p \in DOMAIN f : f[p] \in S /\ Canonical(Segs(f[p])) = p
  BY <1>1, <1>2 DEF StaticTable
<1> QED
  BY <1>3, <1>4 DEF Static, f

\* The first route of a bucket that matches.
First(B, segs) == CHOOSE i \in Matching(B, segs) : \A j \in Matching(B, segs) : i <= j

LEMMA FirstFound ==
    ASSUME NEW B, NEW S, NEW R, Holds(B, S, R), NEW segs, Matching(B, segs) # {},
           NEW i, i = First(B, segs)
    PROVE  /\ i \in 1 .. Len(B) /\ Matches(B[i], segs) /\ B[i].fn \in S /\ B[i] = R[B[i].fn]
           /\ \A k \in 1 .. Len(B) : Matches(B[k], segs) => i <= k
           /\ B[i] \in RouteSet
<1> DEFINE T == Matching(B, segs)
<1>1. B \in Seq(RouteSet) /\ DOMAIN B = 1 .. Len(B) /\ Len(B) \in Nat
  BY DEF Holds
<1>2. T \in SUBSET Nat /\ T # {} /\ \A k : k \in T <=> k \in 1 .. Len(B) /\ Matches(B[k], segs)
  BY <1>1 DEF Matching
<1>3. i = CHOOSE x \in T : \A y \in T : x <= y
  BY DEF First
<1> HIDE DEF T
<1>4. \E x \in T : \A y \in T : x <= y
  BY <1>2, LeastIndex
<1>5. i \in T /\ \A y \in T : i <= y
  BY <1>3, <1>4
<1>6. i \in 1 .. Len(B) /\ Matches(B[i], segs) /\ \A k \in 1 .. Len(B) : Matches(B[k], segs) => i <= k
  BY <1>2, <1>5
<1>7. B[i] \in RouteSet
  BY <1>1, <1>6, ElementOfSeq
<1> QED
  BY <1>6, <1>7 DEF Holds

\* A bucket that holds the routes of S has a match if one of S does.
LEMMA MatchHeld ==
    ASSUME Registered, NEW B, NEW S \in SUBSET DOMAIN regs, Holds(B, S, Routes), NEW segs
    PROVE  /\ Matching(B, segs) # {} <=> \E i \in S : Matches([segments |-> Segs(i)], segs)
           /\ \A k \in 1 .. Len(B) : /\ B[k].segments = Segs(B[k].fn) /\ B[k].fn \in S
                                     /\ Matches(B[k], segs) <=> Matches([segments |-> Segs(B[k].fn)], segs)
<1>1. B \in Seq(RouteSet) /\ DOMAIN B = 1 .. Len(B)
  BY DEF Holds
<1>2. ASSUME NEW k \in 1 .. Len(B)
      PROVE  /\ B[k].segments = Segs(B[k].fn) /\ B[k].fn \in S
             /\ Matches(B[k], segs) <=> Matches([segments |-> Segs(B[k].fn)], segs)
  <2>1. B[k].fn \in S /\ B[k] = Routes[B[k].fn]
    BY DEF Holds
  <2> DEFINE i == B[k].fn
  <2>2. Routes[i] = [segments |-> Segs(i), fn |-> i]
    BY <2>1, SegsTyped
  <2> HIDE DEF i
  <2>3. Routes[i].segments = Segs(i)
    BY <2>2
  <2>4. B[k].segments = Segs(i)
    BY <2>1, <2>3 DEF i
  <2>5. Matches(B[k], segs) <=> Matches([segments |-> Segs(i)], segs)
    BY <2>4, MatchesSegments
  <2> QED
    BY <2>1, <2>4, <2>5 DEF i
<1>3. \A i \in S : \E k \in 1 .. Len(B) : B[k].fn = i
  BY DEF Holds
<1> QED
  BY <1>1, <1>2, <1>3 DEF Matching

\* The first match of a bucket of dynamic routes is the first registration
\* that matches; only routes with as many segments as the path do.
LEMMA DynamicFound ==
    ASSUME Tables, NEW m \in AnyMethod, NEW segs, Len(segs) \in Nat,
           NEW B, B = Bucket(m, segs)
    PROVE  /\ Matching(B, segs) # {} <=> DynamicC(m, segs) # {}
           /\ Matching(B, segs) # {} =>
                 LET fn == B[First(B, segs)].fn
                 IN  fn \in DynamicC(m, segs) /\ \A j \in DynamicC(m, segs) : fn <= j
<1> DEFINE S == OfLength(DynamicOf(m), Routes, Len(segs))
           D == DynamicC(m, segs)
<1>1. Holds(B, S, Routes) /\ InOrder(B) /\ S \in SUBSET DOMAIN regs
  BY DEF Tables, DynamicTable, Bucket, OfLength, DynamicOf, Of
<1>2. D = {i \in S : Matches([segments |-> Segs(i)], segs)}
  <2>1. ASSUME NEW i \in DynamicOf(m), Matches([segments |-> Segs(i)], segs)
        PROVE  Len(Routes[i].segments) = Len(segs)
    <3>1. i \in DOMAIN regs /\ Captured(Segs(i))
      BY DEF DynamicOf, Of
    <3>2. Segs(i) \in Seq(SegmentSet) /\ Routes[i] = [segments |-> Segs(i), fn |-> i]
      BY <3>1, SegsTyped DEF Tables
    <3>3. ~HasCatchAll(Segs(i))
      BY <3>1, <3>2 DEF Captured, Kinds, HasCatchAll
    <3>4. Len(segs) = Len(Segs(i))
      BY <2>1, <3>3 DEF Matches
    <3> QED
      BY <3>2, <3>4
  <2> QED
    BY <2>1 DEF DynamicC, OfLength
<1>3. Registered
  BY DEF Tables
<1> HIDE DEF S, D
<1>4. /\ Matching(B, segs) # {} <=> \E i \in S : Matches([segments |-> Segs(i)], segs)
      /\ \A k \in 1 .. Len(B) : /\ B[k].segments = Segs(B[k].fn) /\ B[k].fn \in S
                                /\ Matches(B[k], segs) <=> Matches([segments |-> Segs(B[k].fn)], segs)
  BY <1>1, <1>3, MatchHeld
<1>5. ASSUME Matching(B, segs) # {}, NEW i, i = First(B, segs)
      PROVE  B[i].fn \in D /\ \A j \in D : B[i].fn <= j
  <2>1. /\ i \in 1 .. Len(B) /\ Matches(B[i], segs) /\ B[i].fn \in S
        /\ \A k \in 1 .. Len(B) : Matches(B[k], segs) => i <= k
    BY <1>1, <1>5, FirstFound
  <2>2. B[i].fn \in D
    BY <1>2, <1>4, <2>1
  <2>3. ASSUME NEW j \in D PROVE B[i].fn <= j
    <3>1. PICK k \in 1 .. Len(B) : B[k].fn = j
      BY <1>1, <1>2 DEF Holds
    <3>2. Matches(B[k], segs)
      BY <1>2, <1>4, <3>1
    <3>3. i <= k
      BY <2>1, <3>2
    <3>4. j \in Nat /\ i \in Nat /\ k \in Nat
      <4>1. B \in Seq(RouteSet)
        BY <1>1 DEF Holds
      <4>2. B[k] \in RouteSet /\ Len(B) \in Nat
        BY <4>1, ElementOfSeq
      <4> QED
        BY <2>1, <3>1, <4>2 DEF RouteSet
    <3>5. CASE i = k
      BY <3>1, <3>4, <3>5
    <3>6. CASE i # k
      <4>1. i < k
        BY <3>3, <3>4, <3>6
      <4>2. B[i].fn < B[k].fn
        BY <1>1, <2>1, <4>1 DEF InOrder
      <4>3. B[i].fn \in Nat
        <5>1. B[i] \in RouteSet
          BY <1>1, <1>5, FirstFound
        <5> QED
          BY <5>1 DEF RouteSet
      <4> QED
        BY <3>1, <3>4, <4>2, <4>3
    <3> QED
      BY <3>5, <3>6
  <2> QED
    BY <2>2, <2>3
<1>6. Matching(B, segs) # {} <=> D # {}
  BY <1>2, <1>4
<1> QED
  BY <1>5, <1>6 DEF D

\* The first catch-all that matches is one that no matching one precedes.
LEMMA CatchAllFound ==
    ASSUME Tables, NEW m \in AnyMethod, NEW segs, NEW B, B = catchall_routes[m]
    PROVE  /\ Matching(B, segs) # {} <=> CatchAllC(m, segs) # {}
           /\ Matching(B, segs) # {} =>
                 LET fn == B[First(B, segs)].fn
                 IN  /\ fn \in CatchAllC(m, segs)
                     /\ \A j \in CatchAllC(m, segs) :
                           \/ literal_prefix_length(Segs(j)) < literal_prefix_length(Segs(fn))
                           \/ /\ literal_prefix_length(Segs(j)) = literal_prefix_length(Segs(fn))
                              /\ Len(Segs(j)) <= Len(Segs(fn))
<1> DEFINE S == CatchAllOf(m)
           C == CatchAllC(m, segs)
<1>1. Holds(B, S, Routes) /\ Sorted(B) /\ S \in SUBSET DOMAIN regs
  BY DEF Tables, CatchAllTable, CatchAllOf, Of
<1>2. C = {i \in S : Matches([segments |-> Segs(i)], segs)}
  BY DEF CatchAllC
<1>3. Registered
  BY DEF Tables
<1> HIDE DEF S, C
<1>4. /\ Matching(B, segs) # {} <=> \E i \in S : Matches([segments |-> Segs(i)], segs)
      /\ \A k \in 1 .. Len(B) : /\ B[k].segments = Segs(B[k].fn) /\ B[k].fn \in S
                                /\ Matches(B[k], segs) <=> Matches([segments |-> Segs(B[k].fn)], segs)
  BY <1>1, <1>3, MatchHeld
<1>5. ASSUME Matching(B, segs) # {}, NEW i, i = First(B, segs)
      PROVE  /\ B[i].fn \in C
             /\ \A j \in C : \/ literal_prefix_length(Segs(j)) < literal_prefix_length(Segs(B[i].fn))
                             \/ /\ literal_prefix_length(Segs(j)) = literal_prefix_length(Segs(B[i].fn))
                                /\ Len(Segs(j)) <= Len(Segs(B[i].fn))
  <2>1. /\ i \in 1 .. Len(B) /\ Matches(B[i], segs) /\ B[i].fn \in S
        /\ \A k \in 1 .. Len(B) : Matches(B[k], segs) => i <= k
    BY <1>1, <1>5, FirstFound
  <2>2. B[i].fn \in C
    BY <1>2, <1>4, <2>1
  <2>3. ASSUME NEW j \in C
        PROVE  \/ literal_prefix_length(Segs(j)) < literal_prefix_length(Segs(B[i].fn))
               \/ /\ literal_prefix_length(Segs(j)) = literal_prefix_length(Segs(B[i].fn))
                  /\ Len(Segs(j)) <= Len(Segs(B[i].fn))
    <3>1. PICK k \in 1 .. Len(B) : B[k].fn = j
      BY <1>1, <1>2 DEF Holds
    <3>2. Matches(B[k], segs)
      BY <1>2, <1>4, <3>1
    <3> DEFINE fn == B[i].fn
               a  == literal_prefix_length(Segs(fn))
               b  == literal_prefix_length(Segs(j))
               la == Len(Segs(fn))
               lb == Len(Segs(j))
    <3>3. i <= k /\ i \in Nat /\ k \in Nat
      <4>1. B \in Seq(RouteSet)
        BY <1>1 DEF Holds
      <4>2. Len(B) \in Nat
        BY <4>1
      <4> QED
        BY <2>1, <3>2, <4>2
    <3>4. a \in Nat /\ b \in Nat /\ la \in Nat /\ lb \in Nat
      <4>1. fn \in DOMAIN regs /\ j \in DOMAIN regs
        BY <1>1, <1>2, <2>1
      <4> QED
        BY <1>3, <4>1, SegsTyped, PrefixNat
    <3>5. B[i].segments = Segs(fn) /\ B[k].segments = Segs(j)
      BY <1>4, <2>1, <3>1
    <3>6. CASE i = k
      BY <3>1, <3>4, <3>6
    <3>7. CASE i # k
      <4>1. ~Before(B[k], B[i])
        BY <1>1, <2>1, <3>3, <3>7 DEF Sorted
      <4>2. Before(B[k], B[i]) <=> IF b # a THEN b > a ELSE lb > la
        BY <3>5 DEF Before
      <4> HIDE DEF a, b, la, lb
      <4>3. b < a \/ (b = a /\ lb <= la)
        BY <3>4, <4>1, <4>2
      <4> QED
        BY <4>3 DEF a, b, la, lb
    <3> QED
      BY <3>6, <3>7
  <2> QED
    BY <2>2, <2>3
<1>6. Matching(B, segs) # {} <=> C # {}
  BY <1>2, <1>4
<1> QED
  BY <1>5, <1>6 DEF C

-----------------------------------------------------------------------------
(* handle(): who answers.                                                  *)

Outranks(i, j) ==
    \/ literal_prefix_length(Segs(j)) < literal_prefix_length(Segs(i))
    \/ /\ literal_prefix_length(Segs(j)) = literal_prefix_length(Segs(i))
       /\ Len(Segs(j)) <= Len(Segs(i))

LEMMA WinnersByTable ==
    ASSUME Registered, NEW m, NEW path, NEW segs, segs = split_path(path)
    PROVE  /\ StaticC(m, path) # {} =>
                 Winners(m, path) = {i \in StaticC(m, path) : \A j \in StaticC(m, path) : j <= i}
           /\ StaticC(m, path) = {} /\ DynamicC(m, segs) # {} =>
                 Winners(m, path) = {i \in DynamicC(m, segs) : \A j \in DynamicC(m, segs) : i <= j}
           /\ StaticC(m, path) = {} /\ DynamicC(m, segs) = {} =>
                 Winners(m, path) = {i \in CatchAllC(m, segs) : \A j \in CatchAllC(m, segs) : Outranks(i, j)}
<1> DEFINE S == OfKind(Candidates(m, path), "static")
           D == OfKind(Candidates(m, path), "dynamic")
           C == OfKind(Candidates(m, path), "catchall")
<1>1. S = StaticC(m, path) /\ D = DynamicC(m, segs) /\ C = CatchAllC(m, segs)
  BY CandidatesByKind
<1>2. Winners(m, path) = CASE S # {} -> {i \in S : \A j \in S : j <= i}
                           [] S = {} /\ D # {} -> {i \in D : \A j \in D : i <= j}
                           [] OTHER -> {i \in C : \A j \in C : Outranks(i, j)}
  BY DEF Winners, Outranks
<1> HIDE DEF S, D, C
<1>3. CASE S # {}
  <2>1. Winners(m, path) = {i \in S : \A j \in S : j <= i}
    BY <1>2, <1>3
  <2> QED
    BY <1>1, <1>3, <2>1
<1>4. CASE S = {} /\ D # {}
  <2>1. Winners(m, path) = {i \in D : \A j \in D : i <= j}
    BY <1>2, <1>4
  <2> QED
    BY <1>1, <1>4, <2>1
<1>5. CASE S = {} /\ D = {}
  <2>1. Winners(m, path) = {i \in C : \A j \in C : Outranks(i, j)}
    BY <1>2, <1>5
  <2> QED
    BY <1>1, <1>5, <2>1
<1> QED
  BY <1>3, <1>4, <1>5

\* What handle() answers, one line per way it can end.
LEMMA OutcomeCases ==
    ASSUME NEW m, NEW path, NEW segs, segs = split_path(path)
    PROVE  \/ /\ Static(m, path)
              /\ Outcome(m, path) = [kind |-> "route", fn |-> static_routes[m][path], params |-> NoParams]
           \/ /\ ~Static(m, path) /\ Matching(Bucket(m, segs), segs) # {}
              /\ Outcome(m, path) = Call(Bucket(m, segs), segs)
           \/ /\ ~Static(m, path) /\ Matching(Bucket(m, segs), segs) = {}
              /\ Matching(catchall_routes[m], segs) # {}
              /\ Outcome(m, path) = Call(catchall_routes[m], segs)
           \/ ~MethodMatches(m, path) /\ Outcome(m, path) = Refusal(path)
<1> DEFINE s == Static(m, path)
           d == Matching(Bucket(m, segs), segs) # {}
           c == Matching(catchall_routes[m], segs) # {}
           v == [kind |-> "route", fn |-> static_routes[m][path], params |-> NoParams]
           w == Call(Bucket(m, segs), segs)
           x == Call(catchall_routes[m], segs)
           y == Refusal(path)
<1>1. Outcome(m, path) = CASE s -> v [] ~s /\ d -> w [] ~s /\ ~d /\ c -> x [] OTHER -> y
  BY DEF Outcome
<1>2. MethodMatches(m, path) <=> s \/ d \/ c
  BY DEF MethodMatches
<1> HIDE DEF s, d, c, v, w, x, y
<1>3. \/ s /\ Outcome(m, path) = v
      \/ ~s /\ d /\ Outcome(m, path) = w
      \/ ~s /\ ~d /\ c /\ Outcome(m, path) = x
      \/ ~s /\ ~d /\ ~c /\ Outcome(m, path) = y
  <2>1. CASE s
    BY <1>1, <2>1
  <2>2. CASE ~s /\ d
    BY <1>1, <2>2
  <2>3. CASE ~s /\ ~d /\ c
    BY <1>1, <2>3
  <2>4. CASE ~s /\ ~d /\ ~c
    BY <1>1, <2>4
  <2> QED
    BY <2>1, <2>2, <2>3, <2>4
<1>4. \/ s /\ Outcome(m, path) = v
      \/ ~s /\ d /\ Outcome(m, path) = w
      \/ ~s /\ ~d /\ c /\ Outcome(m, path) = x
      \/ ~MethodMatches(m, path) /\ Outcome(m, path) = y
  BY <1>2, <1>3
<1> QED
  BY <1>4 DEF s, d, c, v, w, x, y

LEMMA CallIs ==
    ASSUME NEW B, NEW segs, NEW i, i = First(B, segs)
    PROVE  Call(B, segs) = [kind |-> "route", fn |-> B[i].fn, params |-> Captures(B[i], segs)]
BY DEF Call, First

LEMMA PathTyped ==
    ASSUME NEW path \in Paths
    PROVE  split_path(path) \in Seq(STRING) /\ Len(split_path(path)) \in Nat
BY PathsCut

\* A method has a match just when it has a candidate; the tables agree with
\* the registrations on both.
LEMMA MatchMeansCandidate ==
    ASSUME Tables, NEW m \in AnyMethod, NEW path \in Paths
    PROVE  MethodMatches(m, path) <=> Candidates(m, path) # {}
<1> DEFINE segs == split_path(path)
<1>1. Len(segs) \in Nat
  BY PathTyped
<1>2. Candidates(m, path) = StaticC(m, path) \cup DynamicC(m, segs) \cup CatchAllC(m, segs)
  BY CandidatesByKind DEF Tables
<1>3. Static(m, path) <=> StaticC(m, path) # {}
  BY StaticFound
<1>4. Matching(Bucket(m, segs), segs) # {} <=> DynamicC(m, segs) # {}
  BY <1>1, DynamicFound
<1>5. Matching(catchall_routes[m], segs) # {} <=> CatchAllC(m, segs) # {}
  BY CatchAllFound
<1>6. MethodMatches(m, path) <=> \/ Static(m, path) \/ Matching(Bucket(m, segs), segs) # {}
                                 \/ Matching(catchall_routes[m], segs) # {}
  BY DEF MethodMatches
<1> QED
  BY <1>2, <1>3, <1>4, <1>5, <1>6

\* If anyone may serve, one of the winners does; else the request is refused.
LEMMA WinnerAnswers ==
    ASSUME Tables, NEW m \in AnyMethod, NEW path \in Paths
    PROVE  /\ MethodMatches(m, path) => Outcome(m, path).kind = "route" /\ Outcome(m, path).fn \in Winners(m, path)
           /\ ~MethodMatches(m, path) => Outcome(m, path) = Refusal(path)
           /\ MethodMatches(m, path) <=> Winners(m, path) # {}
<1> DEFINE segs == split_path(path)
           Bd   == Bucket(m, segs)
           Bc   == catchall_routes[m]
           W    == Winners(m, path)
           out  == Outcome(m, path)
<1>1. Len(segs) \in Nat /\ Registered
  BY PathTyped DEF Tables
<1>2. MethodMatches(m, path) <=> Static(m, path) \/ Matching(Bd, segs) # {} \/ Matching(Bc, segs) # {}
  BY DEF MethodMatches
<1>3. Static(m, path) => static_routes[m][path] \in W
  <2>1. Static(m, path) => /\ StaticC(m, path) # {} /\ static_routes[m][path] \in StaticC(m, path)
                           /\ \A j \in StaticC(m, path) : j <= static_routes[m][path]
    BY StaticFound
  <2> QED
    BY <1>1, <2>1, WinnersByTable
<1>4. ~Static(m, path) /\ Matching(Bd, segs) # {} => Bd[First(Bd, segs)].fn \in W
  <2>1. Static(m, path) <=> StaticC(m, path) # {}
    BY StaticFound
  <2>2. Matching(Bd, segs) # {} =>
           /\ DynamicC(m, segs) # {} /\ Bd[First(Bd, segs)].fn \in DynamicC(m, segs)
           /\ \A j \in DynamicC(m, segs) : Bd[First(Bd, segs)].fn <= j
    BY <1>1, DynamicFound
  <2> QED
    BY <1>1, <2>1, <2>2, WinnersByTable
<1>5. ~Static(m, path) /\ Matching(Bd, segs) = {} /\ Matching(Bc, segs) # {}
      => Bc[First(Bc, segs)].fn \in W
  <2>1. Static(m, path) <=> StaticC(m, path) # {}
    BY StaticFound
  <2>2. Matching(Bd, segs) # {} <=> DynamicC(m, segs) # {}
    BY <1>1, DynamicFound
  <2> DEFINE fn == Bc[First(Bc, segs)].fn
  <2>3. Matching(Bc, segs) # {} =>
           fn \in CatchAllC(m, segs) /\ \A j \in CatchAllC(m, segs) : Outranks(fn, j)
    BY CatchAllFound DEF Outranks
  <2> HIDE DEF fn
  <2>4. ~Static(m, path) /\ Matching(Bd, segs) = {} /\ Matching(Bc, segs) # {} => fn \in W
    BY <1>1, <2>1, <2>2, <2>3, WinnersByTable
  <2> QED
    BY <2>4 DEF fn
<1>6. \/ Static(m, path) /\ out = [kind |-> "route", fn |-> static_routes[m][path], params |-> NoParams]
      \/ ~Static(m, path) /\ Matching(Bd, segs) # {} /\ out = Call(Bd, segs)
      \/ /\ ~Static(m, path) /\ Matching(Bd, segs) = {} /\ Matching(Bc, segs) # {}
         /\ out = Call(Bc, segs)
      \/ ~MethodMatches(m, path) /\ out = Refusal(path)
  BY OutcomeCases
<1>7. \A B : Call(B, segs).kind = "route" /\ Call(B, segs).fn = B[First(B, segs)].fn
  BY CallIs
<1>8. MethodMatches(m, path) => out.kind = "route" /\ out.fn \in W
  BY <1>2, <1>3, <1>4, <1>5, <1>6, <1>7
<1>9. ~MethodMatches(m, path) => out = Refusal(path)
  BY <1>2, <1>6
<1>10. ~MethodMatches(m, path) => W = {}
  <2>1. SUFFICES ASSUME ~MethodMatches(m, path) PROVE W = {}
    OBVIOUS
  <2>2. Candidates(m, path) = {}
    BY <2>1, MatchMeansCandidate
  <2>3. StaticC(m, path) = {} /\ DynamicC(m, segs) = {} /\ CatchAllC(m, segs) = {}
    <3>1. Candidates(m, path) = StaticC(m, path) \cup DynamicC(m, segs) \cup CatchAllC(m, segs)
      BY <1>1, CandidatesByKind
    <3> QED
      BY <2>2, <3>1
  <2> QED
    BY <1>1, <2>3, WinnersByTable
<1> QED
  BY <1>8, <1>9, <1>10

-----------------------------------------------------------------------------
(* handle(): what the handler is given.                                    *)

Names(pat, K) == {pat[k].text : k \in {j \in K : pat[j].kind # "Literal"}}

\* The parameters are the captures of pat in a path with the segments segs.
Told(pat, segs, params) ==
    /\ DOMAIN params = Names(pat, DOMAIN pat)
    /\ \A k \in DOMAIN pat :
          /\ pat[k].kind = "Literal" => pat[k].text = segs[k]
          /\ /\ pat[k].kind = "Param"
             /\ pat[k].text \notin Names(pat, k + 1 .. Len(pat))
             => params[pat[k].text] = <<segs[k]>>
          /\ pat[k].kind = "CatchAll" =>
                SubSeq(segs, 1, k - 1) \o split_path(params[pat[k].text]) = segs

\* A static route has no captures, and its literals are the path.
LEMMA StaticTold ==
    ASSUME NEW pattern \in Patterns, NEW pat, pat = parse_pattern(pattern), Literals(pat)
    PROVE  Told(pat, split_path(Canonical(pat)), NoParams)
<1>1. pat \in Seq(SegmentSet) /\ split_path(Canonical(pat)) = [k \in DOMAIN pat |-> pat[k].text]
  BY PatternsCut DEF Literals
<1>2. \A k \in DOMAIN pat : pat[k].kind = "Literal"
  BY DEF Literals, Kinds
<1>3. Names(pat, DOMAIN pat) = {} /\ DOMAIN NoParams = {}
  BY <1>2 DEF Names, NoParams
<1> QED
  BY <1>1, <1>2, <1>3 DEF Told

\* What the capture at place k of pat takes of a path.
Taken(pat, segs, k) ==
    IF pat[k].kind = "Param" THEN <<segs[k]>> ELSE Join(SubSeq(segs, k, Len(segs)))

\* Of the captures with one name the last is stored.
LEMMA CaptureStored ==
    ASSUME NEW route, NEW pat \in Seq(SegmentSet), pat = route.segments, NEW segs,
           NEW k \in DOMAIN pat, pat[k].kind # "Literal",
           pat[k].text \notin Names(pat, k + 1 .. Len(pat)),
           NEW params, params = Captures(route, segs)
    PROVE  params[pat[k].text] = Taken(pat, segs, k)
<1> DEFINE taken    == {j \in DOMAIN pat : pat[j].kind # "Literal"}
           Is(n, i) == pat[i].text = n /\ \A j \in taken : pat[j].text = n => j <= i
           last(n)  == CHOOSE i \in taken : Is(n, i)
           value(i) == Taken(pat, segs, i)
           n        == pat[k].text
<1>1. params = [x \in {pat[i].text : i \in taken} |-> value(last(x))]
  BY DEF Captures, Taken
<1>2. DOMAIN pat = 1 .. Len(pat) /\ Len(pat) \in Nat /\ k \in taken
  OBVIOUS
<1>3. \A j \in taken : pat[j].text = n => j <= k
  <2>1. ASSUME NEW j \in taken, pat[j].text = n, ~(j <= k) PROVE FALSE
    <3>1. j \in k + 1 .. Len(pat)
      BY <1>2, <2>1
    <3>2. n \in Names(pat, k + 1 .. Len(pat))
      BY <2>1, <3>1 DEF Names
    <3> QED
      BY <3>2
  <2> QED
    BY <2>1
<1>4. \A i \in taken : Is(n, i) <=> i = k
  <2>1. ASSUME NEW i \in taken, Is(n, i) PROVE i = k
    <3>1. i <= k /\ k <= i /\ i \in Nat /\ k \in Nat
      BY <1>2, <1>3, <2>1
    <3> QED
      BY <3>1
  <2> QED
    BY <1>2, <1>3, <2>1
<1> HIDE DEF Is, taken
<1>5. last(n) = k
  BY <1>2, <1>4
<1>6. n \in {pat[i].text : i \in taken}
  BY <1>2
<1> HIDE DEF last, value
<1>7. params[n] = value(last(n))
  BY <1>1, <1>6
<1>8. params[n] = value(k)
  BY <1>5, <1>7
<1> QED
  BY <1>8 DEF value

LEMMA Rejoined ==
    ASSUME NEW path \in Paths, NEW segs, segs = split_path(path),
           NEW k \in 1 .. Len(segs) + 1, NEW rest, rest = Join(SubSeq(segs, k, Len(segs)))
    PROVE  SubSeq(segs, 1, k - 1) \o split_path(rest) = segs
<1>1. segs \in Seq(STRING) /\ Len(segs) \in Nat
  BY PathTyped
<1>2. split_path(rest) = SubSeq(segs, k, Len(segs))
  BY PathsCut
<1> DEFINE n == Len(segs)
           j == k - 1
<1>3. 1 \in 1 .. n + 1 /\ j \in 1 - 1 .. n /\ n \in j .. n /\ j + 1 = k
  BY <1>1
<1> HIDE DEF j
<1>4. SubSeq(segs, 1, j) \o SubSeq(segs, j + 1, n) = SubSeq(segs, 1, n)
  BY <1>1, <1>3, ConcatAdjacentSubSeq
<1>5. SubSeq(segs, 1, n) = segs
  BY <1>1, SubSeqFull
<1>6. SubSeq(segs, 1, j) \o split_path(rest) = segs
  BY <1>2, <1>3, <1>4, <1>5
<1> QED
  BY <1>6 DEF j

\* A route with captures that matches tells its handler where they are.
LEMMA CapturesTold ==
    ASSUME NEW route, NEW pat \in Seq(SegmentSet), pat = route.segments, CatchAllIsLast(pat),
           NEW path \in Paths, NEW segs, segs = split_path(path), Matches(route, segs)
    PROVE  Told(pat, segs, Captures(route, segs))
<1> DEFINE params == Captures(route, segs)
           fixed  == IF HasCatchAll(pat) THEN Len(pat) - 1 ELSE Len(pat)
<1>1. DOMAIN pat = 1 .. Len(pat) /\ Len(pat) \in Nat /\ Len(segs) \in Nat
  BY PathTyped
<1>2. DOMAIN params = Names(pat, DOMAIN pat)
  BY DEF Captures, Names
<1>3. /\ IF HasCatchAll(pat) THEN Len(segs) >= fixed ELSE Len(segs) = fixed
      /\ \A k \in 1 .. fixed : pat[k].kind = "Literal" => segs[k] = pat[k].text
  BY DEF Matches
<1>4. ASSUME NEW k \in DOMAIN pat, pat[k].kind = "Literal" PROVE pat[k].text = segs[k]
  <2>1. k \in 1 .. fixed
    BY <1>1, <1>4 DEF HasCatchAll
  <2> QED
    BY <1>3, <1>4, <2>1
<1> HIDE DEF params, fixed
<1>5. ASSUME NEW k \in DOMAIN pat, pat[k].kind = "Param", pat[k].text \notin Names(pat, k + 1 .. Len(pat))
      PROVE  params[pat[k].text] = <<segs[k]>>
  <2>1. pat[k].kind # "Literal" /\ params = Captures(route, segs)
    BY <1>5 DEF params
  <2>2. params[pat[k].text] = Taken(pat, segs, k)
    BY <1>5, <2>1, CaptureStored
  <2> QED
    BY <1>5, <2>2 DEF Taken
<1>6. ASSUME NEW k \in DOMAIN pat, pat[k].kind = "CatchAll"
      PROVE  SubSeq(segs, 1, k - 1) \o split_path(params[pat[k].text]) = segs
  <2>1. k = Len(pat) /\ HasCatchAll(pat) /\ k \in Nat /\ k >= 1
    BY <1>1, <1>6 DEF CatchAllIsLast, HasCatchAll
  <2>2. pat[k].text \notin Names(pat, k + 1 .. Len(pat))
    <3>1. k + 1 .. Len(pat) = {}
      BY <2>1
    <3> QED
      BY <3>1 DEF Names
  <2>3. params[pat[k].text] = Taken(pat, segs, k)
    <3>1. pat[k].kind # "Literal" /\ params = Captures(route, segs)
      BY <1>6 DEF params
    <3> QED
      BY <2>2, <3>1, CaptureStored
  <2>4. params[pat[k].text] = Join(SubSeq(segs, k, Len(segs)))
    BY <1>6, <2>3 DEF Taken
  <2>5. k \in 1 .. Len(segs) + 1
    BY <1>1, <1>3, <2>1 DEF fixed
  <2> QED
    BY <2>4, <2>5, Rejoined
<1> QED
  BY <1>2, <1>4, <1>5, <1>6 DEF Told, params

\* Whoever is called is told the captures of its own route.
LEMMA RouteTold ==
    ASSUME Tables, NEW m \in AnyMethod, NEW path \in Paths, MethodMatches(m, path),
           NEW out, out = Outcome(m, path)
    PROVE  Told(Segs(out.fn), split_path(path), out.params)
<1> DEFINE segs == split_path(path)
           Bd   == Bucket(m, segs)
           Bc   == catchall_routes[m]
<1>1. Len(segs) \in Nat /\ Registered
  BY PathTyped DEF Tables
<1>2. \/ Static(m, path) /\ out = [kind |-> "route", fn |-> static_routes[m][path], params |-> NoParams]
      \/ Matching(Bd, segs) # {} /\ out = Call(Bd, segs)
      \/ Matching(Bc, segs) # {} /\ out = Call(Bc, segs)
  BY OutcomeCases
<1>3. CASE Static(m, path) /\ out = [kind |-> "route", fn |-> static_routes[m][path], params |-> NoParams]
  <2>1. out.fn \in StaticC(m, path) /\ out.params = NoParams
    BY <1>3, StaticFound
  <2>2. out.fn \in DOMAIN regs /\ Literals(Segs(out.fn)) /\ path = Canonical(Segs(out.fn))
    BY <2>1 DEF StaticC, StaticOf, Of
  <2>3. regs[out.fn].pattern \in Patterns /\ Segs(out.fn) = parse_pattern(regs[out.fn].pattern)
    BY <1>1, <2>2, SegsTyped DEF Segs
  <2>4. Told(Segs(out.fn), split_path(Canonical(Segs(out.fn))), NoParams)
    BY <2>2, <2>3, StaticTold
  <2> QED
    BY <2>1, <2>2, <2>4
<1>4. ASSUME NEW B, NEW S \in SUBSET DOMAIN regs, Holds(B, S, Routes), Matching(B, segs) # {},
             out = Call(B, segs), \A i \in S : CatchAllIsLast(Segs(i))
      PROVE  Told(Segs(out.fn), segs, out.params)
  <2> DEFINE i == First(B, segs)
             r == B[i]
  <2>1. i \in 1 .. Len(B) /\ Matches(r, segs) /\ r.fn \in S
    BY <1>4, FirstFound
  <2>2. out.fn = r.fn /\ out.params = Captures(r, segs)
    BY <1>4, CallIs
  <2>3. r.segments = Segs(r.fn)
    BY <1>1, <1>4, <2>1, MatchHeld
  <2>4. Segs(r.fn) \in Seq(SegmentSet) /\ CatchAllIsLast(Segs(r.fn))
    BY <1>1, <1>4, <2>1, SegsTyped
  <2> HIDE DEF r
  <2>5. Told(Segs(r.fn), segs, Captures(r, segs))
    BY <2>1, <2>3, <2>4, CapturesTold
  <2> QED
    BY <2>2, <2>5
<1>5. CASE Matching(Bd, segs) # {} /\ out = Call(Bd, segs)
  <2> DEFINE S == OfLength(DynamicOf(m), Routes, Len(segs))
  <2>1. Holds(Bd, S, Routes) /\ S \in SUBSET DOMAIN regs
    BY <1>1 DEF Tables, DynamicTable, Bucket, OfLength, DynamicOf, Of
  <2>2. \A i \in S : CatchAllIsLast(Segs(i))
    <3>1. \A i \in S : Captured(Segs(i))
      BY DEF OfLength, DynamicOf
    <3> QED
      BY <3>1, KindsApart
  <2> QED
    BY <1>4, <1>5, <2>1, <2>2
<1>6. CASE Matching(Bc, segs) # {} /\ out = Call(Bc, segs)
  <2> DEFINE S == CatchAllOf(m)
  <2>1. Holds(Bc, S, Routes) /\ S \in SUBSET DOMAIN regs
    BY DEF Tables, CatchAllTable, CatchAllOf, Of
  <2>2. \A i \in S : CatchAllIsLast(Segs(i))
    BY DEF CatchAllOf, Trailing
  <2> QED
    BY <1>4, <1>6, <2>1, <2>2
<1> QED
  BY <1>2, <1>3, <1>5, <1>6

-----------------------------------------------------------------------------
(* Theorems.                                                               *)

PrecedenceOf(m, path, out) ==
    LET W         == Winners(m, path)
        elsewhere == \E k \in AnyMethod : Candidates(k, path) # {}
    IN  CASE W # {} -> out.kind = "route" /\ out.fn \in W
          [] W = {} /\ elsewhere  -> out.kind \in {"405", "custom405"}
          [] W = {} /\ ~elsewhere -> out.kind \in {"404", "custom404"}

AllowOf(path, out) ==
    out.kind = "405" => out.allow = {m \in Methods : Winners(m, path) # {}}

ParamsOf(path, out) ==
    out.kind = "route" => Told(Segs(out.fn), split_path(path), out.params)

Answers(m, path, out) ==
    PrecedenceOf(m, path, out) /\ AllowOf(path, out) /\ ParamsOf(path, out)

LEMMA RefusalIs ==
    ASSUME NEW path, NEW out, out = Refusal(path)
    PROVE  /\ path_matches_any_method(path) => out.kind \in {"405", "custom405"}
           /\ ~path_matches_any_method(path) => out.kind \in {"404", "custom404"}
           /\ out.kind = "405" => out.allow = {m \in Methods : MethodMatches(m, path)}
<1>1. CASE path_matches_any_method(path)
  <2>1. CASE method_not_allowed_handler = "custom"
    <3>1. out = [kind |-> "custom405"]
      BY <1>1, <2>1 DEF Refusal
    <3> QED
      BY <1>1, <3>1
  <2>2. CASE method_not_allowed_handler # "custom"
    <3>1. out = [kind |-> "405", allow |-> allowed_methods_for(path)]
      BY <1>1, <2>2 DEF Refusal
    <3> QED
      BY <1>1, <3>1 DEF allowed_methods_for
  <2> QED
    BY <2>1, <2>2
<1>2. CASE ~path_matches_any_method(path)
  <2>1. out = [kind |-> IF not_found_handler = "custom" THEN "custom404" ELSE "404"]
    BY <1>2 DEF Refusal
  <2>2. out.kind \in {"404", "custom404"}
    BY <2>1
  <2> QED
    BY <1>2, <2>2
<1> QED
  BY <1>1, <1>2

LEMMA HandleAnswers ==
    ASSUME Tables, NEW m \in AnyMethod, NEW path \in Paths, NEW out, out = Outcome(m, path)
    PROVE  Answers(m, path, out)
<1> DEFINE W         == Winners(m, path)
           elsewhere == \E k \in AnyMethod : Candidates(k, path) # {}
           any       == path_matches_any_method(path)
<1>1. any <=> elsewhere
  BY MatchMeansCandidate DEF path_matches_any_method
<1>2. /\ MethodMatches(m, path) => out.kind = "route" /\ out.fn \in W
      /\ ~MethodMatches(m, path) => out = Refusal(path)
      /\ MethodMatches(m, path) <=> W # {}
  BY WinnerAnswers
<1>3. ~MethodMatches(m, path) =>
         /\ any => out.kind \in {"405", "custom405"}
         /\ ~any => out.kind \in {"404", "custom404"}
         /\ out.kind = "405" => out.allow = {k \in Methods : MethodMatches(k, path)}
  BY <1>2, RefusalIs
<1>4. \A k \in Methods : MethodMatches(k, path) <=> Winners(k, path) # {}
  BY WinnerAnswers DEF AnyMethod
<1>5. PrecedenceOf(m, path, out)
  <2>1. PrecedenceOf(m, path, out)
        <=> CASE W # {} -> out.kind = "route" /\ out.fn \in W
              [] W = {} /\ elsewhere  -> out.kind \in {"405", "custom405"}
              [] W = {} /\ ~elsewhere -> out.kind \in {"404", "custom404"}
    BY DEF PrecedenceOf
  <2> HIDE DEF W, elsewhere, any
  <2>2. CASE W # {}
    BY <1>2, <2>1, <2>2
  <2>3. CASE W = {} /\ elsewhere
    BY <1>1, <1>2, <1>3, <2>1, <2>3
  <2>4. CASE W = {} /\ ~elsewhere
    BY <1>1, <1>2, <1>3, <2>1, <2>4
  <2> QED
    BY <2>2, <2>3, <2>4
<1>6. AllowOf(path, out)
  BY <1>2, <1>3, <1>4 DEF AllowOf
<1>7. ParamsOf(path, out)
  <2>1. CASE MethodMatches(m, path)
    BY <2>1, RouteTold DEF ParamsOf
  <2>2. CASE ~MethodMatches(m, path)
    BY <1>3, <2>2 DEF ParamsOf
  <2> QED
    BY <2>1, <2>2
<1> QED
  BY <1>5, <1>6, <1>7 DEF Answers

\* What is right depends on the registrations only.
LEMMA AnswersKept ==
    ASSUME UNCHANGED regs, NEW m, NEW path, NEW out, Answers(m, path, out)
    PROVE  Answers(m, path, out)'
<1>1. \A i : Segs(i)' = Segs(i)
  BY DEF Segs
<1>2. \A k, p : Candidates(k, p)' = Candidates(k, p)
  <2>1. \A k, p, i : Serves(i, k, p)' <=> Serves(i, k, p)
    BY <1>1 DEF Serves
  <2> QED
    BY <2>1 DEF Candidates
<1>3. ASSUME NEW k, NEW p PROVE Winners(k, p)' = Winners(k, p)
  <2>1. PICK s, d, c : /\ s = OfKind(Candidates(k, p), "static")
                       /\ d = OfKind(Candidates(k, p), "dynamic")
                       /\ c = OfKind(Candidates(k, p), "catchall")
    OBVIOUS
  <2>2. /\ OfKind(Candidates(k, p), "static")' = s
        /\ OfKind(Candidates(k, p), "dynamic")' = d
        /\ OfKind(Candidates(k, p), "catchall")' = c
    BY <1>1, <1>2, <2>1 DEF OfKind
  <2>3. \A i, j : Outranks(i, j)' <=> Outranks(i, j)
    BY <1>1 DEF Outranks
  <2>4. CASE s # {}
    <3>1. Winners(k, p) = {i \in s : \A j \in s : j <= i}
      BY <2>1, <2>4 DEF Winners
    <3>2. Winners(k, p)' = {i \in s : \A j \in s : j <= i}
      BY <2>2, <2>4 DEF Winners
    <3> QED
      BY <3>1, <3>2
  <2>5. CASE s = {} /\ d # {}
    <3>1. Winners(k, p) = {i \in d : \A j \in d : i <= j}
      BY <2>1, <2>5 DEF Winners
    <3>2. Winners(k, p)' = {i \in d : \A j \in d : i <= j}
      BY <2>2, <2>5 DEF Winners
    <3> QED
      BY <3>1, <3>2
  <2>6. CASE s = {} /\ d = {}
    <3>1. Winners(k, p) = {i \in c : \A j \in c : Outranks(i, j)}
      BY <2>1, <2>6 DEF Winners, Outranks
    <3>2. Winners(k, p)' = {i \in c : \A j \in c : Outranks(i, j)'}
      BY <2>2, <2>6 DEF Winners, Outranks
    <3> QED
      BY <2>3, <3>1, <3>2
  <2> QED
    BY <2>4, <2>5, <2>6
<1>4. PrecedenceOf(m, path, out)' <=> PrecedenceOf(m, path, out)
  BY <1>2, <1>3 DEF PrecedenceOf
<1>5. AllowOf(path, out)' <=> AllowOf(path, out)
  BY <1>3 DEF AllowOf
<1>6. ParamsOf(path, out)' <=> ParamsOf(path, out)
  BY <1>1 DEF ParamsOf
<1> QED
  BY <1>4, <1>5, <1>6 DEF Answers

\* The answer, once there is one, is right for the routes registered so far.
AnswerRight ==
    \A m, path, out :
        Answered /\ answer.method = m /\ answer.path = path /\ answer.out = out
        => Answers(m, path, out)

LEMMA AnswerStep == Tables /\ AnswerRight /\ [RouterNext]_routerVars => AnswerRight'
<1> SUFFICES ASSUME Tables, AnswerRight, [RouterNext]_routerVars,
                    NEW m, NEW path, NEW out,
                    answer' # NoAnswer, answer'.method = m, answer'.path = path, answer'.out = out
             PROVE  Answers(m, path, out)'
  BY DEF AnswerRight, Answered
<1>1. (\E k \in AnyMethod, pattern \in Patterns : Add(k, pattern)) => answer' = NoAnswer
  BY DEF Add, add_misplaced, add_static, add_dynamic, add_catchall, Registers
<1>2. set_not_found_handler \/ set_method_not_allowed_handler => answer' = NoAnswer
  BY DEF set_not_found_handler, set_method_not_allowed_handler
<1>3. CASE \E k \in AnyMethod, p \in Paths : handle(k, p)
  <2>1. PICK k \in AnyMethod, p \in Paths : handle(k, p)
    BY <1>3
  <2>2. regs' = regs /\ k = m /\ p = path /\ out = Outcome(k, p)
    BY <2>1 DEF handle
  <2>3. Answers(m, path, out)
    BY <2>2, HandleAnswers
  <2> QED
    BY <2>2, <2>3, AnswersKept
<1>4. CASE UNCHANGED routerVars
  <2>1. regs' = regs /\ answer' = answer
    BY <1>4 DEF routerVars
  <2>2. Answers(m, path, out)
    BY <2>1 DEF AnswerRight, Answered
  <2> QED
    BY <2>1, <2>2, AnswersKept
<1> QED
  BY <1>1, <1>2, <1>3, <1>4 DEF RouterNext

LEMMA AnswerInvariant == RouterSpec => []AnswerRight
<1>1. RouterInit => AnswerRight
  BY DEF RouterInit, AnswerRight, Answered
<1> QED
  BY <1>1, AnswerStep, TablesInvariant, PTL DEF RouterSpec

\* The documented order (http_router.h:21-26): the handler called is the
\* latest static route, else the first dynamic one, else the most specific
\* catch-all, whatever was registered in whatever order.
THEOREM OrderKept == RouterSpec => []Precedence
<1>1. AnswerRight => Precedence
  <2>1. SUFFICES ASSUME Answered, AnswerRight PROVE Precedence
    BY DEF Precedence
  <2>2. PrecedenceOf(answer.method, answer.path, answer.out)
    BY <2>1 DEF AnswerRight, Answers
  <2> QED
    BY <2>2 DEF PrecedenceOf, Precedence
<1> QED
  BY <1>1, AnswerInvariant, PTL

\* A 405 lists the methods the request would have succeeded with, no more
\* and no fewer.
THEOREM AllowRight == RouterSpec => []AllowExact
<1>1. AnswerRight => AllowExact
  BY DEF AnswerRight, Answers, AllowOf, AllowExact
<1> QED
  BY <1>1, AnswerInvariant, PTL

\* A handler is told the captures of its own route and nothing else.
THEOREM ParamsRight == RouterSpec => []ParamsExact
<1>1. AnswerRight => ParamsExact
  <2>1. SUFFICES ASSUME Answered, answer.out.kind = "route", AnswerRight PROVE ParamsExact
    BY DEF ParamsExact
  <2>2. Answers(answer.method, answer.path, answer.out)
    BY <2>1 DEF AnswerRight
  <2>3. Told(Segs(answer.out.fn), split_path(answer.path), answer.out.params)
    BY <2>1, <2>2 DEF Answers, ParamsOf
  <2> QED
    BY <2>3 DEF Told, Names, ParamsExact
<1> QED
  BY <1>1, AnswerInvariant, PTL
=============================================================================
