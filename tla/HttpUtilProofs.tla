--------------------------- MODULE HttpUtilProofs ---------------------------
(***************************************************************************)
(* Theorems about HttpUtil, for texts of any length.                       *)
(***************************************************************************)
EXTENDS UrlEncoding, SequenceTheorems, WellFoundedInduction, FiniteSetTheorems, TLAPS

\* A set of naturals that is not empty has a least element.
LEMMA LeastOne ==
    ASSUME NEW T \in SUBSET Nat, T # {}
    PROVE  \E x \in T : \A y \in T : x <= y
<1> DEFINE R == OpToRel(<, Nat)
<1>1. IsWellFoundedOn(R, Nat)
  BY NatLessThanWellFounded
<1>2. \A x, y \in Nat : y < x => <<y, x>> \in R
  BY DEF OpToRel
<1> HIDE DEF R
<1>3. PICK x \in T : \A y \in T : ~(<<y, x>> \in R)
  BY <1>1, WFMin
<1>4. ASSUME NEW y \in T PROVE x <= y
  <2>1. x \in Nat /\ y \in Nat
    OBVIOUS
  <2>2. ~(y < x)
    BY <1>2, <1>3, <2>1
  <2> QED
    BY <2>1, <2>2
<1> QED
  BY <1>4

\* and one of an interval a greatest.
LEMMA GreatestOne ==
    ASSUME NEW n \in Nat, NEW S \in SUBSET (1 .. n), S # {}
    PROVE  \E x \in S : \A y \in S : y <= x
<1> DEFINE T == {d \in Nat : n - d \in S}
<1>1. T # {}
  <2>1. PICK x \in S : TRUE
    OBVIOUS
  <2>2. n - x \in Nat /\ n - (n - x) = x
    BY <2>1
  <2> QED
    BY <2>1, <2>2
<1>2. PICK d \in T : \A e \in T : d <= e
  BY <1>1, LeastOne
<1>3. ASSUME NEW y \in S PROVE y <= n - d
  <2>1. n - y \in Nat /\ n - (n - y) = y
    OBVIOUS
  <2>2. d <= n - y
    BY <1>2, <2>1
  <2> QED
    BY <2>2
<1> QED
  BY <1>2, <1>3

-----------------------------------------------------------------------------
(* url_decode, unfolded.                                                   *)

\* One step of the loop at i, f being what the rest of the text becomes.
Body(s, i, f) ==
    IF i > Len(s) THEN <<>>
    ELSE IF EscapeAt(s, i)
         THEN <<from_chars(s[i + 1], s[i + 2]) % 256>> \o f[i + 3]
         ELSE <<IF s[i] = PLUS THEN SPACE ELSE s[i]>> \o f[i + 1]

\* f decodes every end of s that begins at k or later.
DecodesFrom(s, k, f) == f = [i \in k .. Len(s) + 1 |-> Body(s, i, f)]
From(s) == CHOOSE f : DecodesFrom(s, 1, f)

LEMMA DecodeIsFrom ==
    ASSUME NEW s PROVE url_decode(s) = From(s)[1]
BY DEF url_decode, From, DecodesFrom, Body

LEMMA OneMore ==
    ASSUME NEW s, Len(s) \in Nat, NEW k \in 1 .. Len(s), NEW f, DecodesFrom(s, k + 1, f)
    PROVE  \E g : DecodesFrom(s, k, g)
<1> DEFINE x == Body(s, k, f)
           g == [i \in k .. Len(s) + 1 |-> IF i = k THEN x ELSE f[i]]
<1>1. ASSUME NEW i \in k .. Len(s) + 1 PROVE g[i] = Body(s, i, g)
  <2>1. EscapeAt(s, i) => i + 2 <= Len(s)
    BY DEF EscapeAt
  <2>2. i <= Len(s) => g[i + 1] = f[i + 1]
    OBVIOUS
  <2>3. i + 2 <= Len(s) => g[i + 3] = f[i + 3]
    OBVIOUS
  <2>4. Body(s, i, g) = Body(s, i, f)
    BY <2>1, <2>2, <2>3 DEF Body
  <2>5. i # k => f[i] = Body(s, i, f)
    BY DEF DecodesFrom
  <2> QED
    BY <2>4, <2>5
<1>2. g = [i \in k .. Len(s) + 1 |-> Body(s, i, g)]
  BY <1>1
<1> QED
  BY <1>2 DEF DecodesFrom

\* There is such an f: otherwise take the last place it fails at.
LEMMA FromExists ==
    ASSUME NEW s, Len(s) \in Nat
    PROVE  DecodesFrom(s, 1, From(s))
<1> DEFINE S == {k \in 1 .. Len(s) + 1 : ~\E f : DecodesFrom(s, k, f)}
<1>1. S = {}
  <2> SUFFICES ASSUME S # {} PROVE FALSE
    OBVIOUS
  <2>1. S \in SUBSET (1 .. Len(s) + 1) /\ Len(s) + 1 \in Nat
    OBVIOUS
  <2>2. PICK k \in S : \A y \in S : y <= k
    <3> HIDE DEF S
    <3> QED
      BY <2>1, GreatestOne
  <2>3. k # Len(s) + 1
    <3> DEFINE f == [i \in Len(s) + 1 .. Len(s) + 1 |-> <<>>]
    <3>1. \A i \in Len(s) + 1 .. Len(s) + 1 : Body(s, i, f) = <<>>
      BY DEF Body
    <3>2. f = [i \in Len(s) + 1 .. Len(s) + 1 |-> Body(s, i, f)]
      BY <3>1
    <3>3. DecodesFrom(s, Len(s) + 1, f)
      BY <3>2 DEF DecodesFrom
    <3> QED
      BY <3>3
  <2>4. k \in 1 .. Len(s) /\ k + 1 \notin S
    <3>1. k \in 1 .. Len(s) + 1 /\ k \in Nat
      BY <2>1
    <3>2. k + 1 \in S => k + 1 <= k
      BY <2>2
    <3> QED
      BY <2>3, <3>1, <3>2
  <2>5. PICK f : DecodesFrom(s, k + 1, f)
    BY <2>4
  <2>6. \E g : DecodesFrom(s, k, g)
    BY <2>4, <2>5, OneMore
  <2> QED
    BY <2>2, <2>6
<1>2. \E f : DecodesFrom(s, 1, f)
  <2>1. 1 \in 1 .. Len(s) + 1 /\ 1 \notin S
    BY <1>1
  <2> QED
    BY <2>1
<1> QED
  BY <1>2 DEF From

LEMMA FromAt ==
    ASSUME NEW s, Len(s) \in Nat, NEW i \in 1 .. Len(s) + 1
    PROVE  From(s)[i] = Body(s, i, From(s))
BY FromExists DEF DecodesFrom

LEMMA FromEnd ==
    ASSUME NEW s, Len(s) \in Nat
    PROVE  From(s)[Len(s) + 1] = <<>>
<1>1. Len(s) + 1 \in 1 .. Len(s) + 1 /\ Len(s) + 1 > Len(s)
  OBVIOUS
<1>2. From(s)[Len(s) + 1] = Body(s, Len(s) + 1, From(s))
  BY <1>1, FromAt
<1> QED
  BY <1>1, <1>2 DEF Body

-----------------------------------------------------------------------------
(* What url_decode produces.                                               *)

\* Escape and Covered for any text.
EscapeIn(s, i) ==
    i + 2 <= Len(s) /\ s[i] = PERCENT /\ s[i + 1] \in HexDigits /\ s[i + 2] \in HexDigits
CoveredIn(s, i) == \E k \in 1 .. i - 1 : i - k <= 2 /\ EscapeIn(s, k)

\* What the character at i stands for.
Meant(s, i) == CASE EscapeIn(s, i) -> 16 * HexValue(s[i + 1]) + HexValue(s[i + 2])
                 [] ~EscapeIn(s, i) /\ s[i] = PLUS -> SPACE
                 [] OTHER -> s[i]

\* How many characters from a to b stand for one of the result.
Count(s, a, b) == Cardinality({j \in a .. b : ~CoveredIn(s, j)})

\* t is what the text means from i on.
MeantFrom(s, i, t) ==
    /\ t \in Seq(Byte)
    /\ Len(t) = Count(s, i, Len(s))
    /\ \A j \in i .. Len(s) : ~CoveredIn(s, j) => t[Count(s, i, j)] = Meant(s, j)

LEMMA HexDigit ==
    ASSUME NEW c \in HexDigits
    PROVE  c \in Nat /\ c # MINUS /\ HexValue(c) \in 0 .. 15
<1>1. c \in 48 .. 57 \/ c \in 65 .. 70 \/ c \in 97 .. 102
  BY DEF HexDigits
<1>2. CASE c \in 48 .. 57
  BY <1>2 DEF HexValue, MINUS
<1>3. CASE c \in 65 .. 70
  BY <1>3 DEF HexValue, MINUS
<1>4. CASE c \in 97 .. 102
  BY <1>4 DEF HexValue, MINUS
<1> QED
  BY <1>1, <1>2, <1>3, <1>4

LEMMA ByteNumber ==
    ASSUME NEW x \in 0 .. 15, NEW y \in 0 .. 15
    PROVE  16 * x + y \in 0 .. 255 /\ (16 * x + y) % 256 = 16 * x + y
OBVIOUS

LEMMA MeantByte ==
    ASSUME NEW s \in Seq(Byte), NEW i \in 1 .. Len(s), NoMinus(s)
    PROVE  /\ Meant(s, i) \in Byte
           /\ EscapeAt(s, i) <=> EscapeIn(s, i)
           /\ EscapeIn(s, i) => from_chars(s[i + 1], s[i + 2]) % 256 = Meant(s, i)
           /\ ~EscapeIn(s, i) => (IF s[i] = PLUS THEN SPACE ELSE s[i]) = Meant(s, i)
<1>1. EscapeAt(s, i) <=> EscapeIn(s, i)
  BY DEF EscapeAt, EscapeIn, Number, NoMinus
<1>2. CASE EscapeIn(s, i)
  <2> DEFINE a == s[i + 1]  b == s[i + 2]
  <2>1. a \in HexDigits /\ b \in HexDigits
    BY <1>2 DEF EscapeIn
  <2> HIDE DEF a, b
  <2>2. HexValue(a) \in 0 .. 15 /\ HexValue(b) \in 0 .. 15 /\ a # MINUS
    BY <2>1, HexDigit
  <2>3. from_chars(a, b) = 16 * HexValue(a) + HexValue(b)
    BY <2>2 DEF from_chars
  <2>4. from_chars(a, b) \in 0 .. 255 /\ from_chars(a, b) % 256 = from_chars(a, b)
    <3>1. /\ 16 * HexValue(a) + HexValue(b) \in 0 .. 255
          /\ (16 * HexValue(a) + HexValue(b)) % 256 = 16 * HexValue(a) + HexValue(b)
      BY <2>2, ByteNumber
    <3> QED
      BY <2>3, <3>1
  <2>5. Meant(s, i) = 16 * HexValue(a) + HexValue(b)
    BY <1>2 DEF Meant, a, b
  <2> QED
    BY <1>1, <1>2, <2>3, <2>4, <2>5 DEF Byte, a, b
<1>3. CASE ~EscapeIn(s, i)
  <2>1. s[i] \in Byte
    OBVIOUS
  <2>3. SPACE \in Byte
    BY DEF Byte, SPACE
  <2>2. Meant(s, i) = IF s[i] = PLUS THEN SPACE ELSE s[i]
    BY <1>3 DEF Meant
  <2> QED
    BY <1>1, <1>3, <2>1, <2>2, <2>3
<1> QED
  BY <1>2, <1>3

LEMMA CountOne ==
    ASSUME NEW s, NEW i \in Nat, NEW b \in Nat, NEW n \in Nat, i <= b, i < n,
           ~CoveredIn(s, i), \A j \in i + 1 .. n - 1 : CoveredIn(s, j)
    PROVE  Count(s, i, b) = 1 + Count(s, n, b) /\ Count(s, n, b) \in Nat
<1> DEFINE S == {j \in n .. b : ~CoveredIn(s, j)}
           T == {j \in i .. b : ~CoveredIn(s, j)}
<1>1. S \subseteq n .. b /\ IsFiniteSet(n .. b)
  BY FS_Interval
<1>2. IsFiniteSet(S)
  BY <1>1, FS_Subset
<1>3. T = S \cup {i} /\ i \notin S
  OBVIOUS
<1> HIDE DEF S, T
<1>4. Cardinality(S) \in Nat /\ Cardinality(T) = Cardinality(S) + 1
  BY <1>2, <1>3, FS_AddElement, FS_CardinalityType
<1> QED
  BY <1>4 DEF Count, S, T

LEMMA CountNone ==
    ASSUME NEW s, NEW i \in Nat, NEW b \in Int, b < i
    PROVE  Count(s, i, b) = 0
<1>1. {j \in i .. b : ~CoveredIn(s, j)} = {}
  OBVIOUS
<1> QED
  BY <1>1, FS_EmptySet DEF Count

LEMMA CountIn ==
    ASSUME NEW s, NEW i \in Nat, NEW b \in Nat, NEW j \in i .. b, ~CoveredIn(s, j)
    PROVE  Count(s, i, j) \in 1 .. Count(s, i, b) /\ Count(s, i, b) \in Nat
<1> DEFINE S == {k \in i .. j : ~CoveredIn(s, k)}
           T == {k \in i .. b : ~CoveredIn(s, k)}
<1>1. IsFiniteSet(i .. b) /\ T \subseteq i .. b
  BY FS_Interval
<1>2. S \subseteq T /\ {j} \subseteq S
  OBVIOUS
<1> HIDE DEF S, T
<1>3. IsFiniteSet(T)
  BY <1>1, FS_Subset
<1>4. IsFiniteSet(S) /\ Cardinality(S) <= Cardinality(T)
  BY <1>2, <1>3, FS_Subset
<1>5. Cardinality({j}) <= Cardinality(S) /\ Cardinality({j}) = 1
  BY <1>2, <1>4, FS_Subset, FS_Singleton
<1>6. Cardinality(S) \in Nat /\ Cardinality(T) \in Nat
  BY <1>3, <1>4, FS_CardinalityType
<1> QED
  BY <1>4, <1>5, <1>6 DEF Count, S, T

\* One character more, and the n - i - 1 it covers.
LEMMA MeantStep ==
    ASSUME NEW s \in Seq(Byte), NEW i \in 1 .. Len(s), NEW n \in Nat, i < n, NEW t,
           ~CoveredIn(s, i), \A j \in i + 1 .. n - 1 : CoveredIn(s, j),
           MeantFrom(s, n, t), Meant(s, i) \in Byte
    PROVE  MeantFrom(s, i, <<Meant(s, i)>> \o t)
<1> DEFINE x == Meant(s, i)
<1> HIDE DEF x
<1>1. x \in Byte /\ t \in Seq(Byte) /\ i \in Nat /\ Len(s) \in Nat /\ i <= Len(s)
  BY DEF MeantFrom, x
<1>2. PICK u : u = <<x>> \o t
  OBVIOUS
<1>3. /\ u \in Seq(Byte) /\ Len(u) = 1 + Len(t) /\ Len(t) \in Nat
      /\ u[1] = x /\ \A k \in 1 .. Len(t) : u[1 + k] = t[k]
  BY <1>1, <1>2
<1>4. Count(s, i, Len(s)) = 1 + Count(s, n, Len(s)) /\ Count(s, n, Len(s)) \in Nat
  BY <1>1, CountOne
<1>5. Len(u) = Count(s, i, Len(s)) /\ Len(t) = Count(s, n, Len(s))
  BY <1>3, <1>4 DEF MeantFrom
<1>6. ASSUME NEW j \in i .. Len(s), ~CoveredIn(s, j)
      PROVE  u[Count(s, i, j)] = Meant(s, j)
  <2>1. j \in Nat /\ i <= j
    BY <1>1
  <2>2. Count(s, i, j) = 1 + Count(s, n, j) /\ Count(s, n, j) \in Nat
    BY <1>1, <2>1, CountOne
  <2>3. CASE j = i
    <3>1. Count(s, n, j) = 0
      BY <1>1, <2>1, <2>3, CountNone
    <3> QED
      BY <1>3, <2>2, <2>3, <3>1 DEF x
  <2>4. CASE j # i
    <3>1. j \in n .. Len(s)
      BY <1>1, <1>6, <2>1, <2>4
    <3>2. Count(s, n, j) \in 1 .. Len(t)
      BY <1>1, <1>5, <1>6, <3>1, CountIn
    <3>3. t[Count(s, n, j)] = Meant(s, j)
      BY <1>6, <3>1 DEF MeantFrom
    <3> QED
      BY <1>3, <2>2, <3>2, <3>3
  <2> QED
    BY <2>3, <2>4
<1>7. MeantFrom(s, i, u)
  BY <1>3, <1>5, <1>6 DEF MeantFrom
<1> QED
  BY <1>2, <1>7 DEF x

\* The digits of an escape begin no escape.
LEMMA NextPlace ==
    ASSUME NEW s, Len(s) \in Nat, NEW i \in 1 .. Len(s), ~CoveredIn(s, i)
    PROVE  /\ EscapeIn(s, i) =>
                 /\ i + 3 <= Len(s) + 1 /\ ~CoveredIn(s, i + 3)
                 /\ \A j \in i + 1 .. i + 2 : CoveredIn(s, j)
           /\ ~EscapeIn(s, i) => ~CoveredIn(s, i + 1)
<1>1. ASSUME EscapeIn(s, i)
      PROVE  /\ i + 3 <= Len(s) + 1 /\ ~CoveredIn(s, i + 3)
             /\ \A j \in i + 1 .. i + 2 : CoveredIn(s, j)
  <2>1. i + 2 <= Len(s) /\ s[i + 1] \in HexDigits /\ s[i + 2] \in HexDigits
    BY <1>1 DEF EscapeIn
  <2>2. \A c \in HexDigits : c # PERCENT
    BY DEF HexDigits, PERCENT
  <2>3. ~EscapeIn(s, i + 1) /\ ~EscapeIn(s, i + 2)
    BY <2>1, <2>2 DEF EscapeIn
  <2>4. \A k \in 1 .. i + 2 : i + 3 - k <= 2 => k = i + 1 \/ k = i + 2
    OBVIOUS
  <2>5. ~CoveredIn(s, i + 3)
    <3>1. 1 .. (i + 3) - 1 = 1 .. i + 2
      OBVIOUS
    <3> QED
      BY <2>3, <2>4, <3>1 DEF CoveredIn
  <2>6. ASSUME NEW j \in i + 1 .. i + 2 PROVE CoveredIn(s, j)
    <3>1. i \in 1 .. j - 1 /\ j - i <= 2
      OBVIOUS
    <3> QED
      BY <1>1, <3>1 DEF CoveredIn
  <2> QED
    BY <2>1, <2>5, <2>6
<1>2. ASSUME ~EscapeIn(s, i), CoveredIn(s, i + 1) PROVE FALSE
  <2>1. PICK k \in 1 .. (i + 1) - 1 : (i + 1) - k <= 2 /\ EscapeIn(s, k)
    BY <1>2 DEF CoveredIn
  <2>2. k \in 1 .. i - 1 /\ i - k <= 2
    BY <1>2, <2>1
  <2> QED
    BY <2>1, <2>2 DEF CoveredIn
<1> QED
  BY <1>1, <1>2

LEMMA DecodedOneMore ==
    ASSUME NEW s \in Seq(Byte), NoMinus(s), NEW i \in 1 .. Len(s), ~CoveredIn(s, i),
           \A n \in i + 1 .. Len(s) + 1 : ~CoveredIn(s, n) => MeantFrom(s, n, From(s)[n])
    PROVE  MeantFrom(s, i, From(s)[i])
<1>1. Len(s) \in Nat /\ i \in Nat
  OBVIOUS
<1>2. /\ Meant(s, i) \in Byte
      /\ EscapeAt(s, i) <=> EscapeIn(s, i)
      /\ EscapeIn(s, i) => from_chars(s[i + 1], s[i + 2]) % 256 = Meant(s, i)
      /\ ~EscapeIn(s, i) => (IF s[i] = PLUS THEN SPACE ELSE s[i]) = Meant(s, i)
  BY MeantByte
<1>3. From(s)[i] = Body(s, i, From(s)) /\ ~(i > Len(s))
  BY <1>1, FromAt
<1>4. CASE EscapeIn(s, i)
  <2>1. /\ i + 3 \in i + 1 .. Len(s) + 1 /\ ~CoveredIn(s, i + 3)
        /\ \A j \in i + 1 .. (i + 3) - 1 : CoveredIn(s, j)
    BY <1>1, <1>4, NextPlace
  <2>2. MeantFrom(s, i + 3, From(s)[i + 3])
    BY <2>1
  <2>3. From(s)[i] = <<Meant(s, i)>> \o From(s)[i + 3]
    BY <1>2, <1>3, <1>4 DEF Body
  <2>4. i + 3 \in Nat /\ i < i + 3
    BY <1>1
  <2>5. MeantFrom(s, i, <<Meant(s, i)>> \o From(s)[i + 3])
    BY <1>2, <2>1, <2>2, <2>4, MeantStep
  <2> QED
    BY <2>3, <2>5
<1>5. CASE ~EscapeIn(s, i)
  <2>1. /\ i + 1 \in i + 1 .. Len(s) + 1 /\ ~CoveredIn(s, i + 1)
        /\ \A j \in i + 1 .. (i + 1) - 1 : CoveredIn(s, j)
    BY <1>1, <1>5, NextPlace
  <2>2. MeantFrom(s, i + 1, From(s)[i + 1])
    BY <2>1
  <2>3. From(s)[i] = <<Meant(s, i)>> \o From(s)[i + 1]
    BY <1>2, <1>3, <1>5 DEF Body
  <2>4. i + 1 \in Nat /\ i < i + 1
    BY <1>1
  <2>5. MeantFrom(s, i, <<Meant(s, i)>> \o From(s)[i + 1])
    BY <1>2, <2>1, <2>2, <2>4, MeantStep
  <2> QED
    BY <2>3, <2>5
<1> QED
  BY <1>4, <1>5

LEMMA DecodedMeant ==
    ASSUME NEW s \in Seq(Byte), NoMinus(s)
    PROVE  MeantFrom(s, 1, url_decode(s))
<1> DEFINE right(i) == MeantFrom(s, i, From(s)[i])
           S == {i \in 1 .. Len(s) + 1 : ~CoveredIn(s, i) /\ ~right(i)}
<1> HIDE DEF right
<1>1. Len(s) \in Nat
  OBVIOUS
<1>2. ASSUME S # {} PROVE FALSE
  <2>1. S \in SUBSET (1 .. Len(s) + 1) /\ Len(s) + 1 \in Nat
    BY <1>1
  <2>2. PICK i \in S : \A y \in S : y <= i
    <3> HIDE DEF S
    <3> QED
      BY <1>2, <2>1, GreatestOne
  <2>3. i \in 1 .. Len(s) + 1 /\ ~CoveredIn(s, i) /\ ~right(i)
    BY <2>2
  <2>4. \A n \in i + 1 .. Len(s) + 1 : ~CoveredIn(s, n) => right(n)
    BY <1>1, <2>2, <2>3
  <2>5. i # Len(s) + 1
    <3>1. From(s)[Len(s) + 1] = <<>>
      BY <1>1, FromEnd
    <3>2. Count(s, Len(s) + 1, Len(s)) = 0
      BY <1>1, CountNone
    <3>3. right(Len(s) + 1)
      BY <1>1, <3>1, <3>2 DEF right, MeantFrom
    <3> QED
      BY <2>3, <3>3
  <2>6. i \in 1 .. Len(s)
    BY <1>1, <2>3, <2>5
  <2>7. right(i)
    BY <2>3, <2>4, <2>6, DecodedOneMore DEF right
  <2> QED
    BY <2>3, <2>7
<1>3. ~CoveredIn(s, 1)
  BY DEF CoveredIn
<1>4. right(1)
  BY <1>1, <1>2, <1>3
<1> QED
  BY <1>4, DecodeIsFrom DEF right

\* The inductive invariant of the run, as far as url_decode goes.
Decoding ==
    /\ input \in Inputs
    /\ fn = "url_decode" =>
          \/ pos = 1 /\ out = <<>>
          \/ pos = Len(text) + 1 /\ out = url_decode(text)

LEMMA DecodingKept == Decoding /\ [UtilNext]_utilVars => Decoding'
<1> SUFFICES ASSUME Decoding, [UtilNext]_utilVars PROVE Decoding'
  OBVIOUS
<1>1. CASE token_pair
  BY <1>1 DEF token_pair, Parsing, NextToken, Decoding
<1>2. CASE token_bare
  BY <1>2 DEF token_bare, Parsing, NextToken, Decoding
<1>3. CASE decode
  BY <1>3 DEF decode, Decoding, text
<1>4. CASE UNCHANGED utilVars
  BY <1>4 DEF utilVars, Decoding, text
<1> QED
  BY <1>1, <1>2, <1>3, <1>4 DEF UtilNext

THEOREM AlwaysDecoding == UtilSpec => []Decoding
<1>1. UtilInit => Decoding
  BY DEF UtilInit, Decoding
<1> QED
  BY <1>1, DecodingKept, PTL DEF UtilSpec

\* url_decode yields, for each character that no escape covers, what it stands
\* for, in their order, and nothing else.
THEOREM DecodeRight == ASSUME NoSignedEscape PROVE UtilSpec => []DecodeExact
<1>1. ASSUME Decoding, fn = "url_decode", Done PROVE DecodeExact
  <2>1. text \in Seq(Byte) /\ NoMinus(text) /\ Len(text) \in Nat
    BY <1>1, InputsAssumption DEF Decoding, text, NoSignedEscape
  <2>2. out = url_decode(text)
    <3>1. CASE pos = 1
      <4>1. Len(text) = 0
        BY <1>1, <2>1, <3>1 DEF Done
      <4>2. url_decode(text) = <<>>
        BY <2>1, <4>1, FromEnd, DecodeIsFrom
      <4> QED
        BY <1>1, <3>1, <4>1, <4>2 DEF Decoding
    <3> QED
      BY <1>1, <3>1 DEF Decoding
  <2>3. MeantFrom(text, 1, out)
    BY <2>1, <2>2, DecodedMeant
  <2>4. \A i : (Escape(i) <=> EscapeIn(text, i)) /\ (Covered(i) <=> CoveredIn(text, i))
    BY DEF Escape, EscapeIn, Covered, CoveredIn
  <2> DEFINE place(i) == Cardinality({j \in 1 .. i : ~Covered(j)})
  <2>5. \A i : place(i) = Count(text, 1, i)
    BY <2>4 DEF Count
  <2> HIDE DEF place
  <2>6. Len(out) = place(Len(text))
    BY <2>3, <2>5 DEF MeantFrom
  <2>7. ASSUME NEW i \in 1 .. Len(text), ~Covered(i)
        PROVE  out[place(i)] =
                   CASE Escape(i) -> 16 * HexValue(text[i + 1]) + HexValue(text[i + 2])
                     [] ~Escape(i) /\ text[i] = PLUS -> SPACE
                     [] OTHER -> text[i]
    BY <2>3, <2>4, <2>5, <2>7 DEF MeantFrom, Meant
  <2> QED
    BY <2>6, <2>7 DEF DecodeExact, place
<1>2. Decoding => DecodeExact
  BY <1>1 DEF DecodeExact
<1> QED
  BY <1>2, AlwaysDecoding, PTL

-----------------------------------------------------------------------------
(* Cutting a text into tokens, and a token at its first '='.               *)

IsFirst(s, c, i, k) ==
    /\ k \in i .. Len(s) + 1
    /\ k = Len(s) + 1 \/ s[k] = c
    /\ \A j \in i .. k - 1 : s[j] # c

LEMMA FindFirst ==
    ASSUME NEW s, Len(s) \in Nat, NEW c, NEW i \in 1 .. Len(s) + 1
    PROVE  IsFirst(s, c, i, Find(s, c, i))
<1> DEFINE S == {k \in i .. Len(s) + 1 : k = Len(s) + 1 \/ s[k] = c}
<1>1. S \in SUBSET Nat /\ S # {}
  <2>1. Len(s) + 1 \in S
    OBVIOUS
  <2> QED
    BY <2>1
<1>2. PICK k \in S : \A y \in S : k <= y
  <2> HIDE DEF S
  <2> QED
    BY <1>1, LeastOne
<1>3. k \in i .. Len(s) + 1 /\ (k = Len(s) + 1 \/ s[k] = c)
  BY <1>2
<1>4. ASSUME NEW j \in i .. k - 1 PROVE s[j] # c
  <2>1. j \in i .. Len(s) + 1 /\ ~(k <= j)
    BY <1>3
  <2> QED
    BY <1>2, <2>1
<1> QED
  BY <1>3, <1>4 DEF Find, IsFirst

LEMMA FindIs ==
    ASSUME NEW s, Len(s) \in Nat, NEW c, NEW i \in 1 .. Len(s) + 1, NEW k, IsFirst(s, c, i, k)
    PROVE  Find(s, c, i) = k
<1> DEFINE m == Find(s, c, i)
<1>1. IsFirst(s, c, i, m)
  BY FindFirst
<1> HIDE DEF m
<1>2. m \in Int /\ k \in Int /\ m \in i .. Len(s) + 1 /\ k \in i .. Len(s) + 1
  BY <1>1 DEF IsFirst
<1>3. ~(m < k)
  BY <1>1, <1>2 DEF IsFirst
<1>4. ~(k < m)
  BY <1>1, <1>2 DEF IsFirst
<1>5. m = k
  BY <1>2, <1>3, <1>4
<1> QED
  BY <1>5 DEF m

Part(s, i, j) == SubSeq(s, i, j)

LEMMA PartOf ==
    ASSUME NEW s \in Seq(Byte), NEW i \in 1 .. Len(s) + 1, NEW j \in i - 1 .. Len(s)
    PROVE  /\ Part(s, i, j) \in Seq(Byte) /\ Len(Part(s, i, j)) = j - i + 1
           /\ \A k \in 1 .. j - i + 1 : Part(s, i, j)[k] = s[i + k - 1]
<1>1. \A k \in i .. j : s[k] \in Byte
  OBVIOUS
<1>2. i \in Int /\ j \in Int
  OBVIOUS
<1>3. /\ SubSeq(s, i, j) \in Seq(Byte)
      /\ Len(SubSeq(s, i, j)) = IF i <= j THEN j - i + 1 ELSE 0
      /\ \A k \in 1 .. j - i + 1 : SubSeq(s, i, j)[k] = s[i + k - 1]
  BY <1>1, <1>2, SubSeqProperties
<1> QED
  BY <1>2, <1>3 DEF Part

LEMMA PartOfPart ==
    ASSUME NEW s \in Seq(Byte), NEW i \in 1 .. Len(s) + 1, NEW j \in i - 1 .. Len(s),
           NEW t, t = Part(s, i, j), NEW m \in 1 .. Len(t) + 1, NEW n \in m - 1 .. Len(t)
    PROVE  Part(t, m, n) = Part(s, i + m - 1, i + n - 1)
<1> DEFINE u == Part(t, m, n)
           v == Part(s, i + m - 1, i + n - 1)
<1> HIDE DEF u, v
<1>1. /\ t \in Seq(Byte) /\ Len(t) = j - i + 1 /\ Len(t) \in Nat
      /\ \A k \in 1 .. Len(t) : t[k] = s[i + k - 1]
  <2>1. /\ t \in Seq(Byte) /\ Len(t) = j - i + 1
        /\ \A k \in 1 .. j - i + 1 : t[k] = s[i + k - 1]
    BY PartOf
  <2>2. j - i + 1 \in Nat
    OBVIOUS
  <2> QED
    BY <2>1, <2>2
<1>2. u \in Seq(Byte) /\ Len(u) = n - m + 1 /\ \A k \in 1 .. n - m + 1 : u[k] = t[m + k - 1]
  BY <1>1, PartOf DEF u
<1>3. PICK x, y : x = i + m - 1 /\ y = i + n - 1
  OBVIOUS
<1>4. x \in 1 .. Len(s) + 1 /\ y \in x - 1 .. Len(s) /\ y - x + 1 = n - m + 1
  BY <1>1, <1>3
<1>5. v \in Seq(Byte) /\ Len(v) = y - x + 1 /\ \A k \in 1 .. y - x + 1 : v[k] = s[x + k - 1]
  BY <1>3, <1>4, PartOf DEF v
<1>6. ASSUME NEW k \in 1 .. n - m + 1 PROVE u[k] = v[k]
  <2>1. m + k - 1 \in 1 .. Len(t) /\ i + (m + k - 1) - 1 = x + k - 1
    BY <1>1, <1>3
  <2>2. u[k] = t[m + k - 1] /\ v[k] = s[x + k - 1]
    BY <1>2, <1>4, <1>5
  <2>3. t[m + k - 1] = s[i + (m + k - 1) - 1]
    BY <1>1, <2>1
  <2> QED
    BY <2>1, <2>2, <2>3
<1>7. u = v
  <2>1. Len(u) = Len(v) /\ Len(u) = n - m + 1
    BY <1>2, <1>4, <1>5
  <2> QED
    BY <1>2, <1>5, <1>6, <2>1, SeqEqual
<1> QED
  BY <1>7 DEF u, v

\* Token, HasEq, Key and Value for any text and place.
TokenAt(s, p) == SubSeq(s, p, Find(s, AMP, p) - 1)
EqAt(s, p)    == Find(TokenAt(s, p), EQUALS, 1)
HasEqAt(s, p) == EqAt(s, p) <= Len(TokenAt(s, p))
KeyAt(s, p)   == SubSeq(TokenAt(s, p), 1, EqAt(s, p) - 1)
ValueAt(s, p) == SubSeq(TokenAt(s, p), EqAt(s, p) + 1, Len(TokenAt(s, p)))

\* The token at p ends before k, and its key before q.
CutAt(s, p, q, k) ==
    /\ IsFirst(s, AMP, p, k) /\ Find(s, AMP, p) = k
    /\ q \in p .. k /\ (q < k => s[q] = EQUALS)
    /\ \A j \in p .. q - 1 : s[j] # AMP /\ s[j] # EQUALS
    /\ TokenAt(s, p) = Part(s, p, k - 1) /\ (TokenAt(s, p) # <<>> <=> p < k)
    /\ HasEqAt(s, p) <=> q < k
    /\ q < k => KeyAt(s, p) = Part(s, p, q - 1) /\ ValueAt(s, p) = Part(s, q + 1, k - 1)

LEMMA TokenCut ==
    ASSUME NEW s \in Seq(Byte), NEW p \in 1 .. Len(s)
    PROVE  \E q, k : CutAt(s, p, q, k)
<1> DEFINE k == Find(s, AMP, p)
           t == TokenAt(s, p)
           e == EqAt(s, p)
           q == p + e - 1
<1>1. Len(s) \in Nat /\ p \in 1 .. Len(s) + 1 /\ p \in Nat
  OBVIOUS
<1>2. IsFirst(s, AMP, p, k)
  BY <1>1, FindFirst
<1>3. t = Part(s, p, k - 1)
  BY DEF TokenAt, Part
<1>4. e = Find(t, EQUALS, 1)
  BY DEF EqAt
<1> HIDE DEF k, t, e
<1>5. k \in p .. Len(s) + 1 /\ k \in Nat /\ k - 1 \in p - 1 .. Len(s)
  BY <1>1, <1>2 DEF IsFirst
<1>6. t \in Seq(Byte) /\ Len(t) = k - p /\ Len(t) \in Nat /\ \A j \in 1 .. Len(t) : t[j] = s[p + j - 1]
  <2>1. /\ t \in Seq(Byte) /\ Len(t) = (k - 1) - p + 1
        /\ \A j \in 1 .. (k - 1) - p + 1 : t[j] = s[p + j - 1]
    BY <1>1, <1>3, <1>5, PartOf
  <2>2. (k - 1) - p + 1 = k - p /\ k - p \in Nat
    BY <1>1, <1>5
  <2> QED
    BY <2>1, <2>2
<1>7. IsFirst(t, EQUALS, 1, e)
  BY <1>4, <1>6, FindFirst
<1>8. e \in 1 .. Len(t) + 1 /\ e \in Nat /\ q \in p .. k /\ (q < k <=> e <= Len(t))
  BY <1>1, <1>5, <1>6, <1>7 DEF IsFirst
<1>9. q < k => s[q] = EQUALS
  BY <1>6, <1>7, <1>8 DEF IsFirst
<1>10. ASSUME NEW j \in p .. q - 1 PROVE s[j] # AMP /\ s[j] # EQUALS
  <2>1. j \in p .. k - 1 /\ j - p + 1 \in 1 .. e - 1 /\ j - p + 1 \in 1 .. Len(t)
    BY <1>1, <1>5, <1>6, <1>8
  <2>2. t[j - p + 1] = s[p + (j - p + 1) - 1] /\ p + (j - p + 1) - 1 = j
    <3>1. p + (j - p + 1) - 1 = j
      BY <1>1, <2>1
    <3> QED
      BY <1>6, <2>1, <3>1
  <2> QED
    BY <1>2, <1>7, <2>1, <2>2 DEF IsFirst
<1>11. t # <<>> <=> p < k
  BY <1>1, <1>5, <1>6
<1>12. HasEqAt(s, p) <=> q < k
  BY <1>8 DEF HasEqAt, t, e
<1>13. ASSUME q < k PROVE KeyAt(s, p) = Part(s, p, q - 1) /\ ValueAt(s, p) = Part(s, q + 1, k - 1)
  <2>1. 1 \in 1 .. Len(t) + 1 /\ e - 1 \in 1 - 1 .. Len(t) /\ p + 1 - 1 = p /\ p + (e - 1) - 1 = q - 1
    BY <1>1, <1>6, <1>8
  <2>2. Part(t, 1, e - 1) = Part(s, p + 1 - 1, p + (e - 1) - 1)
    BY <1>1, <1>3, <1>5, <2>1, PartOfPart
  <2>3. /\ e + 1 \in 1 .. Len(t) + 1 /\ Len(t) \in (e + 1) - 1 .. Len(t)
        /\ p + (e + 1) - 1 = q + 1 /\ p + Len(t) - 1 = k - 1
    BY <1>1, <1>5, <1>6, <1>8, <1>13
  <2>4. Part(t, e + 1, Len(t)) = Part(s, p + (e + 1) - 1, p + Len(t) - 1)
    BY <1>1, <1>3, <1>5, <2>3, PartOfPart
  <2> QED
    BY <2>1, <2>2, <2>3, <2>4 DEF KeyAt, ValueAt, Part, t, e
<1>14. CutAt(s, p, q, k)
  BY <1>2, <1>3, <1>8, <1>9, <1>10, <1>11, <1>12, <1>13 DEF CutAt, Part, k, t
<1> QED
  BY <1>14

-----------------------------------------------------------------------------
(* The keys of a list of pairs.                                            *)

\* From a to z - 1 there is a key; in a form a key need have no '='.
KeySpan(s, form, a, z) ==
    /\ a \in 1 .. Len(s) /\ (a = 1 \/ s[a - 1] = AMP)
    /\ z \in a .. Len(s) + 1 /\ \A k \in a .. z - 1 : s[k] # AMP /\ s[k] # EQUALS
    /\ \/ z <= Len(s) /\ s[z] = EQUALS
       \/ form /\ a < z /\ (z = Len(s) + 1 \/ s[z] = AMP)

\* w is a key that begins before b.
IsKey(s, form, b, w) ==
    \E a, z : KeySpan(s, form, a, z) /\ a < b /\ w = url_decode(Part(s, a, z - 1))

LEMMA KeyHere ==
    ASSUME NEW s \in Seq(Byte), NEW p \in 1 .. Len(s), NEW form,
           p = 1 \/ s[p - 1] = AMP, NEW q, NEW k, CutAt(s, p, q, k)
    PROVE  /\ q < k \/ (form /\ p < k) => KeySpan(s, form, p, q)
           /\ \A z : KeySpan(s, form, p, z) => z = q /\ (q < k \/ (form /\ p < k))
           /\ \A a, z : KeySpan(s, form, a, z) /\ a < k + 1 => a <= p
<1>1. /\ Len(s) \in Nat /\ p \in Nat /\ k \in p .. Len(s) + 1 /\ k \in Nat
      /\ q \in p .. k /\ q \in Nat /\ AMP # EQUALS
      /\ k = Len(s) + 1 \/ s[k] = AMP
      /\ \A j \in p .. k - 1 : s[j] # AMP
  BY DEF CutAt, IsFirst, AMP, EQUALS
<1>2. (q < k => s[q] = EQUALS) /\ \A j \in p .. q - 1 : s[j] # AMP /\ s[j] # EQUALS
  BY DEF CutAt
<1>3. ASSUME q < k \/ (form /\ p < k) PROVE KeySpan(s, form, p, q)
  BY <1>1, <1>2, <1>3 DEF KeySpan
<1>4. ASSUME NEW z, KeySpan(s, form, p, z) PROVE z = q /\ (q < k \/ (form /\ p < k))
  <2>1. /\ z \in p .. Len(s) + 1 /\ z \in Nat
        /\ \A j \in p .. z - 1 : s[j] # AMP /\ s[j] # EQUALS
        /\ \/ z <= Len(s) /\ s[z] = EQUALS
           \/ form /\ p < z /\ (z = Len(s) + 1 \/ s[z] = AMP)
    BY <1>1, <1>4 DEF KeySpan
  <2>2. ~(z < q)
    BY <1>1, <1>2, <2>1
  <2>3. ~(q < z)
    BY <1>1, <1>2, <2>1
  <2>4. z = q
    BY <1>1, <2>1, <2>2, <2>3
  <2> QED
    BY <1>1, <2>1, <2>4
<1>5. ASSUME NEW a, NEW z, KeySpan(s, form, a, z), a < k + 1 PROVE a <= p
  <2>1. a \in 1 .. Len(s) /\ a \in Nat /\ (a = 1 \/ s[a - 1] = AMP)
    BY <1>5 DEF KeySpan
  <2>2. a > p => a # 1 /\ a - 1 \in p .. k - 1
    BY <1>1, <1>5, <2>1
  <2> QED
    BY <1>1, <2>1, <2>2
<1> QED
  BY <1>3, <1>4, <1>5

\* One token more.
LEMMA KeysNext ==
    ASSUME NEW s \in Seq(Byte), NEW p \in 1 .. Len(s), NEW form,
           p = 1 \/ s[p - 1] = AMP, NEW q, NEW k, CutAt(s, p, q, k), NEW w
    PROVE  IsKey(s, form, k + 1, w) <=>
               \/ IsKey(s, form, p, w)
               \/ (q < k \/ (form /\ p < k)) /\ w = url_decode(Part(s, p, q - 1))
<1>1. p \in Nat /\ k \in p .. Len(s) + 1 /\ k \in Nat
  BY DEF CutAt, IsFirst
<1>2. ASSUME NEW a, NEW z, KeySpan(s, form, a, z), a < k + 1 PROVE a < p \/ a = p
  <2>1. a \in Nat
    BY <1>2 DEF KeySpan
  <2>2. a <= p
    BY <1>2, KeyHere
  <2> QED
    BY <1>1, <2>1, <2>2
<1>3. \A z : KeySpan(s, form, p, z) => z = q /\ (q < k \/ (form /\ p < k))
  BY KeyHere
<1>4. q < k \/ (form /\ p < k) => KeySpan(s, form, p, q)
  BY KeyHere
<1>5. ASSUME IsKey(s, form, k + 1, w)
      PROVE  \/ IsKey(s, form, p, w)
             \/ (q < k \/ (form /\ p < k)) /\ w = url_decode(Part(s, p, q - 1))
  <2>1. PICK a, z : KeySpan(s, form, a, z) /\ a < k + 1 /\ w = url_decode(Part(s, a, z - 1))
    BY <1>5 DEF IsKey
  <2>2. CASE a < p
    BY <2>1, <2>2 DEF IsKey
  <2>3. CASE a = p
    BY <1>3, <2>1, <2>3
  <2> QED
    BY <1>2, <2>1, <2>2, <2>3
<1>6. ASSUME IsKey(s, form, p, w) PROVE IsKey(s, form, k + 1, w)
  <2>1. PICK a, z : KeySpan(s, form, a, z) /\ a < p /\ w = url_decode(Part(s, a, z - 1))
    BY <1>6 DEF IsKey
  <2>2. a \in Nat
    BY <2>1 DEF KeySpan
  <2>3. a < k + 1
    BY <1>1, <2>1, <2>2
  <2> QED
    BY <2>1, <2>3 DEF IsKey
<1>7. ASSUME q < k \/ (form /\ p < k), w = url_decode(Part(s, p, q - 1))
      PROVE  IsKey(s, form, k + 1, w)
  <2>1. p < k + 1
    BY <1>1
  <2> QED
    BY <1>4, <1>7, <2>1 DEF IsKey
<1> QED
  BY <1>5, <1>6, <1>7

\* The keys of o are those that begin before p, where a token may begin.
KeysHold(s, form, p, o) ==
    /\ p \in 1 .. Len(s) + 2 /\ (p <= Len(s) => p = 1 \/ s[p - 1] = AMP)
    /\ \A w : w \in DOMAIN o <=> IsKey(s, form, p, w)

Form == fn = "parse_form_urlencoded"

\* The inductive invariant.
KeysSoFar ==
    /\ input \in Inputs
    /\ fn # "url_decode" => KeysHold(text, Form, pos, out)

\* What both kinds of token do, in terms of the cut.
LEMMA TokenStep ==
    ASSUME NEW s \in Seq(Byte), text = s, Parsing, pos \in 1 .. Len(s) + 2,
           NEW q, NEW k, CutAt(s, pos, q, k), [UtilNext]_utilVars, ~UNCHANGED utilVars
    PROVE  /\ pos \in 1 .. Len(s) /\ pos' = k + 1 /\ input' = input /\ fn' = fn
           /\ q < k => out' = Put(out, url_decode(Part(s, pos, q - 1)), url_decode(Part(s, q + 1, k - 1)))
           /\ ~(q < k) => out' = IF Form /\ pos < k
                                 THEN Put(out, url_decode(Part(s, pos, k - 1)), <<>>) ELSE out
<1>1. pos \in 1 .. Len(s)
  BY DEF Parsing, Done
<1>2. /\ Token = TokenAt(s, pos) /\ (HasEq <=> HasEqAt(s, pos))
      /\ Key = KeyAt(s, pos) /\ Value = ValueAt(s, pos)
  BY DEF Token, HasEq, Key, Value, TokenAt, HasEqAt, EqAt, KeyAt, ValueAt
<1>3. /\ Find(text, AMP, pos) = k /\ (HasEq <=> q < k)
      /\ Token = Part(s, pos, k - 1) /\ (Token # <<>> <=> pos < k)
      /\ q < k => Key = Part(s, pos, q - 1) /\ Value = Part(s, q + 1, k - 1)
  BY <1>2 DEF CutAt
<1>4. CASE token_pair
  BY <1>1, <1>3, <1>4 DEF token_pair, NextToken
<1>5. CASE token_bare
  BY <1>1, <1>3, <1>5 DEF token_bare, NextToken, Form
<1>6. ~decode
  BY DEF decode, Parsing
<1> QED
  BY <1>4, <1>5, <1>6 DEF UtilNext

LEMMA KeysKept == KeysSoFar /\ [UtilNext]_utilVars => KeysSoFar'
<1> SUFFICES ASSUME KeysSoFar, [UtilNext]_utilVars PROVE KeysSoFar'
  OBVIOUS
<1>1. CASE fn = "url_decode"
  BY <1>1 DEF KeysSoFar, UtilNext, token_pair, token_bare, decode, Parsing, utilVars
<1>2. CASE UNCHANGED utilVars
  BY <1>2 DEF KeysSoFar, utilVars, text, Form
<1>3. CASE fn # "url_decode" /\ ~UNCHANGED utilVars
  <2>1. PICK s : s = text
    OBVIOUS
  <2>2. PICK form : form = Form
    OBVIOUS
  <2>3. s \in Seq(Byte) /\ Len(s) \in Nat
    BY <2>1, InputsAssumption DEF KeysSoFar, text
  <2>4. Parsing /\ pos \in 1 .. Len(s) + 2
    BY <1>3, <2>1 DEF KeysSoFar, KeysHold, UtilNext, token_pair, token_bare, decode, Parsing
  <2>5. PICK p : p = pos
    OBVIOUS
  <2>6. p \in 1 .. Len(s) /\ (p = 1 \/ s[p - 1] = AMP)
    BY <1>3, <2>1, <2>3, <2>4, <2>5 DEF KeysSoFar, KeysHold, Parsing, Done
  <2>7. PICK q, k : CutAt(s, p, q, k)
    BY <2>3, <2>6, TokenCut
  <2>8. /\ pos' = k + 1 /\ input' = input /\ fn' = fn
        /\ q < k => out' = Put(out, url_decode(Part(s, p, q - 1)), url_decode(Part(s, q + 1, k - 1)))
        /\ ~(q < k) => out' = IF form /\ p < k
                              THEN Put(out, url_decode(Part(s, p, k - 1)), <<>>) ELSE out
    BY <1>3, <2>1, <2>2, <2>3, <2>4, <2>5, <2>7, TokenStep
  <2>9. k \in p .. Len(s) + 1 /\ k \in Nat /\ (k = Len(s) + 1 \/ s[k] = AMP) /\ q \in p .. k
    BY <2>6, <2>7 DEF CutAt, IsFirst
  <2>10. \A w : w \in DOMAIN out <=> IsKey(s, form, p, w)
    BY <1>3, <2>1, <2>2, <2>5 DEF KeysSoFar, KeysHold
  <2>11. ASSUME NEW w PROVE w \in DOMAIN out' <=> IsKey(s, form, k + 1, w)
    <3>1. IsKey(s, form, k + 1, w) <=>
              \/ w \in DOMAIN out
              \/ (q < k \/ (form /\ p < k)) /\ w = url_decode(Part(s, p, q - 1))
      BY <2>3, <2>6, <2>7, <2>10, KeysNext
    <3>2. CASE q < k
      BY <2>8, <3>1, <3>2 DEF Put
    <3>3. CASE ~(q < k)
      <4>1. q = k
        BY <2>6, <2>9, <3>3
      <4> QED
        BY <2>8, <3>1, <3>3, <4>1 DEF Put
    <3> QED
      BY <3>2, <3>3
  <2>12. k + 1 \in 1 .. Len(s) + 2 /\ (k + 1 <= Len(s) => k + 1 = 1 \/ s[(k + 1) - 1] = AMP)
    <3>1. (k + 1) - 1 = k
      BY <2>9
    <3> QED
      BY <2>3, <2>6, <2>9, <3>1
  <2>13. KeysHold(s, form, k + 1, out')
    BY <2>11, <2>12 DEF KeysHold
  <2>14. text' = s /\ Form' = form
    BY <2>1, <2>2, <2>8 DEF text, Form
  <2> QED
    BY <2>8, <2>13, <2>14 DEF KeysSoFar
<1> QED
  BY <1>1, <1>2, <1>3

THEOREM AlwaysKeys == UtilSpec => []KeysSoFar
<1>1. UtilInit => KeysSoFar
  <2> SUFFICES ASSUME UtilInit PROVE KeysSoFar
    OBVIOUS
  <2>1. Len(text) \in Nat /\ input \in Inputs /\ pos = 1 /\ out = <<>>
    BY InputsAssumption DEF UtilInit, text
  <2>2. ASSUME NEW w PROVE w \notin DOMAIN out /\ ~IsKey(text, Form, 1, w)
    BY <2>1 DEF IsKey, KeySpan
  <2> QED
    BY <2>1, <2>2 DEF KeysSoFar, KeysHold
<1> QED
  BY <1>1, KeysKept, PTL DEF UtilSpec

\* Every non-empty token of a form is a key of the result, of a query string
\* every token with a '=', up to its first '='; there are no others.
THEOREM KeysRight == UtilSpec => []KeysExact
<1>1. ASSUME KeysSoFar, fn # "url_decode", Done PROVE KeysExact
  <2> DEFINE Spans == { q \in Starts \X (1 .. Len(text) + 1) :
                          /\ q[1] <= q[2] /\ \A k \in q[1] .. q[2] - 1 : text[k] \notin {AMP, EQUALS}
                          /\ \/ q[2] <= Len(text) /\ text[q[2]] = EQUALS
                             \/ fn = "parse_form_urlencoded" /\ q[2] \in Ends(q[1]) /\ q[1] < q[2] }
             Keys == { url_decode(SubSeq(text, p[1], p[2] - 1)) : p \in Spans }
  <2>1. Len(text) \in Nat /\ pos \in 1 .. Len(text) + 2 /\ pos > Len(text)
    BY <1>1, InputsAssumption DEF KeysSoFar, KeysHold, text, Done
  <2>2. \A w : w \in DOMAIN out <=> IsKey(text, Form, pos, w)
    BY <1>1 DEF KeysSoFar, KeysHold
  <2>3. ASSUME NEW a, NEW z PROVE KeySpan(text, Form, a, z) <=> <<a, z>> \in Spans
    BY <2>1 DEF KeySpan, Form, Starts, Ends
  <2>4. \A p \in Spans : p = <<p[1], p[2]>> /\ p[1] \in 1 .. Len(text)
    BY DEF Starts
  <2> HIDE DEF Spans
  <2>5. ASSUME NEW w PROVE w \in Keys <=> IsKey(text, Form, pos, w)
    <3>1. ASSUME w \in Keys PROVE IsKey(text, Form, pos, w)
      <4>1. PICK p \in Spans : w = url_decode(SubSeq(text, p[1], p[2] - 1))
        BY <3>1
      <4>2. KeySpan(text, Form, p[1], p[2]) /\ p[1] < pos
        BY <2>1, <2>3, <2>4
      <4> QED
        BY <4>1, <4>2 DEF IsKey, Part
    <3>2. ASSUME IsKey(text, Form, pos, w) PROVE w \in Keys
      <4>1. PICK a, z : KeySpan(text, Form, a, z) /\ w = url_decode(Part(text, a, z - 1))
        BY <3>2 DEF IsKey
      <4>2. PICK p : p = <<a, z>>
        OBVIOUS
      <4>3. p \in Spans /\ p[1] = a /\ p[2] = z
        BY <2>3, <4>1, <4>2
      <4> QED
        BY <4>1, <4>3 DEF Part
    <3> QED
      BY <3>1, <3>2
  <2>6. DOMAIN out = Keys
    BY <2>2, <2>5
  <2> QED
    BY <2>6 DEF KeysExact, Spans
<1>2. KeysSoFar => KeysExact
  BY <1>1 DEF KeysExact
<1> QED
  BY <1>2, AlwaysKeys, PTL

-----------------------------------------------------------------------------
(* What was encoded comes back.                                            *)

LEMMA SpellDecoded ==
    ASSUME NEW t \in Seq(Byte), NEW a \in 0 .. Len(t), NEW b \in 0 .. Len(t), NEW x \in Byte,
           Spells(t, a, b, x)
    PROVE  From(t)[a + 1] = <<x>> \o From(t)[b + 1]
<1>1. Len(t) \in Nat /\ a \in Nat /\ b \in Nat /\ a < b
  BY DEF Spells
<1>2. a + 1 \in 1 .. Len(t) + 1 /\ ~(a + 1 > Len(t))
  BY <1>1
<1>3. From(t)[a + 1] = Body(t, a + 1, From(t))
  BY <1>1, <1>2, FromAt
<1>4. CASE b = a + 1 /\ t[b] = x /\ x \notin {PERCENT, AMP, PLUS, EQUALS}
  <2>1. ~EscapeAt(t, a + 1) /\ t[a + 1] # PLUS /\ t[a + 1] = x
    BY <1>4 DEF EscapeAt
  <2> QED
    BY <1>2, <1>3, <1>4, <2>1 DEF Body
<1>5. CASE b = a + 1 /\ t[b] = PLUS /\ x = SPACE
  <2>1. ~EscapeAt(t, a + 1) /\ t[a + 1] = PLUS
    BY <1>5 DEF EscapeAt, PERCENT, PLUS
  <2> QED
    BY <1>2, <1>3, <1>5, <2>1 DEF Body
<1>6. CASE /\ b = a + 3 /\ t[a + 1] = PERCENT /\ t[a + 2] \in HexDigits /\ t[a + 3] \in HexDigits
           /\ x = 16 * HexValue(t[a + 2]) + HexValue(t[a + 3])
  <2>1. /\ (a + 1) + 1 = a + 2 /\ (a + 1) + 2 = a + 3 /\ (a + 1) + 3 = b + 1 /\ (a + 1) + 2 <= Len(t)
    BY <1>1, <1>6
  <2>2. EscapeAt(t, a + 1)
    BY <1>6, <2>1 DEF EscapeAt, Number
  <2>3. /\ t[a + 2] # MINUS /\ HexValue(t[a + 2]) \in 0 .. 15 /\ HexValue(t[a + 3]) \in 0 .. 15
    BY <1>6, HexDigit
  <2>4. from_chars(t[a + 2], t[a + 3]) = x
    BY <1>6, <2>3 DEF from_chars
  <2>5. x % 256 = x
    BY <1>6, <2>3, ByteNumber
  <2> QED
    BY <1>2, <1>3, <2>1, <2>2, <2>4, <2>5 DEF Body
<1> QED
  BY <1>4, <1>5, <1>6 DEF Spells

LEMMA SpellingDecoded ==
    ASSUME NEW t \in Seq(Byte), NEW w \in Seq(Byte), NEW c \in [0 .. Len(w) -> 0 .. Len(t)],
           Spelling(t, 0, Len(t), w, c)
    PROVE  url_decode(t) = w
<1> DEFINE n == Len(w)
           right(k) == From(t)[c[k - 1] + 1] = Part(w, k, n)
           S == {k \in 1 .. n + 1 : ~right(k)}
<1> HIDE DEF right
<1>1. n \in Nat /\ Len(t) \in Nat
  OBVIOUS
<1>2. right(n + 1)
  <2>1. (n + 1) - 1 = n /\ c[n] = Len(t) /\ n < n + 1 /\ n + 1 \in Int /\ n \in Int
    BY <1>1 DEF Spelling
  <2>2. Part(w, n + 1, n) = <<>>
    BY <2>1, SubSeqEmpty DEF Part
  <2> QED
    BY <1>1, <2>1, <2>2, FromEnd DEF right
<1>3. ASSUME NEW k \in 1 .. n, right(k + 1) PROVE right(k)
  <2>1. /\ k - 1 \in 0 .. n /\ k \in 0 .. n /\ (k + 1) - 1 = k /\ n \in k .. Len(w)
        /\ k \in 1 .. Len(w)
    BY <1>1
  <2>2. c[k - 1] \in 0 .. Len(t) /\ c[k] \in 0 .. Len(t) /\ w[k] \in Byte
    BY <2>1
  <2>3. Spells(t, c[k - 1], c[k], w[k])
    BY <2>1 DEF Spelling
  <2>4. From(t)[c[k - 1] + 1] = <<w[k]>> \o From(t)[c[k] + 1]
    <3>1. PICK a, b, x : a = c[k - 1] /\ b = c[k] /\ x = w[k]
      OBVIOUS
    <3>2. a \in 0 .. Len(t) /\ b \in 0 .. Len(t) /\ x \in Byte /\ Spells(t, a, b, x)
      BY <2>2, <2>3, <3>1
    <3>3. From(t)[a + 1] = <<x>> \o From(t)[b + 1]
      BY <3>2, SpellDecoded
    <3> QED
      BY <3>1, <3>3
  <2>5. From(t)[c[k] + 1] = Part(w, k + 1, n)
    BY <1>3, <2>1 DEF right
  <2>6. SubSeq(w, k, n) = <<w[k]>> \o SubSeq(w, k + 1, n)
    BY <2>1, SubSeqRecursiveFirst
  <2> QED
    BY <2>4, <2>5, <2>6 DEF right, Part
<1>4. ASSUME S # {} PROVE FALSE
  <2>1. S \in SUBSET (1 .. n + 1) /\ n + 1 \in Nat
    BY <1>1
  <2>2. PICK k \in S : \A y \in S : y <= k
    <3> HIDE DEF S
    <3> QED
      BY <1>4, <2>1, GreatestOne
  <2>3. k \in 1 .. n + 1 /\ ~right(k)
    BY <2>2
  <2>4. k # n + 1
    BY <1>2, <2>3
  <2>5. k \in 1 .. n /\ k + 1 \in 1 .. n + 1 /\ ~(k + 1 <= k)
    BY <1>1, <2>3, <2>4
  <2>6. right(k + 1)
    BY <2>2, <2>5
  <2> QED
    BY <1>3, <2>3, <2>5, <2>6
<1>5. right(1)
  BY <1>1, <1>4
<1>6. c[1 - 1] + 1 = 1
  BY DEF Spelling
<1>7. From(t)[1] = Part(w, 1, n)
  BY <1>5, <1>6 DEF right
<1>8. SubSeq(w, 1, Len(w)) = w
  BY SubSeqFull
<1> QED
  BY <1>7, <1>8, DecodeIsFrom DEF Part

LEMMA WordDecoded ==
    ASSUME NEW s \in Seq(Byte), NEW a \in 0 .. Len(s), NEW b \in a .. Len(s), NEW w \in Seq(Byte),
           SpellsWord(s, a, b, w)
    PROVE  url_decode(Part(s, a + 1, b)) = w
<1> DEFINE t == Part(s, a + 1, b)
<1> HIDE DEF t
<1>1. Len(s) \in Nat /\ a \in Nat /\ b \in Nat /\ Len(w) \in Nat
  OBVIOUS
<1>2. t \in Seq(Byte) /\ Len(t) = b - a /\ \A k \in 1 .. b - a : t[k] = s[a + k]
  <2>1. a + 1 \in 1 .. Len(s) + 1 /\ b \in (a + 1) - 1 .. Len(s)
    BY <1>1
  <2>2. /\ t \in Seq(Byte) /\ Len(t) = b - (a + 1) + 1
        /\ \A k \in 1 .. b - (a + 1) + 1 : t[k] = s[(a + 1) + k - 1]
    BY <2>1, PartOf DEF t
  <2>3. b - (a + 1) + 1 = b - a /\ \A k \in 1 .. b - a : (a + 1) + k - 1 = a + k
    BY <1>1
  <2> QED
    BY <2>2, <2>3
<1>3. PICK c \in [0 .. Len(w) -> a .. b] : Spelling(s, a, b, w, c)
  BY DEF SpellsWord
<1>4. PICK d : d = [j \in 0 .. Len(w) |-> c[j] - a]
  OBVIOUS
<1>5. d \in [0 .. Len(w) -> 0 .. Len(t)]
  BY <1>1, <1>2, <1>4
<1>6. d[0] = 0 /\ d[Len(w)] = Len(t)
  BY <1>1, <1>2, <1>3, <1>4 DEF Spelling
<1>7. ASSUME NEW j \in 1 .. Len(w) PROVE Spells(t, d[j - 1], d[j], w[j])
  <2>1. j - 1 \in 0 .. Len(w) /\ j \in 0 .. Len(w)
    BY <1>1
  <2>2. PICK x, y : x = c[j - 1] /\ y = c[j]
    OBVIOUS
  <2>3. x \in a .. b /\ y \in a .. b /\ d[j - 1] = x - a /\ d[j] = y - a
    BY <1>4, <2>1, <2>2
  <2>4. Spells(s, x, y, w[j])
    BY <1>3, <2>2 DEF Spelling
  <2>5. \A i \in 1 .. 3 : x + i <= b => t[(x - a) + i] = s[x + i]
    <3>1. ASSUME NEW i \in 1 .. 3, x + i <= b PROVE t[(x - a) + i] = s[x + i]
      <4>1. (x - a) + i \in 1 .. b - a /\ a + ((x - a) + i) = x + i
        BY <1>1, <2>3, <3>1
      <4> QED
        BY <1>2, <4>1
    <3> QED
      BY <3>1
  <2>6. /\ x \in Int /\ y \in Int /\ y <= b
        /\ y = x + 1 => y - a = (x - a) + 1 /\ t[(x - a) + 1] = s[x + 1]
        /\ y = x + 3 => /\ y - a = (x - a) + 3 /\ t[(x - a) + 1] = s[x + 1]
                        /\ t[(x - a) + 2] = s[x + 2] /\ t[(x - a) + 3] = s[x + 3]
    BY <1>1, <2>3, <2>5
  <2>7. Spells(t, x - a, y - a, w[j])
    BY <2>4, <2>6 DEF Spells
  <2> QED
    BY <2>3, <2>7
<1>8. Spelling(t, 0, Len(t), w, d)
  BY <1>6, <1>7 DEF Spelling
<1> QED
  BY <1>2, <1>5, <1>8, SpellingDecoded DEF t

\* A word holds no separator.
LEMMA WordClean ==
    ASSUME NEW s, NEW a \in Nat, NEW b \in Nat, NEW w, Len(w) \in Nat, SpellsWord(s, a, b, w),
           NEW i \in a + 1 .. b
    PROVE  s[i] # AMP /\ s[i] # EQUALS
<1>1. PICK c \in [0 .. Len(w) -> a .. b] : Spelling(s, a, b, w, c)
  BY DEF SpellsWord
<1> DEFINE S == {j \in 0 .. Len(w) : i <= c[j]}
<1>2. S \in SUBSET Nat /\ S # {}
  <2>1. Len(w) \in S
    BY <1>1 DEF Spelling
  <2> QED
    BY <2>1
<1>3. PICK j \in S : \A y \in S : j <= y
  <2> HIDE DEF S
  <2> QED
    BY <1>2, LeastOne
<1>4. j # 0
  BY <1>1 DEF Spelling
<1>5. j \in 1 .. Len(w) /\ j - 1 \in 0 .. Len(w) /\ ~(j <= j - 1)
  BY <1>3, <1>4
<1>6. j - 1 \notin S
  BY <1>3, <1>5
<1>7. c[j - 1] \in a .. b /\ c[j] \in a .. b /\ c[j - 1] < i /\ i <= c[j]
  BY <1>3, <1>5, <1>6
<1>8. Spells(s, c[j - 1], c[j], w[j])
  BY <1>1, <1>5 DEF Spelling
<1>9. PICK x, y, v : x = c[j - 1] /\ y = c[j] /\ v = w[j]
  OBVIOUS
<1>10. \A h \in HexDigits : h # AMP /\ h # EQUALS
  BY DEF HexDigits, AMP, EQUALS
<1>11. PERCENT # AMP /\ PERCENT # EQUALS /\ PLUS # AMP /\ PLUS # EQUALS
  BY DEF PERCENT, PLUS, AMP, EQUALS
<1>12. x \in Nat /\ y \in Nat /\ i \in Nat /\ x < i /\ i <= y /\ Spells(s, x, y, v)
  BY <1>7, <1>8, <1>9
<1>13. (y = x + 1 => i = y) /\ (y = x + 3 => i = x + 1 \/ i = x + 2 \/ i = x + 3)
  BY <1>12
<1> QED
  BY <1>10, <1>11, <1>12, <1>13 DEF Spells

\* o is what the first m pairs make, the last value of a key winning.
PairsHold(pairs, m, o) ==
    /\ DOMAIN o = {pairs[i].key : i \in 1 .. m}
    /\ \A i \in 1 .. m :
          (\A j \in i + 1 .. m : pairs[j].key # pairs[i].key) => o[pairs[i].key] = pairs[i].value

LEMMA PairPut ==
    ASSUME NEW pairs, NEW m \in Nat, NEW o, PairsHold(pairs, m, o)
    PROVE  PairsHold(pairs, m + 1, Put(o, pairs[m + 1].key, pairs[m + 1].value))
<1> DEFINE x == pairs[m + 1].key
           o2 == Put(o, x, pairs[m + 1].value)
<1>1. \A i : i \in 1 .. m + 1 <=> i \in 1 .. m \/ i = m + 1
  OBVIOUS
<1>2. DOMAIN o2 = {pairs[i].key : i \in 1 .. m + 1}
  <2>1. DOMAIN o2 = {pairs[i].key : i \in 1 .. m} \cup {x}
    BY DEF Put, PairsHold
  <2> QED
    BY <1>1, <2>1
<1>3. ASSUME NEW i \in 1 .. m + 1, \A j \in i + 1 .. m + 1 : pairs[j].key # pairs[i].key
      PROVE  o2[pairs[i].key] = pairs[i].value
  <2>1. CASE i = m + 1
    BY <2>1 DEF Put
  <2>2. CASE i \in 1 .. m
    <3>1. m + 1 \in i + 1 .. m + 1 /\ \A j \in i + 1 .. m : j \in i + 1 .. m + 1
      BY <2>2
    <3>2. pairs[i].key # x /\ \A j \in i + 1 .. m : pairs[j].key # pairs[i].key
      BY <1>3, <3>1
    <3>3. o[pairs[i].key] = pairs[i].value /\ pairs[i].key \in DOMAIN o
      BY <2>2, <3>2 DEF PairsHold
    <3> QED
      BY <3>2, <3>3 DEF Put
  <2> QED
    BY <1>1, <2>1, <2>2
<1> QED
  BY <1>2, <1>3 DEF PairsHold

LEMMA ElementOf ==
    ASSUME NEW S, NEW s \in Seq(S), NEW i \in 1 .. Len(s) PROVE s[i] \in S
OBVIOUS

\* The cut of the text at a pair is that of the layout.
LEMMA PairCut ==
    ASSUME NEW s \in Seq(Byte), NEW pairs \in Pairs, NEW e \in [0 .. Len(pairs) -> Borders(s)],
           PairLayout(s, pairs, e), NEW m \in 0 .. Len(pairs) - 1,
           NEW p, p = e[m] + 1, NEW z, z = e[m + 1], NEW q, NEW k, CutAt(s, p, q, k)
    PROVE  /\ q < k /\ k = z
           /\ url_decode(Part(s, p, q - 1)) = pairs[m + 1].key
           /\ url_decode(Part(s, q + 1, k - 1)) = pairs[m + 1].value
<1>1. Len(s) \in Nat /\ Len(pairs) \in Nat /\ m \in Nat /\ m + 1 \in 1 .. Len(pairs) /\ (m + 1) - 1 = m
  OBVIOUS
<1>2. e[m] \in 0 .. Len(s) + 1 /\ z \in 0 .. Len(s) + 1 /\ (z = 0 \/ z = Len(s) + 1 \/ s[z] = AMP)
  BY <1>1 DEF Borders
<1>3. PICK r \in e[m] + 1 .. z - 1 :
         /\ s[r] = EQUALS /\ SpellsWord(s, e[m], r - 1, pairs[m + 1].key)
         /\ SpellsWord(s, r, z - 1, pairs[m + 1].value)
  BY <1>1 DEF PairLayout
<1>4. PICK f, g : f = pairs[m + 1].key /\ g = pairs[m + 1].value /\ f \in Seq(Byte) /\ g \in Seq(Byte)
  <2>1. pairs[m + 1] \in [key : Seq(Byte), value : Seq(Byte)]
    BY <1>1, ElementOf DEF Pairs
  <2>2. pairs[m + 1].key \in Seq(Byte) /\ pairs[m + 1].value \in Seq(Byte)
    BY <2>1
  <2> QED
    BY <2>2
<1>5. PICK a : a = e[m]
  OBVIOUS
<1>6. /\ a \in Nat /\ z \in Nat /\ r \in Nat /\ r \in a + 1 .. z - 1 /\ z <= Len(s) + 1
      /\ z = Len(s) + 1 \/ s[z] = AMP
      /\ SpellsWord(s, a, r - 1, f) /\ SpellsWord(s, r, z - 1, g)
  BY <1>2, <1>3, <1>4, <1>5
<1>7. /\ a \in 0 .. Len(s) /\ r - 1 \in a .. Len(s) /\ r \in 0 .. Len(s) /\ z - 1 \in r .. Len(s)
      /\ r - 1 \in Nat /\ z - 1 \in Nat /\ (r - 1) + 1 = r
      /\ Len(f) \in Nat /\ Len(g) \in Nat
  <2>1. a + 1 <= r /\ r + 1 <= z /\ z <= Len(s) + 1
    BY <1>1, <1>6
  <2>2. a \in Int /\ r \in Int /\ z \in Int /\ 0 <= a /\ Len(s) \in Int
    BY <1>1, <1>6
  <2>3. a \in 0 .. Len(s) /\ r - 1 \in a .. Len(s) /\ r \in 0 .. Len(s) /\ z - 1 \in r .. Len(s)
    BY <2>1, <2>2
  <2>4. r - 1 \in Nat /\ z - 1 \in Nat /\ (r - 1) + 1 = r
    BY <2>1, <2>2
  <2>5. Len(f) \in Nat /\ Len(g) \in Nat
    BY <1>4
  <2> QED
    BY <2>3, <2>4, <2>5
<1>8. \A i \in a + 1 .. r - 1 : s[i] # AMP /\ s[i] # EQUALS
  BY <1>6, <1>7, WordClean
<1>9. \A i \in r + 1 .. z - 1 : s[i] # AMP /\ s[i] # EQUALS
  BY <1>6, <1>7, WordClean
<1>10. s[r] = EQUALS /\ s[r] # AMP
  BY <1>3 DEF AMP, EQUALS
<1>11. /\ k \in a + 1 .. Len(s) + 1 /\ (k = Len(s) + 1 \/ s[k] = AMP) /\ \A j \in a + 1 .. k - 1 : s[j] # AMP
       /\ q \in a + 1 .. k /\ (q < k => s[q] = EQUALS)
       /\ \A j \in a + 1 .. q - 1 : s[j] # AMP /\ s[j] # EQUALS
  BY <1>5 DEF CutAt, IsFirst
<1>12. k = z
  <2>1. ~(z < k)
    BY <1>6, <1>11
  <2>2. ~(k < z)
    <3>1. \A i \in a + 1 .. z - 1 : s[i] # AMP
      <4>1. \A i \in a + 1 .. z - 1 : i \in a + 1 .. r - 1 \/ i = r \/ i \in r + 1 .. z - 1
        BY <1>6
      <4> QED
        BY <1>8, <1>9, <1>10, <4>1
    <3> QED
      BY <1>6, <1>11, <3>1
  <2> QED
    BY <1>6, <1>11, <2>1, <2>2
<1>13. q = r
  <2>1. ~(r < q)
    BY <1>6, <1>10, <1>11
  <2>2. ~(q < r)
    BY <1>6, <1>8, <1>11, <1>12
  <2> QED
    BY <1>6, <1>11, <2>1, <2>2
<1>14. url_decode(Part(s, a + 1, r - 1)) = f
  BY <1>4, <1>6, <1>7, WordDecoded
<1>15. url_decode(Part(s, r + 1, z - 1)) = g
  BY <1>4, <1>6, <1>7, WordDecoded
<1>16. q < k
  BY <1>6, <1>12, <1>13
<1> QED
  BY <1>4, <1>5, <1>12, <1>13, <1>14, <1>15, <1>16

LEMMA MeantTyped ==
    ASSUME WellEncoded, input \in Inputs, input.meant # <<>>
    PROVE  /\ text \in Seq(Byte) /\ Len(text) \in Nat
           /\ input.meant \in Pairs /\ Len(input.meant) \in Nat
<1>1. text \in Seq(Byte)
  BY InputsAssumption DEF text
<1>2. input.meant \in Pairs
  BY DEF WellEncoded
<1>3. Len(input.meant) \in Nat
  BY <1>2 DEF Pairs
<1> QED
  BY <1>1, <1>2, <1>3

\* The inductive invariant: the first m pairs of any layout are done.
PairsSoFar ==
    fn # "url_decode" /\ input.meant # <<>> =>
        \A e \in [0 .. Len(input.meant) -> Borders(text)] :
            PairLayout(text, input.meant, e) =>
                \E m \in 0 .. Len(input.meant) : pos = e[m] + 1 /\ PairsHold(input.meant, m, out)

LEMMA PairsKept == WellEncoded /\ KeysSoFar /\ PairsSoFar /\ [UtilNext]_utilVars => PairsSoFar'
<1> SUFFICES ASSUME WellEncoded, KeysSoFar, PairsSoFar, [UtilNext]_utilVars PROVE PairsSoFar'
  OBVIOUS
<1>1. fn' = fn /\ input' = input
  BY DEF UtilNext, token_pair, token_bare, NextToken, decode, utilVars
<1>2. CASE UNCHANGED utilVars
  BY <1>2 DEF PairsSoFar, utilVars, text
<1>3. CASE ~UNCHANGED utilVars
  <2> SUFFICES ASSUME fn # "url_decode", input.meant # <<>>,
                      NEW e \in [0 .. Len(input.meant) -> Borders(text)], PairLayout(text, input.meant, e)
               PROVE  \E m \in 0 .. Len(input.meant) : pos' = e[m] + 1 /\ PairsHold(input.meant, m, out')
    BY <1>1 DEF PairsSoFar, text
  <2>1. PICK s, pairs : s = text /\ pairs = input.meant
    OBVIOUS
  <2>2. s \in Seq(Byte) /\ pairs \in Pairs /\ Len(s) \in Nat /\ Len(pairs) \in Nat
    BY <2>1, MeantTyped DEF KeysSoFar
  <2>3. PICK m \in 0 .. Len(pairs) : pos = e[m] + 1 /\ PairsHold(pairs, m, out)
    BY <2>1 DEF PairsSoFar
  <2>4. Parsing /\ pos \in 1 .. Len(s) + 2 /\ pos \in 1 .. Len(s)
    BY <1>3, <2>1, <2>2 DEF KeysSoFar, KeysHold, UtilNext, token_pair, token_bare, decode, Parsing, Done
  <2>5. m # Len(pairs)
    BY <2>1, <2>2, <2>3, <2>4 DEF PairLayout
  <2>6. m \in 0 .. Len(pairs) - 1 /\ m \in Nat /\ m + 1 \in 0 .. Len(pairs)
    BY <2>2, <2>3, <2>5
  <2>7. PICK p : p = pos
    OBVIOUS
  <2>8. PICK q, k : CutAt(s, p, q, k)
    BY <2>2, <2>4, <2>7, TokenCut
  <2>9. /\ pos' = k + 1
        /\ q < k => out' = Put(out, url_decode(Part(s, p, q - 1)), url_decode(Part(s, q + 1, k - 1)))
    BY <1>3, <2>1, <2>2, <2>4, <2>7, <2>8, TokenStep
  <2>10. /\ q < k /\ k = e[m + 1]
         /\ url_decode(Part(s, p, q - 1)) = pairs[m + 1].key
         /\ url_decode(Part(s, q + 1, k - 1)) = pairs[m + 1].value
    <3>1. e \in [0 .. Len(pairs) -> Borders(s)] /\ PairLayout(s, pairs, e)
      BY <2>1
    <3>2. p = e[m] + 1
      BY <2>3, <2>7
    <3>3. PICK z : z = e[m + 1]
      OBVIOUS
    <3>4. /\ q < k /\ k = z
          /\ url_decode(Part(s, p, q - 1)) = pairs[m + 1].key
          /\ url_decode(Part(s, q + 1, k - 1)) = pairs[m + 1].value
      BY <2>2, <2>6, <2>8, <3>1, <3>2, <3>3, PairCut
    <3> QED
      BY <3>3, <3>4
  <2>11. PairsHold(pairs, m + 1, out')
    BY <2>3, <2>6, <2>9, <2>10, PairPut
  <2> QED
    BY <2>1, <2>6, <2>9, <2>10, <2>11
<1> QED
  BY <1>2, <1>3

\* The pairs an encoder wrote are the pairs that are read, with the last value
\* of each key, whatever the keys and values hold and however it is escaped.
THEOREM RoundTripRight == ASSUME WellEncoded PROVE UtilSpec => []RoundTrip
<1>1. UtilInit => PairsSoFar
  <2> SUFFICES ASSUME UtilInit, input.meant # <<>>,
                      NEW e \in [0 .. Len(input.meant) -> Borders(text)], PairLayout(text, input.meant, e)
               PROVE  \E m \in 0 .. Len(input.meant) : pos = e[m] + 1 /\ PairsHold(input.meant, m, out)
    BY DEF PairsSoFar
  <2>1. Len(input.meant) \in Nat
    BY DEF UtilInit, WellEncoded, Pairs
  <2>2. 0 \in 0 .. Len(input.meant) /\ pos = e[0] + 1
    BY <2>1 DEF UtilInit, PairLayout
  <2>3. PairsHold(input.meant, 0, out)
    BY DEF UtilInit, PairsHold
  <2> QED
    BY <2>2, <2>3
<1>2. ASSUME KeysSoFar, PairsSoFar, fn # "url_decode", Done, input.meant # <<>> PROVE RoundTrip
  <2>1. PICK s, pairs : s = text /\ pairs = input.meant
    OBVIOUS
  <2>2. s \in Seq(Byte) /\ pairs \in Pairs /\ Len(s) \in Nat /\ Len(pairs) \in Nat
    BY <1>2, <2>1, MeantTyped DEF KeysSoFar
  <2>3. PICK e \in [0 .. Len(pairs) -> Borders(s)] : PairLayout(s, pairs, e)
    BY <1>2, <2>1 DEF KeysSoFar, text, WellEncoded
  <2>4. PICK m \in 0 .. Len(pairs) : pos = e[m] + 1 /\ PairsHold(pairs, m, out)
    BY <1>2, <2>1, <2>3 DEF PairsSoFar
  <2>5. m = Len(pairs)
    <3> SUFFICES ASSUME m # Len(pairs) PROVE FALSE
      OBVIOUS
    <3>1. m + 1 \in 1 .. Len(pairs) /\ m + 1 \in 0 .. Len(pairs) /\ (m + 1) - 1 = m
      BY <2>2, <2>4
    <3>2. e[m] \in 0 .. Len(s) + 1 /\ e[m + 1] \in 0 .. Len(s) + 1
      BY <2>2, <2>3, <2>4, <3>1 DEF Borders
    <3>3. PICK q \in e[m] + 1 .. e[m + 1] - 1 : TRUE
      BY <2>3, <3>1 DEF PairLayout
    <3> QED
      BY <1>2, <2>1, <2>2, <2>4, <3>2, <3>3 DEF Done
  <2>6. DOMAIN pairs = 1 .. Len(pairs)
    BY <2>2 DEF Pairs
  <2> QED
    BY <2>1, <2>4, <2>5, <2>6 DEF RoundTrip, PairsHold
<1>3. KeysSoFar /\ PairsSoFar => RoundTrip
  BY <1>2 DEF RoundTrip
<1>4. UtilSpec => []PairsSoFar
  BY <1>1, PairsKept, AlwaysKeys, PTL DEF UtilSpec
<1> QED
  BY <1>3, <1>4, AlwaysKeys, PTL
=============================================================================
