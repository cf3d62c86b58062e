-------------------------- MODULE BodyReaderProofs --------------------------
(***************************************************************************)
(* Theorems about BodyReader, for streams of any length, cut into any      *)
(* segments.                                                               *)
(*                                                                         *)
(* Drained and Cut hold whatever a client sends: the buffer is empty when  *)
(* an async_read starts, and buffer and socket together are the rest of    *)
(* the stream from pos on, nothing lost or taken twice.  So every reader   *)
(* cuts the stream at pos, however far async_read_until overshot.          *)
(*                                                                         *)
(* If the stream is well formed (BodyStreams), Tracked says that the cuts  *)
(* are the right ones: the reader that waits for a line is where its       *)
(* layout has that line, with the same messages complete and the same      *)
(* bytes of the next body; one that waits for bytes will be, once it has   *)
(* them.  As the layout names the piece at every place, a step only has to *)
(* follow it to the next piece.                                            *)
(***************************************************************************)
EXTENDS BodyStreams, SequenceTheorems, WellFoundedInduction, TLAPS

-----------------------------------------------------------------------------
(* Operators: cutting sequences.                                           *)

LEMMA Cutting ==
    ASSUME NEW S, NEW s \in Seq(S), NEW n \in 0 .. Len(s)
    PROVE  /\ From(s, n) \in Seq(S) /\ Len(From(s, n)) = Len(s) - n
           /\ \A i \in 1 .. Len(s) - n : From(s, n)[i] = s[n + i]
           /\ Upto(s, n) \in Seq(S) /\ Len(Upto(s, n)) = n
           /\ \A i \in 1 .. n : Upto(s, n)[i] = s[i]
<1>1. \A i \in n + 1 .. Len(s) : s[i] \in S
  BY ElementOfSeq
<1>2. \A i \in 1 .. n : s[i] \in S
  BY ElementOfSeq
<1>3. n \in Int /\ n + 1 \in Int /\ Len(s) \in Nat
  OBVIOUS
<1>4. /\ From(s, n) \in Seq(S)
      /\ Len(From(s, n)) = IF n + 1 <= Len(s) THEN Len(s) - (n + 1) + 1 ELSE 0
      /\ \A i \in 1 .. Len(s) - (n + 1) + 1 : From(s, n)[i] = s[(n + 1) + i - 1]
  BY <1>1, <1>3, SubSeqProperties DEF From
<1>5. /\ Upto(s, n) \in Seq(S)
      /\ Len(Upto(s, n)) = IF 1 <= n THEN n - 1 + 1 ELSE 0
      /\ \A i \in 1 .. n - 1 + 1 : Upto(s, n)[i] = s[1 + i - 1]
  BY <1>2, <1>3, SubSeqProperties DEF Upto
<1> QED
  BY <1>3, <1>4, <1>5

\* Nothing is left behind the whole of a sequence.
LEMMA CutAll ==
    ASSUME NEW S, NEW s \in Seq(S)
    PROVE  From(s, Len(s)) = <<>> /\ Upto(s, Len(s)) = s /\ Upto(s, 0) = <<>>
<1>1. Len(s) \in Nat
  OBVIOUS
<1>2. From(s, Len(s)) = <<>> /\ Upto(s, 0) = <<>>
  BY <1>1, SubSeqEmpty DEF From, Upto
<1>3. Upto(s, Len(s)) = s
  BY SubSeqFull DEF Upto
<1> QED
  BY <1>2, <1>3

LEMMA CutNone ==
    ASSUME NEW S, NEW s \in Seq(S)
    PROVE  0 \in 0 .. Len(s) /\ From(s, 0) = s /\ <<>> \in Seq(S)
<1>1. Len(s) \in Nat
  OBVIOUS
<1>2. From(s, 0) = s
  BY SubSeqFull DEF From
<1> QED
  BY <1>1, <1>2

LEMMA CutTwice ==
    ASSUME NEW S, NEW s \in Seq(S), NEW k \in 0 .. Len(s), NEW m \in 0 .. Len(s) - k
    PROVE  From(From(s, k), m) = From(s, k + m) /\ k + m \in 0 .. Len(s)
<1> DEFINE u == From(From(s, k), m)
           v == From(s, k + m)
<1>1. Len(s) \in Nat /\ k + m \in 0 .. Len(s)
  OBVIOUS
<1>2. /\ From(s, k) \in Seq(S) /\ Len(From(s, k)) = Len(s) - k
      /\ \A i \in 1 .. Len(s) - k : From(s, k)[i] = s[k + i]
  BY Cutting
<1>3. /\ u \in Seq(S) /\ Len(u) = (Len(s) - k) - m
      /\ \A i \in 1 .. (Len(s) - k) - m : u[i] = From(s, k)[m + i]
  BY <1>2, Cutting
<1>4. /\ v \in Seq(S) /\ Len(v) = Len(s) - (k + m)
      /\ \A i \in 1 .. Len(s) - (k + m) : v[i] = s[(k + m) + i]
  BY <1>1, Cutting
<1> HIDE DEF u, v
<1>5. ASSUME NEW i \in 1 .. Len(u) PROVE u[i] = v[i]
  <2>1. m + i \in 1 .. Len(s) - k /\ k + (m + i) = (k + m) + i
    BY <1>1, <1>3
  <2> QED
    BY <1>1, <1>2, <1>3, <1>4, <2>1
<1>6. Len(u) = Len(v)
  BY <1>1, <1>3, <1>4
<1>7. u = v
  BY <1>3, <1>4, <1>5, <1>6, SeqEqual
<1> QED
  BY <1>1, <1>7 DEF u, v

\* The least of two numbers.
LEMMA Least ==
    ASSUME NEW m \in Nat, NEW n \in Nat
    PROVE  Min({m, n}) = IF m <= n THEN m ELSE n
<1>1. \E x \in {m, n} : \A y \in {m, n} : x <= y
  OBVIOUS
<1> DEFINE x == Min({m, n})
<1>2. x \in {m, n} /\ \A y \in {m, n} : x <= y
  BY <1>1 DEF Min
<1> HIDE DEF x
<1>3. x = IF m <= n THEN m ELSE n
  BY <1>2
<1> QED
  BY <1>3 DEF x

\* x is w from p + 1 on, as far as it goes.
Window(x, w, p) ==
    /\ p + Len(x) <= Len(w)
    /\ \A i \in 1 .. Len(x) : x[i] = w[p + i]

\* A piece of w.
LEMMA Piece ==
    ASSUME NEW w \in Seq(Unit), NEW p \in Nat, NEW n \in Nat, p + n <= Len(w)
    PROVE  /\ SubSeq(w, p + 1, p + n) \in Seq(Unit)
           /\ Len(SubSeq(w, p + 1, p + n)) = n
           /\ \A i \in 1 .. n : SubSeq(w, p + 1, p + n)[i] = w[p + i]
<1>1. \A i \in p + 1 .. p + n : w[i] \in Unit
  <2>1. Len(w) \in Nat
    OBVIOUS
  <2> QED
    BY <2>1, ElementOfSeq
<1> DEFINE a == p + 1
           b == p + n
<1>2. a \in Int /\ b \in Int /\ b - a + 1 = n /\ b - a + 1 \in Nat
      /\ (IF a <= b THEN b - a + 1 ELSE 0) = n
      /\ \A i \in 1 .. n : a + i - 1 = p + i
  OBVIOUS
<1> HIDE DEF a, b
<1>3. \A i \in a .. b : w[i] \in Unit
  BY <1>1 DEF a, b
<1>4. /\ SubSeq(w, a, b) \in Seq(Unit)
      /\ Len(SubSeq(w, a, b)) = IF a <= b THEN b - a + 1 ELSE 0
      /\ \A i \in 1 .. b - a + 1 : SubSeq(w, a, b)[i] = w[a + i - 1]
  BY <1>2, <1>3, SubSeqProperties
<1>5. /\ SubSeq(w, a, b) \in Seq(Unit) /\ Len(SubSeq(w, a, b)) = n
      /\ \A i \in 1 .. n : SubSeq(w, a, b)[i] = w[p + i]
  BY <1>2, <1>4
<1> QED
  BY <1>5 DEF a, b

LEMMA WindowCut ==
    ASSUME NEW w \in Seq(Unit), NEW x \in Seq(Unit), NEW p \in Nat, Window(x, w, p),
           NEW n \in 0 .. Len(x)
    PROVE  /\ Window(From(x, n), w, p + n)
           /\ Upto(x, n) = SubSeq(w, p + 1, p + n)
<1>1. Len(x) \in Nat /\ Len(w) \in Nat
  OBVIOUS
<1>2. /\ From(x, n) \in Seq(Unit) /\ Len(From(x, n)) = Len(x) - n
      /\ \A i \in 1 .. Len(x) - n : From(x, n)[i] = x[n + i]
      /\ Upto(x, n) \in Seq(Unit) /\ Len(Upto(x, n)) = n
      /\ \A i \in 1 .. n : Upto(x, n)[i] = x[i]
  BY Cutting
<1>3. Window(From(x, n), w, p + n)
  <2>1. ASSUME NEW i \in 1 .. Len(From(x, n)) PROVE From(x, n)[i] = w[(p + n) + i]
    <3>1. n + i \in 1 .. Len(x) /\ p + (n + i) = (p + n) + i
      BY <1>1, <1>2
    <3> QED
      BY <1>2, <2>1, <3>1 DEF Window
  <2> QED
    BY <1>1, <1>2, <2>1 DEF Window
<1>4. /\ SubSeq(w, p + 1, p + n) \in Seq(Unit)
      /\ Len(SubSeq(w, p + 1, p + n)) = n
      /\ \A i \in 1 .. n : SubSeq(w, p + 1, p + n)[i] = w[p + i]
  <2>1. p + n <= Len(w)
    BY <1>1 DEF Window
  <2> QED
    BY <2>1, Piece
<1>5. ASSUME NEW i \in 1 .. n PROVE Upto(x, n)[i] = SubSeq(w, p + 1, p + n)[i]
  <2>1. Upto(x, n)[i] = x[i] /\ SubSeq(w, p + 1, p + n)[i] = w[p + i]
    BY <1>2, <1>4
  <2>2. i \in 1 .. Len(x)
    BY <1>1
  <2> QED
    BY <2>1, <2>2 DEF Window
<1>6. Upto(x, n) = SubSeq(w, p + 1, p + n)
  <2> DEFINE u == Upto(x, n)
             v == SubSeq(w, p + 1, p + n)
  <2>1. u \in Seq(Unit) /\ v \in Seq(Unit) /\ Len(u) = Len(v) /\ \A i \in 1 .. Len(u) : u[i] = v[i]
    BY <1>2, <1>4, <1>5
  <2> HIDE DEF u, v
  <2>2. u = v
    BY <2>1, SeqEqual
  <2> QED
    BY <2>2 DEF u, v
<1> QED
  BY <1>3, <1>6

\* What was in the buffer meets what the socket still has.
LEMMA Spliced ==
    ASSUME NEW w \in Seq(Unit), NEW x \in Seq(Unit), NEW p \in Nat, Window(x, w, p),
           NEW q \in Nat, p + Len(x) <= q, q <= Len(w)
    PROVE  /\ SubSeq(w, (p + Len(x)) + 1, q) \in Seq(Unit)
           /\ x \o SubSeq(w, (p + Len(x)) + 1, q) = SubSeq(w, p + 1, q)
<1> DEFINE k == p + Len(x)
           d == SubSeq(w, k + 1, q)
<1>1. /\ Len(x) \in Nat /\ Len(x) \in 0 .. Len(x) /\ Len(w) \in Nat
      /\ p + 1 \in 1 .. Len(w) + 1 /\ k \in (p + 1) - 1 .. Len(w) /\ q \in k .. Len(w)
  OBVIOUS
<1>2. x = SubSeq(w, p + 1, k)
  <2>1. Upto(x, Len(x)) = x
    BY CutAll
  <2>2. Upto(x, Len(x)) = SubSeq(w, p + 1, p + Len(x))
    BY <1>1, WindowCut
  <2> QED
    BY <2>1, <2>2
<1>3. d \in Seq(Unit)
  <2>1. \A i \in k + 1 .. q : w[i] \in Unit
    BY <1>1, ElementOfSeq
  <2>2. k + 1 \in Int /\ q \in Int
    BY <1>1
  <2> QED
    BY <2>1, <2>2, SubSeqProperties
<1> HIDE DEF k
<1>4. SubSeq(w, p + 1, k) \o d = SubSeq(w, p + 1, q)
  BY <1>1, ConcatAdjacentSubSeq
<1> HIDE DEF d
<1>5. x \o d = SubSeq(w, p + 1, q)
  BY <1>2, <1>4
<1> QED
  BY <1>3, <1>5 DEF k, d

\* x is the beginning of a piece of w that goes after a.
Begins(a, x, w, p, q) ==
    /\ a \in Seq(Unit) /\ x \in Seq(Unit) /\ w \in Seq(Unit)
    /\ p \in Nat /\ Window(x, w, p)
    /\ q \in Nat /\ p + Len(x) <= q /\ q <= Len(w)

Joins(c, a, w, p, q) == c = a \o SubSeq(w, p + 1, q)

LEMMA SplicedOn ==
    ASSUME NEW a, NEW x, NEW w, NEW p, NEW q, Begins(a, x, w, p, q), NEW c,
           Joins(c, a, w, p, q)
    PROVE  Joins(c, a \o x, w, p + Len(x), q)
<1>0. a \in Seq(Unit) /\ x \in Seq(Unit)
  BY DEF Begins
<1> DEFINE d == SubSeq(w, (p + Len(x)) + 1, q)
           t == SubSeq(w, p + 1, q)
<1>1. d \in Seq(Unit) /\ x \o d = t
  BY Spliced DEF Begins
<1>2. c = a \o t
  BY DEF Joins
<1> HIDE DEF d, t
<1>3. d \in Seq(Unit) => (a \o x) \o d = a \o (x \o d)
  BY ONLY <1>0, ConcatAssociative, SMT
<1>4. c = (a \o x) \o d
  BY <1>1, <1>2, <1>3
<1> QED
  BY <1>4 DEF d, Joins

-----------------------------------------------------------------------------
(* Operators: where a line ends.                                           *)

\* A set of naturals that is not empty has a least element.
LEMMA LeastOf ==
    ASSUME NEW T \in SUBSET Nat, T # {}
    PROVE  Min(T) \in T /\ \A y \in T : Min(T) <= y
<1> DEFINE R == OpToRel(<, Nat)
<1>1. IsWellFoundedOn(R, Nat)
  BY NatLessThanWellFounded
<1>2. \A x, y \in Nat : y < x => <<y, x>> \in R
  BY DEF OpToRel
<1> HIDE DEF R
<1>3. PICK x \in T : \A y \in T : ~(<<y, x>> \in R)
  BY <1>1, WFMin
<1>4. ASSUME NEW y \in T PROVE x <= y
  <2>1. x \in Nat /\ y \in Nat
    OBVIOUS
  <2>2. ~(y < x)
    BY <1>2, <1>3, <2>1
  <2> QED
    BY <2>1, <2>2
<1> QED
  BY <1>4 DEF Min

LEMMA FirstLineEnds ==
    ASSUME NEW s \in Seq(Unit), NEW p, Ready(s, p)
    PROVE  /\ FirstLine(s, p) \in 1 .. Len(s)
           /\ EndsAt(s, FirstLine(s, p), p)
           /\ \A i \in 1 .. Len(s) : EndsAt(s, i, p) => FirstLine(s, p) <= i
<1>1. LineEnds(s, p) \in SUBSET Nat /\ DOMAIN s = 1 .. Len(s)
  BY DEF LineEnds
<1>2. /\ Min(LineEnds(s, p)) \in LineEnds(s, p)
      /\ \A i \in LineEnds(s, p) : Min(LineEnds(s, p)) <= i
  BY <1>1, LeastOf DEF Ready
<1> QED
  BY <1>1, <1>2 DEF FirstLine, LineEnds

-----------------------------------------------------------------------------
(* Operators: the two ways a reader can go on.                             *)

Sequences(b, a) == b \in Seq(Unit) /\ a \in Seq(Unit)

\* The body is complete in the buffer, or all of the buffer belongs to it.
LEMMA FixedReads ==
    ASSUME NEW b \in Seq(Unit), NEW len \in Nat, read_fixed_body(b, len)
    PROVE  \/ len <= Len(b) /\ dispatch(From(b, len), Upto(b, len))
           \/ Len(b) < len /\ Await("fixed", <<>>, b, len - Len(b))
<1>1. Len(b) \in Nat /\ Min({Len(b), len}) = IF Len(b) <= len THEN Len(b) ELSE len
  BY Least
<1>2. CASE len <= Len(b)
  BY <1>1, <1>2 DEF read_fixed_body
<1>3. CASE Len(b) < len
  BY <1>1, <1>3, CutAll DEF read_fixed_body
<1> QED
  BY <1>1, <1>2, <1>3

LEMMA ChunkReads ==
    ASSUME NEW b \in Seq(Unit), NEW a \in Seq(Unit), NEW size \in Nat,
           read_chunk_data(b, a, size)
    PROVE  \/ Len(a) + size > SizeMax /\ Await("wrapped", b, a, size)
           \/ /\ Len(a) + size <= SizeMax /\ size <= Len(b)
              /\ read_chunk_trailing_crlf(From(b, size), a \o Upto(b, size))
           \/ /\ Len(a) + size <= SizeMax /\ Len(b) < size
              /\ Await("data", <<>>, a \o b, size - Len(b))
<1>1. Len(b) \in Nat /\ Min({Len(b), size}) = IF Len(b) <= size THEN Len(b) ELSE size
  BY Least
<1>2. Len(a) + size \in Nat /\ SizeMax \in Nat
  BY SizeMaxAssumption
<1>3. CASE Len(a) + size > SizeMax
  BY <1>3 DEF read_chunk_data
<1>4. CASE Len(a) + size <= SizeMax /\ size <= Len(b)
  <2>1. Min({Len(b), size}) = size /\ ~(Len(a) + size > SizeMax)
    BY <1>1, <1>2, <1>4
  <2> QED
    BY <1>4, <2>1 DEF read_chunk_data
<1>5. CASE Len(a) + size <= SizeMax /\ Len(b) < size
  <2>1. Min({Len(b), size}) = Len(b) /\ Len(b) # size /\ ~(Len(a) + size > SizeMax)
    BY <1>1, <1>2, <1>5
  <2> QED
    BY <1>5, <2>1, CutAll DEF read_chunk_data
<1> QED
  BY <1>1, <1>2, <1>3, <1>4, <1>5

\* A header block goes to one of the readers.
LEMMA HeadLength ==
    ASSUME NEW h \in Unit
    PROVE  /\ h.t = "head" => h.v \in Nat /\ h.v <= SizeMax
           /\ h.t = "size" /\ h.v # Bad => h.v \in Nat /\ h.v <= SizeMax
BY SizeMaxAssumption DEF Unit

LEMMA Limits ==
    ASSUME NEW n \in Int
    PROVE  ExceedsLimit(n) \in BOOLEAN
BY DEF ExceedsLimit

LEMMA BodyReads ==
    ASSUME NEW b, NEW h \in Unit, h.t \in {"head", "chead"}, read_body(b, h)
    PROVE  \/ h.t = "chead" /\ Await("size", b, <<>>, 0)
           \/ h.t = "head" /\ ExceedsLimit(h.v) /\ Await("rejected", b, <<>>, 0)
           \/ h.t = "head" /\ ~ExceedsLimit(h.v) /\ h.v = 0 /\ dispatch(b, <<>>)
           \/ h.t = "head" /\ ~ExceedsLimit(h.v) /\ h.v > 0 /\ read_fixed_body(b, h.v)
<1>1. CASE h.t = "chead"
  BY <1>1 DEF read_body
<1>2. CASE h.t = "head"
  <2>1. h.v \in Nat /\ ExceedsLimit(h.v) \in BOOLEAN
    BY <1>2, HeadLength, Limits
  <2>2. CASE ExceedsLimit(h.v)
    BY <1>2, <2>2 DEF read_body, reject_payload_too_large
  <2>3. CASE ~ExceedsLimit(h.v) /\ h.v = 0
    BY <1>2, <2>3 DEF read_body
  <2>4. CASE ~ExceedsLimit(h.v) /\ h.v > 0
    <3>1. h.v # 0 /\ h.t # "chead"
      BY <1>2, <2>1, <2>4
    <3> QED
      BY <1>2, <2>4, <3>1 DEF read_body
  <2> QED
    BY <2>1, <2>2, <2>3, <2>4
<1> QED
  BY <1>1, <1>2

\* So does a size line.
LEMMA SizeReads ==
    ASSUME buf \in Seq(Unit), acc \in Seq(Unit), NEW n \in 1 .. Len(buf), chunk_size(n),
           NEW size, size = buf[n].v, NEW b, b = From(buf, n),
           NEW sum, sum = Plus(Len(acc), size)
    PROVE  \/ (n > 1 \/ buf[n].t # "size" \/ size = Bad) /\ Await("error", b, acc, 0)
           \/ /\ n = 1 /\ buf[n].t = "size" /\ size \in Nat
              /\ \/ ExceedsLimit(sum) /\ Await("rejected", b, acc, 0)
                 \/ size = 0 /\ Await("trailer", b, acc, 0)
                 \/ ~ExceedsLimit(sum) /\ size > 0 /\ read_chunk_data(b, acc, size)
<1>1. buf[n] \in Unit
  BY ElementOfSeq
<1>2. CASE n > 1 \/ buf[n].t # "size" \/ size = Bad
  <2>0. ~(n = 1 /\ buf[n].t = "size" /\ size # Bad)
    BY <1>2
  <2>1. Await("error", b, acc, 0)
    BY <1>2, <2>0 DEF chunk_size
  <2> QED
    BY <1>2, <2>1
<1>3. CASE n = 1 /\ buf[n].t = "size" /\ size # Bad
  <2>1. size \in Nat /\ ~(n > 1 \/ buf[n].t # "size" \/ size = Bad)
    BY <1>1, <1>3, HeadLength
  <2>2. (CASE ExceedsLimit(sum) -> reject_payload_too_large(b, acc)
           [] ~ExceedsLimit(sum) /\ size = 0 -> Await("trailer", b, acc, 0)
           [] ~ExceedsLimit(sum) /\ size > 0 -> read_chunk_data(b, acc, size))
    BY <1>3, <2>1 DEF chunk_size
  <2>3. CASE ExceedsLimit(sum)
    BY <1>3, <2>1, <2>2, <2>3 DEF reject_payload_too_large
  <2>4. CASE ~ExceedsLimit(sum) /\ size = 0
    BY <1>3, <2>1, <2>2, <2>4
  <2>5. CASE ~ExceedsLimit(sum) /\ size > 0
    <3>1. size # 0
      BY <2>1, <2>5
    <3> QED
      BY <1>3, <2>1, <2>2, <2>5, <3>1
  <2> QED
    BY <2>1, <2>3, <2>4, <2>5 DEF ExceedsLimit
<1> QED
  BY <1>2, <1>3

-----------------------------------------------------------------------------
(* Any stream: the buffer is empty where it has to be.                     *)

TypedStreams == \A s \in Streams : Sendable(s)

Ends == {"rejected", "error", "closed", "wrapped"}

\* need counts what an async_read has still to transfer.
Drained ==
    /\ Sendable(stream)
    /\ net \in Seq(Unit) /\ buf \in Seq(Unit) /\ acc \in Seq(Unit) /\ got \in Seq(Seq(Unit))
    /\ need \in Nat
    /\ pc \in Delimited \cup Counted \cup Ends
    /\ pc \in Counted => buf = <<>>

\* net and buf hold what has not been consumed of the stream.
pos == Len(stream.wire) - (Len(buf) + Len(net))

Cut ==
    /\ pos \in Nat
    /\ Window(buf, stream.wire, pos)
    /\ Window(net, stream.wire, pos + Len(buf))

\* What the readers leave of the buffer b they start from.
After(b) ==
    /\ buf' \in Seq(Unit) /\ acc' \in Seq(Unit) /\ got' \in Seq(Seq(Unit))
    /\ need' \in Nat
    /\ pc' \in Delimited \cup Counted \cup Ends
    /\ pc' \in Counted => buf' = <<>>
    /\ \E k \in 0 .. Len(b) : buf' = From(b, k)

LEMMA AwaitAfter ==
    ASSUME got \in Seq(Seq(Unit)), NEW p \in Delimited \cup Counted \cup Ends,
           NEW b \in Seq(Unit), NEW k \in 0 .. Len(b), NEW a \in Seq(Unit), NEW n \in Nat,
           p \notin Counted, Await(p, From(b, k), a, n)
    PROVE  After(b)
<1>1. From(b, k) \in Seq(Unit)
  BY Cutting
<1> QED
  BY <1>1 DEF Await, After

LEMMA WholeAfter ==
    ASSUME got \in Seq(Seq(Unit)), NEW p \in Delimited \cup Ends,
           NEW b \in Seq(Unit), NEW a \in Seq(Unit), NEW n \in Nat, Await(p, b, a, n)
    PROVE  After(b)
<1>1. p \notin Counted /\ p \in Delimited \cup Counted \cup Ends
  BY DEF Counted, Delimited, Ends
<1>2. 0 \in 0 .. Len(b) /\ Await(p, From(b, 0), a, n)
  BY CutNone
<1> QED
  BY <1>1, <1>2, AwaitAfter

LEMMA CountedAfter ==
    ASSUME got \in Seq(Seq(Unit)), NEW p \in Counted, NEW b \in Seq(Unit),
           NEW a \in Seq(Unit), NEW n \in Nat, Await(p, <<>>, a, n)
    PROVE  After(b)
<1>1. Len(b) \in 0 .. Len(b) /\ From(b, Len(b)) = <<>> /\ <<>> \in Seq(Unit)
  BY CutAll
<1> QED
  BY <1>1 DEF Await, After

LEMMA DispatchAfter ==
    ASSUME got \in Seq(Seq(Unit)), NEW b \in Seq(Unit), NEW k \in 0 .. Len(b),
           NEW a \in Seq(Unit), dispatch(From(b, k), a)
    PROVE  After(b)
<1>1. got' \in Seq(Seq(Unit))
  BY AppendProperties DEF dispatch
<1>2. From(b, k) \in Seq(Unit) /\ <<>> \in Seq(Unit)
  BY Cutting
<1> QED
  BY <1>1, <1>2 DEF dispatch, After, Delimited, Counted

\* The same when the buffer was cut before.
LEMMA CutAfter ==
    ASSUME NEW b \in Seq(Unit), NEW k \in 0 .. Len(b), After(From(b, k))
    PROVE  After(b)
<1>1. Len(From(b, k)) = Len(b) - k
  BY Cutting
<1>2. PICK m \in 0 .. Len(From(b, k)) : buf' = From(From(b, k), m)
  BY DEF After
<1>3. k + m \in 0 .. Len(b) /\ From(From(b, k), m) = From(b, k + m)
  BY <1>1, CutTwice
<1> QED
  BY <1>2, <1>3 DEF After

LEMMA CrlfAfter ==
    ASSUME got \in Seq(Seq(Unit)), NEW b \in Seq(Unit), NEW a \in Seq(Unit),
           read_chunk_trailing_crlf(b, a)
    PROVE  After(b)
<1>1. Len(b) \in Nat /\ From(b, Len(b)) = <<>>
  BY CutAll
<1>2. CASE Len(b) >= 2
  <2>1. Await("size", From(b, 2), a, 0) /\ 2 \in 0 .. Len(b)
    BY <1>1, <1>2 DEF read_chunk_trailing_crlf
  <2> QED
    BY <2>1, AwaitAfter DEF Delimited, Counted
<1>3. CASE Len(b) < 2
  <2>1. Await("crlf", <<>>, a, 2 - Len(b)) /\ 2 - Len(b) \in Nat
    BY <1>1, <1>3 DEF read_chunk_trailing_crlf
  <2> QED
    BY <2>1, CountedAfter DEF Counted
<1> QED
  BY <1>1, <1>2, <1>3

LEMMA ChunkAfter ==
    ASSUME got \in Seq(Seq(Unit)), NEW b \in Seq(Unit), NEW a \in Seq(Unit),
           NEW size \in Nat, read_chunk_data(b, a, size)
    PROVE  After(b)
<1>1. Len(b) \in Nat /\ From(b, Len(b)) = <<>> /\ a \o b \in Seq(Unit)
  BY CutAll, ConcatProperties
<1>2. CASE size <= Len(b) /\ read_chunk_trailing_crlf(From(b, size), a \o Upto(b, size))
  <2>1. From(b, size) \in Seq(Unit) /\ Upto(b, size) \in Seq(Unit)
    BY <1>1, <1>2, Cutting
  <2>2. a \o Upto(b, size) \in Seq(Unit)
    BY <2>1, ConcatProperties
  <2>3. After(From(b, size))
    BY <1>2, <2>1, <2>2, CrlfAfter
  <2> QED
    BY <1>1, <1>2, <2>3, CutAfter
<1>3. CASE Len(b) < size /\ Await("data", <<>>, a \o b, size - Len(b))
  <2>1. size - Len(b) \in Nat
    BY <1>1, <1>3
  <2> QED
    BY <1>1, <1>3, <2>1, CountedAfter DEF Counted
<1>4. CASE Await("wrapped", b, a, size)
  BY <1>4, WholeAfter DEF Ends
<1> QED
  BY <1>2, <1>3, <1>4, ChunkReads

LEMMA FixedAfter ==
    ASSUME got \in Seq(Seq(Unit)), NEW b \in Seq(Unit), NEW len \in Nat,
           read_fixed_body(b, len)
    PROVE  After(b)
<1>1. Len(b) \in Nat /\ From(b, Len(b)) = <<>>
  BY CutAll
<1>2. CASE len <= Len(b) /\ dispatch(From(b, len), Upto(b, len))
  <2>1. Upto(b, len) \in Seq(Unit)
    BY <1>1, <1>2, Cutting
  <2> QED
    BY <1>1, <1>2, <2>1, DispatchAfter
<1>3. CASE Len(b) < len /\ Await("fixed", <<>>, b, len - Len(b))
  <2>1. len - Len(b) \in Nat
    BY <1>1, <1>3
  <2> QED
    BY <1>1, <1>3, <2>1, CountedAfter DEF Counted
<1> QED
  BY <1>2, <1>3, FixedReads

LEMMA BodyAfter ==
    ASSUME got \in Seq(Seq(Unit)), NEW b \in Seq(Unit), NEW h \in Unit,
           h.t \in {"head", "chead"}, read_body(b, h)
    PROVE  After(b)
<1>0. <<>> \in Seq(Unit)
  OBVIOUS
<1>1. CASE h.t = "chead" /\ Await("size", b, <<>>, 0)
  BY <1>0, <1>1, WholeAfter DEF Delimited
<1>2. CASE Await("rejected", b, <<>>, 0)
  BY <1>0, <1>2, WholeAfter DEF Ends
<1>3. CASE dispatch(b, <<>>)
  BY <1>3, CutNone, DispatchAfter
<1>4. CASE h.t = "head" /\ read_fixed_body(b, h.v)
  BY <1>4, HeadLength, FixedAfter
<1> QED
  BY <1>1, <1>2, <1>3, <1>4, BodyReads

LEMMA SizeAfter ==
    ASSUME got \in Seq(Seq(Unit)), buf \in Seq(Unit), acc \in Seq(Unit),
           NEW n \in 1 .. Len(buf), chunk_size(n)
    PROVE  After(buf)
<1>1. /\ From(buf, n) \in Seq(Unit) /\ n \in 0 .. Len(buf)
      /\ buf[n] \in Unit
  BY Cutting, ElementOfSeq
<1>2. CASE \E p \in {"error", "rejected", "trailer"} : Await(p, From(buf, n), acc, 0)
  BY <1>1, <1>2, AwaitAfter DEF Delimited, Counted, Ends
<1>3. CASE /\ buf[n].t = "size" /\ buf[n].v \in Nat
           /\ read_chunk_data(From(buf, n), acc, buf[n].v)
  BY <1>1, <1>3, ChunkAfter, CutAfter
<1> QED
  BY <1>1, <1>2, <1>3, SizeReads

LEMMA TrailerAfter ==
    ASSUME got \in Seq(Seq(Unit)), buf \in Seq(Unit), acc \in Seq(Unit),
           NEW n \in 1 .. Len(buf), chunk_trailer(n)
    PROVE  After(buf)
<1>1. n \in 0 .. Len(buf)
  OBVIOUS
<1>2. CASE dispatch(From(buf, n), acc)
  BY <1>1, <1>2, DispatchAfter
<1>3. CASE Await("trailer", From(buf, n), acc, 0)
  BY <1>1, <1>3, AwaitAfter DEF Delimited, Counted
<1> QED
  BY <1>2, <1>3 DEF chunk_trailer

LEMMA LineAfter ==
    ASSUME Drained, on_header \/ on_size_line \/ on_trailer
    PROVE  After(buf)
<1> DEFINE n == FirstLine(buf, pc)
<1>0. /\ got \in Seq(Seq(Unit)) /\ buf \in Seq(Unit) /\ acc \in Seq(Unit)
      /\ Ready(buf, pc)
  BY DEF Drained, on_header, on_size_line, on_trailer
<1>1. n \in 1 .. Len(buf) /\ EndsAt(buf, n, pc)
  BY <1>0, FirstLineEnds
<1>2. From(buf, n) \in Seq(Unit) /\ n \in 0 .. Len(buf) /\ buf[n] \in Unit
  BY <1>0, <1>1, Cutting, ElementOfSeq
<1>3. CASE on_header /\ n = 1
  <2>1. read_body(From(buf, n), buf[n]) /\ buf[n].t \in {"head", "chead"}
    BY <1>1, <1>3 DEF on_header, EndsAt
  <2> HIDE DEF n
  <2>2. After(From(buf, n))
    BY <1>0, <1>2, <2>1, BodyAfter
  <2> QED
    BY <1>0, <1>2, <2>2, CutAfter
<1>4. CASE on_header /\ n # 1
  <2>1. Await("error", From(buf, n), <<>>, 0) /\ <<>> \in Seq(Unit)
    BY <1>4 DEF on_header
  <2> HIDE DEF n
  <2> QED
    BY <1>0, <1>2, <2>1, AwaitAfter DEF Counted, Ends
<1>5. CASE on_size_line
  <2>1. chunk_size(n)
    BY <1>5 DEF on_size_line
  <2> HIDE DEF n
  <2> QED
    BY <1>0, <1>1, <2>1, SizeAfter
<1>6. CASE on_trailer
  <2>1. chunk_trailer(n)
    BY <1>6 DEF on_trailer
  <2> HIDE DEF n
  <2> QED
    BY <1>0, <1>1, <2>1, TrailerAfter
<1> QED
  BY <1>3, <1>4, <1>5, <1>6

LEMMA BytesAfter ==
    ASSUME Drained, on_bytes
    PROVE  After(buf)
<1> DEFINE a == acc \o Upto(net, need)
<1>0. /\ got \in Seq(Seq(Unit)) /\ buf \in Seq(Unit) /\ acc \in Seq(Unit)
      /\ net \in Seq(Unit) /\ need \in 0 .. Len(net) /\ <<>> \in Seq(Unit)
  BY DEF Drained, on_bytes
<1>1. a \in Seq(Unit)
  BY <1>0, Cutting, ConcatProperties
<1>2. CASE pc = "fixed"
  <2>1. dispatch(buf, a)
    BY <1>2 DEF on_bytes
  <2> HIDE DEF a
  <2> QED
    BY <1>0, <1>1, <2>1, CutNone, DispatchAfter
<1>3. CASE pc = "data"
  <2>1. read_chunk_trailing_crlf(buf, a)
    BY <1>3 DEF on_bytes
  <2> HIDE DEF a
  <2> QED
    BY <1>0, <1>1, <2>1, CrlfAfter
<1>4. CASE pc = "crlf"
  <2>1. Await("size", buf, acc, 0)
    BY <1>4 DEF on_bytes
  <2> QED
    BY <1>0, <2>1, WholeAfter DEF Delimited
<1> QED
  BY <1>2, <1>3, <1>4 DEF on_bytes, Counted

\* Every step leaves the buffer as the readers do, and cuts the rest of the
\* stream where the buffer ends.
LEMMA DrainedKept ==
    ASSUME Drained, [BodyNext]_bodyVars
    PROVE  Drained'
<1>0. Len(buf) \in Nat /\ Len(net) \in Nat /\ <<>> \in Seq(Unit)
  BY DEF Drained
<1>1. CASE Arrival
  <2>1. PICK k \in 1 .. Len(net) : buf' = buf \o Upto(net, k) /\ net' = From(net, k)
    BY <1>1 DEF Arrival
  <2>2. k \in 0 .. Len(net) /\ net \in Seq(Unit) /\ buf \in Seq(Unit)
    BY <1>0 DEF Drained
  <2>3. Upto(net, k) \in Seq(Unit) /\ From(net, k) \in Seq(Unit)
    BY <2>2, Cutting
  <2>4. net' \in Seq(Unit) /\ buf' \in Seq(Unit)
    BY <2>1, <2>2, <2>3, ConcatProperties
  <2>5. pc \notin Counted /\ UNCHANGED <<stream, acc, need, pc, got>>
    BY <1>1 DEF Arrival, Delimited, Counted
  <2> QED
    BY <2>4, <2>5 DEF Drained
<1>2. CASE on_header \/ on_size_line \/ on_trailer
  <2>1. After(buf)
    BY <1>2, LineAfter
  <2>2. UNCHANGED <<stream, net>>
    BY <1>2 DEF on_header, on_size_line, on_trailer
  <2> QED
    BY <2>1, <2>2 DEF Drained, After
<1>3. CASE on_bytes
  <2>1. After(buf)
    BY <1>3, BytesAfter
  <2>2. net' = From(net, need) /\ need \in 0 .. Len(net) /\ stream' = stream
    BY <1>0, <1>3 DEF on_bytes, Drained
  <2>3. net' \in Seq(Unit)
    BY <2>2, Cutting DEF Drained
  <2> QED
    BY <2>1, <2>2, <2>3 DEF Drained, After
<1>4. CASE eof
  <2>1. \E p \in {"closed", "error"} : Await(p, buf, acc, 0)
    BY <1>4 DEF eof
  <2>2. After(buf)
    BY <2>1, WholeAfter DEF Drained, Counted, Ends
  <2>3. UNCHANGED <<stream, net>>
    BY <1>4 DEF eof
  <2> QED
    BY <2>2, <2>3 DEF Drained, After
<1>5. CASE UNCHANGED bodyVars
  BY <1>5 DEF bodyVars, Drained
<1> QED
  BY <1>1, <1>2, <1>3, <1>4, <1>5 DEF BodyNext

LEMMA DrainedInvariant ==
    ASSUME TypedStreams
    PROVE  BodySpec => []Drained
<1>1. BodyInit => Drained
  <2> SUFFICES ASSUME BodyInit PROVE Drained
    OBVIOUS
  <2>1. Sendable(stream) /\ stream.wire \in Seq(Unit)
    BY DEF BodyInit, TypedStreams, Sendable
  <2> QED
    BY <2>1 DEF BodyInit, Drained, Delimited, Counted
<1> QED
  BY <1>1, DrainedKept, PTL DEF BodySpec

\* However a client cuts its stream into segments, and whatever it sends, the
\* readers go to the socket for a number of bytes only when request_buffer_
\* is empty, so no byte is taken out of turn.
THEOREM CountedReadsDrained ==
    ASSUME TypedStreams
    PROVE  BodySpec => []BufferDrained
<1>1. Drained => BufferDrained
  BY DEF Drained, BufferDrained
<1> QED
  BY <1>1, DrainedInvariant, PTL

-----------------------------------------------------------------------------
(* Any stream: buffer and socket hold what follows, nothing lost or twice. *)

\* A line or a piece of the body is taken from the buffer.
LEMMA TakeFromBuffer ==
    ASSUME Drained, Cut, NEW k \in 0 .. Len(buf), buf' = From(buf, k),
           UNCHANGED <<stream, net>>
    PROVE  Cut' /\ pos' = pos + k
<1>1. Len(buf) \in Nat /\ Len(net) \in Nat /\ buf \in Seq(Unit) /\ Len(stream.wire) \in Nat
  BY DEF Drained, Sendable
<1>2. From(buf, k) \in Seq(Unit) /\ Len(buf') = Len(buf) - k
  BY <1>1, Cutting
<1>3. pos' = pos + k
  BY <1>1, <1>2 DEF pos
<1>4. Window(From(buf, k), stream.wire, pos + k)
  BY <1>1, WindowCut DEF Cut, Drained, Sendable
<1>5. pos' \in Nat /\ pos' + Len(buf') = pos + Len(buf)
  BY <1>1, <1>2, <1>3 DEF Cut
<1>6. Window(buf', stream'.wire, pos') /\ Window(net', stream'.wire, pos' + Len(buf'))
  BY <1>3, <1>4, <1>5 DEF Cut
<1> QED
  BY <1>3, <1>5, <1>6 DEF Cut

\* A piece is read past the empty buffer.
LEMMA TakeFromSocket ==
    ASSUME Drained, Cut, pc \in Counted, need <= Len(net), net' = From(net, need),
           buf' = <<>>, stream' = stream
    PROVE  Cut' /\ pos' = pos + need
<1>1. /\ buf = <<>> /\ Len(net) \in Nat /\ net \in Seq(Unit) /\ need \in 0 .. Len(net)
      /\ stream.wire \in Seq(Unit) /\ Len(stream.wire) \in Nat
  BY DEF Drained, Sendable
<1>2. Len(net') = Len(net) - need
  BY <1>1, Cutting
<1>3. pos' = pos + need
  BY <1>1, <1>2 DEF pos
<1>4. pos \in Nat /\ Window(net, stream.wire, pos)
  BY <1>1 DEF Cut
<1>5. Window(net', stream.wire, pos + need) /\ pos + need + Len(net') <= Len(stream.wire)
  BY <1>1, <1>4, WindowCut DEF Window
<1>6. pos' \in Nat /\ pos' <= Len(stream.wire) /\ pos' + Len(buf') = pos'
  BY <1>1, <1>2, <1>3, <1>4, <1>5
<1>7. Window(buf', stream'.wire, pos')
  BY <1>1, <1>6 DEF Window
<1>8. Window(net', stream'.wire, pos' + Len(buf'))
  BY <1>3, <1>5, <1>6
<1> QED
  BY <1>3, <1>6, <1>7, <1>8 DEF Cut

\* A segment goes from the socket to the buffer.
LEMMA MoveToBuffer ==
    ASSUME Drained, Cut, Arrival
    PROVE  Cut' /\ pos' = pos
<1>1. /\ Len(buf) \in Nat /\ Len(net) \in Nat /\ Len(stream.wire) \in Nat
      /\ buf \in Seq(Unit) /\ net \in Seq(Unit) /\ stream.wire \in Seq(Unit)
  BY DEF Drained, Sendable
<1>2. PICK k \in 1 .. Len(net) : buf' = buf \o Upto(net, k) /\ net' = From(net, k)
  BY DEF Arrival
<1>3. k \in 0 .. Len(net) /\ stream' = stream
  BY <1>1 DEF Arrival
<1>4. /\ net' \in Seq(Unit) /\ Len(net') = Len(net) - k
      /\ Upto(net, k) \in Seq(Unit) /\ Len(Upto(net, k)) = k
      /\ \A i \in 1 .. k : Upto(net, k)[i] = net[i]
  BY <1>1, <1>2, <1>3, Cutting
<1>5. /\ Len(buf') = Len(buf) + k
      /\ \A i \in 1 .. Len(buf) + k :
            buf'[i] = IF i <= Len(buf) THEN buf[i] ELSE Upto(net, k)[i - Len(buf)]
  <2> DEFINE u == Upto(net, k)
  <2>1. u \in Seq(Unit) /\ Len(u) = k /\ buf' = buf \o u
    BY <1>2, <1>4
  <2> HIDE DEF u
  <2>2. /\ Len(buf \o u) = Len(buf) + Len(u)
        /\ \A i \in 1 .. Len(buf) + Len(u) :
              (buf \o u)[i] = IF i <= Len(buf) THEN buf[i] ELSE u[i - Len(buf)]
    BY <1>1, <2>1, ConcatProperties
  <2>3. /\ Len(buf') = Len(buf) + k
        /\ \A i \in 1 .. Len(buf) + k :
              buf'[i] = IF i <= Len(buf) THEN buf[i] ELSE u[i - Len(buf)]
    BY <2>1, <2>2
  <2> QED
    BY <2>3 DEF u
<1>6. pos' = pos /\ pos \in Nat /\ pos' + Len(buf') = (pos + Len(buf)) + k
  <2>1. Len(buf') + Len(net') = Len(buf) + Len(net) /\ pos \in Nat
    BY <1>1, <1>3, <1>4, <1>5 DEF Cut
  <2>2. pos' = pos
    BY <1>3, <2>1 DEF pos
  <2> QED
    BY <1>1, <1>3, <1>5, <2>1, <2>2
<1>7. /\ pos + Len(buf) \in Nat
      /\ Window(buf, stream.wire, pos) /\ Window(net, stream.wire, pos + Len(buf))
  BY <1>1 DEF Cut
<1>8. Window(net', stream.wire, (pos + Len(buf)) + k)
  BY <1>1, <1>2, <1>3, <1>7, WindowCut
<1>9. Window(buf', stream.wire, pos)
  <2>1. pos + Len(buf') <= Len(stream.wire)
    BY <1>1, <1>3, <1>5, <1>6, <1>7 DEF Window
  <2>2. ASSUME NEW i \in 1 .. Len(buf') PROVE buf'[i] = stream.wire[pos + i]
    <3>1. CASE i <= Len(buf)
      BY <1>1, <1>5, <1>7, <3>1 DEF Window
    <3>2. CASE i > Len(buf)
      <4>1. i - Len(buf) \in 1 .. k /\ (pos + Len(buf)) + (i - Len(buf)) = pos + i
        BY <1>1, <1>5, <1>6, <3>2
      <4>2. i - Len(buf) \in 1 .. Len(net)
        BY <1>1, <1>3, <4>1
      <4>3. buf'[i] = net[i - Len(buf)]
        BY <1>1, <1>4, <1>5, <3>2, <4>1
      <4> QED
        BY <1>7, <4>1, <4>2, <4>3 DEF Window
    <3> QED
      BY <1>1, <1>5, <3>1, <3>2
  <2> QED
    BY <2>1, <2>2 DEF Window
<1>10. Window(buf', stream'.wire, pos') /\ Window(net', stream'.wire, pos' + Len(buf'))
  BY <1>3, <1>6, <1>8, <1>9
<1> QED
  BY <1>6, <1>10 DEF Cut

LEMMA CutKept ==
    ASSUME Drained, Cut, [BodyNext]_bodyVars
    PROVE  Cut'
<1>1. CASE on_header \/ on_size_line \/ on_trailer
  <2>1. UNCHANGED <<stream, net>> /\ \E k \in 0 .. Len(buf) : buf' = From(buf, k)
    BY <1>1, LineAfter DEF After, on_header, on_size_line, on_trailer
  <2> QED
    BY <2>1, TakeFromBuffer
<1>2. CASE on_bytes
  <2>1. pc \in Counted /\ need <= Len(net) /\ net' = From(net, need) /\ stream' = stream
    BY <1>2 DEF on_bytes, Drained
  <2>2. PICK k \in 0 .. Len(buf) : buf' = From(buf, k)
    BY <1>2, BytesAfter DEF After
  <2>3. buf = <<>> /\ k = 0
    BY <2>1, <2>2 DEF Drained
  <2>4. buf' = <<>>
    BY <2>2, <2>3, CutNone DEF Drained
  <2> QED
    BY <2>1, <2>4, TakeFromSocket
<1>3. CASE eof
  <2>1. UNCHANGED <<stream, net, buf>>
    BY <1>3 DEF eof, Await
  <2> QED
    BY <2>1 DEF Cut, pos
<1>4. CASE UNCHANGED bodyVars
  BY <1>4 DEF bodyVars, Cut, pos
<1> QED
  BY <1>1, <1>2, <1>3, <1>4, MoveToBuffer DEF BodyNext

LEMMA CutInvariant ==
    ASSUME TypedStreams
    PROVE  BodySpec => []Cut
<1>1. BodyInit => Cut
  <2> SUFFICES ASSUME BodyInit PROVE Cut
    OBVIOUS
  <2>1. stream.wire \in Seq(Unit) /\ net = stream.wire /\ buf = <<>>
    BY DEF BodyInit, TypedStreams, Sendable
  <2>2. pos = 0 /\ Len(buf) = 0 /\ Len(stream.wire) \in Nat
    BY <2>1 DEF pos
  <2> QED
    BY <2>1, <2>2 DEF Cut, Window
<1> QED
  BY <1>1, CutKept, DrainedInvariant, PTL DEF BodySpec

-----------------------------------------------------------------------------
(* Any stream: no body grows beyond the limit.                             *)

\* n bytes are within the limit.
Small(n) == max_body_size # 0 => n <= max_body_size

\* No body that was dispatched, or is being read, is larger than the limit.
Bounded ==
    /\ Small(Len(acc))
    /\ pc \in {"fixed", "data"} => Small(Len(acc) + need)
    /\ \A i \in 1 .. Len(got) : Small(Len(got[i]))

BoundedAfter ==
    /\ Small(Len(acc'))
    /\ pc' \in {"fixed", "data"} => Small(Len(acc') + need')
    /\ \A i \in 1 .. Len(got') : Small(Len(got'[i]))

LEMMA SmallLimit ==
    ASSUME NEW n \in Nat
    PROVE  /\ Small(n) <=> ~ExceedsLimit(n)
           /\ Small(0)
           /\ \A m \in 0 .. n : Small(n) => Small(m)
<1>1. max_body_size \in Nat
  BY LimitAssumption, SizeMaxAssumption
<1> QED
  BY <1>1 DEF Small, ExceedsLimit

LEMMA AwaitBounded ==
    ASSUME Bounded, NEW p, NEW b, NEW a, NEW n, Small(Len(a)),
           p \in {"fixed", "data"} => Small(Len(a) + n), Await(p, b, a, n)
    PROVE  BoundedAfter
BY DEF Await, Bounded, BoundedAfter

LEMMA DispatchBounded ==
    ASSUME Bounded, got \in Seq(Seq(Unit)), NEW b, NEW a \in Seq(Unit), Small(Len(a)),
           dispatch(b, a)
    PROVE  BoundedAfter
<1>1. /\ Len(got') = Len(got) + 1 /\ Len(got) \in Nat
      /\ \A i \in 1 .. Len(got) : got'[i] = got[i]
      /\ got'[Len(got) + 1] = a
  BY AppendProperties DEF dispatch
<1>2. ASSUME NEW i \in 1 .. Len(got') PROVE Small(Len(got'[i]))
  <2>1. i \in 1 .. Len(got) \/ i = Len(got) + 1
    BY <1>1
  <2>2. CASE i \in 1 .. Len(got)
    BY <1>1, <2>2 DEF Bounded
  <2>3. CASE i = Len(got) + 1
    BY <1>1, <2>3
  <2> QED
    BY <2>1, <2>2, <2>3
<1>3. pc' = "header" /\ Len(acc') = 0
  BY DEF dispatch
<1> QED
  BY <1>2, <1>3, SmallLimit DEF BoundedAfter

LEMMA CrlfBounded ==
    ASSUME Bounded, NEW b \in Seq(Unit), NEW a, Small(Len(a)), read_chunk_trailing_crlf(b, a)
    PROVE  BoundedAfter
<1>1. CASE Await("size", From(b, 2), a, 0)
  BY <1>1, AwaitBounded
<1>2. CASE Await("crlf", <<>>, a, 2 - Len(b))
  BY <1>2, AwaitBounded
<1> QED
  BY <1>1, <1>2 DEF read_chunk_trailing_crlf

LEMMA ChunkBounded ==
    ASSUME Bounded, NEW b \in Seq(Unit), NEW a \in Seq(Unit), NEW size \in Nat,
           Small(Len(a)), Len(a) + size <= SizeMax => Small(Len(a) + size),
           read_chunk_data(b, a, size)
    PROVE  BoundedAfter
<1>1. Len(a) \in Nat /\ Len(b) \in Nat /\ Len(a) + size \in Nat
  OBVIOUS
<1>2. CASE /\ Len(a) + size <= SizeMax /\ size <= Len(b)
           /\ read_chunk_trailing_crlf(From(b, size), a \o Upto(b, size))
  <2>1. /\ From(b, size) \in Seq(Unit)
        /\ Upto(b, size) \in Seq(Unit) /\ Len(Upto(b, size)) = size
    BY <1>1, <1>2, Cutting
  <2>2. Len(a \o Upto(b, size)) = Len(a) + size
    BY <2>1, ConcatProperties
  <2> QED
    BY <1>2, <2>1, <2>2, CrlfBounded
<1>3. CASE /\ Len(a) + size <= SizeMax /\ Len(b) < size
           /\ Await("data", <<>>, a \o b, size - Len(b))
  <2>1. /\ Len(a \o b) = Len(a) + Len(b) /\ Len(a \o b) \in 0 .. Len(a) + size
        /\ Len(a \o b) + (size - Len(b)) = Len(a) + size
    BY <1>1, <1>3, ConcatProperties
  <2>2. Small(Len(a \o b)) /\ Small(Len(a \o b) + (size - Len(b)))
    BY <1>1, <1>3, <2>1, SmallLimit
  <2> QED
    BY <1>3, <2>2, AwaitBounded
<1>4. CASE Await("wrapped", b, a, size)
  BY <1>4, AwaitBounded
<1> QED
  BY <1>2, <1>3, <1>4, ChunkReads

LEMMA FixedBounded ==
    ASSUME Bounded, got \in Seq(Seq(Unit)), NEW b \in Seq(Unit), NEW len \in Nat,
           Small(len), read_fixed_body(b, len)
    PROVE  BoundedAfter
<1>1. Len(b) \in Nat
  OBVIOUS
<1>2. CASE len <= Len(b) /\ dispatch(From(b, len), Upto(b, len))
  <2>1. Upto(b, len) \in Seq(Unit) /\ Len(Upto(b, len)) = len
    BY <1>1, <1>2, Cutting
  <2> QED
    BY <1>2, <2>1, DispatchBounded
<1>3. CASE Len(b) < len /\ Await("fixed", <<>>, b, len - Len(b))
  <2>1. Len(b) \in 0 .. len /\ Len(b) + (len - Len(b)) = len
    BY <1>1, <1>3
  <2>2. Small(Len(b)) /\ Small(Len(b) + (len - Len(b)))
    BY <2>1, SmallLimit
  <2> QED
    BY <1>3, <2>2, AwaitBounded
<1> QED
  BY <1>2, <1>3, FixedReads

LEMMA BodyBounded ==
    ASSUME Bounded, got \in Seq(Seq(Unit)), NEW b \in Seq(Unit), NEW h \in Unit,
           h.t \in {"head", "chead"}, read_body(b, h)
    PROVE  BoundedAfter
<1>0. <<>> \in Seq(Unit) /\ Len(<<>>) = 0 /\ Small(0)
  BY SmallLimit
<1>1. CASE h.t = "chead" /\ Await("size", b, <<>>, 0)
  BY <1>0, <1>1, AwaitBounded
<1>2. CASE Await("rejected", b, <<>>, 0)
  BY <1>0, <1>2, AwaitBounded
<1>3. CASE dispatch(b, <<>>)
  BY <1>0, <1>3, DispatchBounded
<1>4. CASE h.t = "head" /\ ~ExceedsLimit(h.v) /\ read_fixed_body(b, h.v)
  <2>1. h.v \in Nat /\ Small(h.v)
    BY <1>4, HeadLength, SmallLimit
  <2> QED
    BY <1>4, <2>1, FixedBounded
<1> QED
  BY <1>1, <1>2, <1>3, <1>4, BodyReads

\* The sum of what was read and what is announced wraps around only where
\* size_t cannot hold it.
LEMMA SumExact ==
    ASSUME NEW m \in Nat, NEW n \in Nat, m + n <= SizeMax
    PROVE  Plus(m, n) = m + n
<1>1. SizeMax \in Nat /\ m + n \in 0 .. SizeMax
  BY SizeMaxAssumption
<1>2. \A k \in 0 .. SizeMax : k % (SizeMax + 1) = k
  BY <1>1
<1> QED
  BY <1>1, <1>2 DEF Plus

LEMMA SizeBounded ==
    ASSUME Drained, Bounded, NEW n \in 1 .. Len(buf), chunk_size(n)
    PROVE  BoundedAfter
<1> DEFINE size == buf[n].v
           b    == From(buf, n)
           sum  == Plus(Len(acc), size)
<1>0. buf \in Seq(Unit) /\ acc \in Seq(Unit) /\ Len(acc) \in Nat /\ Small(Len(acc))
  BY DEF Drained, Bounded
<1>1. CASE \E p \in {"error", "rejected", "trailer"} : Await(p, b, acc, 0)
  BY <1>0, <1>1, AwaitBounded
<1>2. CASE /\ buf[n].t = "size" /\ size \in Nat /\ ~ExceedsLimit(sum)
           /\ read_chunk_data(b, acc, size)
  <2>1. Len(acc) + size \in Nat
    BY <1>0, <1>2
  <2>2. Len(acc) + size <= SizeMax => Small(Len(acc) + size)
    BY <1>0, <1>2, <2>1, SumExact, SmallLimit
  <2>3. b \in Seq(Unit)
    BY <1>0, Cutting
  <2> HIDE DEF b, size
  <2> QED
    BY <1>0, <1>2, <2>2, <2>3, ChunkBounded
<1> QED
  BY <1>0, <1>1, <1>2, SizeReads

LEMMA BoundedKept ==
    ASSUME Drained, Bounded, [BodyNext]_bodyVars
    PROVE  Bounded'
<1> DEFINE n == FirstLine(buf, pc)
<1>0. /\ got \in Seq(Seq(Unit)) /\ buf \in Seq(Unit) /\ acc \in Seq(Unit)
      /\ net \in Seq(Unit) /\ Small(Len(acc)) /\ Len(<<>>) = 0 /\ Small(0)
  BY SmallLimit DEF Drained, Bounded
<1>1. ASSUME on_header \/ on_size_line \/ on_trailer
      PROVE  n \in 1 .. Len(buf) /\ EndsAt(buf, n, pc) /\ From(buf, n) \in Seq(Unit)
             /\ buf[n] \in Unit
  <2>1. n \in 1 .. Len(buf) /\ EndsAt(buf, n, pc)
    BY <1>0, <1>1, FirstLineEnds DEF on_header, on_size_line, on_trailer
  <2> HIDE DEF n
  <2> QED
    BY <1>0, <2>1, Cutting, ElementOfSeq
<1>2. ASSUME BoundedAfter, stream' = stream PROVE Bounded'
  BY <1>2 DEF BoundedAfter, Bounded
<1>3. CASE Arrival
  BY <1>3 DEF Arrival, Bounded
<1>4. CASE on_header /\ n = 1
  <2>1. read_body(From(buf, n), buf[n]) /\ buf[n].t \in {"head", "chead"}
    BY <1>1, <1>4 DEF on_header, EndsAt
  <2> HIDE DEF n
  <2> QED
    BY <1>0, <1>1, <1>2, <1>4, <2>1, BodyBounded DEF on_header
<1>5. CASE on_header /\ n # 1
  <2>1. Await("error", From(buf, n), <<>>, 0) /\ stream' = stream
    BY <1>5 DEF on_header
  <2> QED
    BY <1>0, <1>2, <2>1, AwaitBounded
<1>6. CASE on_size_line
  <2>1. chunk_size(n) /\ stream' = stream
    BY <1>6 DEF on_size_line
  <2> HIDE DEF n
  <2> QED
    BY <1>1, <1>2, <1>6, <2>1, SizeBounded
<1>7. CASE on_trailer
  <2>1. chunk_trailer(n) /\ stream' = stream
    BY <1>7 DEF on_trailer
  <2>2. CASE dispatch(From(buf, n), acc)
    BY <1>0, <1>2, <2>1, <2>2, DispatchBounded
  <2>3. CASE Await("trailer", From(buf, n), acc, 0)
    BY <1>0, <1>2, <2>1, <2>3, AwaitBounded
  <2> QED
    BY <2>1, <2>2, <2>3 DEF chunk_trailer
<1>8. CASE on_bytes
  <2> DEFINE a == acc \o Upto(net, need)
  <2>1. need \in 0 .. Len(net) /\ stream' = stream /\ need \in Nat
    BY <1>0, <1>8 DEF on_bytes, Drained
  <2>2. a \in Seq(Unit) /\ Len(a) = Len(acc) + need
    <3>1. Upto(net, need) \in Seq(Unit) /\ Len(Upto(net, need)) = need
      BY <1>0, <2>1, Cutting
    <3> QED
      BY <1>0, <3>1, ConcatProperties
  <2>3. CASE pc = "fixed"
    <3>1. dispatch(buf, a) /\ Small(Len(acc) + need)
      BY <1>8, <2>3 DEF on_bytes, Bounded
    <3> HIDE DEF a
    <3> QED
      BY <1>0, <1>2, <2>1, <2>2, <3>1, DispatchBounded
  <2>4. CASE pc = "data"
    <3>1. read_chunk_trailing_crlf(buf, a) /\ Small(Len(acc) + need)
      BY <1>8, <2>4 DEF on_bytes, Bounded
    <3> HIDE DEF a
    <3> QED
      BY <1>0, <1>2, <2>1, <2>2, <3>1, CrlfBounded
  <2>5. CASE pc = "crlf"
    <3>1. Await("size", buf, acc, 0)
      BY <1>8, <2>5 DEF on_bytes
    <3> QED
      BY <1>0, <1>2, <2>1, <3>1, AwaitBounded
  <2> QED
    BY <1>8, <2>3, <2>4, <2>5 DEF on_bytes, Counted
<1>9. CASE eof
  <2>1. stream' = stream /\ \E p \in {"closed", "error"} : Await(p, buf, acc, 0)
    BY <1>9 DEF eof
  <2> QED
    BY <1>0, <1>2, <2>1, AwaitBounded
<1>10. CASE UNCHANGED bodyVars
  BY <1>10 DEF bodyVars, Bounded
<1> QED
  BY <1>3, <1>4, <1>5, <1>6, <1>7, <1>8, <1>9, <1>10 DEF BodyNext

LEMMA BoundedInvariant ==
    ASSUME TypedStreams
    PROVE  BodySpec => []Bounded
<1>1. BodyInit => Bounded
  <2> SUFFICES ASSUME BodyInit PROVE Bounded
    OBVIOUS
  <2>1. Len(acc) = 0 /\ Len(got) = 0 /\ pc = "header"
    BY DEF BodyInit
  <2> QED
    BY <2>1, SmallLimit DEF Bounded
<1> QED
  BY <1>1, BoundedKept, DrainedInvariant, PTL DEF BodySpec

-----------------------------------------------------------------------------
(* Well-formed streams: the readers are where the layout says.             *)

FormedStreams == \A s \in Streams : WellFormed(s)

Lay == CHOOSE l \in Layout(stream) : Describes(stream, l)

\* A reader at p units, in state q with the body a and n units to transfer,
\* after the requests with the bodies g.
Follows(s, l, q, p, a, n, g) ==
    /\ Len(g) <= Len(s.bodies) /\ \A i \in 1 .. Len(g) : g[i] = s.bodies[i]
    /\ q \in Delimited => l.at[p] = q /\ l.done[p] = Len(g) /\ l.body[p] = a
    /\ q = "fixed" => Completes(s, l, p + n, Len(g) + 1, a \o SubSeq(s.wire, p + 1, p + n))
    /\ q = "data"  => Continues(s, l, (p + n) + 2, "size", Len(g),
                                a \o SubSeq(s.wire, p + 1, p + n))
    /\ q = "crlf"  => Continues(s, l, p + n, "size", Len(g), a)
    /\ q = "rejected" /\ s.complete =>
           Len(g) < Len(s.bodies) /\ ExceedsLimit(Len(s.bodies[Len(g) + 1]))

Tracked ==
    /\ Lay \in Layout(stream) /\ Describes(stream, Lay)
    /\ Follows(stream, Lay, pc, pos, acc, need, got)

\* The same after a step of a reader, with the end of the buffer at e.
Reached(e) == Follows(stream, Lay, pc', e - Len(buf'), acc', need', got')

\* What a step that reads starts from.
Steady(e) ==
    /\ Drained
    /\ Len(got) <= Len(stream.bodies) /\ \A i \in 1 .. Len(got) : got[i] = stream.bodies[i]
    /\ e \in Nat /\ e <= Len(stream.wire)

LEMMA EndReached ==
    ASSUME NEW e, Steady(e), NEW p \in {"error", "closed", "wrapped"}, NEW b, NEW a, NEW n,
           Await(p, b, a, n)
    PROVE  Reached(e)
BY DEF Await, Reached, Follows, Steady, Delimited

LEMMA RejectReached ==
    ASSUME NEW e, Steady(e), NEW b, NEW a, NEW n, Await("rejected", b, a, n),
           stream.complete => /\ Len(got) < Len(stream.bodies)
                              /\ ExceedsLimit(Len(stream.bodies[Len(got) + 1]))
    PROVE  Reached(e)
BY DEF Await, Reached, Follows, Steady, Delimited

\* Another line is awaited where a piece begins.
LEMMA LineReached ==
    ASSUME NEW e, Steady(e), NEW b \in Seq(Unit), NEW a, NEW n, NEW q \in {"size", "trailer"},
           Await(q, b, a, n), Len(b) <= e,
           Continues(stream, Lay, e - Len(b), q, Len(got), a)
    PROVE  Reached(e)
<1>1. e - Len(b) <= Len(stream.wire)
  BY DEF Steady, Drained, Sendable
<1>2. Lay.at[e - Len(b)] = q /\ Lay.done[e - Len(b)] = Len(got) /\ Lay.body[e - Len(b)] = a
  BY <1>1 DEF Continues
<1>3. pc' = q /\ buf' = b /\ acc' = a /\ got' = got
  BY DEF Await
<1>4. CASE q = "size"
  BY <1>2, <1>3, <1>4 DEF Reached, Follows, Steady
<1>5. CASE q = "trailer"
  BY <1>2, <1>3, <1>5 DEF Reached, Follows, Steady
<1> QED
  BY <1>4, <1>5

\* A request is dispatched where a message ends.
LEMMA DispatchReached ==
    ASSUME NEW e, Steady(e), NEW b \in Seq(Unit), NEW a \in Seq(Unit),
           dispatch(b, a), Len(b) <= e,
           Completes(stream, Lay, e - Len(b), Len(got) + 1, a)
    PROVE  Reached(e)
<1>1. e - Len(b) <= Len(stream.wire) /\ got \in Seq(Seq(Unit))
  BY DEF Steady, Drained, Sendable
<1>2. /\ Lay.at[e - Len(b)] = "header" /\ Lay.done[e - Len(b)] = Len(got) + 1
      /\ Lay.body[e - Len(b)] = <<>>
      /\ Len(got) + 1 <= Len(stream.bodies) /\ stream.bodies[Len(got) + 1] = a
  BY <1>1 DEF Completes, Continues
<1>3. pc' = "header" /\ buf' = b /\ acc' = <<>> /\ got' = Append(got, a)
  BY DEF dispatch
<1>4. /\ Len(got') = Len(got) + 1 /\ Len(got) \in Nat
      /\ \A i \in 1 .. Len(got) : got'[i] = got[i]
      /\ got'[Len(got) + 1] = a
  BY <1>1, <1>3, AppendProperties
<1>5. \A i \in 1 .. Len(got') : got'[i] = stream.bodies[i]
  <2>1. ASSUME NEW i \in 1 .. Len(got') PROVE got'[i] = stream.bodies[i]
    <3>1. i \in 1 .. Len(got) \/ i = Len(got) + 1
      BY <1>4
    <3> QED
      BY <1>2, <1>4, <3>1 DEF Steady
  <2> QED
    BY <2>1
<1> QED
  BY <1>2, <1>3, <1>4, <1>5 DEF Reached, Follows

LEMMA CrlfReached ==
    ASSUME NEW e, Steady(e), NEW b \in Seq(Unit), NEW a, Len(b) <= e,
           Continues(stream, Lay, (e - Len(b)) + 2, "size", Len(got), a),
           read_chunk_trailing_crlf(b, a)
    PROVE  Reached(e)
<1>1. Len(b) \in Nat /\ e \in Nat
  BY DEF Steady
<1>2. CASE Len(b) >= 2
  <2>1. Await("size", From(b, 2), a, 0) /\ 2 \in 0 .. Len(b)
    BY <1>1, <1>2 DEF read_chunk_trailing_crlf
  <2>2. From(b, 2) \in Seq(Unit) /\ Len(From(b, 2)) = Len(b) - 2
    BY <2>1, Cutting
  <2>3. e - Len(From(b, 2)) = (e - Len(b)) + 2 /\ Len(From(b, 2)) <= e
    BY <1>1, <2>2
  <2> QED
    BY <2>1, <2>2, <2>3, LineReached
<1>3. CASE Len(b) < 2
  <2>1. Await("crlf", <<>>, a, 2 - Len(b))
    BY <1>3 DEF read_chunk_trailing_crlf
  <2>2. pc' = "crlf" /\ Len(buf') = 0 /\ acc' = a /\ need' = 2 - Len(b) /\ got' = got
    BY <2>1 DEF Await
  <2>3. (e - Len(buf')) + need' = (e - Len(b)) + 2
    BY <1>1, <2>2
  <2> QED
    BY <2>2, <2>3 DEF Reached, Follows, Steady, Delimited
<1> QED
  BY <1>1, <1>2, <1>3

LEMMA ContinuesWith ==
    ASSUME NEW s, NEW l, NEW e, NEW q, NEW n, NEW b, NEW d,
           e <= Len(s.wire) => b = d
    PROVE  /\ Continues(s, l, e, q, n, b) => Continues(s, l, e, q, n, d)
           /\ Completes(s, l, e, n, b) => Completes(s, l, e, n, d)
BY DEF Continues, Completes

LEMMA ChunkReached ==
    ASSUME NEW e, Steady(e), NEW b \in Seq(Unit), NEW a \in Seq(Unit), NEW size \in Nat,
           NEW p \in Nat, e = p + Len(b), Window(b, stream.wire, p),
           NEW c, Joins(c, a, stream.wire, p, p + size),
           Continues(stream, Lay, (p + size) + 2, "size", Len(got), c),
           read_chunk_data(b, a, size)
    PROVE  Reached(e)
<1>1. /\ Len(b) \in Nat /\ stream.wire \in Seq(Unit) /\ Len(stream.wire) \in Nat
      /\ e <= Len(stream.wire)
  BY DEF Steady, Drained, Sendable
<1>2. CASE size <= Len(b) /\ read_chunk_trailing_crlf(From(b, size), a \o Upto(b, size))
  <2>1. /\ size \in 0 .. Len(b) /\ From(b, size) \in Seq(Unit)
        /\ Len(From(b, size)) = Len(b) - size
    BY <1>1, <1>2, Cutting
  <2>2. Upto(b, size) = SubSeq(stream.wire, p + 1, p + size)
    BY <1>1, <2>1, WindowCut
  <2>3. e - Len(From(b, size)) = p + size /\ Len(From(b, size)) <= e
    BY <1>1, <2>1
  <2>4. c = a \o Upto(b, size)
    BY <2>2 DEF Joins
  <2>5. /\ Continues(stream, Lay, (e - Len(From(b, size))) + 2, "size", Len(got), c)
        /\ read_chunk_trailing_crlf(From(b, size), c)
    BY <1>2, <2>3, <2>4
  <2> QED
    BY <2>1, <2>3, <2>5, CrlfReached
<1>3. CASE Len(b) < size /\ Await("data", <<>>, a \o b, size - Len(b))
  <2>1. /\ pc' = "data" /\ Len(buf') = 0 /\ acc' = a \o b /\ need' = size - Len(b)
        /\ got' = got
    BY <1>3 DEF Await
  <2>2. e - Len(buf') = e /\ e + need' = p + size
    BY <1>1, <2>1
  <2>3. (p + size) + 2 <= Len(stream.wire) =>
           c = acc' \o SubSeq(stream.wire, e + 1, e + need')
    <3> SUFFICES ASSUME (p + size) + 2 <= Len(stream.wire)
                 PROVE  c = acc' \o SubSeq(stream.wire, e + 1, e + need')
      OBVIOUS
    <3>1. p + size \in Nat /\ p + Len(b) <= p + size /\ p + size <= Len(stream.wire)
      BY <1>1, <1>3
    <3>2. Begins(a, b, stream.wire, p, p + size)
      BY <1>1, <3>1 DEF Begins
    <3>3. Joins(c, a \o b, stream.wire, p + Len(b), p + size)
      BY <3>2, SplicedOn
    <3> QED
      BY <2>1, <2>2, <3>3 DEF Joins
  <2>4. Continues(stream, Lay, (p + size) + 2, "size", Len(got),
                  acc' \o SubSeq(stream.wire, e + 1, e + need'))
    BY <2>3, ContinuesWith
  <2> QED
    BY <2>1, <2>2, <2>4 DEF Reached, Follows, Steady, Delimited
<1>4. CASE Await("wrapped", b, a, size)
  BY <1>4, EndReached
<1> QED
  BY <1>2, <1>3, <1>4, ChunkReads

LEMMA FixedReached ==
    ASSUME NEW e, Steady(e), NEW b \in Seq(Unit), NEW len \in Nat,
           NEW p \in Nat, e = p + Len(b), Window(b, stream.wire, p),
           NEW c, c = SubSeq(stream.wire, p + 1, p + len),
           Completes(stream, Lay, p + len, Len(got) + 1, c),
           read_fixed_body(b, len)
    PROVE  Reached(e)
<1>1. /\ Len(b) \in Nat /\ stream.wire \in Seq(Unit) /\ Len(stream.wire) \in Nat
      /\ e <= Len(stream.wire)
  BY DEF Steady, Drained, Sendable
<1>2. CASE len <= Len(b) /\ dispatch(From(b, len), Upto(b, len))
  <2>1. /\ len \in 0 .. Len(b) /\ From(b, len) \in Seq(Unit) /\ Upto(b, len) \in Seq(Unit)
        /\ Len(From(b, len)) = Len(b) - len
    BY <1>1, <1>2, Cutting
  <2>2. Upto(b, len) = SubSeq(stream.wire, p + 1, p + len)
    BY <1>1, <2>1, WindowCut
  <2>3. e - Len(From(b, len)) = p + len /\ Len(From(b, len)) <= e
    BY <1>1, <2>1
  <2>4. Completes(stream, Lay, e - Len(From(b, len)), Len(got) + 1, Upto(b, len))
    BY <2>2, <2>3
  <2> QED
    BY <1>2, <2>1, <2>3, <2>4, DispatchReached
<1>3. CASE Len(b) < len /\ Await("fixed", <<>>, b, len - Len(b))
  <2>1. /\ pc' = "fixed" /\ Len(buf') = 0 /\ acc' = b /\ need' = len - Len(b)
        /\ got' = got
    BY <1>3 DEF Await
  <2>2. e - Len(buf') = e /\ e + need' = p + len
    BY <1>1, <2>1
  <2>3. p + len <= Len(stream.wire) =>
           c = acc' \o SubSeq(stream.wire, e + 1, e + need')
    <3> SUFFICES ASSUME p + len <= Len(stream.wire)
                 PROVE  c = acc' \o SubSeq(stream.wire, e + 1, e + need')
      OBVIOUS
    <3>1. p + Len(b) <= p + len /\ e + 1 = (p + Len(b)) + 1
      BY <1>1, <1>3
    <3>2. b \o SubSeq(stream.wire, (p + Len(b)) + 1, p + len)
             = SubSeq(stream.wire, p + 1, p + len)
      <4> DEFINE w == stream.wire
                 q == p + len
      <4>1. /\ w \in Seq(Unit) /\ Window(b, w, p) /\ q \in Nat
            /\ p + Len(b) <= q /\ q <= Len(w)
        BY <1>1, <3>1
      <4> HIDE DEF w, q
      <4>2. b \o SubSeq(w, (p + Len(b)) + 1, q) = SubSeq(w, p + 1, q)
        BY <4>1, Spliced
      <4> QED
        BY <4>2 DEF w, q
    <3> QED
      BY <2>1, <2>2, <3>1, <3>2
  <2>4. Completes(stream, Lay, p + len, Len(got) + 1,
                  acc' \o SubSeq(stream.wire, e + 1, e + need'))
    BY <2>3, ContinuesWith
  <2> QED
    BY <2>1, <2>2, <2>4 DEF Reached, Follows, Steady, Delimited
<1> QED
  BY <1>2, <1>3, FixedReads

\* A line that is complete in the buffer begins where the layout says.
LEMMA LineStarts ==
    ASSUME Drained, Cut, Tracked, pc \in Delimited, Ready(buf, pc)
    PROVE  /\ Steady(pos + Len(buf))
           /\ FirstLine(buf, pc) \in 1 .. Len(buf) /\ Len(buf) \in Nat
           /\ pos \in 0 .. Len(stream.wire) - 1 /\ pos + Len(buf) <= Len(stream.wire)
           /\ buf[1] = stream.wire[pos + 1] /\ buf[1] \in Unit
           /\ Lay.at[pos] = pc /\ Lay.done[pos] = Len(got) /\ Lay.body[pos] = acc
<1>1. /\ buf \in Seq(Unit) /\ Len(buf) \in Nat /\ Len(stream.wire) \in Nat
      /\ pos \in Nat /\ pos + Len(buf) <= Len(stream.wire)
  BY DEF Drained, Cut, Window, Sendable
<1>2. FirstLine(buf, pc) \in 1 .. Len(buf)
  BY <1>1, FirstLineEnds
<1>3. 1 \in 1 .. Len(buf) /\ pos \in 0 .. Len(stream.wire) - 1 /\ pos + Len(buf) \in Nat
  BY <1>1, <1>2
<1>4. buf[1] = stream.wire[pos + 1] /\ buf[1] \in Unit
  BY <1>1, <1>3, ElementOfSeq DEF Cut, Window
<1>5. /\ Len(got) <= Len(stream.bodies) /\ \A i \in 1 .. Len(got) : got[i] = stream.bodies[i]
      /\ Lay.at[pos] = pc /\ Lay.done[pos] = Len(got) /\ Lay.body[pos] = acc
  BY DEF Tracked, Follows
<1>6. Steady(pos + Len(buf))
  BY <1>1, <1>3, <1>5 DEF Steady
<1> QED
  BY <1>1, <1>2, <1>3, <1>4, <1>5, <1>6

\* What is left of the buffer when a line of n units is taken from it.
LEMMA LineTaken ==
    ASSUME Drained, Cut, NEW n \in 1 .. Len(buf), NEW b, b = From(buf, n)
    PROVE  /\ b \in Seq(Unit) /\ Len(b) \in Nat /\ Len(b) <= pos + Len(buf)
           /\ pos + n \in Nat /\ pos + Len(buf) = (pos + n) + Len(b)
           /\ (pos + Len(buf)) - Len(b) = pos + n
           /\ Window(b, stream.wire, pos + n)
<1>1. /\ buf \in Seq(Unit) /\ Len(buf) \in Nat /\ stream.wire \in Seq(Unit)
      /\ pos \in Nat /\ n \in 0 .. Len(buf) /\ n \in Nat /\ Window(buf, stream.wire, pos)
  BY DEF Drained, Cut, Sendable
<1>2. b \in Seq(Unit) /\ Len(b) = Len(buf) - n
  BY <1>1, Cutting
<1>3. Window(b, stream.wire, pos + n)
  BY <1>1, WindowCut
<1> QED
  BY <1>1, <1>2, <1>3

\* A line that is one unit long.
LEMMA OneUnit ==
    ASSUME buf \in Seq(Unit), Ready(buf, pc), EndsAt(buf, 1, pc)
    PROVE  FirstLine(buf, pc) = 1
<1>1. /\ FirstLine(buf, pc) \in 1 .. Len(buf)
      /\ \A i \in 1 .. Len(buf) : EndsAt(buf, i, pc) => FirstLine(buf, pc) <= i
  BY FirstLineEnds
<1>2. 1 \in 1 .. Len(buf) /\ FirstLine(buf, pc) \in Nat
  BY <1>1
<1> QED
  BY <1>1, <1>2

LEMMA HeadReached ==
    ASSUME NEW e, Steady(e), NEW b \in Seq(Unit), NEW h \in Unit, h.t \in {"head", "chead"},
           NEW p \in Nat, e = p + Len(b), Window(b, stream.wire, p),
           h.t = "chead" => Continues(stream, Lay, p, "size", Len(got), <<>>),
           NEW c, h.t = "head" => /\ c = SubSeq(stream.wire, p + 1, p + h.v)
                                  /\ Completes(stream, Lay, p + h.v, Len(got) + 1, c),
           read_body(b, h)
    PROVE  Reached(e)
<1>1. /\ Len(b) \in Nat /\ Len(b) <= e /\ e - Len(b) = p /\ <<>> \in Seq(Unit)
      /\ stream.wire \in Seq(Unit) /\ Len(got) \in Nat /\ Len(stream.bodies) \in Nat
  BY DEF Steady, Drained, Sendable
<1>2. CASE h.t = "chead" /\ Await("size", b, <<>>, 0)
  BY <1>1, <1>2, LineReached
<1>3. CASE h.t = "head" /\ ExceedsLimit(h.v) /\ Await("rejected", b, <<>>, 0)
  <2>1. ASSUME stream.complete
        PROVE  Len(got) < Len(stream.bodies) /\ ExceedsLimit(Len(stream.bodies[Len(got) + 1]))
    <3>1. /\ p + h.v <= Len(stream.wire) /\ Len(got) + 1 <= Len(stream.bodies)
          /\ stream.bodies[Len(got) + 1] = c
      BY <1>3, <2>1 DEF Completes, Continues
    <3>2. Len(c) = h.v
      BY <1>1, <1>3, <3>1, HeadLength, Piece
    <3> QED
      BY <1>1, <1>3, <3>1, <3>2
  <2> QED
    BY <1>3, <2>1, RejectReached
<1>4. CASE h.t = "head" /\ h.v = 0 /\ dispatch(b, <<>>)
  <2>1. c = <<>> /\ p + h.v = p
    <3>1. p + h.v = p /\ p + 1 \in Int /\ p \in Int /\ p < p + 1
      BY <1>4
    <3> QED
      BY <1>4, <3>1, SubSeqEmpty
  <2>2. Completes(stream, Lay, e - Len(b), Len(got) + 1, <<>>)
    BY <1>1, <1>4, <2>1
  <2> QED
    BY <1>1, <1>4, <2>2, DispatchReached
<1>5. CASE h.t = "head" /\ read_fixed_body(b, h.v)
  BY <1>5, HeadLength, FixedReached
<1> QED
  BY <1>2, <1>3, <1>4, <1>5, BodyReads

LEMMA HeaderReached ==
    ASSUME Drained, Cut, Tracked, on_header
    PROVE  Reached(pos + Len(buf))
<1> DEFINE h == buf[1]
           b == From(buf, 1)
           c == SubSeq(stream.wire, (pos + 1) + 1, (pos + 1) + h.v)
<1>0. pc = "header" /\ pc \in Delimited /\ Ready(buf, pc) /\ buf \in Seq(Unit)
  BY DEF on_header, Delimited, Drained
<1>1. /\ Steady(pos + Len(buf)) /\ 1 \in 1 .. Len(buf)
      /\ pos \in 0 .. Len(stream.wire) - 1 /\ pos \in Nat
      /\ h = stream.wire[pos + 1] /\ h \in Unit
      /\ Lay.at[pos] = "header" /\ Lay.done[pos] = Len(got)
  BY <1>0, LineStarts
<1>2. MessageAt(stream, Lay, pos)
  BY <1>1 DEF Tracked, Describes
<1>3. h.t \in {"head", "chead"} /\ FirstLine(buf, pc) = 1
  <2>1. h.t \in {"head", "chead"}
    BY <1>1, <1>2 DEF MessageAt
  <2>2. EndsAt(buf, 1, pc)
    BY <1>0, <2>1 DEF EndsAt
  <2> QED
    BY <1>0, <2>1, <2>2, OneUnit
<1>4. read_body(b, h)
  BY <1>3 DEF on_header
<1>5. /\ b \in Seq(Unit) /\ pos + 1 \in Nat /\ pos + Len(buf) = (pos + 1) + Len(b)
      /\ Window(b, stream.wire, pos + 1)
  BY <1>1, LineTaken
<1>6. h.t = "chead" => Continues(stream, Lay, pos + 1, "size", Len(got), <<>>)
  BY <1>1, <1>2 DEF MessageAt
<1>7. h.t = "head" => Completes(stream, Lay, (pos + 1) + h.v, Len(got) + 1, c)
  <2>1. h.t = "head" => pos + 2 = (pos + 1) + 1 /\ pos + 1 + h.v = (pos + 1) + h.v
    BY <1>1, HeadLength
  <2> QED
    BY <1>1, <1>2, <2>1 DEF MessageAt
<1> HIDE DEF h, b
<1> QED
  BY <1>1, <1>3, <1>4, <1>5, <1>6, <1>7, HeadReached

\* A sum that is too large is too large without wrapping around, too.
LEMMA SumExceeds ==
    ASSUME NEW m \in Nat, NEW n \in Nat, NEW k \in Nat, m + n <= k, ExceedsLimit(Plus(m, n))
    PROVE  ExceedsLimit(k)
<1>1. SizeMax \in Nat /\ max_body_size \in Nat
  BY LimitAssumption, SizeMaxAssumption
<1>2. (m + n) % (SizeMax + 1) <= m + n /\ (m + n) % (SizeMax + 1) \in Int
  BY <1>1
<1> QED
  BY <1>1, <1>2 DEF ExceedsLimit, Plus

LEMMA SizeReached ==
    ASSUME Drained, Cut, Tracked, on_size_line
    PROVE  Reached(pos + Len(buf))
<1> DEFINE size == buf[1].v
           b    == From(buf, 1)
           sum  == Plus(Len(acc), size)
           c    == acc \o SubSeq(stream.wire, (pos + 1) + 1, (pos + 1) + size)
<1>0. /\ pc = "size" /\ pc \in Delimited /\ Ready(buf, pc)
      /\ buf \in Seq(Unit) /\ acc \in Seq(Unit) /\ Len(acc) \in Nat
  BY DEF on_size_line, Delimited, Drained
<1>1. /\ Steady(pos + Len(buf)) /\ 1 \in 1 .. Len(buf)
      /\ pos \in 0 .. Len(stream.wire) - 1 /\ pos \in Nat
      /\ buf[1] = stream.wire[pos + 1] /\ buf[1] \in Unit
      /\ Lay.at[pos] = "size" /\ Lay.done[pos] = Len(got) /\ Lay.body[pos] = acc
  BY <1>0, LineStarts
<1>2. ChunkAt(stream, Lay, pos)
  BY <1>1 DEF Tracked, Describes
<1>3. buf[1].t = "size" /\ FirstLine(buf, pc) = 1
  <2>1. buf[1].t = "size"
    BY <1>1, <1>2 DEF ChunkAt
  <2>2. EndsAt(buf, 1, pc)
    BY <1>0, <2>1 DEF EndsAt
  <2> QED
    BY <1>0, <2>1, <2>2, OneUnit
<1>4. chunk_size(1)
  BY <1>3 DEF on_size_line
<1>5. /\ b \in Seq(Unit) /\ Len(b) <= pos + Len(buf) /\ (pos + Len(buf)) - Len(b) = pos + 1
      /\ pos + 1 \in Nat /\ pos + Len(buf) = (pos + 1) + Len(b)
      /\ Window(b, stream.wire, pos + 1)
  BY <1>1, LineTaken
<1>6. size = 0 => Continues(stream, Lay, pos + 1, "trailer", Len(got), acc)
  BY <1>1, <1>2 DEF ChunkAt, Bad
<1>7. size \in Nat /\ size > 0 =>
         Continues(stream, Lay, ((pos + 1) + size) + 2, "size", Len(got), c)
  <2>1. size \in Nat /\ size > 0 => /\ pos + 2 = (pos + 1) + 1 /\ pos + 1 + size = (pos + 1) + size
                                    /\ size # 0 /\ size # Bad
    BY <1>1 DEF Bad
  <2> QED
    BY <1>1, <1>2, <2>1 DEF ChunkAt
<1>8. stream.complete => /\ Len(got) < Len(stream.bodies)
                         /\ Len(acc) + size <= Len(stream.bodies[Len(got) + 1])
  BY <1>1, <1>2 DEF ChunkAt
<1>9. Joins(c, acc, stream.wire, pos + 1, (pos + 1) + size)
  BY DEF Joins
<1>10. CASE Await("error", b, acc, 0)
  <2> HIDE DEF b
  <2> QED
    BY <1>1, <1>10, EndReached
<1>11. CASE size \in Nat /\ ExceedsLimit(sum) /\ Await("rejected", b, acc, 0)
  <2>1. ASSUME stream.complete
        PROVE  ExceedsLimit(Len(stream.bodies[Len(got) + 1]))
    <3>1. Len(stream.bodies[Len(got) + 1]) \in Nat
      <4>1. stream.bodies \in Seq(Seq(Unit)) /\ Len(got) \in Nat
        BY DEF Drained, Sendable
      <4>2. Len(got) + 1 \in 1 .. Len(stream.bodies)
        BY <1>8, <2>1, <4>1
      <4> QED
        BY <4>1, <4>2, ElementOfSeq
    <3> QED
      BY <1>0, <1>8, <1>11, <2>1, <3>1, SumExceeds
  <2> HIDE DEF b
  <2> QED
    BY <1>1, <1>8, <1>11, <2>1, RejectReached
<1>12. CASE size = 0 /\ Await("trailer", b, acc, 0)
  <2> HIDE DEF b, size
  <2>1. Continues(stream, Lay, (pos + Len(buf)) - Len(b), "trailer", Len(got), acc)
    BY <1>5, <1>6, <1>12
  <2> QED
    BY <1>1, <1>5, <1>12, <2>1, LineReached
<1>13. CASE size \in Nat /\ size > 0 /\ read_chunk_data(b, acc, size)
  <2> HIDE DEF b, c, size
  <2> QED
    BY <1>0, <1>1, <1>5, <1>7, <1>9, <1>13, ChunkReached
<1> HIDE DEF b, size, sum
<1>14. \/ Await("error", b, acc, 0)
       \/ size \in Nat /\ ExceedsLimit(sum) /\ Await("rejected", b, acc, 0)
       \/ size = 0 /\ Await("trailer", b, acc, 0)
       \/ size \in Nat /\ size > 0 /\ read_chunk_data(b, acc, size)
  BY <1>0, <1>1, <1>4, SizeReads DEF b, size, sum
<1> QED
  BY <1>10, <1>11, <1>12, <1>13, <1>14

LEMMA TrailerReached ==
    ASSUME Drained, Cut, Tracked, on_trailer
    PROVE  Reached(pos + Len(buf))
<1>0. /\ pc = "trailer" /\ pc \in Delimited /\ Ready(buf, pc)
      /\ buf \in Seq(Unit) /\ acc \in Seq(Unit)
  BY DEF on_trailer, Delimited, Drained
<1>1. /\ Steady(pos + Len(buf)) /\ FirstLine(buf, pc) \in 1 .. Len(buf) /\ Len(buf) \in Nat
      /\ pos \in 0 .. Len(stream.wire) - 1 /\ pos \in Nat
      /\ pos + Len(buf) <= Len(stream.wire)
      /\ buf[1] = stream.wire[pos + 1] /\ buf[1] \in Unit
      /\ Lay.at[pos] = "trailer" /\ Lay.done[pos] = Len(got) /\ Lay.body[pos] = acc
  BY <1>0, LineStarts
<1>2. TrailerAt(stream, Lay, pos)
  BY <1>1 DEF Tracked, Describes
<1>3. CASE buf[1].t = "field"
  <2> DEFINE b == From(buf, 1)
  <2>1. FirstLine(buf, pc) = 1
    <3>1. EndsAt(buf, 1, pc)
      BY <1>0, <1>3 DEF EndsAt
    <3> QED
      BY <1>0, <3>1, OneUnit
  <2>2. Await("trailer", b, acc, 0)
    BY <2>1 DEF on_trailer, chunk_trailer
  <2>3. /\ b \in Seq(Unit) /\ Len(b) <= pos + Len(buf) /\ (pos + Len(buf)) - Len(b) = pos + 1
    BY <1>1, LineTaken
  <2>4. Continues(stream, Lay, pos + 1, "trailer", Len(got), acc)
    BY <1>1, <1>2, <1>3 DEF TrailerAt
  <2> HIDE DEF b
  <2>5. Continues(stream, Lay, (pos + Len(buf)) - Len(b), "trailer", Len(got), acc)
    BY <2>3, <2>4
  <2> QED
    BY <1>1, <2>2, <2>3, <2>5, LineReached
<1>4. CASE buf[1].t = "cr"
  <2> DEFINE b == From(buf, 2)
  <2>1. /\ FirstLine(buf, pc) \in Nat /\ EndsAt(buf, FirstLine(buf, pc), pc)
        /\ \A i \in 1 .. Len(buf) : EndsAt(buf, i, pc) => FirstLine(buf, pc) <= i
    BY <1>0, <1>1, FirstLineEnds
  <2>2. FirstLine(buf, pc) # 1
    BY <1>0, <1>4, <2>1 DEF EndsAt
  <2>3. 2 \in 1 .. Len(buf) /\ pos + 2 <= Len(stream.wire)
    BY <1>1, <2>1, <2>2
  <2>4. buf[2] = stream.wire[pos + 2] /\ buf[2].t = "lf"
    BY <1>1, <1>2, <1>4, <2>3 DEF TrailerAt, Cut, Window
  <2>5. EndsAt(buf, 2, pc)
    BY <1>0, <1>4, <2>4 DEF EndsAt
  <2>6. FirstLine(buf, pc) = 2
    BY <1>1, <2>1, <2>2, <2>3, <2>5
  <2>7. dispatch(b, acc)
    BY <2>4, <2>6 DEF on_trailer, chunk_trailer
  <2>8. /\ b \in Seq(Unit) /\ Len(b) <= pos + Len(buf) /\ (pos + Len(buf)) - Len(b) = pos + 2
    BY <2>3, LineTaken
  <2>9. Completes(stream, Lay, pos + 2, Len(got) + 1, acc)
    BY <1>1, <1>2, <1>4 DEF TrailerAt
  <2> HIDE DEF b
  <2>10. Completes(stream, Lay, (pos + Len(buf)) - Len(b), Len(got) + 1, acc)
    BY <2>8, <2>9
  <2> QED
    BY <1>0, <1>1, <2>7, <2>8, <2>10, DispatchReached
<1> QED
  BY <1>1, <1>2, <1>3, <1>4 DEF TrailerAt

LEMMA BytesReached ==
    ASSUME Drained, Cut, Tracked, on_bytes
    PROVE  Reached(pos + need)
<1> DEFINE a == acc \o Upto(net, need)
<1>0. /\ pc \in Counted /\ buf = <<>> /\ net \in Seq(Unit) /\ acc \in Seq(Unit)
      /\ stream.wire \in Seq(Unit) /\ Len(stream.wire) \in Nat /\ Len(net) \in Nat
      /\ need \in 0 .. Len(net) /\ need \in Nat /\ pos \in Nat
  BY DEF on_bytes, Drained, Sendable, Cut
<1>1. Window(net, stream.wire, pos) /\ pos + Len(net) <= Len(stream.wire)
  <2>1. Len(buf) = 0 /\ pos + Len(buf) = pos
    BY <1>0
  <2> QED
    BY <2>1 DEF Cut, Window
<1>2. Steady(pos + need)
  BY <1>0, <1>1 DEF Steady, Tracked, Follows
<1>3. a = acc \o SubSeq(stream.wire, pos + 1, pos + need)
  BY <1>0, <1>1, WindowCut
<1>4. a \in Seq(Unit)
  BY <1>0, Cutting, ConcatProperties
<1>5. /\ buf \in Seq(Unit) /\ Len(buf) = 0 /\ Len(buf) <= pos + need
      /\ (pos + need) - Len(buf) = pos + need
  BY <1>0
<1>6. CASE pc = "fixed"
  <2>1. Completes(stream, Lay, pos + need, Len(got) + 1, a)
    BY <1>3, <1>6 DEF Tracked, Follows
  <2>2. dispatch(buf, a)
    BY <1>6 DEF on_bytes
  <2> HIDE DEF a
  <2>3. Completes(stream, Lay, (pos + need) - Len(buf), Len(got) + 1, a)
    BY <1>5, <2>1
  <2> QED
    BY <1>2, <1>4, <1>5, <2>2, <2>3, DispatchReached
<1>7. CASE pc = "data"
  <2>1. Continues(stream, Lay, (pos + need) + 2, "size", Len(got), a)
    BY <1>3, <1>7 DEF Tracked, Follows
  <2>2. read_chunk_trailing_crlf(buf, a)
    BY <1>7 DEF on_bytes
  <2> HIDE DEF a
  <2>3. Continues(stream, Lay, ((pos + need) - Len(buf)) + 2, "size", Len(got), a)
    BY <1>5, <2>1
  <2> QED
    BY <1>2, <1>5, <2>2, <2>3, CrlfReached
<1>8. CASE pc = "crlf"
  <2>1. Continues(stream, Lay, (pos + need) - Len(buf), "size", Len(got), acc)
    BY <1>5, <1>8 DEF Tracked, Follows
  <2>2. Await("size", buf, acc, 0)
    BY <1>8 DEF on_bytes
  <2> QED
    BY <1>2, <1>5, <2>1, <2>2, LineReached
<1> QED
  BY <1>0, <1>6, <1>7, <1>8 DEF Counted

LEMMA TrackedKept ==
    ASSUME Drained, Cut, Tracked, [BodyNext]_bodyVars
    PROVE  Tracked'
<1>0. /\ Len(buf) \in Nat /\ Len(net) \in Nat /\ Len(stream.wire) \in Nat /\ pos \in Nat
      /\ Drained' /\ Len(buf') \in Nat
  <2>1. Drained'
    BY DrainedKept
  <2> QED
    BY <2>1 DEF Drained, Sendable, Cut
<1>1. ASSUME stream' = stream, Follows(stream, Lay, pc', pos', acc', need', got')
      PROVE  Tracked'
  <2>1. Lay' = Lay
    BY <1>1 DEF Lay
  <2> QED
    BY <1>1, <2>1 DEF Tracked
<1>2. CASE on_header \/ on_size_line \/ on_trailer
  <2>1. UNCHANGED <<stream, net>>
    BY <1>2 DEF on_header, on_size_line, on_trailer
  <2>2. pos' = (pos + Len(buf)) - Len(buf')
    BY <1>0, <2>1 DEF pos
  <2>3. Reached(pos + Len(buf))
    BY <1>2, HeaderReached, SizeReached, TrailerReached
  <2> QED
    BY <1>1, <2>1, <2>2, <2>3 DEF Reached
<1>3. CASE on_bytes
  <2>1. stream' = stream /\ net' = From(net, need) /\ need \in 0 .. Len(net) /\ Len(buf) = 0
    BY <1>0, <1>3 DEF on_bytes, Drained
  <2>2. Len(net') = Len(net) - need
    BY <2>1, Cutting DEF Drained
  <2>3. pos' = (pos + need) - Len(buf')
    BY <1>0, <2>1, <2>2 DEF pos
  <2>4. Reached(pos + need)
    BY <1>3, BytesReached
  <2> QED
    BY <1>1, <2>1, <2>3, <2>4 DEF Reached
<1>4. CASE eof
  <2>1. /\ UNCHANGED <<stream, net, buf, got>> /\ pc' \in {"closed", "error"} /\ pos' = pos
    BY <1>4 DEF eof, Await, pos
  <2>2. Follows(stream, Lay, pc', pos', acc', need', got')
    BY <2>1 DEF Tracked, Follows, Delimited
  <2> QED
    BY <1>1, <2>1, <2>2
<1>5. CASE Arrival
  <2>1. UNCHANGED <<stream, acc, need, pc, got>> /\ pos' = pos
    BY <1>5, MoveToBuffer DEF Arrival
  <2> QED
    BY <1>1, <2>1 DEF Tracked
<1>6. CASE UNCHANGED bodyVars
  <2>1. UNCHANGED <<stream, acc, need, pc, got>> /\ pos' = pos
    BY <1>6 DEF bodyVars, pos
  <2> QED
    BY <1>1, <2>1 DEF Tracked
<1> QED
  BY <1>2, <1>3, <1>4, <1>5, <1>6 DEF BodyNext

LEMMA TrackedInvariant ==
    ASSUME TypedStreams, FormedStreams
    PROVE  BodySpec => []Tracked
<1>1. BodyInit => Tracked
  <2> SUFFICES ASSUME BodyInit PROVE Tracked
    OBVIOUS
  <2>1. /\ stream \in Streams /\ stream.wire \in Seq(Unit) /\ stream.bodies \in Seq(Seq(Unit))
        /\ net = stream.wire /\ buf = <<>> /\ acc = <<>> /\ pc = "header" /\ got = <<>>
    BY DEF BodyInit, TypedStreams, Sendable
  <2>2. \E l \in Layout(stream) : Describes(stream, l)
    BY <2>1 DEF FormedStreams, WellFormed
  <2>3. Lay \in Layout(stream) /\ Describes(stream, Lay)
    BY <2>2 DEF Lay
  <2>4. pos = 0 /\ Len(got) = 0 /\ Len(stream.bodies) \in Nat
    BY <2>1 DEF pos
  <2>5. Lay.at[0] = "header" /\ Lay.done[0] = 0 /\ Lay.body[0] = <<>>
    BY <2>3 DEF Describes
  <2>6. Follows(stream, Lay, pc, pos, acc, need, got)
    BY <2>1, <2>4, <2>5 DEF Follows
  <2> QED
    BY <2>3, <2>6 DEF Tracked
<1> QED
  BY <1>1, TrackedKept, DrainedInvariant, CutInvariant, PTL DEF BodySpec

\* However a well-formed stream is cut into segments, and wherever it ends,
\* the requests that go to dispatch() carry the bodies the client sent, byte
\* for byte and in order.
THEOREM BodiesRead ==
    ASSUME TypedStreams, FormedStreams
    PROVE  BodySpec => []BodiesExact
<1>1. Drained /\ Tracked => BodiesExact
  <2> SUFFICES ASSUME Drained, Tracked PROVE BodiesExact
    OBVIOUS
  <2> DEFINE g == got
             s == stream.bodies
  <2>1. /\ g \in Seq(Seq(Unit)) /\ s \in Seq(Seq(Unit)) /\ Len(g) \in Nat
        /\ Len(g) <= Len(s) /\ \A i \in 1 .. Len(g) : g[i] = s[i]
    BY DEF Drained, Sendable, Tracked, Follows
  <2> HIDE DEF g, s
  <2>2. Len(g) \in 0 .. Len(s)
    BY <2>1
  <2>3. /\ Upto(s, Len(g)) \in Seq(Seq(Unit)) /\ Len(Upto(s, Len(g))) = Len(g)
        /\ \A i \in 1 .. Len(g) : Upto(s, Len(g))[i] = s[i]
        /\ Upto(g, Len(g)) = g
    BY <2>1, <2>2, Cutting, CutAll
  <2>4. g = Upto(s, Len(g))
    <3> DEFINE t == Upto(s, Len(g))
    <3>1. t \in Seq(Seq(Unit)) /\ Len(g) = Len(t) /\ \A i \in 1 .. Len(g) : g[i] = t[i]
      BY <2>1, <2>3
    <3> HIDE DEF t
    <3>2. g = t
      BY <2>1, <3>1, SeqEqual
    <3> QED
      BY <3>2 DEF t
  <2>5. IsPrefix(g, s)
    BY <2>1, <2>3, <2>4 DEF IsPrefix, Upto
  <2> QED
    BY <2>5 DEF BodiesExact, g, s
<1> QED
  BY <1>1, DrainedInvariant, TrackedInvariant, PTL

\* Whatever sizes a client announces, up to the largest size_t, the limit is
\* kept by every body that is dispatched or that size_t can count while it is
\* being read, and a client that sends all of its stream is answered 413 only
\* if the body it was sending is too large, in one piece or in chunks.
THEOREM LimitHeld ==
    ASSUME TypedStreams, FormedStreams
    PROVE  BodySpec => []LimitExact
<1>1. Drained /\ Bounded /\ Tracked => LimitExact
  <2> SUFFICES ASSUME Drained, Bounded, Tracked PROVE LimitExact
    OBVIOUS
  <2>1. max_body_size # 0 /\ pc \in {"fixed", "data"} => Len(acc) + need <= max_body_size
    BY DEF Bounded, Small
  <2>2. ASSUME NEW i \in DOMAIN got PROVE ~ExceedsLimit(Len(got[i]))
    <3>1. got \in Seq(Seq(Unit)) /\ i \in 1 .. Len(got)
      BY DEF Drained
    <3>2. Len(got[i]) \in Nat
      <4>1. got[i] \in Seq(Unit)
        BY <3>1, ElementOfSeq
      <4> QED
        BY <4>1
    <3>3. Small(Len(got[i]))
      BY <3>1 DEF Bounded
    <3> QED
      BY <3>2, <3>3, SmallLimit
  <2>3. pc = "rejected" /\ stream.complete => ExceedsLimit(Len(stream.bodies[Len(got) + 1]))
    BY DEF Tracked, Follows
  <2> QED
    BY <2>1, <2>2, <2>3 DEF LimitExact
<1> QED
  BY <1>1, DrainedInvariant, BoundedInvariant, TrackedInvariant, PTL
=============================================================================
