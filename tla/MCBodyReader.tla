---------------------------- MODULE MCBodyReader ----------------------------
(***************************************************************************)
(* Instances of BodyReader: streams of pipelined requests, built by a      *)
(* reference encoder, whole and cut off.                                   *)
(***************************************************************************)
EXTENDS BodyStreams

U(t, v) == [t |-> t, v |-> v]
Bytes(vs) == [i \in DOMAIN vs |-> U("byte", vs[i])]
Crlf == <<U("cr", 0), U("lf", 0)>>

\* A request with Content-Length.
Sized(body) == <<U("head", Len(body))>> \o Bytes(body)

\* A chunked request (RFC 7230, section 4.1) of the given chunks, followed
\* by n trailer lines.
Chunk(body) == <<U("size", Len(body))>> \o Bytes(body) \o Crlf
Chunked(chunks, n) ==
    <<U("chead", 0)>> \o FlattenSeq([i \in DOMAIN chunks |-> Chunk(chunks[i])])
    \o <<U("size", 0)>> \o [i \in 1 .. n |-> U("field", 0)] \o Crlf

\* Requests with the body each of them means.
Messages ==
    { [wire |-> Sized(b), body |-> Bytes(b)] : b \in {<<>>, <<1>>, <<1, 2>>, <<1, 2, 3>>} }
    \cup
    { [wire |-> Chunked(c, n), body |-> FlattenSeq(<<<<>>>> \o [i \in DOMAIN c |-> Bytes(c[i])])]
        : c \in {<<>>, <<<<1>>>>, <<<<1, 2>>>>, <<<<1>>, <<2>>>>, <<<<1, 2>>, <<3>>>>},
          n \in 0 .. 1 }

Whole(m1, m2) ==
    [wire |-> m1.wire \o m2.wire, bodies |-> <<m1.body, m2.body>>, complete |-> TRUE]

WholeStreams == { Whole(m1, m2) : m1, m2 \in Messages }

\* The client goes away in the middle of its only request.
CutStreams ==
    UNION { { [wire |-> Upto(m.wire, k), bodies |-> <<>>, complete |-> FALSE]
                : k \in 0 .. Len(m.wire) - 1 } : m \in Messages }

\* A size line that is no hexadecimal number.
BadStreams ==
    { [wire |-> <<U("chead", 0), U("size", Bad)>> \o Crlf, bodies |-> <<>>, complete |-> FALSE] }

\* A size line that announces as much as size_t holds, or a little less, after
\* n bytes in another chunk; the client sends no more than one byte of it.
HugeStream(n, v, k) ==
    [wire |-> <<U("chead", 0)>> \o (IF n = 0 THEN <<>> ELSE Chunk([i \in 1 .. n |-> i]))
              \o <<U("size", v)>> \o Bytes([i \in 1 .. k |-> i]),
     bodies |-> <<>>, complete |-> FALSE]
HugeStreams == { HugeStream(n, v, k) : n \in 0 .. 2, v \in SizeMax - 2 .. SizeMax, k \in 0 .. 1 }

\* The layout of the first k units of an encoded stream w, read off the
\* units: an empty line ends a message after the last size line or a trailer.
Heads(w, i) == {j \in 1 .. i : w[j].t \in {"head", "chead"}}
PieceAt(w, i) ==
    CASE i = Len(w) \/ w[i + 1].t \in {"head", "chead"} -> "header"
      [] i < Len(w) /\ w[i + 1].t = "size" -> "size"
      [] i < Len(w) /\ \/ w[i + 1].t = "field"
                       \/ w[i + 1].t = "cr" /\ (w[i].t = "field" \/ w[i] = U("size", 0))
           -> "trailer"
      [] OTHER -> "none"
LayoutOf(w, k) ==
    [at   |-> [i \in 0 .. k |-> PieceAt(w, i)],
     done |-> [i \in 0 .. k |->
                 Cardinality(Heads(w, i)) - (IF PieceAt(w, i) = "header" THEN 0 ELSE 1)],
     body |-> [i \in 0 .. k |->
                 IF PieceAt(w, i) = "header" THEN <<>>
                 ELSE SelectSeq(SubSeq(w, Max(Heads(w, i)), i), LAMBDA u : u.t = "byte")]]

FitsLayout(s, l) == Sendable(s) /\ l \in Layout(s) /\ Describes(s, l)

\* The hypotheses of the theorems of BodyReaderProofs hold for these streams.
ASSUME StreamsWellFormed ==
    /\ \A s \in WholeStreams \cup BadStreams \cup HugeStreams :
          FitsLayout(s, LayoutOf(s.wire, Len(s.wire)))
    /\ \A m \in Messages : \A k \in 0 .. Len(m.wire) - 1 :
          FitsLayout([wire |-> Upto(m.wire, k), bodies |-> <<>>, complete |-> FALSE],
                     LayoutOf(m.wire, k))

PlainStreams == WholeStreams \cup CutStreams \cup BadStreams \cup HugeStreams
=============================================================================
