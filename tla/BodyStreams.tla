---------------------------- MODULE BodyStreams ----------------------------
(***************************************************************************)
(* The streams a client may send: the grammar of pipelined requests (RFC   *)
(* 7230, sections 3.3 and 4.1), over the units of BodyReader.              *)
(*                                                                         *)
(* A layout tells what stands where.  After the first i units of a stream, *)
(* l.at[i] begins there (a message, a chunk, the trailers, or none of      *)
(* them), l.done[i] messages are complete, and l.body[i] is what the       *)
(* chunks of the current message have brought so far.                      *)
(***************************************************************************)
EXTENDS BodyReader

\* Lengths that were announced are values of size_t.
Unit == [t : {"head"}, v : 0 .. SizeMax]
        \cup [t : {"size"}, v : 0 .. SizeMax \cup {Bad}]
        \cup [t : {"chead", "byte", "cr", "lf", "field"}, v : Int]

Sendable(s) ==
    s.wire \in Seq(Unit) /\ s.bodies \in Seq(Seq(Unit)) /\ s.complete \in BOOLEAN

Layout(s) ==
    [at : [0 .. Len(s.wire) -> {"header", "size", "trailer", "none"}],
     done : [0 .. Len(s.wire) -> Nat], body : [0 .. Len(s.wire) -> Seq(Unit)]]

\* If s is not cut off before, piece p begins after e units, with n messages
\* complete and b of the next body.
Continues(s, l, e, p, n, b) ==
    /\ s.complete => e <= Len(s.wire)
    /\ e <= Len(s.wire) => l.at[e] = p /\ l.done[e] = n /\ l.body[e] = b

\* The n-th message ends after e units; its body is b.
Completes(s, l, e, n, b) ==
    /\ Continues(s, l, e, "header", n, <<>>)
    /\ e <= Len(s.wire) => n <= Len(s.bodies) /\ s.bodies[n] = b

\* Unit i + 1 is a header block; a length announces that many bytes.
MessageAt(s, l, i) ==
    LET u == s.wire[i + 1]
        n == l.done[i]
    IN  /\ l.body[i] = <<>>
        /\ \/ u.t = "chead" /\ Continues(s, l, i + 1, "size", n, <<>>)
           \/ /\ u.t = "head"
              /\ Completes(s, l, i + 1 + u.v, n + 1, SubSeq(s.wire, i + 2, i + 1 + u.v))

\* It is a size line, before that many bytes and a CRLF.  A stream that is
\* not complete may have a bad one.
ChunkAt(s, l, i) ==
    LET u == s.wire[i + 1]
        n == l.done[i]
        b == l.body[i]
    IN  /\ u.t = "size"
        /\ \/ u.v = Bad /\ ~s.complete
           \/ u.v = 0 /\ Continues(s, l, i + 1, "trailer", n, b)
           \/ /\ u.v > 0
              /\ Continues(s, l, i + 1 + u.v + 2, "size", n,
                           b \o SubSeq(s.wire, i + 2, i + 1 + u.v))
        /\ s.complete => /\ n < Len(s.bodies)
                         /\ Len(b) + u.v <= Len(s.bodies[n + 1])

\* It is a trailer line, or begins the empty line that ends the message.
TrailerAt(s, l, i) ==
    LET u == s.wire[i + 1]
        n == l.done[i]
        b == l.body[i]
    IN  \/ u.t = "field" /\ Continues(s, l, i + 1, "trailer", n, b)
        \/ /\ u.t = "cr" /\ (i + 2 <= Len(s.wire) => s.wire[i + 2].t = "lf")
           /\ Completes(s, l, i + 2, n + 1, b)

Describes(s, l) ==
    /\ l.at[0] = "header" /\ l.done[0] = 0 /\ l.body[0] = <<>>
    /\ \A i \in 0 .. Len(s.wire) - 1 :
          /\ l.at[i] = "header"  => MessageAt(s, l, i)
          /\ l.at[i] = "size"    => ChunkAt(s, l, i)
          /\ l.at[i] = "trailer" => TrailerAt(s, l, i)

WellFormed(s) == \E l \in Layout(s) : Describes(s, l)
=============================================================================
