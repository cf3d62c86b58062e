----------------------------- MODULE BodyReader -----------------------------
(***************************************************************************)
(* connection.cpp:101-345, the data side: how read() and the body readers  *)
(* cut a byte stream, delivered in arbitrary segments, into requests.      *)
(*                                                                         *)
(* Two reads share the socket.  async_read_until fills request_buffer_ and *)
(* may overshoot by any amount; async_read with transfer_exactly goes past *)
(* request_buffer_, straight from the socket into the body.  The readers   *)
(* are right only if request_buffer_ is drained before each of the latter. *)
(*                                                                         *)
(* The stream is a sequence of units [t, v]:                               *)
(*   head   a header block up to and with its blank line, Content-Length v *)
(*   chead  the same with Transfer-Encoding: chunked                       *)
(*   size   a chunk-size line with its CRLF; v is what stoul makes of it,  *)
(*          Bad where it throws                                            *)
(*   byte   one byte of a body                                             *)
(*   cr lf  the two bytes of a CRLF after chunk data or of an empty line   *)
(*   field  a trailer line                                                 *)
(* One unit is what the readers' decisions tell apart; segments end        *)
(* between any two units, a CR and its LF included.                        *)
(***************************************************************************)
EXTENDS Integers, Sequences, FiniteSetsExt, SequencesExt

CONSTANTS Streams,         \* what clients send: [wire, bodies, complete]
          max_body_size,   \* 0 = unlimited
          SizeMax          \* size_t holds 0 .. SizeMax

Bad == -1

ASSUME SizeMaxAssumption == SizeMax \in Nat \ {0}
ASSUME LimitAssumption == max_body_size \in 0 .. SizeMax

VARIABLES
    stream,  \* the client's stream, with the bodies it means
    net,     \* units not yet read from the socket
    buf,     \* request_buffer_
    acc,     \* the body read so far
    need,    \* units an async_read still has to transfer
    pc,      \* which read is outstanding, or how the exchange ended
    got      \* bodies of the requests handed to dispatch()

bodyVars == <<stream, net, buf, acc, need, pc, got>>

\* "header", "size" and "trailer" wait for a delimiter, "fixed", "data" and
\* "crlf" for a number of bytes.
Delimited == {"header", "size", "trailer"}
Counted   == {"fixed", "data", "crlf"}

\* Sums of two size_t values wrap.
Plus(m, n) == (m + n) % (SizeMax + 1)

ExceedsLimit(n) == max_body_size # 0 /\ n > max_body_size

From(s, n) == SubSeq(s, n + 1, Len(s))
Upto(s, n) == SubSeq(s, 1, n)

\* Does the delimiter that p waits for end at unit i of s?
EndsAt(s, i, p) ==
    IF p = "header" THEN s[i].t \in {"head", "chead"}
    ELSE \/ s[i].t \in {"head", "chead", "size", "field"}
         \/ s[i].t = "lf" /\ i > 1 /\ s[i - 1].t = "cr"

LineEnds(s, p) == {i \in DOMAIN s : EndsAt(s, i, p)}
Ready(s, p)    == LineEnds(s, p) # {}

\* Length in units of the first delimited piece, n in the handlers.
FirstLine(s, p) == Min(LineEnds(s, p))

BodyInit ==
    /\ stream \in Streams
    /\ net = stream.wire /\ buf = <<>> /\ acc = <<>> /\ need = 0
    /\ pc = "header" /\ got = <<>>

-----------------------------------------------------------------------------
(* The readers.  Each takes the buffer b and the body a it starts from.    *)

\* The request goes to dispatch(); here its response lets the connection
\* read on.
dispatch(b, a) ==
    /\ got' = Append(got, a)
    /\ pc' = "header" /\ buf' = b /\ acc' = <<>> /\ need' = 0

Await(p, b, a, n) == pc' = p /\ buf' = b /\ acc' = a /\ need' = n /\ UNCHANGED got

reject_payload_too_large(b, a) == Await("rejected", b, a, 0)

\* Mutant: the whole buffer is taken for the body.
read_fixed_body_greedy(b, len) ==
    IF Len(b) >= len THEN dispatch(<<>>, b)
    ELSE Await("fixed", <<>>, b, len - Len(b))

\* Take what overshot into the buffer, read the rest from the socket.
read_fixed_body(b, len) ==
    LET take == Min({Len(b), len}) IN
    IF take = len THEN dispatch(From(b, take), Upto(b, take))
    ELSE Await("fixed", From(b, take), Upto(b, take), len - take)

\* Transfer-Encoding wins over Content-Length.
read_body(b, h) ==
    CASE h.t = "chead" -> Await("size", b, <<>>, 0)
      [] h.t = "head" /\ ExceedsLimit(h.v) -> reject_payload_too_large(b, <<>>)
      [] h.t = "head" /\ ~ExceedsLimit(h.v) /\ h.v = 0 -> dispatch(b, <<>>)
      [] h.t = "head" /\ ~ExceedsLimit(h.v) /\ h.v > 0 -> read_fixed_body(b, h.v)

\* Mutant: a CR that is already in the buffer is not counted.
read_chunk_trailing_crlf_keeps(b, a) ==
    IF Len(b) >= 2 THEN Await("size", From(b, 2), a, 0)
    ELSE Await("crlf", b, a, 2 - Len(b))

\* Skip the two bytes after a chunk's data, from the buffer and the socket.
read_chunk_trailing_crlf(b, a) ==
    IF Len(b) >= 2 THEN Await("size", From(b, 2), a, 0)
    ELSE Await("crlf", <<>>, a, 2 - Len(b))

\* A body that size_t cannot count is not all in the buffer, and the sum that
\* resize() is given for the rest wraps as well.  What the read after it does
\* is undefined: the model stops there.
read_chunk_data(b, a, size) ==
    LET take  == Min({Len(b), size})
        wraps == Len(a) + size > SizeMax
    IN  CASE wraps -> Await("wrapped", b, a, size)
          [] ~wraps /\ take = size ->
                 read_chunk_trailing_crlf(From(b, take), a \o Upto(b, take))
          [] ~wraps /\ take # size ->
                 Await("data", From(b, take), a \o Upto(b, take), size - take)

\* Mutant: the limit is compared with the chunk instead of the whole body.
chunk_size_alone(n) ==
    LET size == buf[n].v
        b    == From(buf, n)
    IN  CASE n > 1 \/ buf[n].t # "size" \/ size = Bad -> Await("error", b, acc, 0)
          [] n = 1 /\ buf[n].t = "size" /\ size # Bad ->
               CASE ExceedsLimit(size) -> reject_payload_too_large(b, acc)
                 [] ~ExceedsLimit(size) /\ size = 0 -> Await("trailer", b, acc, 0)
                 [] ~ExceedsLimit(size) /\ size > 0 -> read_chunk_data(b, acc, size)

\* The handler of read_chunked_body, with a size line of n units.
chunk_size(n) ==
    LET size == buf[n].v
        b    == From(buf, n)
    IN  CASE n > 1 \/ buf[n].t # "size" \/ size = Bad -> Await("error", b, acc, 0)
          [] n = 1 /\ buf[n].t = "size" /\ size # Bad ->
               CASE ExceedsLimit(Plus(Len(acc), size)) -> reject_payload_too_large(b, acc)
                 [] ~ExceedsLimit(Plus(Len(acc), size)) /\ size = 0 ->
                        Await("trailer", b, acc, 0)
                 [] ~ExceedsLimit(Plus(Len(acc), size)) /\ size > 0 ->
                        read_chunk_data(b, acc, size)

\* Mutant: the empty line is expected without its CRLF.
chunk_trailer_stripped(n) ==
    IF n = 0 THEN dispatch(From(buf, n), acc)
    ELSE Await("trailer", From(buf, n), acc, 0)

\* The handler of read_chunk_trailers: an empty line ends the body.
chunk_trailer(n) ==
    IF n = 2 /\ buf[n].t = "lf" THEN dispatch(From(buf, n), acc)
    ELSE Await("trailer", From(buf, n), acc, 0)

-----------------------------------------------------------------------------
(* Steps: a segment arrives, a read completes, the stream ends.            *)

\* async_read_until reads some more, as much as happens to be there.
Arrival ==
    /\ pc \in Delimited /\ ~Ready(buf, pc) /\ net # <<>>
    /\ \E k \in 1 .. Len(net) :
          buf' = buf \o Upto(net, k) /\ net' = From(net, k)
    /\ UNCHANGED <<stream, acc, need, pc, got>>

\* async_read_until completes.
on_header ==
    /\ pc = "header" /\ Ready(buf, pc)
    /\ LET n == FirstLine(buf, pc)
       IN  IF n = 1 THEN read_body(From(buf, n), buf[n])
           ELSE Await("error", From(buf, n), <<>>, 0)
    /\ UNCHANGED <<stream, net>>

on_size_line ==
    /\ pc = "size" /\ Ready(buf, pc)
    /\ chunk_size(FirstLine(buf, pc))
    /\ UNCHANGED <<stream, net>>

on_trailer ==
    /\ pc = "trailer" /\ Ready(buf, pc)
    /\ chunk_trailer(FirstLine(buf, pc))
    /\ UNCHANGED <<stream, net>>

\* async_read of need bytes completes.
on_bytes ==
    /\ pc \in Counted /\ Len(net) >= need
    /\ net' = From(net, need)
    /\ CASE pc = "fixed" -> dispatch(buf, acc \o Upto(net, need))
         [] pc = "data"  -> read_chunk_trailing_crlf(buf, acc \o Upto(net, need))
         [] pc = "crlf"  -> Await("size", buf, acc, 0)
    /\ UNCHANGED stream

\* The client stops sending where the outstanding read needs more.
eof ==
    /\ \/ pc \in Delimited /\ ~Ready(buf, pc) /\ net = <<>>
       \/ pc \in Counted /\ Len(net) < need
    /\ Await(IF pc = "header" /\ buf = <<>> THEN "closed" ELSE "error", buf, acc, 0)
    /\ UNCHANGED <<stream, net>>

BodyNext == Arrival \/ on_header \/ on_size_line \/ on_trailer \/ on_bytes \/ eof

BodySpec == BodyInit /\ [][BodyNext]_bodyVars

\* The kernel delivers what was sent, and the io threads run the handlers.
BodyFairSpec == BodySpec /\ WF_bodyVars(BodyNext)

-----------------------------------------------------------------------------
(* Properties.                                                             *)

\* However the stream is segmented, the requests that reach dispatch() carry
\* the bodies the client sent, byte for byte and in order, and no byte of a
\* pipelined request is taken for the body of the one before it.
BodiesExact == IsPrefix(got, stream.bodies)

\* A counted read bypasses request_buffer_; nothing may be left in it then.
BufferDrained == pc \in Counted => buf = <<>>

\* The limit is exact as long as size_t can count the body: none that is
\* being read can grow beyond it, none beyond it is dispatched, and a request
\* is answered 413 only if its body really is too large, whatever lengths and
\* chunk sizes are announced and however their sum with the part that was
\* read wraps around.
LimitExact ==
    /\ max_body_size # 0 /\ pc \in {"fixed", "data"} => Len(acc) + need <= max_body_size
    /\ \A i \in DOMAIN got : ~ExceedsLimit(Len(got[i]))
    /\ pc = "rejected" /\ stream.complete => ExceedsLimit(Len(stream.bodies[Len(got) + 1]))

\* "requests exceeding it are rejected with 413 [...] Applies to both
\* Content-Length and chunked bodies" (http_server.h:30-31): the server never
\* sets out to read a body beyond the limit.
LimitKept ==
    max_body_size # 0 /\ pc \in {"fixed", "data", "wrapped"}
      => Len(acc) + need <= max_body_size

\* A well-formed stream is read to its end, or up to a body that is too
\* large: no read is left waiting for bytes that already sit in the buffer,
\* and no well-formed message is taken for an error.
ReadToTheEnd ==
    stream.complete ~> \/ pc = "rejected"
                       \/ pc = "closed" /\ got = stream.bodies
=============================================================================
