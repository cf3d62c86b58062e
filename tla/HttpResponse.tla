---------------------------- MODULE HttpResponse ----------------------------
(***************************************************************************)
(* http_response.cpp: the response object a handler fills, and the bytes   *)
(* its operations put on the wire.                                         *)
(*                                                                         *)
(* A response is a record; an operation of class HttpResponse maps the     *)
(* record to the next one.  Names and body contents are left out; header   *)
(* fields that decide the framing are kept (Content-Length, Transfer-      *)
(* Encoding, Connection), and so is the number of bytes.  own is not in    *)
(* the code: it remembers that the handler wrote the Connection field      *)
(* itself, over what dispatch() had put there.                             *)
(*                                                                         *)
(* The asserts of set_body, stream, write and serialize are compiled out   *)
(* of the default build (CMakeLists.txt sets Release), so none of them     *)
(* guards an operation here.                                               *)
(***************************************************************************)
EXTENDS HttpFraming

Mode == {"Buffered", "Immediate", "Stream"}

Response == [status : Nat, conn : {"keep-alive", "close"}, cl : Nat \cup {Absent},
             te : BOOLEAN, body : Nat, mode : Mode, flushed : BOOLEAN,
             chunked : BOOLEAN, own : BOOLEAN]

\* A response as dispatch, replace_with_500 and reject_payload_too_large
\* construct it: only the status and the Connection header are set.
NewResponse(status, conn) ==
    [status |-> status, conn |-> conn, cl |-> Absent, te |-> FALSE, body |-> 0,
     mode |-> "Buffered", flushed |-> FALSE, chunked |-> FALSE,
     own |-> FALSE]

\* The calls a handler or a stream lambda makes on its response.  "throw"
\* stands for an exception that leaves the handler.
Op == {"content_length", "transfer_encoding", "insert_close", "insert_keep_alive",
       "set_body", "stream", "write", "write_chunk", "end_chunks", "throw"}
Call == [op : Op, n : Nat]

-----------------------------------------------------------------------------
(* Operations.  ok is the outcome of the synchronous write on the socket.  *)

content_length(r, n) == [r EXCEPT !.cl = n]
transfer_encoding(r) == [r EXCEPT !.te = TRUE]

\* headers().insert("Connection", v): an earlier value is overwritten, and
\* nothing tells the connection.  Any value but "close" leaves a client of
\* HTTP/1.1 waiting for the next response, like "keep-alive".
insert_connection(r, v) == [r EXCEPT !.conn = v, !.own = TRUE]

set_body(r, n)       == [r EXCEPT !.body = n]
stream(r)            == [r EXCEPT !.mode = "Stream"]

\* The first payload call of a Buffered response makes it Immediate.
LockMode(r) == IF r.mode = "Buffered" THEN "Immediate" ELSE r.mode

\* write, and writev and write_sse_event, which differ from it only in where
\* the payload comes from.  Headers go out with the first payload; only a
\* write that succeeded marks them flushed.
write(r, ok) == [r EXCEPT !.mode = LockMode(r), !.flushed = @ \/ ok]

\* The response as write_chunk leaves it before it touches the socket.
chunk_headers(r) ==
    LET first == ~r.flushed /\ ~r.chunked
    IN  [r EXCEPT !.te = @ \/ first, !.chunked = @ \/ first, !.mode = LockMode(r)]

\* An empty chunk is skipped: on the wire it would be the terminator.
write_chunk(r, n, ok) ==
    IF n = 0 THEN r ELSE [chunk_headers(r) EXCEPT !.flushed = @ \/ ok]

\* Flushes the headers if no chunk got through, then sends the terminator,
\* each time it is called.
end_chunks(r, ok) ==
    IF ~r.chunked THEN r ELSE [r EXCEPT !.flushed = @ \/ ok]

\* r after one call of the handler or lambda.
Apply(r, call, ok) ==
    CASE call.op = "content_length"    -> content_length(r, call.n)
      [] call.op = "transfer_encoding" -> transfer_encoding(r)
      [] call.op = "insert_close"      -> insert_connection(r, "close")
      [] call.op = "insert_keep_alive" -> insert_connection(r, "keep-alive")
      [] call.op = "set_body"          -> set_body(r, call.n)
      [] call.op = "stream"            -> stream(r)
      [] call.op = "write"             -> write(r, ok)
      [] call.op = "write_chunk"       -> write_chunk(r, call.n, ok)
      [] call.op = "end_chunks"        -> end_chunks(r, ok)
      [] OTHER                         -> r

-----------------------------------------------------------------------------
(* Bytes on the wire.                                                      *)

\* build_header_block, as client c reads it.
SendHead(c, r) == GetHead(c, r.status, r.te, r.cl, r.conn = "close")

\* Headers are sent with the first payload that goes out.
FlushFirst(c, r) == IF r.flushed THEN c ELSE SendHead(c, r)

SendData(c, n) == IF n = 0 THEN c ELSE GetData(c, n)

\* serialize: headers, with Content-Length added unless the handler set one,
\* and the body.
SendSerialized(c, r) ==
    LET length == IF r.cl = Absent THEN r.body ELSE r.cl
    IN  SendData(SendHead(c, [r EXCEPT !.cl = length]), r.body)

\* Does this call write to the socket at all?
Sends(r, call) ==
    \/ call.op = "write" /\ (~r.flushed \/ call.n > 0)
    \/ call.op = "write_chunk" /\ call.n > 0
    \/ call.op = "end_chunks" /\ r.chunked

\* Client c after a call on r whose socket write went through.
Transmit(c, r, call) ==
    CASE ~Sends(r, call)         -> c
      [] Sends(r, call) /\ call.op = "write" ->
             SendData(FlushFirst(c, r), call.n)
      [] Sends(r, call) /\ call.op = "write_chunk" ->
             GetChunk(FlushFirst(c, chunk_headers(r)))
      [] Sends(r, call) /\ call.op = "end_chunks" ->
             GetLastChunk(FlushFirst(c, r))
=============================================================================
