-------------------------- MODULE HandlerPrograms --------------------------
(***************************************************************************)
(* The handler programs http_response.h describes (lines 19-30 and 68-98)  *)
(* and README.md shows: each mode used in one of the ways that let the     *)
(* client frame the response.  They may throw at any point.                *)
(*                                                                         *)
(* This is a hypothesis about the users of the library; nothing in the     *)
(* code enforces it, and Connection runs any program.                      *)
(***************************************************************************)
EXTENDS HttpResponse, Sequences

\* All calls are among ops.
Ops(calls, ops) == \A i \in 1 .. Len(calls) : calls[i].op \in ops

\* The last call is last, and the others are among ops.
Ends(calls, ops, last) ==
    /\ calls # <<>> /\ calls[Len(calls)].op = last
    /\ \A i \in 1 .. Len(calls) - 1 : calls[i].op \in ops

\* The calls write n bytes in all: left[i] of them, no more than most, remain
\* before call i.
Pays(calls, n, most) ==
    \E left \in [1 .. Len(calls) + 1 -> 0 .. most] :
        /\ left[1] = n /\ left[Len(calls) + 1] = 0
        /\ \A i \in 1 .. Len(calls) :
              \/ calls[i].op = "throw"
              \/ calls[i].op = "write" /\ left[i] = calls[i].n + left[i + 1]

\* The calls send at least one chunk, unless they throw first.
Feeds(calls) ==
    /\ calls # <<>> /\ (Head(calls).op = "throw" \/ Head(calls).n > 0)
    /\ Ops(calls, {"write_chunk", "throw"})

-----------------------------------------------------------------------------
(* h.io is what the handler calls, h.job what its lambda calls.            *)

\* Buffered, or Immediate with a body that ends with the connection.
Plain(h) == Ops(h.io, {"set_body", "write", "throw"})

\* Immediate, chunk by chunk.
Chunked(h) == Ends(h.io, {"set_body", "write_chunk", "throw"}, "end_chunks")

\* Immediate, with the length announced and then written.
Sized(h) ==
    /\ Len(h.io) >= 2 /\ Head(h.io).op = "content_length"
    /\ Pays(Tail(h.io), Head(h.io).n, Head(h.io).n)

\* Stream, chunk by chunk: the library terminates the chunks.
StreamChunks(h) ==
    /\ Ends(h.io, {"set_body", "transfer_encoding", "throw"}, "stream")
    /\ Feeds(h.job)

\* Stream, with the length announced before the lambda is posted.
StreamSized(h) ==
    /\ Len(h.io) = 2 /\ Head(h.io).op = "content_length" /\ h.io[2].op = "stream"
    /\ h.job # <<>> /\ Pays(h.job, Head(h.io).n, Head(h.io).n)

\* The Connection field is left to the library.
Unmarking == Op \ {"insert_close", "insert_keep_alive"}
LeavesConnection(h) == Ops(h.io, Unmarking) /\ Ops(h.job, Unmarking)

WellFramed(h) ==
    /\ LeavesConnection(h)
    /\ Plain(h) \/ Chunked(h) \/ Sized(h) \/ StreamChunks(h) \/ StreamSized(h)
=============================================================================
