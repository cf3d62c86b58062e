---------------------------- MODULE MCConnection ----------------------------
(***************************************************************************)
(* Instances of Connection: requests and handler programs.                 *)
(***************************************************************************)
EXTENDS ConnectionExchange, HandlerPrograms, TLC

C(op, n) == [op |-> op, n |-> n]
Handler(io)     == [io |-> io, job |-> <<>>]
Streamed(pre, job) == [io |-> Append(pre, C("stream", 0)), job |-> job]

MCRequests == [body : BodyKinds, keep : BOOLEAN]

\* Uses of the three modes that follow the documentation.
DocumentedHandlers ==
    { Handler(<<>>),
      Handler(<<C("set_body", 2)>>),
      Handler(<<C("content_length", 2), C("write", 1), C("write", 1)>>),
      Handler(<<C("write", 1), C("write", 1)>>),
      Handler(<<C("write_chunk", 1), C("write_chunk", 0), C("end_chunks", 0)>>),
      Handler(<<C("throw", 0)>>),
      Handler(<<C("content_length", 2), C("write", 1), C("throw", 0)>>),
      Streamed(<<>>, <<C("write_chunk", 1), C("write_chunk", 1)>>),
      Streamed(<<C("transfer_encoding", 0)>>, <<C("write_chunk", 1)>>),
      Streamed(<<C("content_length", 1)>>, <<C("write", 1)>>),
      Streamed(<<>>, <<C("throw", 0)>>),
      Streamed(<<>>, <<C("write_chunk", 1), C("throw", 0)>>) }

\* The hypothesis of the theorems of ExchangeProofs holds for these handlers.
ASSUME DocumentedFramed == \A h \in DocumentedHandlers : WellFramed(h)

\* Tasks are interchangeable.
TaskSymmetry == Permutations(Tasks)

\* Any handler of at most two calls, and any lambda of at most two calls
\* behind any call the handler makes before it streams.
AllCalls == { C(op, IF op \in {"content_length", "set_body", "write", "write_chunk"}
                    THEN 1 ELSE 0) : op \in Op }
Programs(len) == UNION {[1 .. n -> AllCalls] : n \in 0 .. len}
AnyHandlers == { Handler(p) : p \in Programs(2) }
               \cup { Streamed(p, job) : p \in Programs(1), job \in Programs(2) }
FewRequests == {[body |-> "none", keep |-> TRUE], [body |-> "none", keep |-> FALSE]}
SomeRequests == {[body |-> "none", keep |-> FALSE], [body |-> "chunked", keep |-> TRUE]}

\* test/hello_world.cpp:86-95 and README.md:124-134: Server-Sent Events.
SseHandlers == { Streamed(<<>>, <<C("write", 1), C("write", 1)>>) }

\* README.md:141-142 inside a lambda: write_chunk, then end_chunks.
EndChunksHandlers == { Streamed(<<>>, <<C("write_chunk", 1), C("end_chunks", 0)>>) }

\* It excludes the handlers of the two findings.
ASSUME FindingsExcluded ==
    \A h \in SseHandlers \cup EndChunksHandlers : ~WellFramed(h)
=============================================================================
