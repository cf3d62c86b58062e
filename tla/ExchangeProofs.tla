--------------------------- MODULE ExchangeProofs ---------------------------
(***************************************************************************)
(* For every set of tasks, requests and handler programs, incorrect ones   *)
(* included: Connection implements the life cycle of Exchange, and what a  *)
(* client is told about its connection is one status line per request and  *)
(* nothing after a close of the library's.  For handlers that follow the   *)
(* documentation it implements the whole of Exchange (last part).          *)
(*                                                                         *)
(* The phase belongs to the driver.  The invariants of ConnectionProofs    *)
(* say that there is at most one and that the socket is open under it, so  *)
(* a step that hands over to the next operation hands over the phase.      *)
(***************************************************************************)
EXTENDS ConnectionExchange, ConnectionProofs, HandlerPrograms, SequenceTheorems

\* Every step of the connection takes the phase along an edge, or leaves it.
EdgeOrStay == phase' = phase \/ E!Edge

\* The phases a driver goes through; a thread on its way out has none.
LEMMA PhaseTable ==
    /\ \A st : PhaseOf(Async("accept", st)) = "accepting"
    /\ \A st : PhaseOf(Async("header", st)) = "awaiting"
    /\ \A st : PhaseOf(Async("body", st)) = "receiving"
    /\ \A k \in {"write", "job", "finish"} : \A st : PhaseOf(Async(k, st)) = "serving"
    /\ \A pc \in {"start", "parse"} : PhaseOf(Run(pc)) = "awaiting"
    /\ \A pc \in {"handler", "lambda", "fin1", "fin2", "fin3"} : PhaseOf(Run(pc)) = "serving"
BY DEF PhaseOf, Async, Run

\* The phase is that of the only driver,
LEMMA DriverPhase ==
    ASSUME NEW f, NEW t \in Tasks, f[t] \notin {Free, Run("ret")},
           \A u \in Tasks : f[u] \notin {Free, Run("ret")} => u = t
    PROVE  PhaseIn(f) = PhaseOf(f[t])
<1> DEFINE drivers == {u \in Tasks : f[u] \notin {Free, Run("ret")}}
<1>1. drivers = {t}
  OBVIOUS
<1>2. (CHOOSE u \in drivers : TRUE) = t
  BY <1>1
<1>3. drivers # {} /\ \E u \in Tasks : drivers = {u}
  BY <1>1
<1> QED
  BY <1>2, <1>3 DEF PhaseIn

\* and without a driver the connection is over.
LEMMA NoPhase ==
    ASSUME NEW f, \A u \in Tasks : f[u] \in {Free, Run("ret")}
    PROVE  PhaseIn(f) = "over"
<1>1. {u \in Tasks : f[u] \notin {Free, Run("ret")}} = {}
  OBVIOUS
<1> QED
  BY <1>1 DEF PhaseIn

\* A phase that is not over may always become over.
LEMMA OverEdge ==
    ASSUME NEW p \in E!Phases \ {"over"}
    PROVE  <<p, "over">> \in E!Edges
BY DEF E!Edges

\* What a driver can be doing has a phase of its own.
LEMMA PhaseOfType ==
    ASSUME NEW s
    PROVE  PhaseOf(s) \in E!Phases \ {"over"}
BY DEF PhaseOf, E!Phases

\* The driver's step leaves at most one driver, w at s: the phase follows
\* the edge between the two places.
LEMMA OnlyEdge ==
    ASSUME SoleDriver, NEW t \in Tasks, Driving(t), NEW w \in Tasks, NEW s, Only(w, s),
           \/ PhaseOf(task[t]) = PhaseOf(s)
           \/ <<PhaseOf(task[t]), PhaseOf(s)>> \in E!Edges
    PROVE  EdgeOrStay
<1>1. phase = PhaseOf(task[t])
  BY DriverPhase DEF SoleDriver, Driving, phase
<1>2. CASE \A u \in Tasks : ~(Driving(u))'
  <2>1. phase' = "over"
    BY <1>2, NoPhase DEF Driving, phase
  <2> QED
    BY <1>1, <2>1, OverEdge, PhaseOfType DEF EdgeOrStay, E!Edge
<1>3. CASE (Driving(w))'
  <2>1. phase' = PhaseOf(s)
    BY <1>3, DriverPhase DEF Only, Driving, phase
  <2> QED
    BY <1>1, <2>1 DEF EdgeOrStay, E!Edge
<1> QED
  BY <1>2, <1>3 DEF Only

\* The driver gives up.
LEMMA NoneEdge ==
    ASSUME SoleDriver, NEW t \in Tasks, Driving(t), \A u \in Tasks : ~(Driving(u))'
    PROVE  EdgeOrStay
<1>1. phase = PhaseOf(task[t])
  BY DriverPhase DEF SoleDriver, Driving, phase
<1>2. phase' = "over"
  BY NoPhase DEF Driving, phase
<1> QED
  BY <1>1, <1>2, OverEdge, PhaseOfType DEF EdgeOrStay, E!Edge

\* The driver moves on in its own thread, or hands over to an operation.
LEMMA GotoEdge ==
    ASSUME TypeOK, SoleDriver, NEW t \in Tasks, Driving(t), NEW pc, Goto(t, pc),
           \/ PhaseOf(task[t]) = PhaseOf(Run(pc))
           \/ <<PhaseOf(task[t]), PhaseOf(Run(pc))>> \in E!Edges
    PROVE  EdgeOrStay
BY GotoOnly, OnlyEdge

LEMMA LaunchEdge ==
    ASSUME TypeOK, Safe, NEW t \in Tasks, Driving(t), task[t].k # "accept",
           NEW k, Launch(t, k),
           \/ PhaseOf(task[t]) = PhaseOf(Async(k, "wait"))
           \/ <<PhaseOf(task[t]), PhaseOf(Async(k, "wait"))>> \in E!Edges
    PROVE  EdgeOrStay
<1>1. sock = "open"
  BY DEF Safe, OpenWhileDriven
<1>2. PICK w \in Tasks : Only(w, Async(k, "wait"))
  BY <1>1, LaunchOnly DEF Safe
<1> QED
  BY <1>2, OnlyEdge DEF Safe

\* Nobody moves between being a driver and not, and no driver moves on.
LEMMA SamePhase ==
    ASSUME TypeOK, TypeOK', SoleDriver,
           \A u \in Tasks : \/ task'[u] = task[u]
                            \/ task[u].k \in SocketOps /\ task'[u].k = task[u].k
                            \/ ~Driving(u) /\ ~(Driving(u))'
    PROVE  phase' = phase
<1>1. ASSUME NEW u \in Tasks
      PROVE  /\ (Driving(u))' => Driving(u)
             /\ Driving(u) => (Driving(u))'
             /\ Driving(u) => PhaseOf(task'[u]) = PhaseOf(task[u])
  <2>1. CASE task'[u] = task[u]
    BY <2>1 DEF Driving
  <2>2. CASE task[u].k \in SocketOps /\ task'[u].k = task[u].k
    BY <2>2 DEF Driving, SocketOps, Free, Run, PhaseOf
  <2>3. CASE ~Driving(u) /\ ~(Driving(u))'
    BY <2>3
  <2> QED
    BY <2>1, <2>2, <2>3
<1>2. CASE \A u \in Tasks : ~Driving(u)
  BY <1>1, <1>2, NoPhase DEF phase, Driving
<1>3. ASSUME NEW t \in Tasks, Driving(t)
      PROVE  phase' = phase
  <2>1. phase = PhaseOf(task[t])
    BY <1>3, DriverPhase DEF SoleDriver, Driving, phase
  <2>2. phase' = PhaseOf(task'[t])
    BY <1>1, <1>3, DriverPhase DEF SoleDriver, Driving, phase
  <2> QED
    BY <1>1, <1>3, <2>1, <2>2
<1> QED
  BY <1>2, <1>3

-----------------------------------------------------------------------------
(* One lemma per group of actions.                                         *)

LEMMA ReadingEdge ==
    ASSUME TypeOK, Safe, NEW t \in Tasks, Reading(t)
    PROVE  EdgeOrStay
<1> USE DEF E!Edges
<1>0. SoleDriver
  BY DEF Safe
<1>1. CASE start(t)
  <2>1. task[t] = Run("start") /\ Launch(t, "header")
    BY <1>1 DEF start
  <2>2. Driving(t) /\ task[t].k # "accept"
    BY <2>1 DEF Driving, Free, Run
  <2> QED
    BY <2>1, <2>2, LaunchEdge, PhaseTable
<1>2. CASE read_header(t)
  <2>1. task[t] = Async("header", "ok") /\ Goto(t, "parse")
    BY <1>2 DEF read_header
  <2>2. Driving(t)
    BY <2>1 DEF Driving, Free, Run, Async
  <2> QED
    BY <1>0, <2>1, <2>2, GotoEdge, PhaseTable
<1>3. CASE read_error(t) \/ malformed(t) \/ body_error(t)
  <2>1. Driving(t)
    BY <1>3 DEF read_error, malformed, body_error, Driving, Free, Run
  <2>2. Goto(t, "ret") \/ close(t)
    BY <1>3 DEF read_error, malformed, body_error
  <2> QED
    BY <1>0, <2>1, <2>2, RetNone, CloseNone, NoneEdge
<1>4. CASE read_body(t)
  <2>1. task[t] = Run("parse")
    BY <1>4 DEF read_body
  <2>2. Driving(t) /\ task[t].k # "accept"
    BY <2>1 DEF Driving, Free, Run
  <2>3. Goto(t, "handler") \/ Launch(t, "body") \/ Launch(t, "write")
    BY <1>4 DEF read_body, dispatch, reject_payload_too_large, write_buffered
  <2> QED
    BY <1>0, <2>1, <2>2, <2>3, GotoEdge, LaunchEdge, PhaseTable
<1>5. CASE body_complete(t) \/ read_chunk(t) \/ chunk_too_large(t)
  <2>1. task[t] = Async("body", "ok")
    BY <1>5 DEF body_complete, read_chunk, chunk_too_large
  <2>2. Driving(t) /\ task[t].k # "accept"
    BY <2>1 DEF Driving, Free, Run, Async
  <2>3. Goto(t, "handler") \/ Launch(t, "body") \/ Launch(t, "write")
    BY <1>5 DEF body_complete, read_chunk, chunk_too_large, dispatch,
       reject_payload_too_large, write_buffered
  <2> QED
    BY <1>0, <2>1, <2>2, <2>3, GotoEdge, LaunchEdge, PhaseTable
<1> QED
  BY <1>1, <1>2, <1>3, <1>4, <1>5 DEF Reading

\* While a request is served, the phase stays until the next read.
LEMMA ServingEdge ==
    ASSUME TypeOK, TypeOK', Safe, NEW t \in Tasks, Handling(t) \/ Pooled(t) \/ Finishing(t)
    PROVE  EdgeOrStay
<1> USE DEF E!Edges
<1>0. SoleDriver
  BY DEF Safe
<1>1. CASE handler_call(t) \/ lambda_call(t)
  <2>1. task' = task
    BY <1>1 DEF handler_call, lambda_call
  <2> QED
    BY <2>1 DEF EdgeOrStay, phase
<1>2. CASE \/ handler_throws(t) \/ finish_buffered(t) \/ finish_immediate(t)
           \/ post_stream_work(t)
  <2>1. task[t] = Run("handler")
    BY <1>2 DEF handler_throws, finish_buffered, finish_immediate, post_stream_work,
       HandlerReturned
  <2>2. Driving(t) /\ task[t].k # "accept"
    BY <2>1 DEF Driving, Free, Run
  <2>3. Goto(t, "fin1") \/ Launch(t, "write") \/ Launch(t, "job")
    BY <1>2 DEF handler_throws, finish_buffered, finish_immediate, post_stream_work,
       write_buffered
  <2> QED
    BY <1>0, <2>1, <2>2, <2>3, GotoEdge, LaunchEdge, PhaseTable
<1>3. CASE run_lambda(t) \/ lambda_returns(t) \/ lambda_throws(t) \/ run_finish(t)
  <2>1. task[t] \in {Async("job", "wait"), Run("lambda"), Async("finish", "wait")}
    BY <1>3 DEF run_lambda, lambda_returns, lambda_throws, run_finish
  <2>2. Driving(t) /\ task[t].k # "accept"
    BY <2>1 DEF Driving, Free, Run, Async
  <2>3. Goto(t, "lambda") \/ Launch(t, "finish") \/ Goto(t, "fin1")
    BY <1>3 DEF run_lambda, lambda_returns, lambda_throws, run_finish
  <2> QED
    BY <1>0, <2>1, <2>2, <2>3, GotoEdge, LaunchEdge, PhaseTable
<1>4. CASE finish_clear(t) \/ finish_touch(t)
  <2>1. task[t] \in {Run("fin1"), Run("fin2")}
    BY <1>4 DEF finish_clear, finish_touch
  <2>2. Driving(t)
    BY <2>1 DEF Driving, Free, Run
  <2>3. Goto(t, "fin2") \/ Goto(t, "fin3")
    BY <1>4 DEF finish_clear, finish_touch
  <2> QED
    BY <1>0, <2>1, <2>2, <2>3, GotoEdge, PhaseTable
<1>5. CASE finish_next(t)
  <2>1. task[t] = Run("fin3") /\ (Launch(t, "header") \/ Goto(t, "ret"))
    BY <1>5 DEF finish_next
  <2>2. Driving(t) /\ task[t].k # "accept"
    BY <2>1 DEF Driving, Free, Run
  <2> QED
    BY <1>0, <2>1, <2>2, LaunchEdge, RetNone, NoneEdge, PhaseTable
<1>6. CASE write_done(t)
  <2>1. task[t].k = "write" /\ (Goto(t, "fin2") \/ Goto(t, "ret"))
    BY <1>6 DEF write_done
  <2>2. Driving(t)
    BY <2>1 DEF Driving, Free, Run
  <2>3. PhaseOf(task[t]) = "serving"
    BY <2>1 DEF PhaseOf
  <2> QED
    BY <1>0, <2>1, <2>2, <2>3, GotoEdge, RetNone, NoneEdge, PhaseTable
<1>7. CASE return(t)
  <2>1. ASSUME NEW u \in Tasks
        PROVE  task'[u] = task[u] \/ (~Driving(u) /\ ~(Driving(u))')
    BY <1>7 DEF return, TypeOK, Driving
  <2> QED
    BY <1>0, <2>1, SamePhase DEF EdgeOrStay
<1> QED
  BY <1>1, <1>2, <1>3, <1>4, <1>5, <1>6, <1>7 DEF Handling, Pooled, Finishing

LEMMA OutsideEdge ==
    ASSUME TypeOK, TypeOK', Safe, NEW t \in Tasks,
           Resume(t) \/ Accept(t) \/ AcceptFails(t) \/ Receive(t) \/ Drain(t)
    PROVE  EdgeOrStay
<1>0. SoleDriver
  BY DEF Safe
<1>1. CASE Resume(t) \/ Receive(t) \/ Drain(t)
  <2>1. task[t].k \in SocketOps
    BY <1>1 DEF Resume, Receive, Drain, SocketOps, Async
  <2>2. \E st : task' = [task EXCEPT ![t].st = st]
    BY <1>1 DEF Resume, Receive, Drain
  <2>3. task[t] \in [k : Pending, st : Outcome]
    BY <2>1 DEF TypeOK, TaskState, SocketOps
  <2>4. ASSUME NEW u \in Tasks
        PROVE  \/ task'[u] = task[u]
               \/ task[u].k \in SocketOps /\ task'[u].k = task[u].k
    BY <2>1, <2>2, <2>3 DEF TypeOK
  <2> QED
    BY <1>0, <2>4, SamePhase DEF EdgeOrStay
<1>2. CASE Accept(t) \/ AcceptFails(t)
  <2>1. task[t] = Async("accept", "wait") /\ (Goto(t, "start") \/ Goto(t, "ret"))
    BY <1>2 DEF Accept, AcceptFails
  <2>2. Driving(t)
    BY <2>1 DEF Driving, Free, Run, Async
  <2> QED
    BY <1>0, <2>1, <2>2, GotoEdge, RetNone, NoneEdge, PhaseTable DEF E!Edges
<1> QED
  BY <1>1, <1>2

LEMMA EnvironmentEdge ==
    ASSUME TypeOK, TypeOK', Safe,
           HalfClose \/ Reset \/ Tick \/ Pin \/ cancel \/ Unpin \/ Erase \/ UNCHANGED vars
    PROVE  EdgeOrStay
<1>1. CASE cancel
  <2>1. ASSUME NEW u \in Tasks
        PROVE  \/ task'[u] = task[u]
               \/ task[u].k \in SocketOps /\ task'[u].k = task[u].k
    BY <1>1 DEF cancel, Aborted, Async
  <2> QED
    BY <2>1, SamePhase DEF EdgeOrStay, Safe
<1>2. CASE HalfClose \/ Reset \/ Tick \/ Pin \/ Unpin \/ Erase \/ UNCHANGED vars
  <2>1. task' = task
    BY <1>2 DEF HalfClose, Reset, Tick, Pin, Unpin, Erase, vars
  <2> QED
    BY <2>1 DEF EdgeOrStay, phase
<1> QED
  BY <1>1, <1>2

\* A connection starts as an accept and goes from request to request as
\* Exchange allows: it takes up a request only while it awaits one, serves
\* only what was received, waits for the next only after serving, and never
\* comes back once given up.  This holds with any number of threads, for all
\* handlers, whenever the client leaves or the timer cancels.
THEOREM RefinesLifeCycle == Spec => ImplementsLifeCycle
<1>1. Init => phase = "accepting"
  <2> SUFFICES ASSUME Init PROVE phase = "accepting"
    OBVIOUS
  <2>1. PICK t \in Tasks :
          task = [u \in Tasks |-> IF u = t THEN Async("accept", "wait") ELSE Free]
    BY DEF Init
  <2>2. task[t] \notin {Free, Run("ret")}
    BY <2>1 DEF Free, Run, Async
  <2>3. phase = PhaseOf(task[t])
    BY <2>1, <2>2, DriverPhase DEF phase
  <2> QED
    BY <2>1, <2>3, PhaseTable
<1>2. TypeOK /\ TypeOK' /\ Safe /\ [Next]_vars => [E!Edge]_phase
  <2> SUFFICES ASSUME TypeOK, TypeOK', Safe, [Next]_vars PROVE EdgeOrStay
    BY DEF EdgeOrStay
  <2>1. ASSUME NEW t \in Tasks, Server(t) \/ Environment(t) PROVE EdgeOrStay
    BY <2>1, ReadingEdge, ServingEdge, OutsideEdge DEF Server, Environment
  <2> QED
    BY <2>1, EnvironmentEdge DEF Next
<1> QED
  BY <1>1, <1>2, TypeCorrect, SafeInvariant, PTL DEF Spec, ImplementsLifeCycle, E!LifeCycle

-----------------------------------------------------------------------------
(* What a client is told.  The argument ties three copies of one decision  *)
(* together, unless the handler wrote the Connection field: keep_alive_,   *)
(* that field of the response object and what the header block said; and   *)
(* two of another: headers_flushed_ and the status lines the client has    *)
(* counted.  They agree because one task at a time drives the connection   *)
(* (OneDriver).                                                            *)

\* A driver at s still has to send the header block of the response.
HeadOwed(s, r) ==
    \/ s.k = "body"
    \/ s.k = "write" /\ s.st \in {"wait", "more"}
    \/ (s.k = "job" \/ s \in {Run("handler"), Run("lambda")}) /\ ~r.flushed

\* Client c agrees with a driver at s, the response r and keep_alive_ = kp.
Agrees(s, r, kp, c) ==
    /\ HeadOwed(s, r) => c.heads = 0 /\ ~c.close
    /\ PhaseOf(s) # "serving" /\ ~r.own => ~c.close
    /\ PhaseOf(s) = "serving" /\ kp /\ ~r.own => ~c.close /\ r.conn = "keep-alive"

\* Nothing of a Buffered response has been sent.
Unsent(r) == r.mode = "Buffered" => ~r.flushed /\ ~r.chunked

\* The inductive invariant.  What a client that is gone would have been told
\* does not matter; the server may go on without noticing.
Told ==
    /\ client.heads <= 1
    /\ Unsent(resp)
    /\ peer # "gone" =>
          \A t \in Tasks : Driving(t) => Agrees(task[t], resp, keep, client)

-----------------------------------------------------------------------------
(* Operators: what a call does to the count and to the announcement.       *)

\* A header block is one status line and says what the Connection field says.
LEMMA HeadTold ==
    ASSUME NEW c \in Client, NEW r \in Response
    PROVE  /\ SendHead(c, r).heads = c.heads + 1
           /\ SendHead(c, r).close = (r.conn = "close")
BY DEF SendHead, GetHead

\* Payload, framed or not, is no status line.
LEMMA PayloadTold ==
    ASSUME NEW c \in Client, NEW n \in Nat
    PROVE  /\ SendData(c, n).heads = c.heads /\ SendData(c, n).close = c.close
           /\ GetChunk(c).heads = c.heads /\ GetChunk(c).close = c.close
           /\ GetLastChunk(c).heads = c.heads /\ GetLastChunk(c).close = c.close
<1>1. Garble(c).heads = c.heads /\ Garble(c).close = c.close
  BY DEF Client, Garble
<1>2. GetData(c, n).heads = c.heads /\ GetData(c, n).close = c.close
  BY <1>1 DEF Client, GetData
<1>3. GetChunk(c).heads = c.heads /\ GetChunk(c).close = c.close
  BY <1>1 DEF Client, GetChunk
<1>4. GetLastChunk(c).heads = c.heads /\ GetLastChunk(c).close = c.close
  BY <1>1 DEF Client, GetLastChunk
<1> QED
  BY <1>2, <1>3, <1>4 DEF SendData

\* serialize() is one header block and its body.
LEMMA SerializedTold ==
    ASSUME NEW c \in Client, NEW r \in Response
    PROVE  /\ SendSerialized(c, r).heads = c.heads + 1
           /\ SendSerialized(c, r).close = (r.conn = "close")
<1> DEFINE length == IF r.cl = Absent THEN r.body ELSE r.cl
           framed == [r EXCEPT !.cl = length]
           head   == SendHead(c, framed)
<1>1. framed \in Response /\ framed.conn = r.conn /\ r.body \in Nat
  BY DEF Response
<1>3. SendSerialized(c, r) = SendData(head, r.body)
  BY DEF SendSerialized
<1> HIDE DEF framed
<1>2. head \in Client /\ head.heads = c.heads + 1 /\ head.close = (r.conn = "close")
  <2>1. head.heads = c.heads + 1 /\ head.close = (framed.conn = "close")
    BY <1>1, HeadTold
  <2> QED
    BY <1>1, <2>1, SendHeadType
<1> HIDE DEF head
<1>4. /\ SendData(head, r.body).heads = head.heads
      /\ SendData(head, r.body).close = head.close
  BY <1>1, <1>2, PayloadTold
<1> QED
  BY <1>2, <1>3, <1>4

\* write_chunk prepares the header fields; it neither sends nor renames.
LEMMA ChunkHeaders ==
    ASSUME NEW r \in Response
    PROVE  /\ chunk_headers(r) \in Response
           /\ chunk_headers(r).flushed = r.flushed
           /\ chunk_headers(r).conn = r.conn
           /\ chunk_headers(r).own = r.own
           /\ chunk_headers(r).mode # "Buffered"
BY DEF Response, Mode, chunk_headers, LockMode

\* No call but the insertion touches the Connection field, and none leaves a
\* Buffered response with something sent.
LEMMA ApplyKeeps ==
    ASSUME NEW r \in Response, NEW call \in Call, NEW ok \in BOOLEAN
    PROVE  /\ ~Apply(r, call, ok).own => ~r.own /\ Apply(r, call, ok).conn = r.conn
           /\ Unsent(r) => Unsent(Apply(r, call, ok))
           /\ r.flushed => Apply(r, call, ok).flushed
<1> DEFINE Kept(q) == /\ ~q.own => ~r.own /\ q.conn = r.conn
                      /\ Unsent(r) => Unsent(q)
                      /\ r.flushed => q.flushed
<1>1. /\ Kept(content_length(r, call.n)) /\ Kept(transfer_encoding(r))
      /\ Kept(set_body(r, call.n)) /\ Kept(stream(r))
      /\ Kept(insert_connection(r, "close")) /\ Kept(insert_connection(r, "keep-alive"))
  BY DEF Response, content_length, transfer_encoding, set_body, stream, insert_connection, Unsent
<1>2. Kept(write(r, ok))
  BY DEF Response, Mode, write, LockMode, Unsent
<1>3. Kept(write_chunk(r, call.n, ok))
  BY ChunkHeaders DEF Response, write_chunk, Unsent
<1>4. Kept(end_chunks(r, ok))
  BY DEF Response, end_chunks, Unsent
<1> HIDE DEF Kept
<1>5. Kept(r)
  BY DEF Kept
<1>6. Kept(Apply(r, call, ok))
  BY <1>1, <1>2, <1>3, <1>4, <1>5 DEF Apply
<1> QED
  BY <1>6 DEF Kept

\* Headers go out with the first payload and never again.
LEMMA FlushTold ==
    ASSUME NEW c \in Client, NEW r \in Response, c.heads <= 1, ~r.flushed => c.heads = 0
    PROVE  /\ FlushFirst(c, r) \in Client
           /\ FlushFirst(c, r).heads <= 1
           /\ FlushFirst(c, r).close \in {c.close, r.conn = "close"}
BY SendHeadType, HeadTold DEF FlushFirst, Client

\* A call whose write went through: headers_flushed_ is false only while the
\* client has no status line, and the client is told no more than r.conn.
LEMMA TransmitTold ==
    ASSUME NEW c \in Client, NEW r \in Response, NEW call \in Call,
           c.heads <= 1, ~r.flushed => c.heads = 0
    PROVE  /\ Transmit(c, r, call).heads <= 1
           /\ ~Apply(r, call, TRUE).flushed
                => Transmit(c, r, call).heads = 0 /\ Transmit(c, r, call).close = c.close
           /\ Transmit(c, r, call).close \in {c.close, r.conn = "close"}
<1>0. call.n \in Nat
  BY DEF Call
<1>5. /\ FlushFirst(c, r) \in Client
      /\ FlushFirst(c, r).heads <= 1
      /\ FlushFirst(c, r).close \in {c.close, r.conn = "close"}
  BY FlushTold
<1>1. CASE ~Sends(r, call)
  <2>1. Transmit(c, r, call) = c
    BY <1>1 DEF Transmit
  <2> QED
    BY <2>1, ApplyKeeps
<1>2. CASE Sends(r, call) /\ call.op = "write"
  <2>1. Apply(r, call, TRUE).flushed
    BY <1>2 DEF Apply, write, Response
  <2>2. Transmit(c, r, call) = SendData(FlushFirst(c, r), call.n)
    BY <1>2 DEF Transmit
  <2>3. /\ Transmit(c, r, call).heads = FlushFirst(c, r).heads
        /\ Transmit(c, r, call).close = FlushFirst(c, r).close
    BY <1>0, <1>5, <2>2, PayloadTold
  <2> QED
    BY <1>5, <2>1, <2>3
<1>3. CASE Sends(r, call) /\ call.op = "write_chunk"
  <2>1. call.n # 0
    BY <1>3 DEF Sends
  <2>2. Apply(r, call, TRUE).flushed
    BY <1>3, <2>1, ChunkHeaders DEF Apply, write_chunk, Response
  <2>3. Transmit(c, r, call) = GetChunk(FlushFirst(c, chunk_headers(r)))
    BY <1>3 DEF Transmit
  <2>4. /\ FlushFirst(c, chunk_headers(r)) \in Client
        /\ FlushFirst(c, chunk_headers(r)).heads <= 1
        /\ FlushFirst(c, chunk_headers(r)).close \in {c.close, r.conn = "close"}
    BY ChunkHeaders, FlushTold
  <2> QED
    BY <1>0, <2>2, <2>3, <2>4, PayloadTold
<1>4. CASE Sends(r, call) /\ call.op = "end_chunks"
  <2>1. Apply(r, call, TRUE).flushed
    BY <1>4 DEF Apply, end_chunks, Sends, Response
  <2>2. Transmit(c, r, call) = GetLastChunk(FlushFirst(c, r))
    BY <1>4 DEF Transmit
  <2> QED
    BY <1>0, <1>5, <2>1, <2>2, PayloadTold
<1> QED
  BY <1>1, <1>2, <1>3, <1>4 DEF Sends

-----------------------------------------------------------------------------
(* Steps: the driver hands the agreement over to the next one.             *)

\* Where the header block is still owed, among places and started operations.
LEMMA OwedTable ==
    ASSUME NEW r
    PROVE  /\ \A pc : HeadOwed(Run(pc), r) <=> pc \in {"handler", "lambda"} /\ ~r.flushed
           /\ \A k : HeadOwed(Async(k, "wait"), r)
                       => k \in {"body", "write"} \/ (k = "job" /\ ~r.flushed)
           /\ \A k \in {"header", "finish"} : \A st : ~HeadOwed(Async(k, st), r)
BY DEF HeadOwed, Run, Async

\* What the invariant says of the one task that drives.
LEMMA DriverTold ==
    ASSUME Told, NEW t \in Tasks, Driving(t), peer # "gone"
    PROVE  Agrees(task[t], resp, keep, client)
BY DEF Told

LEMMA OnlyTold ==
    ASSUME NEW w \in Tasks, NEW s, Only(w, s), client'.heads <= 1, Unsent(resp'),
           peer' # "gone" => Agrees(s, resp', keep', client')
    PROVE  Told'
BY DEF Told, Only

LEMMA NoneTold ==
    ASSUME \A u \in Tasks : ~(Driving(u))', client'.heads <= 1, Unsent(resp')
    PROVE  Told'
BY DEF Told

\* The driver moves on in its own thread, or hands over to an operation.
LEMMA GotoTold ==
    ASSUME TypeOK, Safe, NEW t \in Tasks, Driving(t), NEW pc, Goto(t, pc),
           client'.heads <= 1, Unsent(resp'),
           peer' # "gone" => Agrees(Run(pc), resp', keep', client')
    PROVE  Told'
BY GotoOnly, OnlyTold DEF Safe

LEMMA LaunchTold ==
    ASSUME TypeOK, Safe, NEW t \in Tasks, Driving(t), task[t].k # "accept",
           NEW k, Launch(t, k),
           client'.heads <= 1, Unsent(resp'),
           peer' # "gone" => Agrees(Async(k, "wait"), resp', keep', client')
    PROVE  Told'
<1>1. sock = "open"
  BY DEF Safe, OpenWhileDriven
<1>2. PICK w \in Tasks : Only(w, Async(k, "wait"))
  BY <1>1, LaunchOnly DEF Safe
<1> QED
  BY <1>2, OnlyTold

\* Nobody moves and nothing is said; the client may go away.
LEMMA UnmovedTold ==
    ASSUME Told, UNCHANGED <<task, keep, resp, client>>, peer = "gone" => peer' = "gone"
    PROVE  Told'
BY DEF Told, Driving

\* A step that changes no more than outcomes, and no write goes back.
LEMMA OutcomeTold ==
    ASSUME Told, UNCHANGED <<keep, resp, client, peer>>,
           \A u \in Tasks :
              \/ task'[u] = task[u]
              \/ /\ task[u].k \in SocketOps /\ task'[u].k = task[u].k
                 /\ task'[u].st \in {"wait", "more"} => task[u].st \in {"wait", "more"}
    PROVE  Told'
<1>1. ASSUME NEW u \in Tasks, (Driving(u))', peer # "gone"
      PROVE  Agrees(task'[u], resp, keep, client)
  <2>1. CASE task'[u] = task[u]
    BY <1>1, <2>1 DEF Told, Driving
  <2>2. CASE /\ task[u].k \in SocketOps /\ task'[u].k = task[u].k
             /\ task'[u].st \in {"wait", "more"} => task[u].st \in {"wait", "more"}
    <3>1. Driving(u)
      BY <2>2 DEF Driving, SocketOps, Free, Run
    <3>2. Agrees(task[u], resp, keep, client)
      BY <1>1, <3>1, DriverTold
    <3>3. PhaseOf(task'[u]) = PhaseOf(task[u])
      BY <2>2 DEF PhaseOf, SocketOps
    <3>4. HeadOwed(task'[u], resp) => HeadOwed(task[u], resp)
      BY <2>2 DEF HeadOwed, SocketOps, Run
    <3> QED
      BY <3>2, <3>3, <3>4 DEF Agrees
  <2> QED
    BY <2>1, <2>2
<1> QED
  BY <1>1 DEF Told

\* The library's own responses announce the close.
LEMMA ErrorTold ==
    ASSUME NEW s \in Nat
    PROVE  /\ ErrorResponse(s) \in Response
           /\ Unsent(ErrorResponse(s))
           /\ ErrorResponse(s).conn = "close"
BY ErrorResponseType DEF ErrorResponse, set_body, NewResponse, Unsent

\* A call of the handler or of the lambda, whose write can fail only when
\* the client is gone.
LEMMA CallTold ==
    ASSUME TypeOK, client.heads <= 1, Unsent(resp), NEW call \in Call,
           NEW ok \in SocketOutcome(call), MakeCall(call, ok),
           peer # "gone" /\ ~resp.flushed => client.heads = 0
    PROVE  /\ client'.heads <= 1
           /\ Unsent(resp')
           /\ ~resp'.own => ~resp.own /\ resp'.conn = resp.conn
           /\ resp.flushed => resp'.flushed
           /\ peer # "gone" => /\ ~resp'.flushed => client'.heads = 0 /\ client'.close = client.close
                               /\ client'.close \in {client.close, resp.conn = "close"}
<1>1. resp \in Response /\ client \in Client /\ ok \in BOOLEAN
  BY DEF TypeOK, SocketOutcome
<1>2. resp' = Apply(resp, call, ok)
  BY DEF MakeCall
<1>3. /\ Unsent(resp') /\ (resp.flushed => resp'.flushed)
      /\ ~resp'.own => ~resp.own /\ resp'.conn = resp.conn
  BY <1>1, <1>2, ApplyKeeps
<1>4. CASE peer = "gone"
  BY <1>3, <1>4 DEF MakeCall
<1>5. CASE peer # "gone"
  <2>1. ok = TRUE
    BY <1>5 DEF SocketOutcome
  <2>2. client' = Transmit(client, resp, call)
    BY <1>5, <2>1 DEF MakeCall
  <2> QED
    BY <1>1, <1>2, <1>3, <1>5, <2>1, <2>2, TransmitTold
<1> QED
  BY <1>4, <1>5

\* A request reaches its handler before anything of its response was sent.
LEMMA DispatchTold ==
    ASSUME TypeOK, Safe, NEW t \in Tasks, Driving(t), NEW request, dispatch(t, request),
           client'.heads <= 1, peer' # "gone" => client'.heads = 0 /\ ~client'.close
    PROVE  Told'
<1>1. keep' = request.keep /\ Goto(t, "handler")
  BY DEF dispatch
<1>2. resp' = NewResponse(200, IF request.keep THEN "keep-alive" ELSE "close")
  BY DEF dispatch
<1>3. Unsent(resp') /\ (keep' => resp'.conn = "keep-alive")
  BY <1>1, <1>2 DEF NewResponse, Unsent
<1>4. peer' # "gone" => Agrees(Run("handler"), resp', keep', client')
  BY <1>3, PhaseTable DEF Agrees
<1> QED
  BY <1>1, <1>3, <1>4, GotoTold

LEMMA RejectTold ==
    ASSUME TypeOK, Safe, NEW t \in Tasks, Driving(t), task[t].k # "accept",
           reject_payload_too_large(t),
           client'.heads <= 1, peer' # "gone" => client'.heads = 0 /\ ~client'.close
    PROVE  Told'
<1>1. keep' = FALSE /\ resp' = ErrorResponse(413) /\ Launch(t, "write")
  BY DEF reject_payload_too_large, write_buffered
<1>2. Unsent(resp')
  BY <1>1, ErrorTold
<1>3. peer' # "gone" => Agrees(Async("write", "wait"), resp', keep', client')
  BY <1>1, PhaseTable DEF Agrees
<1> QED
  BY <1>1, <1>2, <1>3, LaunchTold

-----------------------------------------------------------------------------
(* One lemma per group of actions.                                         *)

LEMMA ReadingTold ==
    ASSUME TypeOK, Safe, Told, NEW t \in Tasks, Reading(t)
    PROVE  Told'
<1> USE DEF life, flags, work, wire
<1>0. client.heads <= 1 /\ Unsent(resp)
  BY DEF Told
<1>1. CASE start(t)
  <2>1. task[t] = Run("start") /\ Launch(t, "header") /\ UNCHANGED <<keep, resp, client, peer>>
    BY <1>1 DEF start
  <2>2. Driving(t) /\ task[t].k # "accept"
    BY <2>1 DEF Driving, Free, Run
  <2>3. peer # "gone" => Agrees(Async("header", "wait"), resp, keep, client)
    BY <2>1, <2>2, DriverTold, PhaseTable, OwedTable DEF Agrees
  <2> QED
    BY <1>0, <2>1, <2>2, <2>3, LaunchTold
<1>2. CASE read_header(t)
  <2>1. /\ task[t] = Async("header", "ok") /\ Goto(t, "parse")
        /\ UNCHANGED <<keep, resp, client, peer>>
    BY <1>2 DEF read_header
  <2>2. Driving(t)
    BY <2>1 DEF Driving, Free, Run, Async
  <2>3. peer # "gone" => Agrees(Run("parse"), resp, keep, client)
    BY <2>1, <2>2, DriverTold, PhaseTable, OwedTable DEF Agrees
  <2> QED
    BY <1>0, <2>1, <2>2, <2>3, GotoTold
<1>3. CASE read_error(t) \/ malformed(t) \/ body_error(t)
  <2>1. Driving(t) /\ UNCHANGED <<resp, client>>
    BY <1>3 DEF read_error, malformed, body_error, Driving, Free, Run
  <2>2. Goto(t, "ret") \/ close(t)
    BY <1>3 DEF read_error, malformed, body_error
  <2> QED
    BY <1>0, <2>1, <2>2, RetNone, CloseNone, NoneTold DEF Safe
<1>4. CASE read_body(t)
  <2>1. task[t] = Run("parse") /\ peer' = peer
    BY <1>4 DEF read_body
  <2>2. Driving(t) /\ task[t].k # "accept"
    BY <2>1 DEF Driving, Free, Run
  <2>3. client' = IF peer = "gone" THEN client ELSE Expect(client)
    BY <1>4 DEF read_body
  <2>4. Expect(client).heads = 0 /\ Expect(client).close = FALSE
    BY DEF TypeOK, Client, Expect
  <2>5. client'.heads <= 1
    BY <1>0, <2>3, <2>4
  <2>6. peer' # "gone" => client'.heads = 0 /\ ~client'.close
    BY <2>1, <2>2, <2>3, <2>4, DriverTold, PhaseTable DEF Agrees
  <2>7. PICK request \in Requests :
          \/ dispatch(t, request)
          \/ Launch(t, "body") /\ UNCHANGED <<keep, resp, prog>>
          \/ reject_payload_too_large(t)
    BY <1>4 DEF read_body
  <2>8. CASE dispatch(t, request)
    BY <2>2, <2>5, <2>6, <2>8, DispatchTold
  <2>9. CASE Launch(t, "body") /\ UNCHANGED <<keep, resp, prog>>
    <3>1. peer' # "gone" => Agrees(Async("body", "wait"), resp', keep', client')
      BY <2>6, PhaseTable DEF Agrees
    <3> QED
      BY <1>0, <2>2, <2>5, <2>9, <3>1, LaunchTold
  <2>10. CASE reject_payload_too_large(t)
    BY <2>2, <2>5, <2>6, <2>10, RejectTold
  <2> QED
    BY <2>7, <2>8, <2>9, <2>10
<1>5. CASE body_complete(t) \/ read_chunk(t) \/ chunk_too_large(t)
  <2>1. task[t] = Async("body", "ok") /\ UNCHANGED <<client, peer>>
    BY <1>5 DEF body_complete, read_chunk, chunk_too_large
  <2>2. Driving(t) /\ task[t].k # "accept"
    BY <2>1 DEF Driving, Free, Run, Async
  <2>3. HeadOwed(task[t], resp)
    BY <2>1 DEF HeadOwed, Async
  <2>4. client'.heads <= 1
    BY <1>0, <2>1
  <2>5. peer' # "gone" => client'.heads = 0 /\ ~client'.close
    BY <2>1, <2>2, <2>3, DriverTold, PhaseTable DEF Agrees
  <2>6. \/ dispatch(t, req)
        \/ Launch(t, "body") /\ UNCHANGED <<keep, resp>>
        \/ reject_payload_too_large(t)
    BY <1>5 DEF body_complete, read_chunk, chunk_too_large
  <2>7. CASE dispatch(t, req)
    BY <2>2, <2>4, <2>5, <2>7, DispatchTold
  <2>8. CASE Launch(t, "body") /\ UNCHANGED <<keep, resp>>
    <3>1. peer' # "gone" => Agrees(Async("body", "wait"), resp', keep', client')
      BY <2>5, PhaseTable DEF Agrees
    <3> QED
      BY <1>0, <2>2, <2>4, <2>8, <3>1, LaunchTold
  <2>9. CASE reject_payload_too_large(t)
    BY <2>2, <2>4, <2>5, <2>9, RejectTold
  <2> QED
    BY <2>6, <2>7, <2>8, <2>9
<1> QED
  BY <1>1, <1>2, <1>3, <1>4, <1>5 DEF Reading

LEMMA HandlingTold ==
    ASSUME TypeOK, Safe, Told, NEW t \in Tasks, Handling(t)
    PROVE  Told'
<1> USE DEF life, flags, work, wire
<1>0. client.heads <= 1 /\ Unsent(resp)
  BY DEF Told
<1>1. task[t] = Run("handler")
  BY DEF Handling, handler_call, handler_throws, finish_buffered, finish_immediate,
     post_stream_work, HandlerReturned
<1>2. Driving(t) /\ task[t].k # "accept"
  BY <1>1 DEF Driving, Free, Run
<1>3. peer # "gone" => /\ ~resp.flushed => client.heads = 0 /\ ~client.close
                       /\ keep /\ ~resp.own => ~client.close /\ resp.conn = "keep-alive"
  BY <1>1, <1>2, DriverTold, PhaseTable, OwedTable DEF Agrees
<1>4. CASE handler_call(t)
  <2>1. Head(prog.io) \in Call
    BY <1>4 DEF TypeOK, handler_call, Calls
  <2>2. PICK ok \in SocketOutcome(Head(prog.io)) : MakeCall(Head(prog.io), ok)
    BY <1>4 DEF handler_call
  <2>3. UNCHANGED <<task, keep, peer>>
    BY <1>4 DEF handler_call
  <2>4. /\ client'.heads <= 1 /\ Unsent(resp')
        /\ ~resp'.own => ~resp.own /\ resp'.conn = resp.conn
        /\ resp.flushed => resp'.flushed
        /\ peer # "gone" => /\ ~resp'.flushed => client'.heads = 0 /\ client'.close = client.close
                            /\ client'.close \in {client.close, resp.conn = "close"}
    BY <1>0, <1>3, <2>1, <2>2, CallTold
  <2>5. peer' # "gone" => Agrees(Run("handler"), resp', keep', client')
    BY <1>3, <2>3, <2>4, PhaseTable, OwedTable DEF Agrees
  <2>6. Only(t, Run("handler"))
    BY <1>1, <1>2, <2>3 DEF Only, Safe, SoleDriver, Driving
  <2> QED
    BY <2>4, <2>5, <2>6, OnlyTold
<1>5. CASE handler_throws(t)
  <2>1. keep' = FALSE /\ UNCHANGED <<client, peer>>
    BY <1>5 DEF handler_throws
  <2>2. CASE resp.flushed
    <3>1. Goto(t, "fin1") /\ resp' = resp
      BY <1>5, <2>2 DEF handler_throws
    <3>2. peer' # "gone" => Agrees(Run("fin1"), resp', keep', client')
      BY <2>1, PhaseTable, OwedTable DEF Agrees
    <3> QED
      BY <1>0, <1>2, <2>1, <3>1, <3>2, GotoTold
  <2>3. CASE ~resp.flushed
    <3>1. Launch(t, "write") /\ resp' = ErrorResponse(500)
      BY <1>5, <2>3 DEF handler_throws, write_buffered
    <3>2. peer' # "gone" => Agrees(Async("write", "wait"), resp', keep', client')
      BY <1>3, <2>1, <2>3, PhaseTable DEF Agrees
    <3>3. Unsent(resp')
      BY <3>1, ErrorTold
    <3> QED
      BY <1>0, <1>2, <2>1, <3>1, <3>2, <3>3, LaunchTold
  <2> QED
    BY <2>2, <2>3
<1>6. CASE finish_buffered(t)
  <2>1. Launch(t, "write") /\ UNCHANGED <<keep, resp, client, peer>> /\ resp.mode = "Buffered"
    BY <1>6 DEF finish_buffered, write_buffered
  <2>2. ~resp.flushed
    BY <1>0, <2>1 DEF Unsent
  <2>3. peer # "gone" => Agrees(Async("write", "wait"), resp, keep, client)
    BY <1>3, <2>2, PhaseTable DEF Agrees
  <2> QED
    BY <1>0, <1>2, <2>1, <2>3, LaunchTold
<1>7. CASE finish_immediate(t)
  <2>1. Goto(t, "fin1") /\ UNCHANGED <<resp, client, peer>> /\ (keep' => keep)
    BY <1>7 DEF finish_immediate
  <2>2. peer' # "gone" => Agrees(Run("fin1"), resp', keep', client')
    BY <1>3, <2>1, PhaseTable, OwedTable DEF Agrees
  <2> QED
    BY <1>0, <1>2, <2>1, <2>2, GotoTold
<1>8. CASE post_stream_work(t)
  <2>1. Launch(t, "job") /\ UNCHANGED <<keep, resp, client, peer>>
    BY <1>8 DEF post_stream_work
  <2>2. peer # "gone" => Agrees(Async("job", "wait"), resp, keep, client)
    BY <1>3, PhaseTable, OwedTable DEF Agrees
  <2> QED
    BY <1>0, <1>2, <2>1, <2>2, LaunchTold
<1> QED
  BY <1>4, <1>5, <1>6, <1>7, <1>8 DEF Handling

LEMMA PooledTold ==
    ASSUME TypeOK, Safe, Told, NEW t \in Tasks, Pooled(t)
    PROVE  Told'
<1> USE DEF life, flags, work, wire
<1>0. client.heads <= 1 /\ Unsent(resp)
  BY DEF Told
<1>1. task[t] \in {Async("job", "wait"), Run("lambda")}
  BY DEF Pooled, run_lambda, lambda_call, lambda_returns, lambda_throws
<1>2. Driving(t) /\ task[t].k # "accept"
  BY <1>1 DEF Driving, Free, Run, Async
<1>3. PhaseOf(task[t]) = "serving" /\ (~resp.flushed => HeadOwed(task[t], resp))
  BY <1>1, PhaseTable DEF HeadOwed, Async
<1>4. peer # "gone" => /\ ~resp.flushed => client.heads = 0 /\ ~client.close
                       /\ keep /\ ~resp.own => ~client.close /\ resp.conn = "keep-alive"
  BY <1>2, <1>3, DriverTold DEF Agrees
<1>5. CASE run_lambda(t)
  <2>1. Goto(t, "lambda") /\ UNCHANGED <<keep, resp, client, peer>>
    BY <1>5 DEF run_lambda
  <2>2. peer # "gone" => Agrees(Run("lambda"), resp, keep, client)
    BY <1>4, PhaseTable, OwedTable DEF Agrees
  <2> QED
    BY <1>0, <1>2, <2>1, <2>2, GotoTold
<1>6. CASE lambda_call(t)
  <2>1. Head(prog.job) \in Call
    BY <1>6 DEF TypeOK, lambda_call, Calls
  <2>2. PICK ok \in SocketOutcome(Head(prog.job)) : MakeCall(Head(prog.job), ok)
    BY <1>6 DEF lambda_call
  <2>3. UNCHANGED <<task, keep, peer>> /\ task[t] = Run("lambda")
    BY <1>6 DEF lambda_call
  <2>4. /\ client'.heads <= 1 /\ Unsent(resp')
        /\ ~resp'.own => ~resp.own /\ resp'.conn = resp.conn
        /\ resp.flushed => resp'.flushed
        /\ peer # "gone" => /\ ~resp'.flushed => client'.heads = 0 /\ client'.close = client.close
                            /\ client'.close \in {client.close, resp.conn = "close"}
    BY <1>0, <1>4, <2>1, <2>2, CallTold
  <2>5. peer' # "gone" => Agrees(Run("lambda"), resp', keep', client')
    BY <1>4, <2>3, <2>4, PhaseTable, OwedTable DEF Agrees
  <2>6. Only(t, Run("lambda"))
    BY <1>2, <2>3 DEF Only, Safe, SoleDriver, Driving
  <2> QED
    BY <2>4, <2>5, <2>6, OnlyTold
<1>7. CASE lambda_returns(t)
  <2> DEFINE call == [op |-> "end_chunks", n |-> 0]
  <2>1. call \in Call
    BY DEF Call, Op
  <2>2. PICK ok \in SocketOutcome(call) : MakeCall(call, ok)
    BY <1>7 DEF lambda_returns
  <2>3. Launch(t, "finish") /\ UNCHANGED <<keep, peer>>
    BY <1>7 DEF lambda_returns
  <2> HIDE DEF call
  <2>4. /\ client'.heads <= 1 /\ Unsent(resp')
        /\ ~resp'.own => ~resp.own /\ resp'.conn = resp.conn
        /\ peer # "gone" => client'.close \in {client.close, resp.conn = "close"}
    BY <1>0, <1>4, <2>1, <2>2, CallTold
  <2>5. peer' # "gone" => Agrees(Async("finish", "wait"), resp', keep', client')
    BY <1>4, <2>3, <2>4, PhaseTable, OwedTable DEF Agrees
  <2> QED
    BY <1>2, <2>3, <2>4, <2>5, LaunchTold
<1>8. CASE lambda_throws(t)
  <2>1. keep' = FALSE /\ Launch(t, "finish") /\ peer' = peer
    BY <1>8 DEF lambda_throws
  <2>2. client' = IF resp.flushed \/ peer = "gone" THEN client
                  ELSE SendSerialized(client, ErrorResponse(500))
    BY <1>8 DEF lambda_throws
  <2>3. SendSerialized(client, ErrorResponse(500)).heads = client.heads + 1
    BY ErrorTold, SerializedTold DEF TypeOK
  <2>4. client'.heads <= 1
    BY <1>0, <1>4, <2>2, <2>3
  <2>5. Unsent(resp')
    BY <1>0, <1>8, ErrorTold DEF lambda_throws
  <2>6. peer' # "gone" => Agrees(Async("finish", "wait"), resp', keep', client')
    BY <2>1, PhaseTable, OwedTable DEF Agrees
  <2> QED
    BY <1>2, <2>1, <2>4, <2>5, <2>6, LaunchTold
<1> QED
  BY <1>5, <1>6, <1>7, <1>8 DEF Pooled

LEMMA FinishingTold ==
    ASSUME TypeOK, Safe, Told, NEW t \in Tasks, Finishing(t)
    PROVE  Told'
<1> USE DEF life, flags, work, wire
<1>0. client.heads <= 1 /\ Unsent(resp)
  BY DEF Told
<1>1. CASE run_finish(t) \/ finish_clear(t) \/ finish_touch(t)
  <2>1. task[t] \in {Async("finish", "wait"), Run("fin1"), Run("fin2")}
    BY <1>1 DEF run_finish, finish_clear, finish_touch
  <2>2. PICK pc \in {"fin1", "fin2", "fin3"} : Goto(t, pc)
    BY <1>1 DEF run_finish, finish_clear, finish_touch
  <2>3. UNCHANGED <<keep, resp, client, peer>>
    BY <1>1 DEF run_finish, finish_clear, finish_touch
  <2>4. Driving(t) /\ PhaseOf(task[t]) = "serving"
    BY <2>1, PhaseTable DEF Driving, Free, Run, Async
  <2>5. peer # "gone" => Agrees(Run(pc), resp, keep, client)
    BY <2>4, DriverTold, PhaseTable, OwedTable DEF Agrees
  <2> QED
    BY <1>0, <2>2, <2>3, <2>4, <2>5, GotoTold
<1>2. CASE finish_next(t)
  <2>1. task[t] = Run("fin3") /\ UNCHANGED <<keep, resp, client, peer>>
    BY <1>2 DEF finish_next
  <2>2. Driving(t) /\ task[t].k # "accept"
    BY <2>1 DEF Driving, Free, Run
  <2>3. CASE keep
    <3>1. Launch(t, "header")
      BY <1>2, <2>3 DEF finish_next
    <3>2. peer # "gone" => Agrees(Async("header", "wait"), resp, keep, client)
      BY <2>1, <2>2, <2>3, DriverTold, PhaseTable, OwedTable DEF Agrees
    <3> QED
      BY <1>0, <2>1, <2>2, <3>1, <3>2, LaunchTold
  <2>4. CASE ~keep
    BY <1>0, <1>2, <2>1, <2>2, <2>4, RetNone, NoneTold DEF finish_next, Safe
  <2> QED
    BY <2>3, <2>4
<1>3. CASE write_done(t)
  <2>1. task[t].k = "write" /\ UNCHANGED <<keep, resp, client, peer>>
    BY <1>3 DEF write_done
  <2>2. Driving(t) /\ PhaseOf(task[t]) = "serving"
    BY <2>1 DEF Driving, Free, Run, PhaseOf
  <2>3. peer # "gone" => Agrees(Run("fin2"), resp, keep, client)
    BY <2>2, DriverTold, PhaseTable, OwedTable DEF Agrees
  <2>4. Goto(t, "fin2") \/ Goto(t, "ret")
    BY <1>3 DEF write_done
  <2> QED
    BY <1>0, <2>1, <2>2, <2>3, <2>4, GotoTold, RetNone, NoneTold DEF Safe
<1>4. CASE return(t)
  <2>1. ASSUME NEW u \in Tasks, (Driving(u))'
        PROVE  Driving(u) /\ task'[u] = task[u]
    BY <1>4, <2>1 DEF return, TypeOK, Driving
  <2>2. UNCHANGED <<keep, resp, client, peer>>
    BY <1>4 DEF return
  <2> QED
    BY <2>1, <2>2 DEF Told
<1> QED
  BY <1>1, <1>2, <1>3, <1>4 DEF Finishing

LEMMA OutsideTold ==
    ASSUME TypeOK, Safe, Told, NEW t \in Tasks,
           Resume(t) \/ Accept(t) \/ AcceptFails(t) \/ Receive(t) \/ Drain(t)
    PROVE  Told'
<1> USE DEF life, flags, work, wire
<1>0. client.heads <= 1 /\ Unsent(resp)
  BY DEF Told
<1>1. CASE Accept(t)
  <2>1. /\ task[t] = Async("accept", "wait") /\ Goto(t, "start")
        /\ UNCHANGED <<keep, resp, client, peer>>
    BY <1>1 DEF Accept
  <2>2. Driving(t)
    BY <2>1 DEF Driving, Free, Run, Async
  <2>3. peer # "gone" => Agrees(Run("start"), resp, keep, client)
    BY <2>1, <2>2, DriverTold, PhaseTable, OwedTable DEF Agrees
  <2> QED
    BY <1>0, <2>1, <2>2, <2>3, GotoTold
<1>2. CASE AcceptFails(t)
  <2>1. task[t] = Async("accept", "wait") /\ Goto(t, "ret") /\ UNCHANGED <<resp, client>>
    BY <1>2 DEF AcceptFails
  <2>2. Driving(t)
    BY <2>1 DEF Driving, Free, Run, Async
  <2> QED
    BY <1>0, <2>1, <2>2, RetNone, NoneTold DEF Safe
<1>3. CASE Drain(t) /\ task' = [task EXCEPT ![t].st = "ok"]
  <2>1. /\ task[t] = Async("write", "wait") /\ UNCHANGED <<keep, resp, peer>>
        /\ client' = IF peer = "gone" THEN client ELSE SendSerialized(client, resp)
    BY <1>3 DEF Drain, TypeOK, Async
  <2>2. Driving(t) /\ PhaseOf(task[t]) = "serving" /\ HeadOwed(task[t], resp)
    BY <2>1, PhaseTable DEF Driving, Free, Run, Async, HeadOwed
  <2>3. /\ SendSerialized(client, resp).heads = client.heads + 1
        /\ SendSerialized(client, resp).close = (resp.conn = "close")
    BY SerializedTold DEF TypeOK
  <2>4. client'.heads <= 1
    BY <1>0, <2>1, <2>2, <2>3, DriverTold DEF Agrees
  <2>5. peer' # "gone" => Agrees(Async("write", "ok"), resp', keep', client')
    <3>1. ~HeadOwed(Async("write", "ok"), resp')
      BY DEF HeadOwed, Async, Run
    <3>2. peer # "gone" /\ keep /\ ~resp.own => resp.conn = "keep-alive"
      BY <2>2, DriverTold DEF Agrees
    <3> QED
      BY <2>1, <2>3, <3>1, <3>2, PhaseTable DEF Agrees
  <2>6. Only(t, Async("write", "ok"))
    <3>1. task'[t] = Async("write", "ok")
      BY <1>3, <2>1 DEF TypeOK, Async
    <3>2. \A u \in Tasks : u # t => task'[u] = task[u]
      BY <1>3 DEF TypeOK
    <3> QED
      BY <2>2, <3>1, <3>2 DEF Only, Safe, SoleDriver, Driving
  <2> QED
    BY <1>0, <2>1, <2>4, <2>5, <2>6, OnlyTold
<1>4. CASE \/ Resume(t) \/ Receive(t)
           \/ Drain(t) /\ task' # [task EXCEPT ![t].st = "ok"]
  <2>1. /\ task[t].k \in SocketOps /\ task[t].st \in {"wait", "more"}
        /\ UNCHANGED <<keep, resp, client, peer>>
    BY <1>4 DEF Resume, Receive, Drain, SocketOps, Async
  <2>2. \E st : task' = [task EXCEPT ![t].st = st]
    BY <1>4 DEF Resume, Receive, Drain
  <2>3. task[t] \in [k : Pending, st : Outcome]
    BY <2>1 DEF TypeOK, TaskState, SocketOps
  <2>4. ASSUME NEW u \in Tasks
        PROVE  \/ task'[u] = task[u]
               \/ /\ task[u].k \in SocketOps /\ task'[u].k = task[u].k
                  /\ task'[u].st \in {"wait", "more"} => task[u].st \in {"wait", "more"}
    BY <2>1, <2>2, <2>3 DEF TypeOK
  <2> QED
    BY <2>1, <2>4, OutcomeTold
<1> QED
  BY <1>1, <1>2, <1>3, <1>4

LEMMA EnvironmentTold ==
    ASSUME Told,
           HalfClose \/ Reset \/ Tick \/ Pin \/ cancel \/ Unpin \/ Erase \/ UNCHANGED vars
    PROVE  Told'
<1> USE DEF life, flags, work, wire
<1>1. CASE HalfClose \/ Reset \/ Tick \/ Pin \/ Unpin \/ Erase \/ UNCHANGED vars
  BY <1>1, UnmovedTold DEF HalfClose, Reset, Tick, Pin, Unpin, Erase, vars
<1>2. CASE cancel
  <2>1. ASSUME NEW u \in Tasks
        PROVE  \/ task'[u] = task[u]
               \/ /\ task[u].k \in SocketOps /\ task'[u].k = task[u].k
                  /\ task'[u].st \in {"wait", "more"} => task[u].st \in {"wait", "more"}
    BY <1>2 DEF cancel, Aborted, Async
  <2> QED
    BY <1>2, <2>1, OutcomeTold DEF cancel
<1> QED
  BY <1>1, <1>2

LEMMA InitTold == Init => Told
<1> SUFFICES ASSUME Init PROVE Told
  OBVIOUS
<1>1. client.heads = 0 /\ client.close = FALSE /\ Unsent(resp)
  BY DEF Init, InitClient, NewResponse, Unsent
<1>2. PICK t \in Tasks :
        task = [u \in Tasks |-> IF u = t THEN Async("accept", "wait") ELSE Free]
  BY DEF Init
<1>3. ASSUME NEW u \in Tasks, Driving(u)
      PROVE  Agrees(task[u], resp, keep, client)
  <2>1. task[u] = Async("accept", "wait")
    BY <1>2, <1>3 DEF Driving
  <2> QED
    BY <1>1, <2>1, PhaseTable DEF Agrees
<1> QED
  BY <1>1, <1>3 DEF Told

LEMMA ToldInvariant == Spec => []Told
<1>1. TypeOK /\ Safe /\ Told /\ [Next]_vars => Told'
  <2> SUFFICES ASSUME TypeOK, Safe, Told, [Next]_vars PROVE Told'
    OBVIOUS
  <2>1. ASSUME NEW t \in Tasks, Server(t) \/ Environment(t) PROVE Told'
    BY <2>1, ReadingTold, HandlingTold, PooledTold, FinishingTold, OutsideTold
       DEF Server, Environment
  <2> QED
    BY <2>1, EnvironmentTold DEF Next
<1> QED
  BY <1>1, InitTold, TypeCorrect, SafeInvariant, PTL DEF Spec

\* However the handler, its lambda and their exceptions interleave with
\* failing writes, a request is answered with at most one status line: the
\* 500 of dispatch() and of the pool is sent only if no header block was.
THEOREM AnsweredOnce == Spec => []OneHead
BY ToldInvariant, PTL DEF Told, OneHead

\* A client that was told "Connection: close" by the last header block is
\* never waited for again, whatever the handlers do and wherever they throw,
\* unless the handler wrote that field itself.
THEOREM CloseKept == Spec => []CloseHonoured
<1>1. Told => CloseHonoured
  <2> SUFFICES ASSUME Told, NEW t \in Tasks, task[t].k = "header", peer # "gone", client.close
               PROVE  resp.own
    BY DEF CloseHonoured
  <2>1. Driving(t) /\ PhaseOf(task[t]) # "serving"
    BY DEF Driving, Free, Run, PhaseOf
  <2> QED
    BY <2>1, DriverTold DEF Agrees
<1> QED
  BY <1>1, ToldInvariant, PTL

-----------------------------------------------------------------------------
(* Behind handlers that follow the documentation a connection is kept only *)
(* after a response the client could frame (FramedBeforeNext), and         *)
(* Connection implements Exchange (RefinesExchange).                       *)
(*                                                                         *)
(* The invariant Framed says that the program is on track: what a handler  *)
(* or a lambda has still to call is what the client's parser needs to see  *)
(* the end of the response, unless the connection closes anyway.  Every    *)
(* call keeps the program on track (HandlerTrack, LambdaTrack), whether it *)
(* throws or not; the ends of a program, finish_immediate and              *)
(* post_stream_work make the response whole or give up keep-alive.         *)
(*                                                                         *)
(* The one hypothesis is Documented.  MCConnection checks that the         *)
(* handlers of its documented instance satisfy it.                         *)

-----------------------------------------------------------------------------
(* Programs: what one call leaves of them.                                 *)

LEMMA NextCall ==
    ASSUME NEW calls \in Seq(Call), calls # <<>>
    PROVE  /\ Head(calls) = calls[1] /\ Head(calls) \in Call
           /\ Tail(calls) \in Seq(Call)
           /\ Len(calls) \in Nat \ {0}
           /\ Len(Tail(calls)) = Len(calls) - 1
           /\ \A i \in 1 .. Len(Tail(calls)) : Tail(calls)[i] = calls[i + 1]
           /\ Len(calls) = 1 <=> Tail(calls) = <<>>
<1>1. Head(calls) = calls[1] /\ Len(calls) \in Nat \ {0}
  OBVIOUS
<1>2. /\ Head(calls) \in Call
      /\ Tail(calls) \in Seq(Call)
      /\ Len(Tail(calls)) = Len(calls) - 1
      /\ \A i \in 1 .. Len(Tail(calls)) : Tail(calls)[i] = calls[i + 1]
  BY HeadTailProperties
<1>3. Len(Tail(calls)) = 0 <=> Tail(calls) = <<>>
  BY <1>2, EmptySeq
<1> QED
  BY <1>1, <1>2, <1>3

LEMMA LongTail ==
    ASSUME NEW calls \in Seq(Call), Len(calls) >= 2
    PROVE  Tail(calls) # <<>>
<1>1. Len(calls) \in Nat /\ calls # <<>>
  OBVIOUS
<1>2. \A n \in Nat : n >= 2 => n # 1
  OBVIOUS
<1> QED
  BY <1>1, <1>2, NextCall

LEMMA OpsTail ==
    ASSUME NEW calls \in Seq(Call), calls # <<>>, NEW ops, Ops(calls, ops)
    PROVE  Head(calls).op \in ops /\ Ops(Tail(calls), ops)
BY NextCall DEF Ops

LEMMA EndsTail ==
    ASSUME NEW calls \in Seq(Call), NEW ops, NEW last, Ends(calls, ops, last)
    PROVE  /\ calls # <<>>
           /\ \/ Head(calls).op = last /\ Tail(calls) = <<>>
              \/ Head(calls).op \in ops /\ Ends(Tail(calls), ops, last)
<1>0. calls # <<>>
  BY DEF Ends
<1>1. CASE Len(calls) = 1
  BY <1>0, <1>1, NextCall DEF Ends
<1>2. CASE Len(calls) > 1
  <2>1. Head(calls).op \in ops /\ Tail(calls) # <<>>
    BY <1>0, <1>2, NextCall DEF Ends
  <2>2. Tail(calls)[Len(Tail(calls))].op = last
    BY <1>0, <1>2, NextCall DEF Ends
  <2>3. \A i \in 1 .. Len(Tail(calls)) - 1 : Tail(calls)[i].op \in ops
    BY <1>0, NextCall DEF Ends
  <2> QED
    BY <1>0, <2>1, <2>2, <2>3 DEF Ends
<1> QED
  BY <1>0, <1>1, <1>2, NextCall

\* The calls write what is left of an announced length.
Owes(calls, n) == \E most \in Nat : Pays(calls, n, most)

LEMMA OwesTail ==
    ASSUME NEW calls \in Seq(Call), calls # <<>>, NEW n \in Nat, Owes(calls, n),
           Head(calls).op # "throw"
    PROVE  /\ Head(calls).op = "write" /\ Head(calls).n <= n
           /\ Owes(Tail(calls), n - Head(calls).n)
<1>0. PICK most \in Nat : Pays(calls, n, most)
  BY DEF Owes
<1>1. PICK left \in [1 .. Len(calls) + 1 -> 0 .. most] :
        /\ left[1] = n /\ left[Len(calls) + 1] = 0
        /\ \A i \in 1 .. Len(calls) :
              \/ calls[i].op = "throw"
              \/ calls[i].op = "write" /\ left[i] = calls[i].n + left[i + 1]
  BY <1>0 DEF Pays
<1>2. Head(calls).op = "write" /\ n = Head(calls).n + left[2] /\ left[2] \in Nat
  BY <1>1, NextCall
<1>3. Head(calls).n \in Nat
  BY NextCall DEF Call
<1> DEFINE rest == [i \in 1 .. Len(Tail(calls)) + 1 |-> left[i + 1]]
<1>4. rest \in [1 .. Len(Tail(calls)) + 1 -> 0 .. most]
  BY <1>1, NextCall
<1>5. rest[1] = n - Head(calls).n
  BY <1>2, <1>3, NextCall
<1>6. rest[Len(Tail(calls)) + 1] = 0
  BY <1>1, NextCall
<1>7. ASSUME NEW i \in 1 .. Len(Tail(calls))
      PROVE  \/ Tail(calls)[i].op = "throw"
             \/ Tail(calls)[i].op = "write" /\ rest[i] = Tail(calls)[i].n + rest[i + 1]
  <2>1. i + 1 \in 1 .. Len(calls) /\ Tail(calls)[i] = calls[i + 1]
    BY NextCall
  <2>2. rest[i] = left[i + 1] /\ rest[i + 1] = left[(i + 1) + 1]
    OBVIOUS
  <2> QED
    BY <1>1, <2>1, <2>2
<1> HIDE DEF rest
<1>8. Pays(Tail(calls), n - Head(calls).n, most)
  BY <1>4, <1>5, <1>6, <1>7 DEF Pays
<1> QED
  BY <1>1, <1>2, <1>3, <1>8 DEF Owes

\* With nothing left to call, nothing is owed.
LEMMA OwesNothing ==
    ASSUME NEW n, Owes(<<>>, n)
    PROVE  n = 0
BY DEF Owes, Pays

-----------------------------------------------------------------------------
(* Operators: what a call whose write goes through does to the response,   *)
(* and to the client.                                                      *)

\* q is r with a header field or the body set, or the lambda named.
Prepared(r, call, q) ==
    /\ call.op \in {"set_body", "transfer_encoding", "content_length", "stream"} =>
          (q.flushed <=> r.flushed) /\ (q.chunked <=> r.chunked)
    /\ call.op \in {"set_body", "transfer_encoding", "content_length"} => q.mode = r.mode
    /\ call.op \in {"set_body", "transfer_encoding", "stream"} => q.cl = r.cl
    /\ call.op \in {"set_body", "content_length", "stream"} => (q.te <=> r.te)
    /\ call.op = "content_length" => q.cl = call.n
    /\ call.op = "stream" => q.mode = "Stream"

LEMMA Prepares ==
    ASSUME NEW r \in Response, NEW call \in Call, NEW q, q = Apply(r, call, TRUE)
    PROVE  Prepared(r, call, q)
<1> USE DEF Prepared
<1>1. CASE call.op = "set_body"
  BY <1>1 DEF Apply, set_body, Response
<1>2. CASE call.op = "transfer_encoding"
  BY <1>2 DEF Apply, transfer_encoding, Response
<1>3. CASE call.op = "content_length"
  BY <1>3 DEF Apply, content_length, Response
<1>4. CASE call.op = "stream"
  BY <1>4 DEF Apply, stream, Response
<1> QED
  BY <1>1, <1>2, <1>3, <1>4

\* q is r after a payload call.
Flushed(r, call, q) ==
    /\ call.op = "write" =>
          /\ q.cl = r.cl /\ (q.te <=> r.te) /\ (q.chunked <=> r.chunked)
          /\ q.flushed /\ q.mode = LockMode(r)
    /\ call.op = "write_chunk" /\ call.n = 0 => q = r
    /\ call.op = "write_chunk" /\ call.n > 0 =>
          /\ q.cl = r.cl /\ q.flushed /\ q.mode = LockMode(r)
          /\ r.flushed \/ r.chunked => (q.te <=> r.te) /\ (q.chunked <=> r.chunked)
          /\ ~r.flushed /\ ~r.chunked => q.te /\ q.chunked
    /\ call.op = "end_chunks" /\ ~r.chunked => q = r
    /\ call.op = "end_chunks" /\ r.chunked =>
          /\ q.cl = r.cl /\ (q.te <=> r.te) /\ (q.chunked <=> r.chunked)
          /\ q.flushed /\ q.mode = r.mode

LEMMA Sending ==
    ASSUME NEW r \in Response, NEW call \in Call, NEW q, q = Apply(r, call, TRUE)
    PROVE  Flushed(r, call, q)
<1> USE DEF Flushed
<1>1. CASE call.op = "write"
  BY <1>1 DEF Apply, write, Response
<1>2. CASE call.op = "write_chunk" /\ call.n = 0
  BY <1>2 DEF Apply, write_chunk
<1>3. CASE call.op = "write_chunk" /\ call.n > 0
  <2> DEFINE h == chunk_headers(r)
  <2>1. /\ h \in Response /\ h.cl = r.cl /\ h.mode = LockMode(r)
        /\ r.flushed \/ r.chunked => (h.te <=> r.te) /\ (h.chunked <=> r.chunked)
        /\ ~r.flushed /\ ~r.chunked => h.te /\ h.chunked
    BY DEF Response, Mode, chunk_headers, LockMode
  <2>2. q = [h EXCEPT !.flushed = @ \/ TRUE]
    BY <1>3 DEF Apply, write_chunk
  <2> HIDE DEF h
  <2>3. /\ q.cl = h.cl /\ q.mode = h.mode /\ (q.te <=> h.te) /\ (q.chunked <=> h.chunked)
        /\ q.flushed
    BY <2>1, <2>2 DEF Response
  <2>4. call.n # 0
    BY <1>3 DEF Call
  <2> QED
    BY <1>3, <2>1, <2>3, <2>4
<1>4. CASE call.op = "end_chunks" /\ ~r.chunked
  BY <1>4 DEF Apply, end_chunks
<1>5. CASE call.op = "end_chunks" /\ r.chunked
  BY <1>5 DEF Apply, end_chunks, Response
<1> QED
  BY <1>1, <1>2, <1>3, <1>4, <1>5

\* d is client c after what the call sends.
Reached(r, call, c, d) ==
    /\ call.op \in {"set_body", "transfer_encoding", "content_length", "stream"} => d = c
    /\ call.op = "write" => d = SendData(FlushFirst(c, r), call.n)
    /\ call.op = "write_chunk" /\ call.n = 0 => d = c
    /\ call.op = "write_chunk" /\ call.n > 0 => d = GetChunk(FlushFirst(c, chunk_headers(r)))
    /\ call.op = "end_chunks" /\ ~r.chunked => d = c
    /\ call.op = "end_chunks" /\ r.chunked /\ r.flushed => d = GetLastChunk(c)

LEMMA Sent ==
    ASSUME NEW r \in Response, NEW call \in Call, NEW c \in Client,
           NEW d, d = Transmit(c, r, call)
    PROVE  Reached(r, call, c, d)
<1> USE DEF Reached
<1>0. call.n \in Nat /\ (chunk_headers(r).flushed <=> r.flushed)
  BY ChunkHeaders DEF Call
<1>1. CASE call.op \in {"set_body", "transfer_encoding", "content_length", "stream"}
  BY <1>1 DEF Transmit, Sends
<1>2. CASE call.op = "write" /\ Sends(r, call)
  BY <1>2 DEF Transmit, FlushFirst
<1>3. CASE call.op = "write" /\ ~Sends(r, call)
  BY <1>0, <1>3 DEF Transmit, Sends, SendData, FlushFirst
<1>4. CASE call.op = "write_chunk" /\ call.n = 0
  BY <1>4 DEF Transmit, Sends
<1>5. CASE call.op = "write_chunk" /\ call.n > 0
  BY <1>0, <1>5 DEF Transmit, Sends, FlushFirst
<1>6. CASE call.op = "end_chunks"
  BY <1>6 DEF Transmit, Sends, FlushFirst
<1> QED
  BY <1>0, <1>1, <1>2, <1>3, <1>4, <1>5, <1>6

\* The client counts the bytes of an announced length.
Counting(c) == c.st = IF c.left = 0 THEN "quiet" ELSE "length"

\* What a client that awaits a response makes of a header block.
LEMMA HeadFrames ==
    ASSUME NEW c \in Client, NEW r \in Response, c.st = "awaiting",
           NEW d, d = SendHead(c, r)
    PROVE  /\ d \in Client
           /\ r.te => d.st = "chunks"
           /\ ~r.te /\ r.cl = Absent => d.st = "tillclose"
           /\ ~r.te /\ r.cl # Absent => d.left = r.cl /\ Counting(d)
<1>1. d \in Client
  BY SendHeadType
<1> DEFINE framing == Framing(r.te, r.cl)
<1>0. /\ d.st = framing
      /\ d.left = IF framing = "length" THEN r.cl ELSE 0
  BY DEF SendHead, GetHead
<1>5. r.te \in BOOLEAN /\ r.cl \in Nat \cup {Absent}
  BY DEF Response
<1>2. CASE r.te
  <2>1. framing = "chunks"
    BY <1>2, <1>5 DEF Framing
  <2> HIDE DEF framing
  <2> QED
    BY <1>0, <1>1, <1>2, <2>1
<1>3. CASE ~r.te /\ r.cl = Absent
  <2>1. framing = "tillclose"
    BY <1>3, <1>5 DEF Framing, Absent
  <2> HIDE DEF framing
  <2> QED
    BY <1>0, <1>1, <1>3, <2>1
<1>4. CASE ~r.te /\ r.cl # Absent
  <2>1. framing = IF r.cl = 0 THEN "quiet" ELSE "length"
    BY <1>4, <1>5 DEF Framing
  <2> HIDE DEF framing
  <2> QED
    BY <1>0, <1>1, <1>4, <2>1 DEF Counting
<1> QED
  BY <1>1, <1>2, <1>3, <1>4

\* Payload that the framing accounts for.
LEMMA DataFrames ==
    ASSUME NEW c \in Client, NEW n \in Nat, NEW d, d = SendData(c, n)
    PROVE  /\ c.st = "tillclose" => d = c
           /\ Counting(c) /\ n <= c.left => d.left = c.left - n /\ Counting(d)
<1>1. CASE c.st = "tillclose"
  BY <1>1 DEF SendData, GetData, Counting
<1>2. CASE Counting(c) /\ n <= c.left /\ n = 0
  BY <1>2 DEF SendData, Client
<1>3. CASE Counting(c) /\ n < c.left /\ n > 0
  BY <1>3 DEF SendData, GetData, Counting, Client
<1>4. CASE Counting(c) /\ n = c.left /\ n > 0
  <2>1. c.st = "length" /\ c.left \in Nat
    BY <1>4 DEF Counting, Client
  <2>2. d = [c EXCEPT !.st = "quiet", !.left = 0]
    BY <1>4, <2>1 DEF SendData, GetData
  <2>3. d.st = "quiet" /\ d.left = 0
    BY <2>2 DEF Client
  <2> QED
    BY <1>4, <2>1, <2>3 DEF Counting
<1> QED
  BY <1>1, <1>2, <1>3, <1>4 DEF Counting, Client

LEMMA ChunkFrames ==
    ASSUME NEW c \in Client, c.st = "chunks"
    PROVE  GetChunk(c) = c /\ GetLastChunk(c).st = "quiet"
BY DEF GetChunk, GetLastChunk, Client

\* A call counts as one status line if it flushes the headers, else as none.
LEMMA SentHeads ==
    ASSUME NEW r \in Response, NEW call \in Call, NEW c \in Client,
           NEW d, d = Transmit(c, r, call)
    PROVE  /\ r.flushed => d.heads = c.heads /\ d.close = c.close
           /\ d = c \/ d.heads = c.heads + (IF r.flushed THEN 0 ELSE 1)
<1> DEFINE f(q) == FlushFirst(c, q)
<1>1. /\ f(r) \in Client /\ f(chunk_headers(r)) \in Client
      /\ c.heads \in Nat /\ call.n \in Nat
  BY SendHeadType, ChunkHeaders DEF FlushFirst, Client, Call
<1>2. CASE r.flushed
  <2>1. f(r) = c /\ f(chunk_headers(r)) = c
    BY <1>2, ChunkHeaders DEF FlushFirst
  <2> HIDE DEF f
  <2>2. d \in {c, SendData(c, call.n), GetChunk(c), GetLastChunk(c)}
    BY <2>1 DEF Transmit, Sends, f
  <2>3. d.heads = c.heads /\ d.close = c.close
    BY <1>1, <2>2, PayloadTold
  <2> QED
    BY <1>1, <1>2, <2>3
<1>3. CASE ~r.flushed
  <2>1. /\ f(r).heads = c.heads + 1
        /\ f(chunk_headers(r)).heads = c.heads + 1
    BY <1>3, HeadTold, ChunkHeaders DEF FlushFirst
  <2> HIDE DEF f
  <2>2. d \in {c, SendData(f(r), call.n), GetChunk(f(chunk_headers(r))), GetLastChunk(f(r))}
    BY DEF Transmit, Sends, f
  <2>3. d = c \/ d.heads = c.heads + 1
    BY <1>1, <2>1, <2>2, PayloadTold
  <2> QED
    BY <1>3, <2>3
<1> QED
  BY <1>2, <1>3

-----------------------------------------------------------------------------
(* A program on track: what it still calls completes what has been sent.   *)

\* The header block is still to be sent.
Untouched(r, c) == c.st = "awaiting" /\ ~r.flushed /\ ~r.chunked

\* A lambda with calls left, its response r and the client c.
AtLambda(calls, r, c) ==
    \/ Untouched(r, c) /\ r.cl = Absent /\ Feeds(calls)
    \/ Untouched(r, c) /\ r.cl # Absent /\ ~r.te /\ calls # <<>> /\ Owes(calls, r.cl)
    \/ /\ r.flushed /\ r.chunked /\ c.st = "chunks"
       /\ Ops(calls, {"write_chunk", "throw"})
    \/ r.flushed /\ ~r.chunked /\ Counting(c) /\ Owes(calls, c.left)

\* A handler with p.io left, and p.job for its lambda.
AtHandler(p, r, c) ==
    \/ /\ r.mode = "Buffered" /\ Untouched(r, c) /\ r.cl = Absent
       /\ \/ ~r.te /\ (Plain(p) \/ Chunked(p) \/ Sized(p) \/ StreamSized(p))
          \/ StreamChunks(p)
    \/ /\ r.mode = "Buffered" /\ Untouched(r, c) /\ r.cl # Absent /\ ~r.te
       /\ \/ p.io # <<>> /\ Owes(p.io, r.cl)
          \/ /\ Len(p.io) = 1 /\ Head(p.io).op = "stream"
             /\ p.job # <<>> /\ Owes(p.job, r.cl)
    \/ /\ r.mode = "Immediate" /\ r.flushed
       /\ \/ r.cl = Absent /\ ~r.te /\ c.st = "tillclose" /\ Plain(p)
          \/ r.te /\ r.chunked /\ c.st = "chunks" /\ Chunked(p)
          \/ r.te /\ c.st = "quiet" /\ p.io = <<>>
          \/ r.cl # Absent /\ ~r.te /\ Counting(c) /\ Owes(p.io, c.left)
    \/ r.mode = "Stream" /\ p.io = <<>> /\ AtLambda(p.job, r, c)

Partial == {"length", "chunks", "tillclose"}

\* A response grows, or stays as it is.
Growth(c, d) ==
    \/ d.st = c.st
    \/ c.st \in {"awaiting"} \cup Partial /\ d.st \in Partial \cup {"quiet"}

\* The first write after an announced length.
LEMMA FirstSized ==
    ASSUME NEW r \in Response, NEW c \in Client, NEW call \in Call,
           Untouched(r, c), r.cl # Absent, ~r.te, call.op = "write", call.n <= r.cl,
           NEW d, d = Transmit(c, r, call)
    PROVE  d.left = r.cl - call.n /\ Counting(d)
<1> DEFINE h == SendHead(c, r)
<1>1. h \in Client /\ h.left = r.cl /\ Counting(h)
  BY HeadFrames DEF Untouched
<1>2. d = SendData(h, call.n)
  BY Sent DEF Untouched, Reached, FlushFirst
<1>3. call.n \in Nat
  BY DEF Call
<1> HIDE DEF h
<1> QED
  BY <1>1, <1>2, <1>3, DataFrames

\* The first chunk, and those that follow.
LEMMA ChunkReached ==
    ASSUME NEW r \in Response, NEW c \in Client, NEW call,
           call.op = "write_chunk", call.n > 0, NEW d, Reached(r, call, c, d)
    PROVE  /\ Untouched(r, c) => d.st = "chunks"
           /\ r.flushed /\ c.st = "chunks" => d = c
<1> DEFINE h == chunk_headers(r)
<1>0. d = GetChunk(FlushFirst(c, h))
  BY DEF Reached
<1>1. h \in Response /\ (h.flushed <=> r.flushed) /\ (~r.flushed /\ ~r.chunked => h.te)
  BY ChunkHeaders DEF chunk_headers, Response
<1> HIDE DEF h
<1>2. ASSUME Untouched(r, c)
      PROVE  d.st = "chunks"
  <2>1. FlushFirst(c, h) = SendHead(c, h)
    BY <1>1, <1>2 DEF Untouched, FlushFirst
  <2>2. SendHead(c, h) \in Client /\ SendHead(c, h).st = "chunks"
    BY <1>1, <1>2, HeadFrames DEF Untouched
  <2> QED
    BY <1>0, <2>1, <2>2, ChunkFrames
<1>3. ASSUME r.flushed, c.st = "chunks"
      PROVE  d = c
  <2>1. FlushFirst(c, h) = c
    BY <1>1, <1>3 DEF FlushFirst
  <2> QED
    BY <1>0, <1>3, <2>1, ChunkFrames
<1> QED
  BY <1>2, <1>3

LEMMA LambdaTrack ==
    ASSUME NEW r \in Response, NEW c \in Client, NEW calls \in Seq(Call), Calls(calls),
           r.mode = "Stream", AtLambda(calls, r, c),
           NEW q, q = Apply(r, Head(calls), TRUE),
           NEW d, d = Transmit(c, r, Head(calls))
    PROVE  q.mode = "Stream" /\ AtLambda(Tail(calls), q, d) /\ Growth(c, d)
<1> DEFINE call == Head(calls)
<1>0. /\ call \in Call /\ call.n \in Nat /\ calls # <<>> /\ call.op # "throw"
      /\ Tail(calls) \in Seq(Call)
      /\ r.cl \in Nat \cup {Absent} /\ c.left \in Nat
      /\ LockMode(r) = "Stream"
  BY NextCall DEF Calls, Call, Response, Client, LockMode
<1>a. Flushed(r, call, q) /\ Reached(r, call, c, d)
  BY <1>0, Sending, Sent
<1> HIDE DEF call
<1>1. CASE Untouched(r, c) /\ r.cl = Absent /\ Feeds(calls)
  <2>1. call.op = "write_chunk" /\ call.n > 0 /\ Ops(Tail(calls), {"write_chunk", "throw"})
    BY <1>0, <1>1, OpsTail DEF Feeds, call
  <2>2. q.flushed /\ q.chunked /\ q.mode = "Stream"
    BY <1>0, <1>1, <2>1, <1>a DEF Untouched, Flushed
  <2>5. d.st = "chunks"
    BY <1>1, <2>1, <1>a, ChunkReached
  <2> QED
    BY <1>1, <2>1, <2>2, <2>5 DEF AtLambda, Growth, Untouched, Partial
<1>2. CASE Untouched(r, c) /\ r.cl # Absent /\ ~r.te /\ Owes(calls, r.cl)
  <2>1. call.op = "write" /\ call.n <= r.cl /\ Owes(Tail(calls), r.cl - call.n)
    BY <1>0, <1>2, OwesTail DEF call
  <2>2. q.flushed /\ ~q.chunked /\ q.mode = "Stream"
    BY <1>0, <1>2, <2>1, <1>a DEF Untouched, Flushed
  <2>3. d.left = r.cl - call.n /\ Counting(d)
    BY <1>0, <1>2, <2>1, FirstSized DEF call
  <2> QED
    BY <1>2, <2>1, <2>2, <2>3 DEF AtLambda, Growth, Untouched, Partial, Counting
<1>3. CASE r.flushed /\ r.chunked /\ c.st = "chunks" /\ Ops(calls, {"write_chunk", "throw"})
  <2>1. call.op = "write_chunk" /\ Ops(Tail(calls), {"write_chunk", "throw"})
    BY <1>0, <1>3, OpsTail DEF call
  <2>2. q.flushed /\ q.chunked /\ q.mode = "Stream"
    <3>1. CASE call.n = 0
      <4>1. q = r
        BY <1>0, <2>1, <3>1, <1>a DEF Flushed
      <4> QED
        BY <1>3, <4>1
    <3>2. CASE call.n > 0
      BY <1>0, <1>3, <2>1, <3>2, <1>a DEF Flushed
    <3>3. call.n = 0 \/ call.n > 0
      BY <1>0
    <3> QED
      BY <3>1, <3>2, <3>3
  <2>3. d = c
    <3>1. CASE call.n = 0
      BY <1>0, <2>1, <3>1, <1>a DEF Reached, FlushFirst
    <3>2. CASE call.n > 0
      BY <1>3, <2>1, <3>2, <1>a, ChunkReached
    <3> QED
      BY <1>0, <3>1, <3>2
  <2> QED
    BY <1>3, <2>1, <2>2, <2>3 DEF AtLambda, Growth
<1>4. CASE r.flushed /\ ~r.chunked /\ Counting(c) /\ Owes(calls, c.left)
  <2>1. call.op = "write" /\ call.n <= c.left /\ Owes(Tail(calls), c.left - call.n)
    BY <1>0, <1>4, OwesTail DEF call
  <2>2. q.flushed /\ ~q.chunked /\ q.mode = "Stream"
    BY <1>0, <1>4, <2>1, <1>a DEF Flushed
  <2>3. d = SendData(c, call.n)
    <3>1. d = SendData(IF r.flushed THEN c ELSE SendHead(c, r), call.n)
      BY <1>0, <2>1, <1>a DEF Reached, FlushFirst
    <3> QED
      BY <1>4, <3>1
  <2>4. d.left = c.left - call.n /\ Counting(d)
    BY <1>0, <1>4, <2>1, <2>3, DataFrames
  <2>5. Growth(c, d)
    BY <1>0, <1>4, <2>1, <2>4 DEF Growth, Partial, Counting
  <2> QED
    BY <2>1, <2>2, <2>4, <2>5 DEF AtLambda
<1> QED
  BY <1>1, <1>2, <1>3, <1>4 DEF AtLambda

\* The program after the next call of its handler.
Called(p) == [p EXCEPT !.io = Tail(@)]

Program == [io : Seq(Call), job : Seq(Call)]

LEMMA CalledProgram ==
    ASSUME NEW p \in Program, Calls(p.io)
    PROVE  /\ p.io \in Seq(Call) /\ p.job \in Seq(Call) /\ p.io # <<>>
           /\ Head(p.io) \in Call /\ Head(p.io).n \in Nat /\ Head(p.io).op # "throw"
           /\ Called(p) \in Program
           /\ Called(p).io = Tail(p.io) /\ Called(p).job = p.job
<1>1. /\ p.io \in Seq(Call) /\ p.job \in Seq(Call) /\ p.io # <<>>
      /\ Head(p.io).op # "throw"
  BY DEF Program, Calls
<1>2. Head(p.io) \in Call /\ Tail(p.io) \in Seq(Call)
  BY <1>1, NextCall
<1>3. Head(p.io).n \in Nat
  BY <1>2 DEF Call
<1> QED
  BY <1>1, <1>2, <1>3 DEF Program, Called

\* The first call of a Buffered response.
LEMMA BufferedTrack ==
    ASSUME NEW r \in Response, NEW c \in Client, NEW p \in Program, Calls(p.io),
           r.mode = "Buffered", Untouched(r, c), r.cl = Absent,
           \/ ~r.te /\ (Plain(p) \/ Chunked(p) \/ Sized(p) \/ StreamSized(p))
           \/ StreamChunks(p),
           NEW q, q = Apply(r, Head(p.io), TRUE),
           NEW d, d = Transmit(c, r, Head(p.io))
    PROVE  AtHandler(Called(p), q, d) /\ Growth(c, d)
<1> DEFINE call == Head(p.io)
           p2   == Called(p)
<1>0. /\ call \in Call /\ call.n \in Nat /\ p.io \in Seq(Call) /\ p.job \in Seq(Call)
      /\ p.io # <<>> /\ call.op # "throw" /\ p2.io = Tail(p.io) /\ p2.job = p.job
      /\ LockMode(r) = "Immediate"
  BY CalledProgram DEF LockMode
<1>a. Prepared(r, call, q) /\ Flushed(r, call, q) /\ Reached(r, call, c, d)
  BY <1>0, Prepares, Sending, Sent
<1> HIDE DEF call, p2
\* Before anything is sent, fields may be set.
<1>1. ASSUME call.op \in {"set_body", "transfer_encoding", "content_length", "stream"}
      PROVE  d = c /\ Untouched(q, d) /\ Growth(c, d)
  <2>1. d = c
    BY <1>0, <1>1, <1>a DEF Reached, FlushFirst
  <2>2. (q.flushed <=> r.flushed) /\ (q.chunked <=> r.chunked)
    BY <1>0, <1>1, <1>a DEF Prepared
  <2> QED
    BY <2>1, <2>2 DEF Untouched, Growth
<1>2. CASE ~r.te /\ Plain(p)
  <2>1. call.op \in {"set_body", "write"} /\ Plain(p2)
    BY <1>0, <1>2, OpsTail DEF Plain, call
  <2>2. CASE call.op = "set_body"
    <3>1. q.mode = "Buffered" /\ q.cl = Absent /\ ~q.te
      BY <1>0, <1>a, <1>2, <2>2 DEF Prepared
    <3> QED
      BY <1>1, <2>1, <2>2, <3>1 DEF AtHandler, p2
  <2>3. CASE call.op = "write"
    <3>1. q.mode = "Immediate" /\ q.cl = Absent /\ ~q.te /\ q.flushed
      BY <1>0, <1>a, <1>2, <2>3 DEF Flushed
    <3>2. SendHead(c, r) \in Client /\ SendHead(c, r).st = "tillclose"
      BY <1>2, HeadFrames DEF Untouched
    <3>3. d = SendData(SendHead(c, r), call.n)
      BY <1>0, <1>a, <2>3 DEF Untouched, Reached, FlushFirst
    <3>4. d.st = "tillclose"
      BY <1>0, <3>2, <3>3, DataFrames
    <3> QED
      BY <2>1, <3>1, <3>4 DEF AtHandler, Growth, Untouched, Partial, p2
  <2> QED
    BY <2>1, <2>2, <2>3
<1>3. CASE ~r.te /\ Chunked(p)
  <2>1. \/ call.op = "end_chunks" /\ p2.io = <<>>
        \/ call.op \in {"set_body", "write_chunk"} /\ Chunked(p2)
    BY <1>0, <1>3, EndsTail DEF Chunked, call
  <2>2. CASE call.op = "end_chunks" /\ p2.io = <<>>
    <3>1. q = r /\ d = c
      BY <1>0, <1>a, <2>2 DEF Untouched, Flushed, Reached, FlushFirst
    <3>2. Plain(p2)
      BY <2>2 DEF Plain, Ops
    <3> QED
      BY <1>3, <3>1, <3>2 DEF AtHandler, Growth, p2
  <2>3. CASE call.op = "set_body" /\ Chunked(p2)
    <3>1. q.mode = "Buffered" /\ q.cl = Absent /\ ~q.te
      BY <1>0, <1>a, <1>3, <2>3 DEF Prepared
    <3> QED
      BY <1>1, <2>3, <3>1 DEF AtHandler, p2
  <2>4. CASE call.op = "write_chunk" /\ call.n = 0 /\ Chunked(p2)
    <3>1. q = r /\ d = c
      BY <1>0, <1>a, <2>4 DEF Flushed, Reached, FlushFirst
    <3> QED
      BY <1>3, <2>4, <3>1 DEF AtHandler, Growth, p2
  <2>5. CASE call.op = "write_chunk" /\ call.n > 0 /\ Chunked(p2)
    <3>1. q.mode = "Immediate" /\ q.te /\ q.flushed /\ q.chunked
      BY <1>0, <1>a, <2>5 DEF Untouched, Flushed
    <3>5. d.st = "chunks"
      BY <1>a, <2>5, ChunkReached
    <3> QED
      BY <2>5, <3>1, <3>5 DEF AtHandler, Growth, Untouched, Partial, p2
  <2>6. call.n = 0 \/ call.n > 0
    BY <1>0
  <2> QED
    BY <2>1, <2>2, <2>3, <2>4, <2>5, <2>6
<1>4. CASE ~r.te /\ Sized(p)
  <2>1. /\ call.op = "content_length" /\ p2.io # <<>>
        /\ Pays(p2.io, call.n, call.n)
    <3>1. call.op = "content_length" /\ Pays(Tail(p.io), call.n, call.n)
      BY <1>4 DEF Sized, call
    <3>2. Len(p.io) >= 2
      BY <1>4 DEF Sized
    <3>3. p2.io # <<>>
      BY <1>0, <3>2, LongTail
    <3> QED
      BY <1>0, <3>1, <3>3
  <2>2. q.mode = "Buffered" /\ q.cl = call.n /\ ~q.te
    BY <1>0, <1>a, <1>4, <2>1 DEF Prepared
  <2>3. q.cl # Absent /\ Owes(p2.io, q.cl)
    <3>1. call.n # Absent /\ Owes(p2.io, call.n)
      BY <1>0, <2>1 DEF Owes, Absent
    <3> QED
      BY <2>2, <3>1
  <2> QED
    BY <1>1, <2>1, <2>2, <2>3 DEF AtHandler, p2
<1>5. CASE ~r.te /\ StreamSized(p)
  <2>1. call.op = "content_length" /\ p2.job # <<>> /\ Pays(p2.job, call.n, call.n)
    BY <1>0, <1>5 DEF StreamSized, call
  <2>2. Len(p2.io) = 1 /\ p2.io[1].op = "stream"
    BY <1>0, <1>5, NextCall DEF StreamSized
  <2>3. Len(p2.io) = 1 /\ Head(p2.io).op = "stream"
    <3>1. p2.io \in Seq(Call) /\ p2.io # <<>>
      BY <1>0, <2>2, NextCall
    <3> QED
      BY <2>2, <3>1, NextCall
  <2>4. q.mode = "Buffered" /\ q.cl = call.n /\ ~q.te
    BY <1>0, <1>a, <1>5, <2>1 DEF Prepared
  <2>5. q.cl # Absent /\ Owes(p2.job, q.cl)
    <3>1. call.n # Absent /\ Owes(p2.job, call.n)
      BY <1>0, <2>1 DEF Owes, Absent
    <3> QED
      BY <2>4, <3>1
  <2> QED
    BY <1>1, <2>1, <2>3, <2>4, <2>5 DEF AtHandler, p2
<1>6. CASE StreamChunks(p)
  <2>1. /\ Feeds(p2.job)
        /\ \/ call.op = "stream" /\ p2.io = <<>>
           \/ call.op \in {"set_body", "transfer_encoding"} /\ StreamChunks(p2)
    BY <1>0, <1>6, EndsTail DEF StreamChunks, call
  <2>2. q.cl = Absent
    BY <1>0, <1>a, <2>1 DEF Prepared
  <2>3. CASE call.op = "stream" /\ p2.io = <<>>
    <3>1. q.mode = "Stream"
      BY <1>0, <1>a, <2>3 DEF Prepared
    <3>2. AtLambda(p2.job, q, d)
      BY <1>1, <2>1, <2>2, <2>3 DEF AtLambda
    <3> QED
      BY <1>1, <2>3, <3>1, <3>2 DEF AtHandler, p2
  <2>4. CASE call.op \in {"set_body", "transfer_encoding"} /\ StreamChunks(p2)
    <3>1. q.mode = "Buffered"
      BY <1>0, <1>a, <2>4 DEF Prepared
    <3> QED
      BY <1>1, <2>2, <2>4, <3>1 DEF AtHandler, p2
  <2> QED
    BY <2>1, <2>3, <2>4
<1> QED
  BY <1>2, <1>3, <1>4, <1>5, <1>6 DEF p2

\* An announced length of which nothing was sent yet.
LEMMA SizedTrack ==
    ASSUME NEW r \in Response, NEW c \in Client, NEW p \in Program, Calls(p.io),
           r.mode = "Buffered", Untouched(r, c), r.cl # Absent, ~r.te,
           \/ Owes(p.io, r.cl)
           \/ /\ Len(p.io) = 1 /\ Head(p.io).op = "stream"
              /\ p.job # <<>> /\ Owes(p.job, r.cl),
           NEW q, q = Apply(r, Head(p.io), TRUE),
           NEW d, d = Transmit(c, r, Head(p.io))
    PROVE  AtHandler(Called(p), q, d) /\ Growth(c, d)
<1> DEFINE call == Head(p.io)
           p2   == Called(p)
<1>0. /\ call \in Call /\ call.n \in Nat /\ p.io \in Seq(Call) /\ p.job \in Seq(Call)
      /\ p.io # <<>> /\ call.op # "throw" /\ p2.io = Tail(p.io) /\ p2.job = p.job
      /\ LockMode(r) = "Immediate" /\ r.cl \in Nat
  BY CalledProgram DEF LockMode, Response
<1>a. Prepared(r, call, q) /\ Flushed(r, call, q) /\ Reached(r, call, c, d)
  BY <1>0, Prepares, Sending, Sent
<1>b. d = Transmit(c, r, call)
  OBVIOUS
<1>1. CASE Owes(p.io, r.cl)
  <2>1. call.op = "write" /\ call.n <= r.cl /\ Owes(p2.io, r.cl - call.n)
    BY <1>0, <1>1, OwesTail
  <2> HIDE DEF call, p2
  <2>2. q.mode = "Immediate" /\ q.flushed /\ q.cl = r.cl /\ ~q.te
    BY <1>0, <1>a, <2>1 DEF Flushed
  <2>3. d.left = r.cl - call.n /\ Counting(d)
    BY <1>0, <1>b, <2>1, FirstSized
  <2>4. Growth(c, d)
    BY <2>3 DEF Growth, Untouched, Partial, Counting
  <2>5. Owes(p2.io, d.left)
    BY <2>1, <2>3
  <2> QED
    BY <2>2, <2>3, <2>4, <2>5 DEF AtHandler, p2
<1>2. CASE /\ Len(p.io) = 1 /\ call.op = "stream"
           /\ p.job # <<>> /\ Owes(p.job, r.cl)
  <2>1. p2.io = <<>>
    BY <1>0, <1>2, NextCall
  <2>2. p2.job # <<>> /\ Owes(p2.job, r.cl)
    BY <1>0, <1>2
  <2> HIDE DEF call, p2
  <2>3. /\ q.mode = "Stream" /\ q.cl = r.cl /\ ~q.te
        /\ (q.flushed <=> r.flushed) /\ (q.chunked <=> r.chunked)
    BY <1>a, <1>2 DEF Prepared
  <2>4. d = c
    BY <1>a, <1>2 DEF Reached
  <2>5. Untouched(q, d)
    BY <2>3, <2>4 DEF Untouched
  <2>6. AtLambda(p2.job, q, d)
    BY <2>2, <2>3, <2>5 DEF AtLambda
  <2> QED
    BY <2>1, <2>3, <2>4, <2>6 DEF AtHandler, Growth, p2
<1> QED
  BY <1>1, <1>2

\* The calls after the first write.
LEMMA ImmediateTrack ==
    ASSUME NEW r \in Response, NEW c \in Client, NEW p \in Program, Calls(p.io),
           r.mode = "Immediate", r.flushed,
           \/ r.cl = Absent /\ ~r.te /\ c.st = "tillclose" /\ Plain(p)
           \/ r.te /\ r.chunked /\ c.st = "chunks" /\ Chunked(p)
           \/ r.cl # Absent /\ ~r.te /\ Counting(c) /\ Owes(p.io, c.left),
           NEW q, q = Apply(r, Head(p.io), TRUE),
           NEW d, d = Transmit(c, r, Head(p.io))
    PROVE  AtHandler(Called(p), q, d) /\ Growth(c, d)
<1> DEFINE call == Head(p.io)
           p2   == Called(p)
<1>0. /\ call \in Call /\ call.n \in Nat /\ p.io \in Seq(Call)
      /\ p.io # <<>> /\ call.op # "throw" /\ p2.io = Tail(p.io)
      /\ LockMode(r) = "Immediate" /\ c.left \in Nat
  BY CalledProgram DEF LockMode, Client
<1>a. Prepared(r, call, q) /\ Flushed(r, call, q) /\ Reached(r, call, c, d)
  BY <1>0, Prepares, Sending, Sent
<1>b. FlushFirst(c, r) = c
  BY DEF FlushFirst
<1>1. CASE r.cl = Absent /\ ~r.te /\ c.st = "tillclose" /\ Plain(p)
  <2>1. call.op \in {"set_body", "write"} /\ Plain(p2)
    BY <1>0, <1>1, OpsTail DEF Plain
  <2> HIDE DEF call, p2
  <2>2. q.mode = "Immediate" /\ q.flushed /\ q.cl = Absent /\ ~q.te
    BY <1>0, <1>1, <1>a, <2>1 DEF Prepared, Flushed
  <2>3. d = c
    <3>1. CASE call.op = "set_body"
      BY <1>a, <3>1 DEF Reached
    <3>2. CASE call.op = "write"
      BY <1>0, <1>a, <1>b, <1>1, <3>2, DataFrames DEF Reached
    <3> QED
      BY <2>1, <3>1, <3>2
  <2> QED
    BY <1>1, <2>1, <2>2, <2>3 DEF AtHandler, Growth, p2
<1>2. CASE r.te /\ r.chunked /\ c.st = "chunks" /\ Chunked(p)
  <2>1. \/ call.op = "end_chunks" /\ p2.io = <<>>
        \/ call.op \in {"set_body", "write_chunk"} /\ Chunked(p2)
    BY <1>0, <1>2, EndsTail DEF Chunked
  <2> HIDE DEF call, p2
  <2>2. CASE call.op = "end_chunks" /\ p2.io = <<>>
    <3>1. q.mode = "Immediate" /\ q.flushed /\ q.te
      BY <1>a, <1>2, <2>2 DEF Flushed
    <3>2. d.st = "quiet"
      BY <1>a, <1>2, <2>2, ChunkFrames DEF Reached
    <3> QED
      BY <1>2, <2>2, <3>1, <3>2 DEF AtHandler, Growth, Partial, p2
  <2>3. CASE call.op \in {"set_body", "write_chunk"} /\ Chunked(p2)
    <3>1. /\ q.mode = "Immediate" /\ q.flushed /\ q.te /\ q.chunked
          /\ d = c
      <4>1. CASE call.op = "set_body"
        BY <1>a, <1>2, <4>1 DEF Prepared, Reached
      <4>2. CASE call.op = "write_chunk" /\ call.n = 0
        <5>1. q = r /\ d = c
          BY <1>a, <4>2 DEF Flushed, Reached
        <5> QED
          BY <1>2, <5>1
      <4>3. CASE call.op = "write_chunk" /\ call.n > 0
        <5>1. d = c
          BY <1>a, <1>2, <4>3, ChunkReached
        <5> QED
          BY <1>0, <1>a, <1>2, <4>3, <5>1 DEF Flushed
      <4>4. call.n = 0 \/ call.n > 0
        BY <1>0
      <4> QED
        BY <2>3, <4>1, <4>2, <4>3, <4>4
    <3> QED
      BY <1>2, <2>3, <3>1 DEF AtHandler, Growth, p2
  <2> QED
    BY <2>1, <2>2, <2>3
<1>3. CASE r.cl # Absent /\ ~r.te /\ Counting(c) /\ Owes(p.io, c.left)
  <2>1. call.op = "write" /\ call.n <= c.left /\ Owes(p2.io, c.left - call.n)
    BY <1>0, <1>3, OwesTail
  <2> HIDE DEF call, p2
  <2>2. q.mode = "Immediate" /\ q.flushed /\ q.cl # Absent /\ ~q.te
    BY <1>0, <1>3, <1>a, <2>1 DEF Flushed
  <2>3. d = SendData(c, call.n)
    BY <1>a, <1>b, <2>1 DEF Reached
  <2>4. d.left = c.left - call.n /\ Counting(d)
    BY <1>0, <1>3, <2>1, <2>3, DataFrames
  <2>5. Growth(c, d)
    BY <1>0, <1>3, <2>1, <2>4 DEF Growth, Partial, Counting
  <2>6. Owes(p2.io, d.left)
    BY <2>1, <2>4
  <2> QED
    BY <2>2, <2>4, <2>5, <2>6 DEF AtHandler, p2
<1> QED
  BY <1>1, <1>2, <1>3

\* The handler makes its next call, and stays on track.
LEMMA HandlerTrack ==
    ASSUME NEW r \in Response, NEW c \in Client, NEW p \in Program, Calls(p.io),
           AtHandler(p, r, c),
           NEW q, q = Apply(r, Head(p.io), TRUE),
           NEW d, d = Transmit(c, r, Head(p.io))
    PROVE  AtHandler(Called(p), q, d) /\ Growth(c, d)
<1>1. p.io # <<>>
  BY CalledProgram
<1>2. CASE r.mode = "Buffered" /\ r.cl = Absent
  <2>1. /\ Untouched(r, c)
        /\ \/ ~r.te /\ (Plain(p) \/ Chunked(p) \/ Sized(p) \/ StreamSized(p))
           \/ StreamChunks(p)
    BY <1>2 DEF AtHandler
  <2> QED
    BY <1>2, <2>1, BufferedTrack
<1>3. CASE r.mode = "Buffered" /\ r.cl # Absent
  <2>1. /\ Untouched(r, c) /\ ~r.te
        /\ \/ Owes(p.io, r.cl)
           \/ /\ Len(p.io) = 1 /\ Head(p.io).op = "stream"
              /\ p.job # <<>> /\ Owes(p.job, r.cl)
    BY <1>3 DEF AtHandler
  <2> QED
    BY <1>3, <2>1, SizedTrack
<1>4. CASE r.mode = "Immediate"
  <2>1. /\ r.flushed
        /\ \/ r.cl = Absent /\ ~r.te /\ c.st = "tillclose" /\ Plain(p)
           \/ r.te /\ r.chunked /\ c.st = "chunks" /\ Chunked(p)
           \/ r.cl # Absent /\ ~r.te /\ Counting(c) /\ Owes(p.io, c.left)
    BY <1>1, <1>4 DEF AtHandler
  <2> QED
    BY <1>4, <2>1, ImmediateTrack
<1>5. CASE r.mode = "Stream"
  BY <1>1, <1>5 DEF AtHandler
<1> QED
  BY <1>2, <1>3, <1>4, <1>5 DEF AtHandler

-----------------------------------------------------------------------------
(* The inductive invariant.                                                *)

\* A client c that is given what the driver at s has sent, and is going to
\* send, can frame it.  r is the response, kp is keep_alive_, p the program.
FramedAt(s, kp, r, p, c) ==
    /\ PhaseOf(s) \in {"accepting", "awaiting"} => c.st = "quiet"
    /\ s.k = "body" => c.st = "awaiting"
    /\ s.k = "write" /\ s.st \in {"wait", "more"} =>
          c.st = "awaiting" /\ ~r.te /\ r.cl = Absent
    /\ s = Run("handler") => AtHandler(p, r, c)
    /\ s.k = "job" \/ s = Run("lambda") => r.mode = "Stream" /\ AtLambda(p.job, r, c)
    /\ s.k = "finish" \/ s \in {Async("write", "ok"), Run("fin1"), Run("fin2"), Run("fin3")} =>
          (kp => c.st = "quiet")
    /\ PhaseOf(s) = "serving" /\ c.st # "awaiting" => c.heads = 1

Framed ==
    peer # "gone" =>
        \A t \in Tasks : Driving(t) => FramedAt(task[t], keep, resp, prog, client)

\* What the invariant says at the places of a driver.
LEMMA FramedTable ==
    ASSUME NEW kp, NEW r, NEW p, NEW c
    PROVE  /\ \A pc \in {"start", "parse"} :
                 FramedAt(Run(pc), kp, r, p, c) <=> c.st = "quiet"
           /\ \A k \in {"accept", "header"} : \A st :
                 FramedAt(Async(k, st), kp, r, p, c) <=> c.st = "quiet"
           /\ \A st : FramedAt(Async("body", st), kp, r, p, c) <=> c.st = "awaiting"
           /\ FramedAt(Async("write", "wait"), kp, r, p, c)
                 <=> c.st = "awaiting" /\ ~r.te /\ r.cl = Absent
           /\ FramedAt(Run("handler"), kp, r, p, c)
                 <=> AtHandler(p, r, c) /\ (c.st # "awaiting" => c.heads = 1)
           /\ \A s \in {Async("job", "wait"), Run("lambda")} :
                 FramedAt(s, kp, r, p, c)
                    <=> /\ r.mode = "Stream" /\ AtLambda(p.job, r, c)
                        /\ c.st # "awaiting" => c.heads = 1
           /\ \A s \in {Async("finish", "wait"), Async("write", "ok"),
                        Run("fin1"), Run("fin2"), Run("fin3")} :
                 FramedAt(s, kp, r, p, c)
                    <=> /\ kp => c.st = "quiet"
                        /\ c.st # "awaiting" => c.heads = 1
<1> USE DEF FramedAt, PhaseOf, Async, Run
<1>1. \A pc \in {"start", "parse"} : FramedAt(Run(pc), kp, r, p, c) <=> c.st = "quiet"
  OBVIOUS
<1>2. \A k \in {"accept", "header"} : \A st :
         FramedAt(Async(k, st), kp, r, p, c) <=> c.st = "quiet"
  OBVIOUS
<1>3. \A st : FramedAt(Async("body", st), kp, r, p, c) <=> c.st = "awaiting"
  OBVIOUS
<1>4. FramedAt(Async("write", "wait"), kp, r, p, c)
         <=> c.st = "awaiting" /\ ~r.te /\ r.cl = Absent
  OBVIOUS
<1>5. FramedAt(Run("handler"), kp, r, p, c)
         <=> AtHandler(p, r, c) /\ (c.st # "awaiting" => c.heads = 1)
  OBVIOUS
<1>6. \A s \in {Async("job", "wait"), Run("lambda")} :
         FramedAt(s, kp, r, p, c)
            <=> /\ r.mode = "Stream" /\ AtLambda(p.job, r, c)
                /\ c.st # "awaiting" => c.heads = 1
  OBVIOUS
<1>7. \A s \in {Async("finish", "wait"), Async("write", "ok"),
                Run("fin1"), Run("fin2"), Run("fin3")} :
         FramedAt(s, kp, r, p, c)
            <=> /\ kp => c.st = "quiet"
                /\ c.st # "awaiting" => c.heads = 1
  OBVIOUS
<1> QED
  BY <1>1, <1>2, <1>3, <1>4, <1>5, <1>6, <1>7

\* Once the header block is out the client awaits nothing, and conversely.
LEMMA AwaitsHead ==
    ASSUME NEW r \in Response, NEW c
    PROVE  /\ \A calls : AtLambda(calls, r, c) => (c.st = "awaiting" <=> ~r.flushed)
           /\ \A p : AtHandler(p, r, c) => (c.st = "awaiting" <=> ~r.flushed)
<1>1. r.flushed \in BOOLEAN
  BY DEF Response
<1>2. \A calls : AtLambda(calls, r, c) => (c.st = "awaiting" <=> ~r.flushed)
  BY <1>1 DEF AtLambda, Untouched, Counting
<1>3. \A p : AtHandler(p, r, c) => (c.st = "awaiting" <=> ~r.flushed)
  BY <1>1, <1>2 DEF AtHandler, Untouched, Counting
<1> QED
  BY <1>2, <1>3

\* What the invariant says of the one task that drives.
LEMMA DriverFramed ==
    ASSUME Framed, NEW t \in Tasks, Driving(t), peer # "gone"
    PROVE  FramedAt(task[t], keep, resp, prog, client)
BY DEF Framed

LEMMA OnlyFramed ==
    ASSUME NEW w \in Tasks, NEW s, Only(w, s),
           peer' # "gone" => FramedAt(s, keep', resp', prog', client')
    PROVE  Framed'
BY DEF Framed, Only

LEMMA NoneFramed ==
    ASSUME \A u \in Tasks : ~(Driving(u))'
    PROVE  Framed'
BY DEF Framed

\* The driver moves on in its own thread, or hands over to an operation.
LEMMA GotoFramed ==
    ASSUME TypeOK, Safe, NEW t \in Tasks, Driving(t), NEW pc, Goto(t, pc),
           peer' # "gone" => FramedAt(Run(pc), keep', resp', prog', client')
    PROVE  Framed'
BY GotoOnly, OnlyFramed DEF Safe

LEMMA LaunchFramed ==
    ASSUME TypeOK, Safe, NEW t \in Tasks, Driving(t), task[t].k # "accept",
           NEW k, Launch(t, k),
           peer' # "gone" => FramedAt(Async(k, "wait"), keep', resp', prog', client')
    PROVE  Framed'
<1>1. sock = "open"
  BY DEF Safe, OpenWhileDriven
<1>2. PICK w \in Tasks : Only(w, Async(k, "wait"))
  BY <1>1, LaunchOnly DEF Safe
<1> QED
  BY <1>2, OnlyFramed

\* Nobody moves and nothing is said; the client may go away.
LEMMA UnmovedFramed ==
    ASSUME Framed, UNCHANGED <<task, keep, resp, prog, client>>, peer = "gone" => peer' = "gone"
    PROVE  Framed'
BY DEF Framed, Driving

\* A step that changes no more than outcomes: no write goes back, and none is
\* done.
LEMMA OutcomeFramed ==
    ASSUME Framed, UNCHANGED <<keep, resp, prog, client, peer>>,
           \A u \in Tasks :
              \/ task'[u] = task[u]
              \/ /\ task[u].k \in SocketOps /\ task'[u].k = task[u].k
                 /\ task'[u].st \in {"wait", "more"} => task[u].st \in {"wait", "more"}
                 /\ task'[u] # Async("write", "ok")
    PROVE  Framed'
<1>1. ASSUME NEW u \in Tasks, (Driving(u))', peer # "gone"
      PROVE  FramedAt(task'[u], keep, resp, prog, client)
  <2>1. CASE task'[u] = task[u]
    BY <1>1, <2>1 DEF Framed, Driving
  <2>2. CASE /\ task[u].k \in SocketOps /\ task'[u].k = task[u].k
             /\ task'[u].st \in {"wait", "more"} => task[u].st \in {"wait", "more"}
             /\ task'[u] # Async("write", "ok")
    <3>1. Driving(u)
      BY <2>2 DEF Driving, SocketOps, Free, Run
    <3>2. FramedAt(task[u], keep, resp, prog, client)
      BY <1>1, <3>1, DriverFramed
    <3>3. PhaseOf(task'[u]) = PhaseOf(task[u])
      BY <2>2 DEF PhaseOf, SocketOps
    <3>4. /\ task'[u].k \in {"header", "body", "write"}
          /\ \A pc : task'[u] # Run(pc)
      BY <2>2 DEF SocketOps, Run
    <3> QED
      BY <2>2, <3>2, <3>3, <3>4 DEF FramedAt
  <2> QED
    BY <1>1, <2>1, <2>2
<1> QED
  BY <1>1 DEF Framed

\* serialize() adds the length it needs.
LEMMA SerializedFrames ==
    ASSUME NEW c \in Client, NEW r \in Response, c.st = "awaiting", ~r.te, r.cl = Absent
    PROVE  SendSerialized(c, r).st = "quiet"
<1> DEFINE framed == [r EXCEPT !.cl = r.body]
           head   == SendHead(c, framed)
<1>1. framed \in Response /\ ~framed.te /\ framed.cl = r.body /\ r.body \in Nat
  BY DEF Response
<1>2. SendSerialized(c, r) = SendData(head, r.body)
  BY DEF SendSerialized
<1> HIDE DEF framed
<1>3. head \in Client /\ head.left = r.body /\ Counting(head)
  BY <1>1, HeadFrames DEF Absent
<1> HIDE DEF head
<1>4. SendData(head, r.body).left = 0 /\ Counting(SendData(head, r.body))
  BY <1>1, <1>3, DataFrames
<1> QED
  BY <1>2, <1>4 DEF Counting

\* The library's own responses leave the length to serialize().
LEMMA ErrorFramed ==
    ASSUME NEW s \in Nat
    PROVE  ~ErrorResponse(s).te /\ ErrorResponse(s).cl = Absent
BY DEF ErrorResponse, set_body, NewResponse

\* A call that sends the header block is the one that counts.
LEMMA CalledHeads ==
    ASSUME NEW r \in Response, NEW call \in Call, NEW c \in Client,
           NEW d, d = Transmit(c, r, call),
           c.st = "awaiting" <=> ~r.flushed,
           ~r.flushed => c.heads = 0,
           c.st # "awaiting" => c.heads = 1,
           d.st # "awaiting"
    PROVE  d.heads = 1
<1>1. /\ r.flushed => d.heads = c.heads
      /\ d = c \/ d.heads = c.heads + (IF r.flushed THEN 0 ELSE 1)
  BY SentHeads
<1>2. CASE r.flushed
  BY <1>1, <1>2
<1>3. CASE ~r.flushed
  <2>1. d # c
    BY <1>3
  <2> QED
    BY <1>1, <1>3, <2>1
<1> QED
  BY <1>2, <1>3

-----------------------------------------------------------------------------
(* One lemma per group of actions.                                         *)

\* The handlers behave as http_response.h asks them to.
Documented == \A h \in Handlers : WellFramed(h)

\* A request reaches its handler, which has yet to send anything.
LEMMA DispatchFramed ==
    ASSUME TypeOK, Safe, Documented,
           NEW t \in Tasks, Driving(t), NEW request, dispatch(t, request),
           peer' # "gone" => client'.st = "awaiting"
    PROVE  Framed'
<1>1. prog' \in Handlers /\ Goto(t, "handler")
  BY DEF dispatch
<1>2. resp' = NewResponse(200, IF request.keep THEN "keep-alive" ELSE "close")
  BY DEF dispatch
<1>3. /\ resp'.mode = "Buffered" /\ resp'.cl = Absent
      /\ ~resp'.te /\ ~resp'.flushed /\ ~resp'.chunked
  BY <1>2 DEF NewResponse
<1>4. WellFramed(prog')
  BY <1>1 DEF Documented
<1>5. client'.st = "awaiting" => AtHandler(prog', resp', client')
  BY <1>3, <1>4 DEF AtHandler, Untouched, WellFramed
<1>6. peer' # "gone" => FramedAt(Run("handler"), keep', resp', prog', client')
  BY <1>5, FramedTable
<1> QED
  BY <1>1, <1>6, GotoFramed

LEMMA RejectFramed ==
    ASSUME TypeOK, Safe, NEW t \in Tasks, Driving(t), task[t].k # "accept",
           reject_payload_too_large(t),
           peer' # "gone" => client'.st = "awaiting"
    PROVE  Framed'
<1>1. resp' = ErrorResponse(413) /\ Launch(t, "write")
  BY DEF reject_payload_too_large, write_buffered
<1>2. ~resp'.te /\ resp'.cl = Absent
  BY <1>1, ErrorFramed
<1>3. peer' # "gone" => FramedAt(Async("write", "wait"), keep', resp', prog', client')
  BY <1>2, FramedTable
<1> QED
  BY <1>1, <1>3, LaunchFramed

LEMMA ReadingFramed ==
    ASSUME TypeOK, Safe, Documented, Framed, NEW t \in Tasks, Reading(t)
    PROVE  Framed'
<1> USE DEF life, flags, work, wire
<1>1. CASE start(t)
  <2>1. /\ task[t] = Run("start") /\ Launch(t, "header")
        /\ UNCHANGED <<keep, resp, prog, client, peer>>
    BY <1>1 DEF start
  <2>2. Driving(t) /\ task[t].k # "accept"
    BY <2>1 DEF Driving, Free, Run
  <2>3. peer # "gone" => FramedAt(Async("header", "wait"), keep, resp, prog, client)
    BY <2>1, <2>2, DriverFramed, FramedTable
  <2> QED
    BY <2>1, <2>2, <2>3, LaunchFramed
<1>2. CASE read_header(t)
  <2>1. /\ task[t] = Async("header", "ok") /\ Goto(t, "parse")
        /\ UNCHANGED <<keep, resp, prog, client, peer>>
    BY <1>2 DEF read_header
  <2>2. Driving(t)
    BY <2>1 DEF Driving, Free, Run, Async
  <2>3. peer # "gone" => FramedAt(Run("parse"), keep, resp, prog, client)
    BY <2>1, <2>2, DriverFramed, FramedTable
  <2> QED
    BY <2>1, <2>2, <2>3, GotoFramed
<1>3. CASE read_error(t) \/ malformed(t) \/ body_error(t)
  <2>1. Driving(t)
    BY <1>3 DEF read_error, malformed, body_error, Driving, Free, Run
  <2>2. Goto(t, "ret") \/ close(t)
    BY <1>3 DEF read_error, malformed, body_error
  <2> QED
    BY <2>1, <2>2, RetNone, CloseNone, NoneFramed DEF Safe
<1>4. CASE read_body(t)
  <2>1. task[t] = Run("parse") /\ peer' = peer
    BY <1>4 DEF read_body
  <2>2. Driving(t) /\ task[t].k # "accept"
    BY <2>1 DEF Driving, Free, Run
  <2>3. client' = IF peer = "gone" THEN client ELSE Expect(client)
    BY <1>4 DEF read_body
  <2>4. client.st = "quiet" => Expect(client).st = "awaiting"
    BY DEF TypeOK, Client, Expect
  <2>5. peer # "gone" => client.st = "quiet"
    BY <2>1, <2>2, DriverFramed, FramedTable
  <2>6. peer' # "gone" => client'.st = "awaiting"
    BY <2>1, <2>3, <2>4, <2>5
  <2>7. PICK request \in Requests :
          \/ dispatch(t, request)
          \/ Launch(t, "body") /\ UNCHANGED <<keep, resp, prog>>
          \/ reject_payload_too_large(t)
    BY <1>4 DEF read_body
  <2>8. CASE dispatch(t, request)
    BY <2>2, <2>6, <2>8, DispatchFramed
  <2>9. CASE Launch(t, "body") /\ UNCHANGED <<keep, resp, prog>>
    <3>1. peer' # "gone" => FramedAt(Async("body", "wait"), keep', resp', prog', client')
      BY <2>6, FramedTable
    <3> QED
      BY <2>2, <2>9, <3>1, LaunchFramed
  <2>10. CASE reject_payload_too_large(t)
    BY <2>2, <2>6, <2>10, RejectFramed
  <2> QED
    BY <2>7, <2>8, <2>9, <2>10
<1>5. CASE body_complete(t) \/ read_chunk(t) \/ chunk_too_large(t)
  <2>1. task[t] = Async("body", "ok") /\ UNCHANGED <<client, peer>>
    BY <1>5 DEF body_complete, read_chunk, chunk_too_large
  <2>2. Driving(t) /\ task[t].k # "accept"
    BY <2>1 DEF Driving, Free, Run, Async
  <2>3. peer' # "gone" => client'.st = "awaiting"
    BY <2>1, <2>2, DriverFramed, FramedTable
  <2>4. \/ dispatch(t, req)
        \/ Launch(t, "body")
        \/ reject_payload_too_large(t)
    BY <1>5 DEF body_complete, read_chunk, chunk_too_large
  <2>5. CASE dispatch(t, req)
    BY <2>2, <2>3, <2>5, DispatchFramed
  <2>6. CASE Launch(t, "body")
    <3>1. peer' # "gone" => FramedAt(Async("body", "wait"), keep', resp', prog', client')
      BY <2>3, FramedTable
    <3> QED
      BY <2>2, <2>6, <3>1, LaunchFramed
  <2>7. CASE reject_payload_too_large(t)
    BY <2>2, <2>3, <2>7, RejectFramed
  <2> QED
    BY <2>4, <2>5, <2>6, <2>7
<1> QED
  BY <1>1, <1>2, <1>3, <1>4, <1>5 DEF Reading

\* A call whose write went through, by the task that drives: what is left of
\* its program still completes the response.
LEMMA HandlerCallFramed ==
    ASSUME TypeOK, Safe, Told, Framed, NEW t \in Tasks, handler_call(t), peer # "gone"
    PROVE  /\ AtHandler(prog', resp', client')
           /\ client'.st # "awaiting" => client'.heads = 1
           /\ Growth(client, client')
           /\ resp.flushed => client'.heads = client.heads /\ client'.close = client.close
           /\ client.st = "awaiting" <=> ~resp.flushed
<1> DEFINE call == Head(prog.io)
<1>1. /\ resp \in Response /\ client \in Client /\ prog \in Program
      /\ Calls(prog.io) /\ call \in Call
  BY DEF TypeOK, Program, handler_call, Calls
<1>2. task[t] = Run("handler") /\ Driving(t)
  BY DEF handler_call, Driving, Free, Run
<1>3. /\ AtHandler(prog, resp, client)
      /\ client.st # "awaiting" => client.heads = 1
  BY <1>2, DriverFramed, FramedTable
<1>4. ~resp.flushed => client.heads = 0
  BY <1>2, DriverTold, OwedTable DEF Agrees
<1>5. PICK ok \in SocketOutcome(call) :
        MakeCall(call, ok) /\ \E rest \in Rest(prog.io, ok) : prog' = [prog EXCEPT !.io = rest]
  BY DEF handler_call
<1>6. ok = TRUE
  BY DEF SocketOutcome
<1>7. prog' = Called(prog)
  BY <1>5, <1>6 DEF Rest, Called
<1>8. resp' = Apply(resp, call, TRUE) /\ client' = Transmit(client, resp, call)
  BY <1>5, <1>6 DEF MakeCall
<1>9. client.st = "awaiting" <=> ~resp.flushed
  BY <1>1, <1>3, AwaitsHead
<1>10. AtHandler(prog', resp', client') /\ Growth(client, client')
  BY <1>1, <1>3, <1>7, <1>8, HandlerTrack
<1>11. client'.st # "awaiting" => client'.heads = 1
  BY <1>1, <1>3, <1>4, <1>8, <1>9, CalledHeads
<1>12. resp.flushed => client'.heads = client.heads /\ client'.close = client.close
  BY <1>1, <1>8, SentHeads
<1> QED
  BY <1>9, <1>10, <1>11, <1>12

LEMMA LambdaCallFramed ==
    ASSUME TypeOK, Safe, Told, Framed, NEW t \in Tasks, lambda_call(t), peer # "gone"
    PROVE  /\ resp'.mode = "Stream" /\ AtLambda(prog'.job, resp', client')
           /\ client'.st # "awaiting" => client'.heads = 1
           /\ Growth(client, client')
           /\ resp.flushed => client'.heads = client.heads /\ client'.close = client.close
           /\ client.st = "awaiting" <=> ~resp.flushed
<1> DEFINE call == Head(prog.job)
<1>1. /\ resp \in Response /\ client \in Client /\ prog \in Program
      /\ Calls(prog.job) /\ call \in Call /\ prog.job \in Seq(Call)
  BY DEF TypeOK, Program, lambda_call, Calls
<1>2. task[t] = Run("lambda") /\ Driving(t)
  BY DEF lambda_call, Driving, Free, Run
<1>3. /\ resp.mode = "Stream" /\ AtLambda(prog.job, resp, client)
      /\ client.st # "awaiting" => client.heads = 1
  BY <1>2, DriverFramed, FramedTable
<1>4. ~resp.flushed => client.heads = 0
  BY <1>2, DriverTold, OwedTable DEF Agrees
<1>5. PICK ok \in SocketOutcome(call) :
        MakeCall(call, ok) /\ \E rest \in Rest(prog.job, ok) : prog' = [prog EXCEPT !.job = rest]
  BY DEF lambda_call
<1>6. ok = TRUE
  BY DEF SocketOutcome
<1>7. prog'.job = Tail(prog.job)
  BY <1>1, <1>5, <1>6 DEF Rest, Program
<1>8. resp' = Apply(resp, call, TRUE) /\ client' = Transmit(client, resp, call)
  BY <1>5, <1>6 DEF MakeCall
<1>9. client.st = "awaiting" <=> ~resp.flushed
  BY <1>1, <1>3, AwaitsHead
<1>10. /\ resp'.mode = "Stream" /\ AtLambda(prog'.job, resp', client')
       /\ Growth(client, client')
  BY <1>1, <1>3, <1>7, <1>8, LambdaTrack
<1>11. client'.st # "awaiting" => client'.heads = 1
  BY <1>1, <1>3, <1>4, <1>8, <1>9, CalledHeads
<1>12. resp.flushed => client'.heads = client.heads /\ client'.close = client.close
  BY <1>1, <1>8, SentHeads
<1> QED
  BY <1>9, <1>10, <1>11, <1>12

\* The lambda wrote all it announced, or its chunks are terminated for it.
LEMMA LambdaReturnsFramed ==
    ASSUME TypeOK, Safe, Framed, NEW t \in Tasks, lambda_returns(t), peer # "gone"
    PROVE  /\ client'.st = "quiet" /\ client'.heads = 1
           /\ client'.heads = client.heads /\ client'.close = client.close
           /\ client.st \in {"quiet", "chunks"}
<1> DEFINE call == [op |-> "end_chunks", n |-> 0]
<1>1. /\ resp \in Response /\ client \in Client
      /\ call \in Call /\ call.op = "end_chunks" /\ prog.job = <<>>
  BY DEF TypeOK, lambda_returns, Call, Op
<1>2. task[t] = Run("lambda") /\ Driving(t)
  BY DEF lambda_returns, Driving, Free, Run
<1>3. /\ AtLambda(<<>>, resp, client)
      /\ client.st # "awaiting" => client.heads = 1
  BY <1>1, <1>2, DriverFramed, FramedTable
<1>4. PICK ok \in SocketOutcome(call) : MakeCall(call, ok)
  BY DEF lambda_returns
<1> HIDE DEF call
<1>5. client' = Transmit(client, resp, call)
  BY <1>4 DEF MakeCall, SocketOutcome
<1>6. Reached(resp, call, client, client')
  BY <1>1, <1>5, Sent
<1>7. \/ resp.flushed /\ resp.chunked /\ client.st = "chunks"
      \/ resp.flushed /\ ~resp.chunked /\ client.st = "quiet"
  <2>1. ~Feeds(<<>>)
    BY DEF Feeds
  <2>2. Owes(<<>>, client.left) => client.left = 0
    BY OwesNothing
  <2> QED
    BY <1>3, <2>1, <2>2 DEF AtLambda, Counting
<1>8. client'.st = "quiet"
  BY <1>1, <1>6, <1>7, ChunkFrames DEF Reached
<1>9. client'.heads = client.heads /\ client'.close = client.close
  BY <1>1, <1>5, <1>7, SentHeads
<1> QED
  BY <1>3, <1>7, <1>8, <1>9

\* An exception: the 500 that replaces it is framed by its length.
LEMMA LambdaThrowsFramed ==
    ASSUME TypeOK, Safe, Told, Framed, NEW t \in Tasks, lambda_throws(t), peer # "gone"
    PROVE  /\ client'.heads = 1
           /\ resp.flushed => client' = client
           /\ ~resp.flushed => client.st = "awaiting" /\ client.heads = 0 /\ client'.st = "quiet"
<1>1. resp \in Response /\ client \in Client
  BY DEF TypeOK
<1>2. task[t] = Run("lambda") /\ Driving(t)
  BY DEF lambda_throws, Driving, Free, Run
<1>3. /\ AtLambda(prog.job, resp, client)
      /\ client.st # "awaiting" => client.heads = 1
  BY <1>2, DriverFramed, FramedTable
<1>4. ~resp.flushed => client.heads = 0
  BY <1>2, DriverTold, OwedTable DEF Agrees
<1>5. client.st = "awaiting" <=> ~resp.flushed
  BY <1>1, <1>3, AwaitsHead
<1>6. client' = IF resp.flushed THEN client
                ELSE SendSerialized(client, ErrorResponse(500))
  BY DEF lambda_throws
<1>7. CASE resp.flushed
  BY <1>3, <1>5, <1>6, <1>7
<1>8. CASE ~resp.flushed
  <2>1. ErrorResponse(500) \in Response
    BY ErrorTold
  <2>2. SendSerialized(client, ErrorResponse(500)).st = "quiet"
    BY <1>1, <1>5, <1>8, <2>1, ErrorFramed, SerializedFrames
  <2>3. SendSerialized(client, ErrorResponse(500)).heads = client.heads + 1
    BY <1>1, <2>1, SerializedTold
  <2> QED
    BY <1>4, <1>5, <1>6, <1>8, <2>2, <2>3
<1> QED
  BY <1>7, <1>8

\* What a handler on track leaves behind when it returns.
LEMMA HandlerReturns ==
    ASSUME NEW r \in Response, NEW c \in Client, NEW p, p.io = <<>>, AtHandler(p, r, c)
    PROVE  /\ r.mode = "Buffered" => c.st = "awaiting" /\ ~r.te /\ r.cl = Absent
           /\ r.mode = "Immediate" => c.st = "quiet" \/ (~r.te /\ r.cl = Absent)
           /\ r.mode = "Stream" => AtLambda(p.job, r, c)
<1>1. ~Chunked(p) /\ ~StreamChunks(p)
  BY DEF Chunked, StreamChunks, Ends
<1>2. ~Sized(p) /\ ~StreamSized(p) /\ Len(p.io) # 1
  BY DEF Sized, StreamSized
<1>3. CASE r.mode = "Buffered"
  BY <1>1, <1>2, <1>3 DEF AtHandler, Untouched
<1>4. CASE r.mode = "Immediate"
  <2>1. Owes(p.io, c.left) => c.left = 0
    BY OwesNothing
  <2> QED
    BY <1>1, <1>4, <2>1 DEF AtHandler, Counting
<1>5. CASE r.mode = "Stream"
  BY <1>5 DEF AtHandler
<1> QED
  BY <1>3, <1>4, <1>5

LEMMA HandlingFramed ==
    ASSUME TypeOK, Safe, Told, Framed, NEW t \in Tasks, Handling(t)
    PROVE  Framed'
<1> USE DEF life, flags, work, wire
<1>1. task[t] = Run("handler")
  BY DEF Handling, handler_call, handler_throws, finish_buffered, finish_immediate,
     post_stream_work, HandlerReturned
<1>2. Driving(t) /\ task[t].k # "accept"
  BY <1>1 DEF Driving, Free, Run
<1>3. peer # "gone" => /\ AtHandler(prog, resp, client)
                       /\ client.st # "awaiting" => client.heads = 1
  BY <1>1, <1>2, DriverFramed, FramedTable
<1>4. resp \in Response /\ client \in Client
  BY DEF TypeOK
<1>5. CASE handler_call(t)
  <2>1. UNCHANGED <<task, peer>>
    BY <1>5 DEF handler_call
  <2>2. peer' # "gone" => FramedAt(Run("handler"), keep', resp', prog', client')
    BY <1>5, <2>1, HandlerCallFramed, FramedTable
  <2>3. Only(t, Run("handler"))
    BY <1>1, <1>2, <2>1 DEF Only, Safe, SoleDriver, Driving
  <2> QED
    BY <2>2, <2>3, OnlyFramed
<1>6. CASE handler_throws(t)
  <2>1. keep' = FALSE /\ UNCHANGED <<client, peer>>
    BY <1>6 DEF handler_throws
  <2>2. CASE resp.flushed
    <3>1. Goto(t, "fin1")
      BY <1>6, <2>2 DEF handler_throws
    <3>2. peer' # "gone" => FramedAt(Run("fin1"), keep', resp', prog', client')
      BY <1>3, <2>1, FramedTable
    <3> QED
      BY <1>2, <3>1, <3>2, GotoFramed
  <2>3. CASE ~resp.flushed
    <3>1. Launch(t, "write") /\ resp' = ErrorResponse(500)
      BY <1>6, <2>3 DEF handler_throws, write_buffered
    <3>2. ~resp'.te /\ resp'.cl = Absent
      BY <3>1, ErrorFramed
    <3>3. peer # "gone" => client.st = "awaiting"
      BY <1>3, <1>4, <2>3, AwaitsHead
    <3>4. peer' # "gone" => FramedAt(Async("write", "wait"), keep', resp', prog', client')
      BY <2>1, <3>2, <3>3, FramedTable
    <3> QED
      BY <1>2, <3>1, <3>4, LaunchFramed
  <2> QED
    BY <2>2, <2>3
<1>7. CASE finish_buffered(t)
  <2>1. /\ Launch(t, "write") /\ UNCHANGED <<keep, resp, prog, client, peer>>
        /\ resp.mode = "Buffered" /\ prog.io = <<>>
    BY <1>7 DEF finish_buffered, write_buffered, HandlerReturned
  <2>2. peer # "gone" => client.st = "awaiting" /\ ~resp.te /\ resp.cl = Absent
    BY <1>3, <1>4, <2>1, HandlerReturns
  <2>3. peer # "gone" => FramedAt(Async("write", "wait"), keep, resp, prog, client)
    BY <2>2, FramedTable
  <2> QED
    BY <1>2, <2>1, <2>3, LaunchFramed
<1>8. CASE finish_immediate(t)
  <2>1. /\ Goto(t, "fin1") /\ UNCHANGED <<resp, prog, client, peer>>
        /\ keep' => resp.cl # Absent \/ resp.te
        /\ resp.mode = "Immediate" /\ prog.io = <<>>
    BY <1>8 DEF finish_immediate, HandlerReturned
  <2>2. peer # "gone" => client.st = "quiet" \/ (~resp.te /\ resp.cl = Absent)
    BY <1>3, <1>4, <2>1, HandlerReturns
  <2>3. peer' # "gone" => FramedAt(Run("fin1"), keep', resp', prog', client')
    BY <1>3, <2>1, <2>2, FramedTable
  <2> QED
    BY <1>2, <2>1, <2>3, GotoFramed
<1>9. CASE post_stream_work(t)
  <2>1. /\ Launch(t, "job") /\ UNCHANGED <<keep, resp, prog, client, peer>>
        /\ resp.mode = "Stream" /\ prog.io = <<>>
    BY <1>9 DEF post_stream_work, HandlerReturned
  <2>2. peer # "gone" => AtLambda(prog.job, resp, client)
    BY <1>3, <1>4, <2>1, HandlerReturns
  <2>3. peer # "gone" => FramedAt(Async("job", "wait"), keep, resp, prog, client)
    BY <1>3, <2>1, <2>2, FramedTable
  <2> QED
    BY <1>2, <2>1, <2>3, LaunchFramed
<1> QED
  BY <1>5, <1>6, <1>7, <1>8, <1>9 DEF Handling

LEMMA PooledFramed ==
    ASSUME TypeOK, Safe, Told, Framed, NEW t \in Tasks, Pooled(t)
    PROVE  Framed'
<1> USE DEF life, flags, work, wire
<1>1. task[t] \in {Async("job", "wait"), Run("lambda")}
  BY DEF Pooled, run_lambda, lambda_call, lambda_returns, lambda_throws
<1>2. Driving(t) /\ task[t].k # "accept"
  BY <1>1 DEF Driving, Free, Run, Async
<1>3. CASE run_lambda(t)
  <2>1. Goto(t, "lambda") /\ UNCHANGED <<keep, resp, prog, client, peer>>
    BY <1>3 DEF run_lambda
  <2>2. peer # "gone" => FramedAt(Run("lambda"), keep, resp, prog, client)
    BY <1>1, <1>2, DriverFramed, FramedTable
  <2> QED
    BY <1>2, <2>1, <2>2, GotoFramed
<1>4. CASE lambda_call(t)
  <2>1. UNCHANGED <<task, peer>> /\ task[t] = Run("lambda")
    BY <1>4 DEF lambda_call
  <2>2. peer' # "gone" => FramedAt(Run("lambda"), keep', resp', prog', client')
    BY <1>4, <2>1, LambdaCallFramed, FramedTable
  <2>3. Only(t, Run("lambda"))
    BY <1>2, <2>1 DEF Only, Safe, SoleDriver, Driving
  <2> QED
    BY <2>2, <2>3, OnlyFramed
<1>5. CASE lambda_returns(t)
  <2>1. Launch(t, "finish") /\ peer' = peer
    BY <1>5 DEF lambda_returns
  <2>2. peer' # "gone" => FramedAt(Async("finish", "wait"), keep', resp', prog', client')
    BY <1>5, <2>1, LambdaReturnsFramed, FramedTable
  <2> QED
    BY <1>2, <2>1, <2>2, LaunchFramed
<1>6. CASE lambda_throws(t)
  <2>1. keep' = FALSE /\ Launch(t, "finish") /\ peer' = peer
    BY <1>6 DEF lambda_throws
  <2>2. peer' # "gone" => FramedAt(Async("finish", "wait"), keep', resp', prog', client')
    BY <1>6, <2>1, LambdaThrowsFramed, FramedTable
  <2> QED
    BY <1>2, <2>1, <2>2, LaunchFramed
<1> QED
  BY <1>3, <1>4, <1>5, <1>6 DEF Pooled

LEMMA FinishingFramed ==
    ASSUME TypeOK, Safe, Framed, NEW t \in Tasks, Finishing(t)
    PROVE  Framed'
<1> USE DEF life, flags, work, wire
<1>1. CASE run_finish(t) \/ finish_clear(t) \/ finish_touch(t)
  <2>1. task[t] \in {Async("finish", "wait"), Run("fin1"), Run("fin2")}
    BY <1>1 DEF run_finish, finish_clear, finish_touch
  <2>2. PICK pc \in {"fin1", "fin2", "fin3"} : Goto(t, pc)
    BY <1>1 DEF run_finish, finish_clear, finish_touch
  <2>3. UNCHANGED <<keep, resp, prog, client, peer>>
    BY <1>1 DEF run_finish, finish_clear, finish_touch
  <2>4. Driving(t)
    BY <2>1 DEF Driving, Free, Run, Async
  <2>5. peer # "gone" => FramedAt(Run(pc), keep, resp, prog, client)
    BY <2>1, <2>4, DriverFramed, FramedTable
  <2> QED
    BY <2>2, <2>3, <2>4, <2>5, GotoFramed
<1>2. CASE finish_next(t)
  <2>1. task[t] = Run("fin3") /\ UNCHANGED <<keep, resp, prog, client, peer>>
    BY <1>2 DEF finish_next
  <2>2. Driving(t) /\ task[t].k # "accept"
    BY <2>1 DEF Driving, Free, Run
  <2>3. CASE keep
    <3>1. Launch(t, "header")
      BY <1>2, <2>3 DEF finish_next
    <3>2. peer # "gone" => FramedAt(Async("header", "wait"), keep, resp, prog, client)
      BY <2>1, <2>2, <2>3, DriverFramed, FramedTable
    <3> QED
      BY <2>1, <2>2, <3>1, <3>2, LaunchFramed
  <2>4. CASE ~keep
    BY <1>2, <2>1, <2>2, <2>4, RetNone, NoneFramed DEF finish_next, Safe
  <2> QED
    BY <2>3, <2>4
<1>3. CASE write_done(t) /\ task[t].st = "ok"
  <2>1. /\ task[t] = Async("write", "ok") /\ Goto(t, "fin2")
        /\ UNCHANGED <<keep, resp, prog, client, peer>>
    BY <1>3 DEF write_done, TypeOK, TaskState, Async
  <2>2. Driving(t)
    BY <2>1 DEF Driving, Free, Run, Async
  <2>3. peer # "gone" => FramedAt(Run("fin2"), keep, resp, prog, client)
    BY <2>1, <2>2, DriverFramed, FramedTable
  <2> QED
    BY <2>1, <2>2, <2>3, GotoFramed
<1>4. CASE write_done(t) /\ task[t].st # "ok"
  <2>1. task[t].k = "write" /\ Goto(t, "ret")
    BY <1>4 DEF write_done
  <2>2. Driving(t)
    BY <2>1 DEF Driving, Free, Run
  <2> QED
    BY <2>1, <2>2, RetNone, NoneFramed DEF Safe
<1>5. CASE return(t)
  <2>1. ASSUME NEW u \in Tasks, (Driving(u))'
        PROVE  Driving(u) /\ task'[u] = task[u]
    BY <1>5, <2>1 DEF return, TypeOK, Driving
  <2>2. UNCHANGED <<keep, resp, prog, client, peer>>
    BY <1>5 DEF return
  <2> QED
    BY <2>1, <2>2 DEF Framed
<1> QED
  BY <1>1, <1>2, <1>3, <1>4, <1>5 DEF Finishing

LEMMA OutsideFramed ==
    ASSUME TypeOK, Safe, Told, Framed, NEW t \in Tasks,
           Resume(t) \/ Accept(t) \/ AcceptFails(t) \/ Receive(t) \/ Drain(t)
    PROVE  Framed'
<1> USE DEF life, flags, work, wire
<1>1. CASE Accept(t)
  <2>1. /\ task[t] = Async("accept", "wait") /\ Goto(t, "start")
        /\ UNCHANGED <<keep, resp, prog, client, peer>>
    BY <1>1 DEF Accept
  <2>2. Driving(t)
    BY <2>1 DEF Driving, Free, Run, Async
  <2>3. peer # "gone" => FramedAt(Run("start"), keep, resp, prog, client)
    BY <2>1, <2>2, DriverFramed, FramedTable
  <2> QED
    BY <2>1, <2>2, <2>3, GotoFramed
<1>2. CASE AcceptFails(t)
  <2>1. task[t] = Async("accept", "wait") /\ Goto(t, "ret")
    BY <1>2 DEF AcceptFails
  <2>2. Driving(t)
    BY <2>1 DEF Driving, Free, Run, Async
  <2> QED
    BY <2>1, <2>2, RetNone, NoneFramed DEF Safe
<1>3. CASE Drain(t) /\ task' = [task EXCEPT ![t].st = "ok"]
  <2>1. /\ task[t] = Async("write", "wait") /\ UNCHANGED <<keep, resp, prog, peer>>
        /\ client' = IF peer = "gone" THEN client ELSE SendSerialized(client, resp)
    BY <1>3 DEF Drain, TypeOK, Async
  <2>2. Driving(t)
    BY <2>1 DEF Driving, Free, Run, Async
  <2>3. resp \in Response /\ client \in Client
    BY DEF TypeOK
  <2>4. peer # "gone" => client.st = "awaiting" /\ ~resp.te /\ resp.cl = Absent
    BY <2>1, <2>2, DriverFramed, FramedTable
  <2>5. peer # "gone" => client.heads = 0
    BY <2>1, <2>2, DriverTold DEF Agrees, HeadOwed, Async
  <2>6. peer' # "gone" => client'.st = "quiet" /\ client'.heads = 1
    BY <2>1, <2>3, <2>4, <2>5, SerializedFrames, SerializedTold
  <2>7. peer' # "gone" => FramedAt(Async("write", "ok"), keep', resp', prog', client')
    BY <2>6, FramedTable
  <2>8. Only(t, Async("write", "ok"))
    <3>1. task'[t] = Async("write", "ok")
      BY <1>3, <2>1 DEF TypeOK, Async
    <3>2. \A u \in Tasks : u # t => task'[u] = task[u]
      BY <1>3 DEF TypeOK
    <3> QED
      BY <2>2, <3>1, <3>2 DEF Only, Safe, SoleDriver, Driving
  <2> QED
    BY <2>7, <2>8, OnlyFramed
<1>4. CASE \/ Resume(t) \/ Receive(t)
           \/ Drain(t) /\ task' # [task EXCEPT ![t].st = "ok"]
  <2>1. /\ task[t].k \in SocketOps /\ task[t].st \in {"wait", "more"}
        /\ UNCHANGED <<keep, resp, prog, client, peer>>
    BY <1>4 DEF Resume, Receive, Drain, SocketOps, Async
  <2>2. PICK st : /\ task' = [task EXCEPT ![t].st = st]
                  /\ task[t].k = "write" => st # "ok"
    BY <1>4 DEF Resume, Receive, Drain
  <2>3. task[t] \in [k : Pending, st : Outcome]
    BY <2>1 DEF TypeOK, TaskState, SocketOps
  <2>4. ASSUME NEW u \in Tasks
        PROVE  \/ task'[u] = task[u]
               \/ /\ task[u].k \in SocketOps /\ task'[u].k = task[u].k
                  /\ task'[u].st \in {"wait", "more"} => task[u].st \in {"wait", "more"}
                  /\ task'[u] # Async("write", "ok")
    BY <2>1, <2>2, <2>3 DEF TypeOK, Async
  <2> QED
    BY <2>1, <2>4, OutcomeFramed
<1> QED
  BY <1>1, <1>2, <1>3, <1>4

LEMMA EnvironmentFramed ==
    ASSUME Framed,
           HalfClose \/ Reset \/ Tick \/ Pin \/ cancel \/ Unpin \/ Erase \/ UNCHANGED vars
    PROVE  Framed'
<1> USE DEF life, flags, work, wire
<1>1. CASE HalfClose \/ Reset \/ Tick \/ Pin \/ Unpin \/ Erase \/ UNCHANGED vars
  BY <1>1, UnmovedFramed DEF HalfClose, Reset, Tick, Pin, Unpin, Erase, vars
<1>2. CASE cancel
  <2>1. ASSUME NEW u \in Tasks
        PROVE  \/ task'[u] = task[u]
               \/ /\ task[u].k \in SocketOps /\ task'[u].k = task[u].k
                  /\ task'[u].st \in {"wait", "more"} => task[u].st \in {"wait", "more"}
                  /\ task'[u] # Async("write", "ok")
    BY <1>2 DEF cancel, Aborted, Async
  <2> QED
    BY <1>2, <2>1, OutcomeFramed DEF cancel
<1> QED
  BY <1>1, <1>2

LEMMA InitFramed == Init => Framed
<1> SUFFICES ASSUME Init PROVE Framed
  OBVIOUS
<1>1. client.st = "quiet"
  BY DEF Init, InitClient
<1>2. PICK t \in Tasks :
        task = [u \in Tasks |-> IF u = t THEN Async("accept", "wait") ELSE Free]
  BY DEF Init
<1>3. ASSUME NEW u \in Tasks, Driving(u)
      PROVE  FramedAt(task[u], keep, resp, prog, client)
  <2>1. task[u] = Async("accept", "wait")
    BY <1>2, <1>3 DEF Driving
  <2> QED
    BY <1>1, <2>1, FramedTable
<1> QED
  BY <1>3 DEF Framed

LEMMA FramedInvariant ==
    ASSUME Documented
    PROVE  Spec => []Framed
<1>1. TypeOK /\ Safe /\ Told /\ Framed /\ [Next]_vars => Framed'
  <2> SUFFICES ASSUME TypeOK, Safe, Told, Framed, [Next]_vars PROVE Framed'
    OBVIOUS
  <2>1. ASSUME NEW t \in Tasks, Server(t) \/ Environment(t) PROVE Framed'
    BY <2>1, ReadingFramed, HandlingFramed, PooledFramed, FinishingFramed, OutsideFramed
       DEF Server, Environment
  <2> QED
    BY <2>1, EnvironmentFramed DEF Next
<1> QED
  BY <1>1, InitFramed, TypeCorrect, SafeInvariant, ToldInvariant, PTL DEF Spec

\* Behind handlers that follow the documentation, the server waits for
\* another request only when the client has received a complete, framed
\* response to the last one: finish_immediate gives up keep-alive exactly
\* where the client needs the close.
THEOREM FramedBeforeNext ==
    ASSUME Documented
    PROVE  Spec => []KeepAliveFramed
<1>1. Framed => KeepAliveFramed
  <2> SUFFICES ASSUME Framed, NEW t \in Tasks, task[t].k = "header", peer # "gone"
               PROVE  client.st = "quiet"
    BY DEF KeepAliveFramed
  <2>1. Driving(t) /\ PhaseOf(task[t]) = "awaiting"
    BY DEF Driving, Free, Run, PhaseOf
  <2> QED
    BY <2>1, DriverFramed DEF FramedAt
<1> QED
  BY <1>1, FramedInvariant, PTL

-----------------------------------------------------------------------------
(* Handlers that follow the documentation leave the Connection field alone.*)

Unmarked == ~resp.own /\ LeavesConnection(prog)

LEMMA ApplyUnmarked ==
    ASSUME NEW r \in Response, NEW call \in Call, NEW ok \in BOOLEAN, call.op \in Unmarking
    PROVE  Apply(r, call, ok).own = r.own
<1>1. /\ content_length(r, call.n).own = r.own /\ transfer_encoding(r).own = r.own
      /\ set_body(r, call.n).own = r.own /\ stream(r).own = r.own
  BY DEF Response, content_length, transfer_encoding, set_body, stream
<1>2. write(r, ok).own = r.own
  BY DEF Response, write
<1>3. write_chunk(r, call.n, ok).own = r.own
  BY ChunkHeaders DEF Response, write_chunk
<1>4. end_chunks(r, ok).own = r.own
  BY DEF Response, end_chunks
<1> QED
  BY <1>1, <1>2, <1>3, <1>4 DEF Apply, Unmarking

\* A call of the handler or its lambda.
LEMMA CallUnmarked ==
    ASSUME TypeOK, ~resp.own, NEW call \in Call, call.op \in Unmarking,
           NEW ok \in SocketOutcome(call), MakeCall(call, ok)
    PROVE  ~resp'.own
<1>1. ok \in BOOLEAN /\ resp \in Response /\ resp' = Apply(resp, call, ok)
  BY DEF SocketOutcome, MakeCall, TypeOK
<1> QED
  BY <1>1, ApplyUnmarked

LEMMA UnmarkedStep ==
    ASSUME TypeOK, Documented, Unmarked, [Next]_vars
    PROVE  Unmarked'
<1> USE DEF life, flags, work, wire
<1>1. Ops(<<>>, Unmarking)
  BY DEF Ops
<1>2. \A status : ~ErrorResponse(status).own
  BY DEF ErrorResponse, set_body, NewResponse
<1>3. ASSUME UNCHANGED <<resp, prog>> PROVE Unmarked'
  BY <1>3 DEF Unmarked
<1>4. ASSUME NEW t \in Tasks, NEW request, dispatch(t, request) PROVE Unmarked'
  <2>1. ~resp'.own
    BY <1>4 DEF dispatch, NewResponse
  <2>2. LeavesConnection(prog')
    BY <1>4 DEF dispatch, Documented, WellFramed
  <2> QED
    BY <2>1, <2>2 DEF Unmarked
<1>5. ASSUME NEW t \in Tasks, reject_payload_too_large(t) PROVE Unmarked'
  BY <1>2, <1>5 DEF reject_payload_too_large, write_buffered, Unmarked
<1>6. ASSUME NEW t \in Tasks, handler_throws(t) \/ lambda_throws(t) PROVE Unmarked'
  <2>1. resp' = resp \/ resp' = ErrorResponse(500)
    BY <1>6 DEF handler_throws, lambda_throws, write_buffered
  <2>2. LeavesConnection(prog')
    BY <1>1, <1>6 DEF handler_throws, lambda_throws, LeavesConnection
  <2> QED
    BY <1>2, <2>1, <2>2 DEF Unmarked
<1>7. ASSUME NEW t \in Tasks, handler_call(t) PROVE Unmarked'
  <2>1. prog.io \in Seq(Call) /\ prog.io # <<>> /\ Ops(prog.io, Unmarking)
    BY <1>7 DEF TypeOK, handler_call, Calls, Unmarked, LeavesConnection
  <2>2. Head(prog.io) \in Call /\ Head(prog.io).op \in Unmarking /\ Ops(Tail(prog.io), Unmarking)
    BY <2>1, OpsTail
  <2>3. ~resp'.own
    BY <1>7, <2>2, CallUnmarked DEF handler_call, Unmarked
  <2>4. PICK rest \in {Tail(prog.io), <<>>} : prog' = [prog EXCEPT !.io = rest]
    BY <1>7 DEF handler_call, Rest
  <2>5. prog'.io = rest /\ prog'.job = prog.job
    BY <2>4 DEF TypeOK
  <2> QED
    BY <1>1, <2>2, <2>3, <2>4, <2>5 DEF Unmarked, LeavesConnection
<1>8. ASSUME NEW t \in Tasks, lambda_call(t) PROVE Unmarked'
  <2>1. prog.job \in Seq(Call) /\ prog.job # <<>> /\ Ops(prog.job, Unmarking)
    BY <1>8 DEF TypeOK, lambda_call, Calls, Unmarked, LeavesConnection
  <2>2. Head(prog.job) \in Call /\ Head(prog.job).op \in Unmarking /\ Ops(Tail(prog.job), Unmarking)
    BY <2>1, OpsTail
  <2>3. ~resp'.own
    BY <1>8, <2>2, CallUnmarked DEF lambda_call, Unmarked
  <2>4. PICK rest \in {Tail(prog.job), <<>>} : prog' = [prog EXCEPT !.job = rest]
    BY <1>8 DEF lambda_call, Rest
  <2>5. prog'.job = rest /\ prog'.io = prog.io
    BY <2>4 DEF TypeOK
  <2> QED
    BY <1>1, <2>2, <2>3, <2>4, <2>5 DEF Unmarked, LeavesConnection
<1>9. ASSUME NEW t \in Tasks, lambda_returns(t) PROVE Unmarked'
  <2> DEFINE call == [op |-> "end_chunks", n |-> 0]
  <2>1. call \in Call /\ call.op \in Unmarking
    BY DEF Call, Op, Unmarking
  <2>2. PICK ok \in SocketOutcome(call) : MakeCall(call, ok)
    BY <1>9 DEF lambda_returns
  <2> HIDE DEF call
  <2>3. ~resp'.own
    BY <2>1, <2>2, CallUnmarked DEF Unmarked
  <2> QED
    BY <1>9, <2>3 DEF lambda_returns, Unmarked
<1>10. ASSUME NEW t \in Tasks, Reading(t) PROVE Unmarked'
  <2>1. \/ \E request : dispatch(t, request)
        \/ reject_payload_too_large(t)
        \/ UNCHANGED <<resp, prog>>
    BY <1>10 DEF Reading, start, read_header, read_error, malformed, read_body, body_complete,
                 read_chunk, chunk_too_large, body_error
  <2> QED
    BY <1>3, <1>4, <1>5, <2>1
<1>11. ASSUME NEW t \in Tasks, Server(t) \/ Environment(t) PROVE Unmarked'
  <2>1. CASE Reading(t)
    BY <1>10, <2>1
  <2>2. CASE finish_buffered(t) \/ finish_immediate(t) \/ post_stream_work(t) \/ run_lambda(t)
    BY <1>3, <2>2 DEF finish_buffered, write_buffered, finish_immediate, post_stream_work, run_lambda
  <2>3. CASE Finishing(t) \/ Resume(t) \/ Environment(t)
    BY <1>3, <2>3 DEF Finishing, run_finish, finish_clear, finish_touch, finish_next, write_done,
                      return, Resume, Environment, Accept, AcceptFails, Receive, Drain
  <2> QED
    BY <1>6, <1>7, <1>8, <1>9, <1>11, <2>1, <2>2, <2>3 DEF Server, Handling, Pooled
<1>12. CASE HalfClose \/ Reset \/ Tick \/ Pin \/ cancel \/ Unpin \/ Erase \/ UNCHANGED vars
  BY <1>3, <1>12 DEF HalfClose, Reset, Tick, Pin, cancel, Unpin, Erase, vars
<1> QED
  BY <1>11, <1>12 DEF Next

LEMMA UnmarkedInvariant ==
    ASSUME Documented
    PROVE  Spec => []Unmarked
<1>1. Init => Unmarked
  BY DEF Init, NewResponse, Unmarked, LeavesConnection, Ops
<1>2. TypeOK /\ Unmarked /\ [Next]_vars => Unmarked'
  BY UnmarkedStep
<1> QED
  BY <1>1, <1>2, TypeCorrect, PTL DEF Spec

-----------------------------------------------------------------------------
(* Connection implements Exchange: every step maps to a step or a stutter. *)

Implements == [E!Next]_(E!vars)

LEMMA PhaseNow ==
    ASSUME SoleDriver, NEW t \in Tasks, Driving(t)
    PROVE  phase = PhaseOf(task[t])
BY DriverPhase DEF SoleDriver, Driving, phase

LEMMA PhaseOver ==
    ASSUME \A u \in Tasks : ~(Driving(u))'
    PROVE  phase' = "over"
BY NoPhase DEF Driving, phase

\* The phase after the driver's step is that of the next driver.
LEMMA GotoPhase ==
    ASSUME TypeOK, Safe, NEW t \in Tasks, Driving(t), NEW pc, pc # "ret", Goto(t, pc)
    PROVE  phase' = PhaseOf(Run(pc))
<1>1. Only(t, Run(pc))
  BY GotoOnly DEF Safe
<1>2. task'[t] = Run(pc) /\ task'[t] \notin {Free, Run("ret")}
  BY DEF TypeOK, Goto, Run, Free
<1> QED
  BY <1>1, <1>2, DriverPhase DEF Only, Driving, phase

LEMMA LaunchPhase ==
    ASSUME TypeOK, Safe, NEW t \in Tasks, Driving(t), task[t].k # "accept",
           NEW k \in Pending, Launch(t, k)
    PROVE  phase' = PhaseOf(Async(k, "wait"))
<1>1. sock = "open"
  BY DEF Safe, OpenWhileDriven
<1>2. PICK w \in Tasks : Only(w, Async(k, "wait"))
  BY <1>1, LaunchOnly DEF Safe
<1>3. PICK u \in Tasks :
        /\ task[u] = Free
        /\ task' = [task EXCEPT
               ![u] = Async(k, IF k \in SocketOps /\ sock # "open"
                              THEN "fail" ELSE "wait"),
               ![t] = Run("ret")]
  BY DEF Launch
<1>4. u # t /\ task'[u] = Async(k, "wait")
  BY <1>1, <1>3 DEF Driving, TypeOK
<1>5. Async(k, "wait") \notin {Free, Run("ret")}
  BY DEF Async, Free, Run, Pending, SocketOps
<1>6. u = w /\ task'[w] = Async(k, "wait")
  BY <1>2, <1>4, <1>5 DEF Only, Driving
<1> QED
  BY <1>2, <1>4, <1>5, <1>6, DriverPhase DEF Only, Driving, phase

\* Nothing is sent.  The next request may be awaited only after a whole
\* response, and taken up only by read_body.
LEMMA SilentStep ==
    ASSUME EdgeOrStay, (peer = "gone") <=> (peer' = "gone"),
           client'.st = client.st, client'.heads = client.heads, client'.close = client.close,
           phase = "awaiting" => phase' \in {"awaiting", "over"},
           phase = "serving" /\ phase' = "awaiting" =>
              peer = "gone" \/ (client.st = "quiet" /\ client.heads = 1 /\ ~client.close)
    PROVE  Implements
<1>1. /\ answer' = answer /\ client'.heads = client.heads /\ client'.close = client.close
      /\ (peer' = "gone") = (peer = "gone")
      /\ client.st = "quiet" => answer = "whole"
  BY DEF answer
<1>2. UNCHANGED <<E!view, peer = "gone">>
  BY <1>1 DEF E!view
<1>3. CASE phase' = phase
  BY <1>2, <1>3 DEF Implements, E!vars
<1>4. CASE E!Edge
  <2>1. CASE phase' = "over"
    <3>1. phase \in E!Phases
      BY <1>4 DEF E!Edge, E!Edges, E!Phases
    <3>2. E!GiveUp
      BY <1>2, <1>4, <2>1, <3>1 DEF E!GiveUp, E!Move
    <3> QED
      BY <3>2 DEF Implements, E!Next
  <2>2. CASE phase = "accepting" /\ phase' = "awaiting"
    <3>1. E!Open
      BY <1>2, <1>4, <2>2 DEF E!Open, E!Move
    <3> QED
      BY <3>1 DEF Implements, E!Next
  <2>3. CASE phase = "receiving" /\ phase' = "serving"
    <3>1. E!Received
      BY <1>2, <1>4, <2>3 DEF E!Received, E!Move
    <3> QED
      BY <3>1 DEF Implements, E!Next
  <2>4. CASE phase = "serving" /\ phase' = "awaiting"
    <3>1. E!Again
      BY <1>1, <1>2, <1>4, <2>4 DEF E!Again, E!Move
    <3> QED
      BY <3>1 DEF Implements, E!Next
  <2> QED
    BY <1>4, <2>1, <2>2, <2>3, <2>4 DEF E!Edge, E!Edges
<1> QED
  BY <1>3, <1>4 DEF EdgeOrStay

\* Some of the response is sent.
LEMMA RespondStep ==
    ASSUME phase = "serving", phase' = "serving", peer # "gone", peer' = peer,
           client.st \in {"awaiting"} \cup Partial, client'.st \in Partial \cup {"quiet"},
           client'.heads = 1, client'.close \in BOOLEAN,
           client.heads = 0 \/ client'.close = client.close
    PROVE  Implements
<1>1. /\ client.st = "awaiting" => answer = "none"
      /\ client.st \in Partial => answer = "partial"
      /\ client'.st \in Partial => answer' = "partial"
      /\ client'.st = "quiet" => answer' = "whole"
  BY DEF answer, Partial
<1>2. E!Grows
  BY <1>1 DEF E!Grows
<1>3. E!Respond
  BY <1>2 DEF E!Respond
<1> QED
  BY <1>3 DEF Implements, E!Next

LEMMA ReadingStep ==
    ASSUME TypeOK, TypeOK', Safe, Framed, NEW t \in Tasks, Reading(t)
    PROVE  Implements
<1> USE DEF life, flags, work, wire
<1>0. EdgeOrStay /\ SoleDriver
  BY ReadingEdge DEF Safe
<1>1. CASE start(t) \/ read_header(t)
  <2>1. /\ task[t] \in {Run("start"), Async("header", "ok")}
        /\ Launch(t, "header") \/ Goto(t, "parse")
        /\ UNCHANGED <<client, peer>>
    BY <1>1 DEF start, read_header
  <2>2. Driving(t) /\ task[t].k # "accept" /\ "header" \in Pending
    BY <2>1 DEF Driving, Free, Run, Async, Pending, SocketOps
  <2>3. phase = "awaiting"
    BY <1>0, <2>1, <2>2, PhaseNow, PhaseTable
  <2>4. phase' = "awaiting"
    BY <2>1, <2>2, GotoPhase, LaunchPhase, PhaseTable
  <2> QED
    BY <1>0, <2>1, <2>3, <2>4, SilentStep
<1>2. CASE read_error(t) \/ malformed(t) \/ body_error(t)
  <2>1. Driving(t) /\ UNCHANGED <<client, peer>>
    BY <1>2 DEF read_error, malformed, body_error, Driving, Free, Run
  <2>2. Goto(t, "ret") \/ close(t)
    BY <1>2 DEF read_error, malformed, body_error
  <2>3. phase' = "over"
    BY <1>0, <2>1, <2>2, RetNone, CloseNone, PhaseOver
  <2> QED
    BY <1>0, <2>1, <2>3, SilentStep
<1>3. CASE read_body(t)
  <2>1. task[t] = Run("parse") /\ peer' = peer
    BY <1>3 DEF read_body
  <2>2. Driving(t) /\ task[t].k # "accept" /\ {"body", "write"} \subseteq Pending
    BY <2>1 DEF Driving, Free, Run, Pending, SocketOps
  <2>3. phase = "awaiting"
    BY <1>0, <2>1, <2>2, PhaseNow, PhaseTable
  <2>4. Goto(t, "handler") \/ Launch(t, "body") \/ Launch(t, "write")
    BY <1>3 DEF read_body, dispatch, reject_payload_too_large, write_buffered
  <2>5. phase' \in {"receiving", "serving"}
    BY <2>2, <2>4, GotoPhase, LaunchPhase, PhaseTable
  <2>6. E!Move({"awaiting"}, {"receiving", "serving"})
    BY <2>3, <2>5 DEF E!Move, E!Edge, E!Edges
  <2>7. (peer' = "gone") = (peer = "gone")
    BY <2>1
  <2>8. CASE peer = "gone"
    <3>1. client' = client
      BY <1>3, <2>8 DEF read_body
    <3>2. UNCHANGED E!view
      BY <3>1 DEF E!view, answer
    <3>3. E!Begin
      BY <2>6, <2>7, <2>8, <3>2 DEF E!Begin
    <3> QED
      BY <3>3 DEF Implements, E!Next
  <2>9. CASE peer # "gone"
    <3>1. client' = Expect(client)
      BY <1>3, <2>9 DEF read_body
    <3>2. client.st = "quiet"
      BY <2>1, <2>2, <2>9, DriverFramed, FramedTable
    <3>3. client'.st = "awaiting" /\ client'.heads = 0 /\ client'.close = FALSE
      BY <3>1, <3>2 DEF TypeOK, Client, Expect
    <3>4. answer = "whole" /\ answer' = "none"
      BY <3>2, <3>3 DEF answer
    <3>5. E!Begin
      BY <2>6, <2>7, <2>9, <3>3, <3>4 DEF E!Begin
    <3> QED
      BY <3>5 DEF Implements, E!Next
  <2> QED
    BY <2>8, <2>9
<1>4. CASE body_complete(t) \/ read_chunk(t) \/ chunk_too_large(t)
  <2>1. task[t] = Async("body", "ok") /\ UNCHANGED <<client, peer>>
    BY <1>4 DEF body_complete, read_chunk, chunk_too_large
  <2>2. Driving(t)
    BY <2>1 DEF Driving, Free, Run, Async
  <2>3. phase = "receiving"
    BY <1>0, <2>1, <2>2, PhaseNow, PhaseTable
  <2> QED
    BY <1>0, <2>1, <2>3, SilentStep
<1> QED
  BY <1>1, <1>2, <1>3, <1>4 DEF Reading

\* A call of the handler or of the lambda sends nothing, or lets the
\* response grow.
LEMMA CallStep ==
    ASSUME TypeOK, Told, phase = "serving", task' = task, peer' = peer, peer # "gone",
           NEW call \in Call, MakeCall(call, TRUE),
           Growth(client, client'),
           client.st = "awaiting" <=> ~resp.flushed,
           client'.st = "awaiting" <=> ~resp'.flushed,
           client'.st # "awaiting" => client'.heads = 1,
           ~resp.flushed => client.heads = 0,
           resp.flushed => client'.heads = client.heads /\ client'.close = client.close
    PROVE  Implements
<1>1. phase' = "serving"
  BY DEF phase
<1>2. EdgeOrStay
  BY <1>1 DEF EdgeOrStay
<1>3. resp \in Response /\ client \in Client /\ client' = Transmit(client, resp, call)
  BY DEF TypeOK, MakeCall
<1>4. client' \in Client
  BY <1>3, TransmitType
<1>5. client'.close \in BOOLEAN /\ client'.st \in ClientStates
  BY <1>4 DEF Client
<1>6. CASE client' = client
  BY <1>1, <1>2, <1>6, SilentStep
<1>7. CASE client' # client /\ client'.st # "awaiting" /\ client.st \in {"awaiting"} \cup Partial
  <2>1. client'.st \in Partial \cup {"quiet"}
    BY <1>7 DEF Growth
  <2> QED
    BY <1>1, <1>5, <1>7, <2>1, RespondStep
<1>8. CASE client'.st = client.st /\ resp.flushed
  BY <1>1, <1>2, <1>8, SilentStep
<1>9. CASE client'.st = "awaiting" /\ ~resp.flushed
  <2>1. client'.heads = 0
    <3>1. client.heads <= 1 /\ resp' = Apply(resp, call, TRUE) /\ ~resp'.flushed
      BY <1>9 DEF Told, MakeCall
    <3> QED
      BY <1>3, <3>1, TransmitTold
  <2>2. client' = client
    BY <1>3, <1>9, <2>1, SentHeads
  <2> QED
    BY <1>6, <2>2
<1> QED
  BY <1>6, <1>7, <1>8, <1>9 DEF Growth, Partial

LEMMA HandlingStep ==
    ASSUME TypeOK, TypeOK', Safe, Told, Framed, NEW t \in Tasks, Handling(t)
    PROVE  Implements
<1> USE DEF life, flags, work, wire
<1>0. EdgeOrStay /\ SoleDriver
  BY ServingEdge DEF Safe
<1>1. task[t] = Run("handler")
  BY DEF Handling, handler_call, handler_throws, finish_buffered, finish_immediate,
     post_stream_work, HandlerReturned
<1>2. Driving(t) /\ task[t].k # "accept" /\ {"write", "job"} \subseteq Pending
  BY <1>1 DEF Driving, Free, Run, Pending, SocketOps
<1>3. phase = "serving"
  BY <1>0, <1>1, <1>2, PhaseNow, PhaseTable
<1>4. CASE handler_call(t)
  <2>1. /\ task' = task /\ peer' = peer /\ Head(prog.io) \in Call
        /\ resp' \in Response
    BY <1>4 DEF handler_call, TypeOK, Calls
  <2>2. CASE peer = "gone"
    <3>1. client' = client
      BY <1>4, <2>2 DEF handler_call, MakeCall
    <3>2. phase' = "serving"
      BY <1>3, <2>1 DEF phase
    <3> QED
      BY <1>0, <1>3, <2>1, <3>1, <3>2, SilentStep
  <2>3. CASE peer # "gone"
    <3>1. MakeCall(Head(prog.io), TRUE)
      BY <1>4, <2>3 DEF handler_call, SocketOutcome
    <3>2. ~resp.flushed => client.heads = 0
      BY <1>1, <1>2, <2>3, DriverTold, OwedTable DEF Agrees
    <3>3. /\ AtHandler(prog', resp', client')
          /\ client'.st # "awaiting" => client'.heads = 1
          /\ Growth(client, client')
          /\ resp.flushed => client'.heads = client.heads /\ client'.close = client.close
          /\ client.st = "awaiting" <=> ~resp.flushed
      BY <1>4, <2>3, HandlerCallFramed
    <3>4. client'.st = "awaiting" <=> ~resp'.flushed
      BY <2>1, <3>3, AwaitsHead
    <3> QED
      BY <1>3, <2>1, <2>3, <3>1, <3>2, <3>3, <3>4, CallStep
  <2> QED
    BY <2>2, <2>3
<1>5. CASE \/ handler_throws(t) \/ finish_buffered(t) \/ finish_immediate(t)
           \/ post_stream_work(t)
  <2>1. /\ Goto(t, "fin1") \/ Launch(t, "write") \/ Launch(t, "job")
        /\ UNCHANGED <<client, peer>>
    BY <1>5 DEF handler_throws, finish_buffered, finish_immediate, post_stream_work,
       write_buffered
  <2>2. phase' = "serving"
    BY <1>2, <2>1, GotoPhase, LaunchPhase, PhaseTable
  <2> QED
    BY <1>0, <1>3, <2>1, <2>2, SilentStep
<1> QED
  BY <1>4, <1>5 DEF Handling

LEMMA PooledStep ==
    ASSUME TypeOK, TypeOK', Safe, Told, Framed, NEW t \in Tasks, Pooled(t)
    PROVE  Implements
<1> USE DEF life, flags, work, wire
<1>0. EdgeOrStay /\ SoleDriver
  BY ServingEdge DEF Safe
<1>1. task[t] \in {Async("job", "wait"), Run("lambda")}
  BY DEF Pooled, run_lambda, lambda_call, lambda_returns, lambda_throws
<1>2. Driving(t) /\ task[t].k # "accept" /\ "finish" \in Pending
  BY <1>1 DEF Driving, Free, Run, Async, Pending, SocketOps
<1>3. phase = "serving"
  BY <1>0, <1>1, <1>2, PhaseNow, PhaseTable
<1>4. CASE run_lambda(t)
  <2>1. Goto(t, "lambda") /\ UNCHANGED <<client, peer>>
    BY <1>4 DEF run_lambda
  <2>2. phase' = "serving"
    BY <1>2, <2>1, GotoPhase, PhaseTable
  <2> QED
    BY <1>0, <1>3, <2>1, <2>2, SilentStep
<1>5. CASE lambda_call(t)
  <2>1. /\ task' = task /\ peer' = peer /\ Head(prog.job) \in Call
        /\ resp' \in Response /\ task[t] = Run("lambda")
    BY <1>5 DEF lambda_call, TypeOK, Calls
  <2>2. CASE peer = "gone"
    <3>1. client' = client
      BY <1>5, <2>2 DEF lambda_call, MakeCall
    <3>2. phase' = "serving"
      BY <1>3, <2>1 DEF phase
    <3> QED
      BY <1>0, <1>3, <2>1, <3>1, <3>2, SilentStep
  <2>3. CASE peer # "gone"
    <3>1. MakeCall(Head(prog.job), TRUE)
      BY <1>5, <2>3 DEF lambda_call, SocketOutcome
    <3>2. ~resp.flushed => client.heads = 0
      BY <1>2, <2>1, <2>3, DriverTold, OwedTable DEF Agrees
    <3>3. /\ AtLambda(prog'.job, resp', client')
          /\ client'.st # "awaiting" => client'.heads = 1
          /\ Growth(client, client')
          /\ resp.flushed => client'.heads = client.heads /\ client'.close = client.close
          /\ client.st = "awaiting" <=> ~resp.flushed
      BY <1>5, <2>3, LambdaCallFramed
    <3>4. client'.st = "awaiting" <=> ~resp'.flushed
      BY <2>1, <3>3, AwaitsHead
    <3> QED
      BY <1>3, <2>1, <2>3, <3>1, <3>2, <3>3, <3>4, CallStep
  <2> QED
    BY <2>2, <2>3
<1>6. CASE lambda_returns(t) \/ lambda_throws(t)
  <2>1. Launch(t, "finish") /\ peer' = peer
    BY <1>6 DEF lambda_returns, lambda_throws
  <2>2. phase' = "serving"
    BY <1>2, <2>1, LaunchPhase, PhaseTable
  <2>3. client'.close \in BOOLEAN
    BY DEF TypeOK, Client
  <2>4. CASE peer = "gone"
    <3>1. client' = client
      BY <1>6, <2>4 DEF lambda_returns, lambda_throws, MakeCall
    <3> QED
      BY <1>0, <1>3, <2>1, <2>2, <3>1, SilentStep
  <2>5. CASE peer # "gone" /\ lambda_returns(t)
    <3>1. /\ client'.st = "quiet" /\ client'.heads = 1
          /\ client'.heads = client.heads /\ client'.close = client.close
          /\ client.st \in {"quiet", "chunks"}
      BY <2>5, LambdaReturnsFramed
    <3>2. CASE client.st = "quiet"
      BY <1>0, <1>3, <2>1, <2>2, <3>1, <3>2, SilentStep
    <3>3. CASE client.st = "chunks"
      BY <1>3, <2>1, <2>2, <2>3, <2>5, <3>1, <3>3, RespondStep DEF Partial
    <3> QED
      BY <3>1, <3>2, <3>3
  <2>6. CASE peer # "gone" /\ lambda_throws(t)
    <3>1. /\ client'.heads = 1
          /\ resp.flushed => client' = client
          /\ ~resp.flushed => client.st = "awaiting" /\ client.heads = 0 /\ client'.st = "quiet"
      BY <2>6, LambdaThrowsFramed
    <3>2. CASE resp.flushed
      BY <1>0, <1>3, <2>1, <2>2, <3>1, <3>2, SilentStep
    <3>3. CASE ~resp.flushed
      BY <1>3, <2>1, <2>2, <2>3, <2>6, <3>1, <3>3, RespondStep
    <3> QED
      BY <3>2, <3>3
  <2> QED
    BY <1>6, <2>4, <2>5, <2>6
<1> QED
  BY <1>4, <1>5, <1>6 DEF Pooled

LEMMA FinishingStep ==
    ASSUME TypeOK, TypeOK', Safe, Told, Framed, Unmarked, NEW t \in Tasks, Finishing(t)
    PROVE  Implements
<1> USE DEF life, flags, work, wire
<1>0. EdgeOrStay /\ SoleDriver
  BY ServingEdge DEF Safe
<1>1. CASE run_finish(t) \/ finish_clear(t) \/ finish_touch(t)
  <2>1. task[t] \in {Async("finish", "wait"), Run("fin1"), Run("fin2")}
    BY <1>1 DEF run_finish, finish_clear, finish_touch
  <2>2. Driving(t)
    BY <2>1 DEF Driving, Free, Run, Async
  <2>3. PICK pc \in {"fin1", "fin2", "fin3"} : Goto(t, pc)
    BY <1>1 DEF run_finish, finish_clear, finish_touch
  <2>4. UNCHANGED <<client, peer>>
    BY <1>1 DEF run_finish, finish_clear, finish_touch
  <2>5. phase = "serving" /\ phase' = "serving"
    BY <1>0, <2>1, <2>2, <2>3, PhaseNow, GotoPhase, PhaseTable
  <2> QED
    BY <1>0, <2>4, <2>5, SilentStep
<1>2. CASE finish_next(t)
  <2>1. task[t] = Run("fin3") /\ UNCHANGED <<client, peer>>
    BY <1>2 DEF finish_next
  <2>2. Driving(t)
    BY <2>1 DEF Driving, Free, Run
  <2>3. phase = "serving"
    BY <1>0, <2>1, <2>2, PhaseNow, PhaseTable
  <2>4. CASE keep
    <3>1. peer # "gone" => client.st = "quiet" /\ client.heads = 1
      BY <2>1, <2>2, <2>4, DriverFramed, FramedTable
    <3>2. peer # "gone" => ~client.close
      BY <2>1, <2>2, <2>4, DriverTold, PhaseTable DEF Agrees, Unmarked
    <3> QED
      BY <1>0, <2>1, <2>3, <3>1, <3>2, SilentStep
  <2>5. CASE ~keep
    <3>1. phase' = "over"
      BY <1>0, <1>2, <2>2, <2>5, RetNone, PhaseOver DEF finish_next
    <3> QED
      BY <1>0, <2>1, <2>3, <3>1, SilentStep
  <2> QED
    BY <2>4, <2>5
<1>3. CASE write_done(t)
  <2>1. task[t].k = "write" /\ UNCHANGED <<client, peer>> /\ (Goto(t, "fin2") \/ Goto(t, "ret"))
    BY <1>3 DEF write_done
  <2>2. Driving(t) /\ PhaseOf(task[t]) = "serving"
    BY <2>1 DEF Driving, Free, Run, PhaseOf
  <2>3. phase = "serving"
    BY <1>0, <2>2, PhaseNow
  <2>4. phase' \in {"serving", "over"}
    BY <1>0, <2>1, <2>2, GotoPhase, RetNone, PhaseOver, PhaseTable
  <2> QED
    BY <1>0, <2>1, <2>3, <2>4, SilentStep
<1>4. CASE return(t)
  <2>1. ASSUME NEW u \in Tasks
        PROVE  task'[u] = task[u] \/ (~Driving(u) /\ ~(Driving(u))')
    BY <1>4 DEF return, TypeOK, Driving
  <2>2. phase' = phase
    BY <1>0, <2>1, SamePhase
  <2>3. UNCHANGED <<client, peer>>
    BY <1>4 DEF return
  <2> QED
    BY <1>0, <2>2, <2>3, SilentStep
<1> QED
  BY <1>1, <1>2, <1>3, <1>4 DEF Finishing

LEMMA OutsideStep ==
    ASSUME TypeOK, TypeOK', Safe, Told, Framed, NEW t \in Tasks,
           Resume(t) \/ Accept(t) \/ AcceptFails(t) \/ Receive(t) \/ Drain(t)
    PROVE  Implements
<1> USE DEF life, flags, work, wire
<1>0. EdgeOrStay /\ SoleDriver
  BY OutsideEdge DEF Safe
<1>1. CASE Accept(t) \/ AcceptFails(t)
  <2>1. task[t] = Async("accept", "wait") /\ UNCHANGED <<client, peer>>
    BY <1>1 DEF Accept, AcceptFails
  <2>2. Driving(t)
    BY <2>1 DEF Driving, Free, Run, Async
  <2>3. phase = "accepting"
    BY <1>0, <2>1, <2>2, PhaseNow, PhaseTable
  <2> QED
    BY <1>0, <2>1, <2>3, SilentStep
<1>2. ASSUME Resume(t) \/ Receive(t) \/ Drain(t)
      PROVE  phase' = phase
  <2>1. task[t].k \in SocketOps
    BY <1>2 DEF Resume, Receive, Drain, SocketOps, Async
  <2>2. \E st : task' = [task EXCEPT ![t].st = st]
    BY <1>2 DEF Resume, Receive, Drain
  <2>3. task[t] \in [k : Pending, st : Outcome]
    BY <2>1 DEF TypeOK, TaskState, SocketOps
  <2>4. ASSUME NEW u \in Tasks
        PROVE  \/ task'[u] = task[u]
               \/ task[u].k \in SocketOps /\ task'[u].k = task[u].k
    BY <2>1, <2>2, <2>3 DEF TypeOK
  <2> QED
    BY <1>0, <2>4, SamePhase
<1>3. CASE (Resume(t) \/ Receive(t) \/ Drain(t)) /\ client' = client
  <2>1. peer' = peer /\ phase' = phase
    BY <1>2, <1>3 DEF Resume, Receive, Drain
  <2> QED
    BY <1>0, <1>3, <2>1, SilentStep
<1>4. CASE Drain(t) /\ client' # client
  <2>1. /\ task[t] = Async("write", "wait") /\ peer' = peer /\ peer # "gone"
        /\ client' = SendSerialized(client, resp)
    BY <1>4 DEF Drain
  <2>2. Driving(t) /\ HeadOwed(task[t], resp)
    BY <2>1 DEF Driving, Free, Run, Async, HeadOwed
  <2>3. phase = "serving" /\ phase' = "serving"
    BY <1>0, <1>2, <1>4, <2>1, <2>2, PhaseNow, PhaseTable
  <2>4. client.st = "awaiting" /\ ~resp.te /\ resp.cl = Absent
    BY <2>1, <2>2, DriverFramed, FramedTable
  <2>5. client.heads = 0
    BY <2>1, <2>2, DriverTold DEF Agrees
  <2>6. resp \in Response /\ client \in Client /\ client'.close \in BOOLEAN
    BY DEF TypeOK, Client
  <2>7. client'.st = "quiet" /\ client'.heads = 1
    BY <2>1, <2>4, <2>5, <2>6, SerializedFrames, SerializedTold
  <2> QED
    BY <2>1, <2>3, <2>4, <2>5, <2>6, <2>7, RespondStep
<1> QED
  BY <1>1, <1>3, <1>4 DEF Resume, Receive

LEMMA EnvironmentStep ==
    ASSUME TypeOK, TypeOK', Safe,
           HalfClose \/ Reset \/ Tick \/ Pin \/ cancel \/ Unpin \/ Erase \/ UNCHANGED vars
    PROVE  Implements
<1> USE DEF life, flags, work, wire
<1>0. SoleDriver
  BY DEF Safe
<1>1. CASE Reset
  <2>1. task' = task /\ client' = client /\ peer # "gone" /\ peer' = "gone"
    BY <1>1 DEF Reset
  <2>2. UNCHANGED <<phase, E!view>>
    BY <2>1 DEF phase, E!view, answer
  <2>3. (peer = "gone") = FALSE /\ (peer' = "gone") = TRUE
    BY <2>1
  <2>4. E!Vanish
    BY <2>2, <2>3 DEF E!Vanish
  <2> QED
    BY <2>4 DEF Implements, E!Next
<1>2. CASE HalfClose \/ Tick \/ Pin \/ cancel \/ Unpin \/ Erase \/ UNCHANGED vars
  <2>1. client' = client /\ ((peer = "gone") <=> (peer' = "gone"))
    BY <1>2 DEF HalfClose, Tick, Pin, cancel, Unpin, Erase, vars
  <2>2. cancel => phase' = phase
    <3> SUFFICES ASSUME cancel PROVE phase' = phase
      OBVIOUS
    <3>1. ASSUME NEW u \in Tasks
          PROVE  \/ task'[u] = task[u]
                 \/ task[u].k \in SocketOps /\ task'[u].k = task[u].k
      BY DEF cancel, Aborted, Async
    <3> QED
      BY <1>0, <3>1, SamePhase
  <2>3. task' = task => phase' = phase
    BY DEF phase
  <2>4. phase' = phase
    BY <1>2, <2>2, <2>3 DEF HalfClose, Tick, Pin, Unpin, Erase, vars
  <2> QED
    BY <2>1, <2>4, SilentStep DEF EdgeOrStay
<1> QED
  BY <1>1, <1>2

\* Connection implements Exchange.  Each request is answered once and whole,
\* by bytes the client can frame, before the next is taken up; nothing is
\* sent outside of an exchange, nothing after a close that was announced, and
\* nothing after the connection was given up.  This holds behind all handlers
\* that follow the documentation, for every number of tasks and every idle
\* timeout, whenever client, timer and writes fail.
THEOREM RefinesExchange ==
    ASSUME Documented
    PROVE  Spec => ImplementsExchange
<1>1. Init => E!Init
  <2> SUFFICES ASSUME Init PROVE E!Init
    OBVIOUS
  <2>1. PICK t \in Tasks :
          task = [u \in Tasks |-> IF u = t THEN Async("accept", "wait") ELSE Free]
    BY DEF Init
  <2>2. task[t] = Async("accept", "wait") /\ task[t] \notin {Free, Run("ret")}
    BY <2>1 DEF Free, Run, Async
  <2>3. phase = "accepting"
    BY <2>1, <2>2, DriverPhase, PhaseTable DEF phase
  <2>4. answer = "whole" /\ client.heads = 0 /\ client.close = FALSE
    BY DEF Init, InitClient, answer
  <2>5. (peer = "gone") = FALSE
    BY DEF Init
  <2> QED
    BY <2>3, <2>4, <2>5 DEF E!Init
<1>2. TypeOK /\ TypeOK' /\ Safe /\ Told /\ Framed /\ Unmarked /\ [Next]_vars => Implements
  <2> SUFFICES ASSUME TypeOK, TypeOK', Safe, Told, Framed, Unmarked, [Next]_vars PROVE Implements
    OBVIOUS
  <2>1. ASSUME NEW t \in Tasks, Server(t) \/ Environment(t) PROVE Implements
    BY <2>1, ReadingStep, HandlingStep, PooledStep, FinishingStep, OutsideStep
       DEF Server, Environment
  <2> QED
    BY <2>1, EnvironmentStep DEF Next
<1> QED
  BY <1>1, <1>2, TypeCorrect, SafeInvariant, ToldInvariant, FramedInvariant,
     UnmarkedInvariant, PTL DEF Spec, ImplementsExchange, E!Spec, Implements
=============================================================================
