-------------------------- MODULE ConnectionProofs --------------------------
(***************************************************************************)
(* Theorems about Connection, and about a connection composed with the     *)
(* scan of the idle timer (IdleReaper), for every set of tasks, every idle *)
(* timeout, every set of requests and every set of handler programs.       *)
(***************************************************************************)
EXTENDS IdleReaper, TLAPS

-----------------------------------------------------------------------------
(* The response object and the client keep their types.                    *)

LEMMA NewResponseType ==
    ASSUME NEW s \in Nat, NEW c \in {"keep-alive", "close"}
    PROVE  NewResponse(s, c) \in Response
BY DEF NewResponse, Response, Mode, Absent

LEMMA ErrorResponseType ==
    ASSUME NEW s \in Nat
    PROVE  ErrorResponse(s) \in Response
BY NewResponseType DEF ErrorResponse, set_body, Response

\* Every call of a handler or a lambda takes a response to a response.
LEMMA ApplyType ==
    ASSUME NEW r \in Response, NEW call \in Call, NEW ok \in BOOLEAN
    PROVE  Apply(r, call, ok) \in Response
<1>1. /\ content_length(r, call.n) \in Response
      /\ transfer_encoding(r) \in Response
      /\ insert_connection(r, "close") \in Response
      /\ insert_connection(r, "keep-alive") \in Response
      /\ set_body(r, call.n) \in Response
      /\ stream(r) \in Response
  BY DEF Call, Response, Mode, content_length, transfer_encoding, insert_connection, set_body,
         stream
<1>2. write(r, ok) \in Response
  BY DEF Response, Mode, write, LockMode
<1>3. chunk_headers(r) \in Response
  BY DEF Response, Mode, chunk_headers, LockMode
<1>4. write_chunk(r, call.n, ok) \in Response
  BY <1>3 DEF Response, write_chunk
<1>5. end_chunks(r, ok) \in Response
  BY DEF Response, end_chunks
<1> QED
  BY <1>1, <1>2, <1>4, <1>5 DEF Apply

LEMMA ExpectType ==
    ASSUME NEW c \in Client
    PROVE  Expect(c) \in Client
BY DEF Client, ClientStates, Expect

LEMMA SendHeadType ==
    ASSUME NEW c \in Client, NEW r \in Response
    PROVE  SendHead(c, r) \in Client
BY DEF Client, ClientStates, Response, SendHead, GetHead, Framing, Absent

LEMMA PayloadType ==
    ASSUME NEW c \in Client, NEW n \in Nat
    PROVE  /\ SendData(c, n) \in Client
           /\ GetChunk(c) \in Client
           /\ GetLastChunk(c) \in Client
<1>1. Garble(c) \in Client
  BY DEF Client, ClientStates, Garble
<1>2. ASSUME c.st = "length", n < c.left
      PROVE  [c EXCEPT !.left = @ - n] \in Client
  BY <1>2 DEF Client
<1>3. [c EXCEPT !.st = "quiet", !.left = 0] \in Client
      /\ [c EXCEPT !.st = "quiet"] \in Client
  BY DEF Client, ClientStates
<1>4. GetData(c, n) \in Client
  BY <1>1, <1>2, <1>3 DEF GetData
<1>5. GetChunk(c) \in Client /\ GetLastChunk(c) \in Client
  BY <1>1, <1>3 DEF GetChunk, GetLastChunk
<1> QED
  BY <1>4, <1>5 DEF SendData

LEMMA TransmitType ==
    ASSUME NEW c \in Client, NEW r \in Response, NEW call \in Call
    PROVE  Transmit(c, r, call) \in Client
<1>1. chunk_headers(r) \in Response
  BY DEF Response, Mode, chunk_headers, LockMode
<1>2. FlushFirst(c, r) \in Client /\ FlushFirst(c, chunk_headers(r)) \in Client
  BY <1>1, SendHeadType DEF FlushFirst
<1> QED
  BY <1>2, PayloadType DEF Transmit, Call, Sends

LEMMA SendSerializedType ==
    ASSUME NEW c \in Client, NEW r \in Response
    PROVE  SendSerialized(c, r) \in Client
<1> DEFINE length == IF r.cl = Absent THEN r.body ELSE r.cl
<1>1. [r EXCEPT !.cl = length] \in Response
  BY DEF Response
<1>2. SendHead(c, [r EXCEPT !.cl = length]) \in Client
  BY <1>1, SendHeadType
<1>3. r.body \in Nat
  BY DEF Response
<1> QED
  BY <1>2, <1>3, PayloadType DEF SendSerialized

-----------------------------------------------------------------------------
(* Type correctness.                                                       *)

LEMMA NoCallsType == [io |-> <<>>, job |-> <<>>] \in [io : Seq(Call), job : Seq(Call)]
<1>1. <<>> \in Seq(Call)
  OBVIOUS
<1> QED
  BY <1>1

LEMMA TaskStates ==
    /\ Free \in TaskState
    /\ \A pc \in Place : Run(pc) \in TaskState
    /\ \A k \in Pending, st \in Outcome : Async(k, st) \in TaskState
BY DEF Free, Run, Async, TaskState

LEMMA GotoType ==
    ASSUME TypeOK, NEW t \in Tasks, NEW pc \in Place, Goto(t, pc)
    PROVE  task' \in [Tasks -> TaskState]
BY TaskStates DEF TypeOK, Goto

LEMMA LaunchType ==
    ASSUME TypeOK, NEW t \in Tasks, NEW k \in Pending, Launch(t, k)
    PROVE  task' \in [Tasks -> TaskState]
<1>1. PICK u \in Tasks, st \in Outcome :
        task' = [task EXCEPT ![u] = Async(k, st), ![t] = Run("ret")]
  BY DEF Launch, Outcome
<1>2. Async(k, st) \in TaskState /\ Run("ret") \in TaskState
  BY TaskStates DEF Place
<1> QED
  BY <1>1, <1>2 DEF TypeOK

LEMMA AbortedType ==
    ASSUME NEW f \in [Tasks -> TaskState]
    PROVE  Aborted(f) \in [Tasks -> TaskState]
<1>1. ASSUME NEW u \in Tasks, f[u].k \in SocketOps
      PROVE  Async(f[u].k, "abort") \in TaskState
  BY <1>1, TaskStates DEF Pending, Outcome
<1> QED
  BY <1>1 DEF Aborted

LEMMA CloseType ==
    ASSUME TypeOK, NEW t \in Tasks, close(t)
    PROVE  task' \in [Tasks -> TaskState] /\ sock' \in {sock, "closed"}
BY AbortedType, TaskStates DEF TypeOK, close, Place

\* A task's next outcome keeps it a task state.
LEMMA OutcomeType ==
    ASSUME TypeOK, NEW t \in Tasks, NEW st \in Outcome, task[t].k \in Pending
    PROVE  [task EXCEPT ![t].st = st] \in [Tasks -> TaskState]
<1>1. [task[t] EXCEPT !.st = st] \in TaskState
  BY DEF TypeOK, TaskState, Pending, SocketOps
<1> QED
  BY <1>1 DEF TypeOK

LEMMA DispatchType ==
    ASSUME TypeOK, NEW t \in Tasks, NEW request \in [body : BodyKinds, keep : BOOLEAN],
           dispatch(t, request)
    PROVE  /\ task' \in [Tasks -> TaskState]
           /\ keep' \in BOOLEAN
           /\ resp' \in Response
           /\ prog' \in [io : Seq(Call), job : Seq(Call)]
<1>1. task' \in [Tasks -> TaskState]
  BY GotoType DEF dispatch, Place
<1>2. resp' \in Response
  BY NewResponseType DEF dispatch
<1> QED
  BY <1>1, <1>2, HandlersAssumption DEF dispatch

LEMMA RejectType ==
    ASSUME TypeOK, NEW t \in Tasks, reject_payload_too_large(t)
    PROVE  /\ task' \in [Tasks -> TaskState]
           /\ keep' \in BOOLEAN
           /\ resp' \in Response
           /\ prog' \in [io : Seq(Call), job : Seq(Call)]
<1>1. task' \in [Tasks -> TaskState]
  BY LaunchType DEF reject_payload_too_large, write_buffered, Pending, SocketOps
<1>2. keep' = FALSE /\ resp' = ErrorResponse(413) /\ prog' = prog
  BY DEF reject_payload_too_large, write_buffered
<1>3. ErrorResponse(413) \in Response
  BY ErrorResponseType
<1> QED
  BY <1>1, <1>2, <1>3 DEF TypeOK

LEMMA MakeCallType ==
    ASSUME TypeOK, NEW call \in Call, NEW ok \in BOOLEAN, MakeCall(call, ok)
    PROVE  resp' \in Response /\ client' \in Client
BY ApplyType, TransmitType DEF TypeOK, MakeCall

LEMMA ReadingType ==
    ASSUME TypeOK, NEW t \in Tasks, Reading(t)
    PROVE  TypeOK'
<1> USE DEF life, flags, work, wire
<1>1. CASE start(t)
  <2>1. task' \in [Tasks -> TaskState]
    BY <1>1, LaunchType DEF start, Pending, SocketOps
  <2> QED
    BY <1>1, <2>1 DEF TypeOK, start
<1>2. CASE read_header(t)
  <2>1. task' \in [Tasks -> TaskState]
    BY <1>2, GotoType DEF read_header, Place
  <2> QED
    BY <1>2, <2>1 DEF TypeOK, read_header
<1>3. CASE read_error(t)
  <2>1. task' \in [Tasks -> TaskState] /\ sock' \in {sock, "closed"}
    BY <1>3, GotoType, CloseType DEF read_error, Place
  <2> QED
    BY <1>3, <2>1 DEF TypeOK, read_error
<1>4. CASE malformed(t)
  <2>1. task' \in [Tasks -> TaskState] /\ sock' \in {sock, "closed"}
    BY <1>4, CloseType DEF malformed
  <2> QED
    BY <1>4, <2>1, TimeoutAssumption DEF TypeOK, malformed
<1>5. CASE read_body(t)
  <2>1. PICK request \in Requests :
          /\ req' = request
          /\ \/ dispatch(t, request)
             \/ Launch(t, "body") /\ UNCHANGED <<keep, resp, prog>>
             \/ reject_payload_too_large(t)
    BY <1>5 DEF read_body
  <2>2. request \in [body : BodyKinds, keep : BOOLEAN]
    BY RequestsAssumption
  <2>3. /\ task' \in [Tasks -> TaskState]
        /\ keep' \in BOOLEAN
        /\ resp' \in Response
        /\ prog' \in [io : Seq(Call), job : Seq(Call)]
    <3>1. CASE dispatch(t, request)
      BY <2>2, <3>1, DispatchType
    <3>2. CASE Launch(t, "body") /\ UNCHANGED <<keep, resp, prog>>
      BY <3>2, LaunchType DEF TypeOK, Pending, SocketOps
    <3>3. CASE reject_payload_too_large(t)
      BY <3>3, RejectType
    <3> QED
      BY <2>1, <3>1, <3>2, <3>3
  <2>4. client' \in Client
    BY <1>5, ExpectType DEF TypeOK, read_body
  <2> QED
    BY <1>5, <2>1, <2>2, <2>3, <2>4, TimeoutAssumption DEF TypeOK, read_body
<1>6. CASE body_complete(t)
  <2>1. req \in [body : BodyKinds, keep : BOOLEAN]
    BY DEF TypeOK
  <2>2. /\ task' \in [Tasks -> TaskState]
        /\ keep' \in BOOLEAN
        /\ resp' \in Response
        /\ prog' \in [io : Seq(Call), job : Seq(Call)]
    BY <1>6, <2>1, DispatchType DEF body_complete
  <2> QED
    BY <1>6, <2>2 DEF TypeOK, body_complete
<1>7. CASE read_chunk(t)
  <2>1. task' \in [Tasks -> TaskState]
    BY <1>7, LaunchType DEF read_chunk, Pending, SocketOps
  <2> QED
    BY <1>7, <2>1 DEF TypeOK, read_chunk
<1>8. CASE chunk_too_large(t)
  BY <1>8, RejectType DEF TypeOK, chunk_too_large
<1>9. CASE body_error(t)
  <2>1. task' \in [Tasks -> TaskState] /\ sock' \in {sock, "closed"}
    BY <1>9, CloseType DEF body_error
  <2> QED
    BY <1>9, <2>1 DEF TypeOK, body_error
<1> QED
  BY <1>1, <1>2, <1>3, <1>4, <1>5, <1>6, <1>7, <1>8, <1>9 DEF Reading

LEMMA HandlingType ==
    ASSUME TypeOK, NEW t \in Tasks, Handling(t)
    PROVE  TypeOK'
<1> USE DEF life, flags, work, wire
<1>1. CASE handler_call(t)
  <2>1. Head(prog.io) \in Call /\ Tail(prog.io) \in Seq(Call) /\ <<>> \in Seq(Call)
    BY <1>1 DEF TypeOK, handler_call, Calls
  <2>2. PICK ok \in BOOLEAN :
          /\ MakeCall(Head(prog.io), ok)
          /\ \E rest \in Rest(prog.io, ok) : prog' = [prog EXCEPT !.io = rest]
    BY <1>1 DEF handler_call, SocketOutcome
  <2>3. prog' \in [io : Seq(Call), job : Seq(Call)]
    BY <2>1, <2>2 DEF TypeOK, Rest
  <2> QED
    BY <1>1, <2>1, <2>2, <2>3, MakeCallType DEF TypeOK, handler_call
<1>2. CASE handler_throws(t)
  <2>1. task' \in [Tasks -> TaskState] /\ resp' \in Response
    <3>1. CASE resp.flushed
      BY <1>2, <3>1, GotoType DEF TypeOK, handler_throws, Place
    <3>2. CASE ~resp.flushed
      BY <1>2, <3>2, LaunchType, ErrorResponseType
         DEF handler_throws, write_buffered, Pending, SocketOps
    <3> QED
      BY <3>1, <3>2
  <2> QED
    BY <1>2, <2>1, NoCallsType DEF TypeOK, handler_throws
<1>3. CASE finish_buffered(t)
  <2>1. task' \in [Tasks -> TaskState]
    BY <1>3, LaunchType DEF finish_buffered, write_buffered, Pending, SocketOps
  <2> QED
    BY <1>3, <2>1 DEF TypeOK, finish_buffered, write_buffered
<1>4. CASE finish_immediate(t)
  <2>1. task' \in [Tasks -> TaskState]
    BY <1>4, GotoType DEF finish_immediate, Place
  <2> QED
    BY <1>4, <2>1 DEF TypeOK, finish_immediate
<1>5. CASE post_stream_work(t)
  <2>1. task' \in [Tasks -> TaskState]
    BY <1>5, LaunchType DEF post_stream_work, Pending
  <2> QED
    BY <1>5, <2>1 DEF TypeOK, post_stream_work
<1> QED
  BY <1>1, <1>2, <1>3, <1>4, <1>5 DEF Handling

LEMMA PooledType ==
    ASSUME TypeOK, NEW t \in Tasks, Pooled(t)
    PROVE  TypeOK'
<1> USE DEF life, flags, work, wire
<1>1. CASE run_lambda(t)
  <2>1. task' \in [Tasks -> TaskState]
    BY <1>1, GotoType DEF run_lambda, Place
  <2> QED
    BY <1>1, <2>1 DEF TypeOK, run_lambda
<1>2. CASE lambda_call(t)
  <2>1. Head(prog.job) \in Call /\ Tail(prog.job) \in Seq(Call) /\ <<>> \in Seq(Call)
    BY <1>2 DEF TypeOK, lambda_call, Calls
  <2>2. PICK ok \in BOOLEAN :
          /\ MakeCall(Head(prog.job), ok)
          /\ \E rest \in Rest(prog.job, ok) : prog' = [prog EXCEPT !.job = rest]
    BY <1>2 DEF lambda_call, SocketOutcome
  <2>3. prog' \in [io : Seq(Call), job : Seq(Call)]
    BY <2>1, <2>2 DEF TypeOK, Rest
  <2> QED
    BY <1>2, <2>1, <2>2, <2>3, MakeCallType DEF TypeOK, lambda_call
<1>3. CASE lambda_returns(t)
  <2> DEFINE call == [op |-> "end_chunks", n |-> 0]
  <2>1. call \in Call
    BY DEF Call, Op
  <2>2. PICK ok \in BOOLEAN : MakeCall(call, ok)
    BY <1>3 DEF lambda_returns, SocketOutcome
  <2>3. task' \in [Tasks -> TaskState]
    BY <1>3, LaunchType DEF lambda_returns, Pending
  <2>4. resp' \in Response /\ client' \in Client
    BY <2>1, <2>2, MakeCallType
  <2> QED
    BY <1>3, <2>3, <2>4 DEF TypeOK, lambda_returns
<1>4. CASE lambda_throws(t)
  <2>1. task' \in [Tasks -> TaskState]
    BY <1>4, LaunchType DEF lambda_throws, Pending
  <2>2. ErrorResponse(500) \in Response
    BY ErrorResponseType
  <2>3. resp' \in Response /\ client' \in Client
    BY <1>4, <2>2, SendSerializedType DEF TypeOK, lambda_throws
  <2> QED
    BY <1>4, <2>1, <2>3, NoCallsType DEF TypeOK, lambda_throws
<1> QED
  BY <1>1, <1>2, <1>3, <1>4 DEF Pooled

LEMMA FinishingType ==
    ASSUME TypeOK, NEW t \in Tasks, Finishing(t)
    PROVE  TypeOK'
<1> USE DEF life, flags, work, wire
<1>1. CASE run_finish(t)
  <2>1. task' \in [Tasks -> TaskState]
    BY <1>1, GotoType DEF run_finish, Place
  <2> QED
    BY <1>1, <2>1 DEF TypeOK, run_finish
<1>2. CASE finish_clear(t)
  <2>1. task' \in [Tasks -> TaskState]
    BY <1>2, GotoType DEF finish_clear, Place
  <2> QED
    BY <1>2, <2>1 DEF TypeOK, finish_clear
<1>3. CASE finish_touch(t)
  <2>1. task' \in [Tasks -> TaskState]
    BY <1>3, GotoType DEF finish_touch, Place
  <2> QED
    BY <1>3, <2>1, TimeoutAssumption DEF TypeOK, finish_touch
<1>4. CASE finish_next(t)
  <2>1. task' \in [Tasks -> TaskState]
    BY <1>4, GotoType, LaunchType DEF finish_next, Place, Pending, SocketOps
  <2> QED
    BY <1>4, <2>1 DEF TypeOK, finish_next
<1>5. CASE write_done(t)
  <2>1. task' \in [Tasks -> TaskState]
    BY <1>5, GotoType DEF write_done, Place
  <2> QED
    BY <1>5, <2>1 DEF TypeOK, write_done
<1>6. CASE return(t)
  <2>1. task' \in [Tasks -> TaskState]
    BY <1>6, TaskStates DEF TypeOK, return
  <2> QED
    BY <1>6, <2>1 DEF TypeOK, return
<1> QED
  BY <1>1, <1>2, <1>3, <1>4, <1>5, <1>6 DEF Finishing

LEMMA OutsideType ==
    ASSUME TypeOK, NEW t \in Tasks,
           Resume(t) \/ Accept(t) \/ AcceptFails(t) \/ Receive(t) \/ Drain(t)
    PROVE  TypeOK'
<1> USE DEF life, flags, work, wire
<1>1. CASE Resume(t)
  <2>1. task' \in [Tasks -> TaskState]
    BY <1>1, OutcomeType DEF Resume, Outcome, Pending
  <2> QED
    BY <1>1, <2>1 DEF TypeOK, Resume
<1>2. CASE Accept(t)
  <2>1. task' \in [Tasks -> TaskState]
    BY <1>2, GotoType DEF Accept, Place
  <2> QED
    BY <1>2, <2>1 DEF TypeOK, Accept
<1>3. CASE AcceptFails(t)
  <2>1. task' \in [Tasks -> TaskState]
    BY <1>3, GotoType DEF AcceptFails, Place
  <2> QED
    BY <1>3, <2>1 DEF TypeOK, AcceptFails
<1>4. CASE Receive(t)
  <2>1. task' \in [Tasks -> TaskState]
    BY <1>4, OutcomeType DEF Receive, Pending, SocketOps
  <2> QED
    BY <1>4, <2>1 DEF TypeOK, Receive
<1>5. CASE Drain(t)
  <2>1. task[t].k \in Pending
    BY <1>5 DEF Drain, Async, Pending, SocketOps
  <2>2. task' \in [Tasks -> TaskState]
    <3>1. \E st \in Outcome : task' = [task EXCEPT ![t].st = st]
      BY <1>5 DEF Drain, Outcome
    <3> QED
      BY <2>1, <3>1, OutcomeType
  <2>3. client' \in Client
    BY <1>5, SendSerializedType DEF TypeOK, Drain
  <2> QED
    BY <1>5, <2>2, <2>3 DEF TypeOK, Drain
<1> QED
  BY <1>1, <1>2, <1>3, <1>4, <1>5

LEMMA EnvironmentType ==
    ASSUME TypeOK,
           HalfClose \/ Reset \/ Tick \/ Pin \/ cancel \/ Unpin \/ Erase \/ UNCHANGED vars
    PROVE  TypeOK'
<1> USE DEF life, flags, work, wire
<1>1. CASE HalfClose \/ Reset \/ Pin \/ Unpin \/ Erase \/ UNCHANGED vars
  BY <1>1 DEF TypeOK, HalfClose, Reset, Pin, Unpin, Erase, vars
<1>2. CASE Tick
  BY <1>2, TimeoutAssumption DEF TypeOK, Tick
<1>3. CASE cancel
  BY <1>3, AbortedType DEF TypeOK, cancel
<1> QED
  BY <1>1, <1>2, <1>3

\* Every state change of the connection keeps its variables within the
\* values the code can give them, whatever the handlers do.
THEOREM TypeCorrect == Spec => []TypeOK
<1>1. Init => TypeOK
  <2> SUFFICES ASSUME Init PROVE TypeOK
    OBVIOUS
  <2>1. task \in [Tasks -> TaskState]
    <3>1. PICK t \in Tasks :
            task = [u \in Tasks |-> IF u = t THEN Async("accept", "wait") ELSE Free]
      BY DEF Init
    <3>2. Async("accept", "wait") \in TaskState /\ Free \in TaskState
      BY TaskStates DEF Pending, Outcome
    <3> QED
      BY <3>1, <3>2
  <2>2. resp \in Response
    BY NewResponseType DEF Init
  <2>3. client \in Client
    BY DEF Init, InitClient, Client, ClientStates
  <2>4. prog \in [io : Seq(Call), job : Seq(Call)]
    BY NoCallsType DEF Init
  <2>5. req \in [body : BodyKinds, keep : BOOLEAN]
    BY DEF Init, BodyKinds
  <2>6. age \in 0 .. kIdleTimeout + 1
    BY TimeoutAssumption DEF Init
  <2> QED
    BY <2>1, <2>2, <2>3, <2>4, <2>5, <2>6 DEF Init, TypeOK
<1>2. TypeOK /\ [Next]_vars => TypeOK'
  <2> SUFFICES ASSUME TypeOK, [Next]_vars PROVE TypeOK'
    OBVIOUS
  <2>1. ASSUME NEW t \in Tasks, Server(t) \/ Environment(t) PROVE TypeOK'
    BY <2>1, ReadingType, HandlingType, PooledType, FinishingType, OutsideType
       DEF Server, Environment
  <2> QED
    BY <2>1, EnvironmentType DEF Next
<1> QED
  BY <1>1, <1>2, PTL DEF Spec

-----------------------------------------------------------------------------
(* One driver, its flag and its socket.                                    *)
(*                                                                         *)
(* The three invariants are proved together: the flag and the socket of    *)
(* the driver survive a step because no other task drives, and a task that *)
(* starts an operation finds the socket open.                              *)

Safe == SoleDriver /\ ProcessingFlag /\ OpenWhileDriven

\* After the step nobody but w drives, and w has reached s.
Only(w, s) == \A u \in Tasks : (Driving(u))' => u = w /\ task'[u] = s

\* What is_processing_ and the socket have to be for a driver at s.
Fits(s, p, so) ==
    /\ IdleTask(s) => ~p
    /\ BusyTask(s) => p
    /\ so = IF s.k = "accept" THEN "new" ELSE "open"

LEMMA RestingTask ==
    ASSUME NEW s \in {Free, Run("ret")}
    PROVE  ~IdleTask(s) /\ ~BusyTask(s)
BY DEF IdleTask, BusyTask, Free, Run

\* If a step leaves one driver, in a place that fits, the invariants hold.
LEMMA OnlySafe ==
    ASSUME NEW w, NEW s, Only(w, s), Fits(s, proc', sock')
    PROVE  Safe'
<1>1. SoleDriver'
  BY DEF Only, SoleDriver
<1>2. ASSUME NEW u \in Tasks
      PROVE  (IdleTask(task'[u]) => ~proc') /\ (BusyTask(task'[u]) => proc')
  <2>1. CASE (Driving(u))'
    BY <2>1 DEF Only, Fits
  <2>2. CASE ~(Driving(u))'
    BY <2>2, RestingTask DEF Driving
  <2> QED
    BY <2>1, <2>2
<1>3. ASSUME NEW u \in Tasks, (Driving(u))'
      PROVE  sock' = IF task'[u].k = "accept" THEN "new" ELSE "open"
  BY <1>3 DEF Only, Fits
<1> QED
  BY <1>1, <1>2, <1>3 DEF Safe, ProcessingFlag, OpenWhileDriven

\* If it leaves none, they hold as well.
LEMMA NoneSafe ==
    ASSUME \A u \in Tasks : ~(Driving(u))'
    PROVE  Safe'
<1>1. ASSUME NEW u \in Tasks
      PROVE  ~IdleTask(task'[u]) /\ ~BusyTask(task'[u])
  BY <1>1, RestingTask DEF Driving
<1> QED
  BY <1>1 DEF Safe, SoleDriver, ProcessingFlag, OpenWhileDriven

LEMMA GotoOnly ==
    ASSUME TypeOK, SoleDriver, NEW t \in Tasks, Driving(t), NEW pc, Goto(t, pc)
    PROVE  Only(t, Run(pc))
BY DEF TypeOK, SoleDriver, Driving, Goto, Only

LEMMA RetNone ==
    ASSUME TypeOK, SoleDriver, NEW t \in Tasks, Driving(t), Goto(t, "ret")
    PROVE  \A u \in Tasks : ~(Driving(u))'
BY DEF TypeOK, SoleDriver, Driving, Goto

LEMMA LaunchOnly ==
    ASSUME TypeOK, SoleDriver, NEW t \in Tasks, Driving(t), sock = "open",
           NEW k, Launch(t, k)
    PROVE  \E w \in Tasks : Only(w, Async(k, "wait"))
<1>1. PICK w \in Tasks :
        /\ task[w] = Free
        /\ task' = [task EXCEPT ![w] = Async(k, "wait"), ![t] = Run("ret")]
  BY DEF Launch
<1>2. ASSUME NEW u \in Tasks, (Driving(u))'
      PROVE  u = w /\ task'[u] = Async(k, "wait")
  BY <1>1, <1>2 DEF TypeOK, SoleDriver, Driving
<1> QED
  BY <1>2 DEF Only

LEMMA CloseNone ==
    ASSUME TypeOK, SoleDriver, NEW t \in Tasks, Driving(t), close(t)
    PROVE  \A u \in Tasks : ~(Driving(u))'
<1> SUFFICES ASSUME NEW u \in Tasks PROVE ~(Driving(u))'
  OBVIOUS
<1>1. CASE u = t
  <2>1. task'[u] = Run("ret")
    BY <1>1 DEF TypeOK, close, Aborted
  <2> QED
    BY <2>1 DEF Driving
<1>2. CASE u # t
  <2>1. task[u] \in {Free, Run("ret")}
    BY <1>2 DEF SoleDriver, Driving
  <2>2. task[u].k \notin SocketOps
    BY <2>1 DEF Free, Run, SocketOps
  <2>3. task'[u] = task[u]
    BY <1>2, <2>2 DEF TypeOK, close, Aborted
  <2> QED
    BY <2>1, <2>3 DEF Driving
<1> QED
  BY <1>1, <1>2

\* Launching an operation that is_processing_ agrees with.
LEMMA LaunchSafe ==
    ASSUME TypeOK, Safe, NEW t \in Tasks, Driving(t), task[t].k # "accept",
           NEW k \in Pending \ {"accept"}, Launch(t, k),
           IF k = "header" THEN ~proc' ELSE proc', sock' = sock
    PROVE  Safe'
<1>1. sock = "open"
  BY DEF Safe, OpenWhileDriven
<1>2. PICK w \in Tasks : Only(w, Async(k, "wait"))
  BY <1>1, LaunchOnly DEF Safe
<1>3. Fits(Async(k, "wait"), proc', sock')
  BY <1>1 DEF Fits, IdleTask, BusyTask, Async, Run, Pending, SocketOps
<1> QED
  BY <1>2, <1>3, OnlySafe

\* Moving on to a place that is_processing_ agrees with.
LEMMA GotoSafe ==
    ASSUME TypeOK, Safe, NEW t \in Tasks, Driving(t), task[t].k # "accept",
           NEW pc \in Place \ {"ret"}, Goto(t, pc),
           IF pc \in {"parse", "handler", "lambda", "fin1"} THEN proc' ELSE ~proc',
           sock' = sock
    PROVE  Safe'
<1>1. sock = "open"
  BY DEF Safe, OpenWhileDriven
<1>2. Only(t, Run(pc))
  BY GotoOnly DEF Safe
<1>3. Fits(Run(pc), proc', sock')
  BY <1>1 DEF Fits, IdleTask, BusyTask, Run, Place
<1> QED
  BY <1>2, <1>3, OnlySafe

LEMMA ReadingSafe ==
    ASSUME TypeOK, Safe, NEW t \in Tasks, Reading(t)
    PROVE  Safe'
<1> USE DEF life, flags, work, wire
<1>0. (IdleTask(task[t]) => ~proc) /\ (BusyTask(task[t]) => proc)
  BY DEF Safe, ProcessingFlag
<1>1. CASE start(t)
  <2>1. Driving(t) /\ task[t].k # "accept" /\ ~proc
    BY <1>0, <1>1 DEF start, Driving, Free, Run, IdleTask
  <2>2. Launch(t, "header") /\ ~proc' /\ sock' = sock
    BY <1>1, <2>1 DEF start
  <2> QED
    BY <2>1, <2>2, LaunchSafe DEF Pending, SocketOps
<1>2. CASE read_header(t)
  <2>1. Driving(t) /\ task[t].k # "accept"
    BY <1>2 DEF read_header, Driving, Free, Run, Async
  <2>2. Goto(t, "parse") /\ proc' = TRUE /\ sock' = sock
    BY <1>2 DEF read_header
  <2> QED
    BY <2>1, <2>2, GotoSafe DEF Place
<1>3. CASE read_error(t)
  <2>1. Driving(t)
    BY <1>3 DEF read_error, Driving, Free, Run
  <2>2. Goto(t, "ret") \/ close(t)
    BY <1>3 DEF read_error
  <2> QED
    BY <2>1, <2>2, RetNone, CloseNone, NoneSafe DEF Safe
<1>4. CASE malformed(t)
  <2>1. Driving(t) /\ close(t)
    BY <1>4 DEF malformed, Driving, Free, Run
  <2> QED
    BY <2>1, CloseNone, NoneSafe DEF Safe
<1>5. CASE read_body(t)
  <2>1. Driving(t) /\ task[t].k # "accept" /\ proc' = TRUE /\ sock' = sock
    BY <1>0, <1>5 DEF read_body, Driving, Free, Run, BusyTask
  <2>2. Goto(t, "handler") \/ Launch(t, "body") \/ Launch(t, "write")
    BY <1>5 DEF read_body, dispatch, reject_payload_too_large, write_buffered
  <2> QED
    BY <2>1, <2>2, GotoSafe, LaunchSafe DEF Place, Pending, SocketOps
<1>6. CASE body_complete(t) \/ read_chunk(t) \/ chunk_too_large(t)
  <2>1. task[t] = Async("body", "ok")
    BY <1>6 DEF body_complete, read_chunk, chunk_too_large
  <2>2. Driving(t) /\ task[t].k # "accept" /\ proc
    BY <1>0, <2>1 DEF Driving, Free, Run, Async, BusyTask
  <2>3. proc' /\ sock' = sock
    BY <1>6, <2>2 DEF body_complete, read_chunk, chunk_too_large
  <2>4. Goto(t, "handler") \/ Launch(t, "body") \/ Launch(t, "write")
    BY <1>6 DEF body_complete, read_chunk, chunk_too_large, dispatch,
       reject_payload_too_large, write_buffered
  <2> QED
    BY <2>2, <2>3, <2>4, GotoSafe, LaunchSafe DEF Place, Pending, SocketOps
<1>7. CASE body_error(t)
  <2>1. Driving(t) /\ close(t)
    BY <1>7 DEF body_error, Driving, Free, Run
  <2> QED
    BY <2>1, CloseNone, NoneSafe DEF Safe
<1> QED
  BY <1>1, <1>2, <1>3, <1>4, <1>5, <1>6, <1>7 DEF Reading

\* A call on the response moves no task.
LEMMA UnmovedSafe ==
    ASSUME Safe, UNCHANGED <<task, proc, sock>>
    PROVE  Safe'
BY DEF Safe, SoleDriver, ProcessingFlag, OpenWhileDriven, Driving

LEMMA HandlingSafe ==
    ASSUME TypeOK, Safe, NEW t \in Tasks, Handling(t)
    PROVE  Safe'
<1> USE DEF life, flags, work, wire
<1>1. task[t] = Run("handler")
  BY DEF Handling, handler_call, handler_throws, finish_buffered, finish_immediate,
     post_stream_work, HandlerReturned
<1>2. Driving(t) /\ task[t].k # "accept" /\ proc
  BY <1>1 DEF Safe, ProcessingFlag, BusyTask, Driving, Free, Run
<1>3. CASE handler_call(t)
  BY <1>3, UnmovedSafe DEF handler_call
<1>4. CASE handler_throws(t)
  <2>1. Goto(t, "fin1") \/ Launch(t, "write")
    BY <1>4 DEF handler_throws, write_buffered
  <2>2. proc' = TRUE /\ sock' = sock
    BY <1>2, <1>4 DEF handler_throws, TypeOK
  <2> QED
    BY <1>2, <2>1, <2>2, GotoSafe, LaunchSafe DEF Place, Pending, SocketOps
<1>5. CASE finish_buffered(t) \/ finish_immediate(t) \/ post_stream_work(t)
  <2>1. Goto(t, "fin1") \/ Launch(t, "write") \/ Launch(t, "job")
    BY <1>5 DEF finish_buffered, finish_immediate, post_stream_work, write_buffered
  <2>2. proc' = TRUE /\ sock' = sock
    BY <1>2, <1>5 DEF finish_buffered, finish_immediate, post_stream_work, TypeOK
  <2> QED
    BY <1>2, <2>1, <2>2, GotoSafe, LaunchSafe DEF Place, Pending, SocketOps
<1> QED
  BY <1>3, <1>4, <1>5 DEF Handling

LEMMA PooledSafe ==
    ASSUME TypeOK, Safe, NEW t \in Tasks, Pooled(t)
    PROVE  Safe'
<1> USE DEF life, flags, work, wire
<1>1. task[t] \in {Async("job", "wait"), Run("lambda")}
  BY DEF Pooled, run_lambda, lambda_call, lambda_returns, lambda_throws
<1>2. Driving(t) /\ task[t].k # "accept" /\ proc
  BY <1>1 DEF Safe, ProcessingFlag, BusyTask, Driving, Free, Run, Async
<1>3. CASE lambda_call(t)
  BY <1>3, UnmovedSafe DEF lambda_call
<1>4. CASE run_lambda(t) \/ lambda_returns(t) \/ lambda_throws(t)
  <2>1. Goto(t, "lambda") \/ Launch(t, "finish")
    BY <1>4 DEF run_lambda, lambda_returns, lambda_throws
  <2>2. proc' = TRUE /\ sock' = sock
    BY <1>2, <1>4 DEF run_lambda, lambda_returns, lambda_throws, TypeOK
  <2> QED
    BY <1>2, <2>1, <2>2, GotoSafe, LaunchSafe DEF Place, Pending
<1> QED
  BY <1>3, <1>4 DEF Pooled

LEMMA FinishingSafe ==
    ASSUME TypeOK, Safe, NEW t \in Tasks, Finishing(t)
    PROVE  Safe'
<1> USE DEF life, flags, work, wire
<1>1. CASE run_finish(t)
  <2>1. Driving(t) /\ task[t].k # "accept" /\ proc
    BY <1>1 DEF run_finish, Safe, ProcessingFlag, BusyTask, Driving, Free, Run, Async
  <2>2. Goto(t, "fin1") /\ proc' = TRUE /\ sock' = sock
    BY <1>1, <2>1 DEF run_finish, TypeOK
  <2> QED
    BY <2>1, <2>2, GotoSafe DEF Place
<1>2. CASE finish_clear(t)
  <2>1. Driving(t) /\ task[t].k # "accept"
    BY <1>2 DEF finish_clear, Driving, Free, Run
  <2>2. Goto(t, "fin2") /\ proc' = FALSE /\ sock' = sock
    BY <1>2 DEF finish_clear
  <2> QED
    BY <2>1, <2>2, GotoSafe DEF Place
<1>3. CASE finish_touch(t)
  <2>1. Driving(t) /\ task[t].k # "accept" /\ ~proc
    BY <1>3 DEF finish_touch, Safe, ProcessingFlag, IdleTask, Driving, Free, Run
  <2>2. Goto(t, "fin3") /\ proc' = FALSE /\ sock' = sock
    BY <1>3, <2>1 DEF finish_touch, TypeOK
  <2> QED
    BY <2>1, <2>2, GotoSafe DEF Place
<1>4. CASE finish_next(t)
  <2>1. Driving(t) /\ task[t].k # "accept" /\ ~proc
    BY <1>4 DEF finish_next, Safe, ProcessingFlag, IdleTask, Driving, Free, Run
  <2>2. CASE keep
    <3>1. Launch(t, "header") /\ proc' = FALSE /\ sock' = sock
      BY <1>4, <2>1, <2>2 DEF finish_next, TypeOK
    <3> QED
      BY <2>1, <3>1, LaunchSafe DEF Pending, SocketOps
  <2>3. CASE ~keep
    BY <1>4, <2>1, <2>3, RetNone, NoneSafe DEF finish_next, Safe
  <2> QED
    BY <2>2, <2>3
<1>5. CASE write_done(t)
  <2>1. Driving(t) /\ task[t].k # "accept" /\ proc' = FALSE /\ sock' = sock
    BY <1>5 DEF write_done, Driving, Free, Run
  <2>2. Goto(t, "fin2") \/ Goto(t, "ret")
    BY <1>5 DEF write_done
  <2> QED
    BY <2>1, <2>2, GotoSafe, RetNone, NoneSafe DEF Place, Safe
<1>6. CASE return(t)
  <2>1. ASSUME NEW u \in Tasks, (Driving(u))'
        PROVE  Driving(u) /\ task'[u] = task[u] /\ sock' = sock
    BY <1>6, <2>1 DEF return, TypeOK, Driving, Unreferenced
  <2>2. proc' = proc
    BY <1>6 DEF return
  <2>3. ASSUME NEW u \in Tasks
        PROVE  (IdleTask(task'[u]) => ~proc') /\ (BusyTask(task'[u]) => proc')
    <3>1. CASE (Driving(u))'
      BY <2>1, <2>2, <3>1 DEF Safe, ProcessingFlag
    <3>2. CASE ~(Driving(u))'
      BY <3>2, RestingTask DEF Driving
    <3> QED
      BY <3>1, <3>2
  <2>4. SoleDriver' /\ OpenWhileDriven'
    BY <2>1 DEF Safe, SoleDriver, OpenWhileDriven
  <2> QED
    BY <2>3, <2>4 DEF Safe, ProcessingFlag
<1> QED
  BY <1>1, <1>2, <1>3, <1>4, <1>5, <1>6 DEF Finishing

\* A step that changes no more than the outcome of pending operations.
LEMMA OutcomeSafe ==
    ASSUME TypeOK, Safe, sock' = sock, proc' = proc,
           task' \in [Tasks -> TaskState],
           \A u \in Tasks :
              \/ task'[u] = task[u]
              \/ task[u].k \in SocketOps /\ task'[u].k = task[u].k
    PROVE  Safe'
<1>1. ASSUME NEW u \in Tasks
      PROVE  /\ (Driving(u))' => Driving(u)
             /\ task'[u].k = task[u].k
             /\ IdleTask(task'[u]) => IdleTask(task[u])
             /\ BusyTask(task'[u]) => BusyTask(task[u])
  <2>1. CASE task'[u] = task[u]
    BY <2>1 DEF Driving
  <2>2. CASE task[u].k \in SocketOps /\ task'[u].k = task[u].k
    BY <2>2 DEF Driving, IdleTask, BusyTask, SocketOps, Free, Run
  <2> QED
    BY <2>1, <2>2
<1>2. SoleDriver' /\ OpenWhileDriven'
  BY <1>1 DEF Safe, SoleDriver, OpenWhileDriven
<1>3. ProcessingFlag'
  BY <1>1 DEF Safe, ProcessingFlag
<1> QED
  BY <1>2, <1>3 DEF Safe

LEMMA OutsideSafe ==
    ASSUME TypeOK, TypeOK', Safe, NEW t \in Tasks,
           Resume(t) \/ Accept(t) \/ AcceptFails(t) \/ Receive(t) \/ Drain(t)
    PROVE  Safe'
<1> USE DEF life, flags, work, wire
<1>0. task' \in [Tasks -> TaskState]
  BY DEF TypeOK
<1>1. CASE Resume(t) \/ Receive(t) \/ Drain(t)
  <2>1. sock' = sock /\ proc' = proc /\ task[t].k \in SocketOps
    BY <1>1 DEF Resume, Receive, Drain, SocketOps, Async
  <2>2. \E st : task' = [task EXCEPT ![t].st = st]
    BY <1>1 DEF Resume, Receive, Drain
  <2>3. ASSUME NEW u \in Tasks
        PROVE  \/ task'[u] = task[u]
               \/ task[u].k \in SocketOps /\ task'[u].k = task[u].k
    <3>1. CASE u # t
      BY <2>2, <3>1 DEF TypeOK
    <3>2. CASE u = t
      <4>1. task[t] \in [k : Pending, st : Outcome]
        BY <2>1 DEF TypeOK, TaskState, SocketOps
      <4> QED
        BY <2>1, <2>2, <3>2, <4>1 DEF TypeOK
    <3> QED
      BY <3>1, <3>2
  <2> QED
    BY <1>0, <2>1, <2>3, OutcomeSafe
<1>2. CASE Accept(t)
  <2>1. Driving(t) /\ ~proc
    BY <1>2 DEF Accept, Safe, ProcessingFlag, IdleTask, Driving, Free, Run, Async
  <2>2. Only(t, Run("start"))
    BY <1>2, <2>1, GotoOnly DEF Accept, Safe
  <2>3. ~proc' /\ sock' = "open"
    BY <1>2, <2>1 DEF Accept
  <2>4. Fits(Run("start"), proc', sock')
    BY <2>3 DEF Fits, IdleTask, BusyTask, Run
  <2> QED
    BY <2>2, <2>4, OnlySafe
<1>3. CASE AcceptFails(t)
  <2>1. Driving(t)
    BY <1>3 DEF AcceptFails, Driving, Free, Run, Async
  <2> QED
    BY <1>3, <2>1, RetNone, NoneSafe DEF AcceptFails, Safe
<1> QED
  BY <1>1, <1>2, <1>3

LEMMA EnvironmentSafe ==
    ASSUME TypeOK, TypeOK', Safe,
           HalfClose \/ Reset \/ Tick \/ Pin \/ cancel \/ Unpin \/ Erase \/ UNCHANGED vars
    PROVE  Safe'
<1> USE DEF life, flags, work, wire
<1>1. CASE HalfClose \/ Reset \/ Tick \/ Pin \/ Erase \/ UNCHANGED vars
  BY <1>1, UnmovedSafe DEF HalfClose, Reset, Tick, Pin, Erase, vars
<1>2. CASE cancel
  <2>1. sock' = sock /\ proc' = proc /\ task' \in [Tasks -> TaskState]
    BY <1>2 DEF cancel, TypeOK
  <2>2. ASSUME NEW u \in Tasks
        PROVE  \/ task'[u] = task[u]
               \/ task[u].k \in SocketOps /\ task'[u].k = task[u].k
    BY <1>2 DEF cancel, Aborted, Async
  <2> QED
    BY <2>1, <2>2, OutcomeSafe
<1>3. CASE Unpin
  <2>1. CASE \A u \in Tasks : task[u] = Free
    BY <1>3, <2>1, NoneSafe DEF Unpin, Driving
  <2>2. CASE ~\A u \in Tasks : task[u] = Free
    BY <1>3, <2>2, UnmovedSafe DEF Unpin, Unreferenced
  <2> QED
    BY <2>1, <2>2
<1> QED
  BY <1>1, <1>2, <1>3

LEMMA InitSafe == Init => Safe
<1> SUFFICES ASSUME Init PROVE Safe
  OBVIOUS
<1>1. PICK t \in Tasks :
        task = [u \in Tasks |-> IF u = t THEN Async("accept", "wait") ELSE Free]
  BY DEF Init
<1>2. ASSUME NEW u \in Tasks, Driving(u)
      PROVE  u = t /\ task[u] = Async("accept", "wait")
  BY <1>1, <1>2 DEF Driving
<1>3. SoleDriver /\ OpenWhileDriven
  BY <1>2 DEF Init, SoleDriver, OpenWhileDriven, Async
<1>4. ASSUME NEW u \in Tasks
      PROVE  ~BusyTask(task[u])
  BY <1>1 DEF BusyTask, Free, Async, Run
<1> QED
  BY <1>3, <1>4 DEF Safe, ProcessingFlag, Init

\* The inductive invariant of the connection.
LEMMA SafeInvariant == Spec => []Safe
<1>1. TypeOK /\ TypeOK' /\ Safe /\ [Next]_vars => Safe'
  <2> SUFFICES ASSUME TypeOK, TypeOK', Safe, [Next]_vars PROVE Safe'
    OBVIOUS
  <2>1. ASSUME NEW t \in Tasks, Server(t) \/ Environment(t) PROVE Safe'
    BY <2>1, ReadingSafe, HandlingSafe, PooledSafe, FinishingSafe, OutsideSafe
       DEF Server, Environment
  <2> QED
    BY <2>1, EnvironmentSafe DEF Next
<1> QED
  BY <1>1, InitSafe, TypeCorrect, PTL DEF Spec

\* At most one handler, thread or lambda works on a connection at any time,
\* with any number of io threads and no strand, whatever the handlers do and
\* whenever the timer cancels.
THEOREM OneDriver == Spec => []SoleDriver
BY SafeInvariant, PTL DEF Safe

\* is_processing_ is set exactly while a request is in progress: the timer
\* never mistakes a request in progress for an idle connection by its flag.
THEOREM FlagTracksRequest == Spec => []ProcessingFlag
BY SafeInvariant, PTL DEF Safe

\* The socket is open under every operation and every thread that works on
\* the connection.
THEOREM DriverHasSocket == Spec => []OpenWhileDriven
BY SafeInvariant, PTL DEF Safe

-----------------------------------------------------------------------------
(* The scan is an environment Connection allows.                           *)

\* What runs beside the scan is a step of Connection,
LEMMA OthersStep == Others => Next
BY DEF Others, Next

\* and so is what the scan does to the connection, if it does anything.
LEMMA ScanStep == Scan => [Next]_vars
<1>1. scan_expires \/ scan_flag \/ scan_time => UNCHANGED vars
  BY DEF scan_expires, scan_flag, scan_time
<1>2. scan_lock \/ scan_erase \/ scan_cancel \/ scan_release => Next
  BY DEF scan_lock, scan_erase, scan_cancel, scan_release, Next
<1> QED
  BY <1>1, <1>2 DEF Scan

\* Every behaviour with the timer running is one of Connection, by the way
\* the actions of IdleReaper are written.
LEMMA ReaperBehaves == ReaperSpec => Spec
<1>1. ReaperInit => Init
  BY DEF ReaperInit
<1>2. [ReaperNext]_reaperVars => [Next]_vars
  BY OthersStep, ScanStep DEF ReaperNext, reaperVars
<1> QED
  BY <1>1, <1>2, PTL DEF ReaperSpec, Spec

\* So the theorems about Connection hold with the timer running: whatever the
\* scan cancels and whenever, one task at a time drives the connection, its
\* flag brackets the request and its socket is open under it.
COROLLARY SafeWithTimer == ReaperSpec => [](TypeOK /\ Safe)
BY ReaperBehaves, TypeCorrect, SafeInvariant, PTL

-----------------------------------------------------------------------------
(* What the scan holds, and what it leaves alone.                          *)

\* The scan's temporary shared_ptr exists from lock() to the end of the
\* visit, and the connection with it; the entry stays until the scan itself
\* erases it.  The guards that scan_lock, scan_erase, scan_cancel and
\* scan_release take over from Connection (reg, ~pin, pin) thus never keep
\* the scan from going on.
Held ==
    /\ scan # "asleep" => reg
    /\ pin <=> scan \in {"flag", "time", "cancel", "release"}
    /\ pin => sock # "destroyed"

\* A thread that drops its reference does not destroy what the scan holds,
\* and nothing else destroys it.
LEMMA OthersHeld ==
    ASSUME Held, Others
    PROVE  Held'
<1> USE DEF life, flags, work, wire
<1>1. scan' = scan
  BY DEF Others
<1>2. ASSUME NEW t \in Tasks, Server(t) \/ Environment(t)
      PROVE  /\ pin' = pin /\ (reg => reg')
             /\ pin /\ sock # "destroyed" => sock' # "destroyed"
  <2>1. CASE Reading(t)
    <3>1. CASE start(t) \/ read_header(t) \/ read_body(t) \/ body_complete(t)
               \/ read_chunk(t) \/ chunk_too_large(t)
      BY <3>1 DEF start, read_header, read_body, body_complete, read_chunk, chunk_too_large
    <3>2. CASE read_error(t) \/ malformed(t) \/ body_error(t)
      BY <3>2 DEF read_error, malformed, body_error, close
    <3> QED
      BY <2>1, <3>1, <3>2 DEF Reading
  <2>2. CASE Handling(t)
    BY <2>2 DEF Handling, handler_call, handler_throws, finish_buffered, finish_immediate,
       post_stream_work
  <2>3. CASE Pooled(t)
    BY <2>3 DEF Pooled, run_lambda, lambda_call, lambda_returns, lambda_throws
  <2>4. CASE Finishing(t)
    BY <2>4 DEF Finishing, run_finish, finish_clear, finish_touch, finish_next, write_done,
       return, Unreferenced
  <2>5. CASE Resume(t) \/ Environment(t)
    BY <2>5 DEF Resume, Environment, Accept, AcceptFails, Receive, Drain
  <2> QED
    BY <1>2, <2>1, <2>2, <2>3, <2>4, <2>5 DEF Server
<1>3. CASE HalfClose \/ Reset \/ Tick
  BY <1>1, <1>3 DEF HalfClose, Reset, Tick, Held
<1> QED
  BY <1>1, <1>2, <1>3 DEF Others, Held

LEMMA ScanHeld ==
    ASSUME Held, Scan
    PROVE  Held'
<1> USE DEF life, flags, work, wire
<1>1. CASE scan_expires \/ scan_flag \/ scan_time
  <2>1. UNCHANGED <<reg, pin, sock>>
    BY <1>1 DEF scan_expires, scan_flag, scan_time, vars
  <2>2. \/ scan = "asleep" /\ reg /\ scan' = "visit"
        \/ scan = "flag" /\ scan' \in {"release", "time"}
        \/ scan = "time" /\ scan' \in {"release", "cancel"}
    BY <1>1 DEF scan_expires, scan_flag, scan_time
  <2> QED
    BY <2>1, <2>2 DEF Held
<1>2. CASE scan_lock
  BY <1>2 DEF scan_lock, Pin, Held
<1>3. CASE scan_erase
  BY <1>3 DEF scan_erase, Erase, Held
<1>4. CASE scan_cancel
  BY <1>4 DEF scan_cancel, cancel, Held
<1>5. CASE scan_release
  BY <1>5 DEF scan_release, Unpin, Held
<1> QED
  BY <1>1, <1>2, <1>3, <1>4, <1>5 DEF Scan

\* From the moment it has locked the weak_ptr until it lets go the scan looks
\* at a connection that exists, whichever thread drops the last reference of
\* the handler chain meanwhile.
THEOREM ScanHoldsConnection == ReaperSpec => []Held
<1>1. ReaperInit => Held
  BY DEF ReaperInit, Init, Held
<1>2. Held /\ [ReaperNext]_reaperVars => Held'
  <2>1. CASE UNCHANGED reaperVars
    BY <2>1 DEF reaperVars, vars, Held
  <2> QED
    BY <2>1, OthersHeld, ScanHeld DEF ReaperNext
<1> QED
  BY <1>1, <1>2, PTL DEF ReaperSpec

\* Once the scan has found is_processing_ clear, the history is.
Passed == scan \in {"time", "cancel"} => ~through

\* A request that is in progress all through a visit is not cut.  The scan
\* goes by is_processing_ alone; that the flag is set on every path of every
\* request, on the io thread and on the pool thread, is what it rests on.
THEOREM RequestsNotCut == ReaperSpec => []CutsNoRequest
<1>1. ReaperInit => Passed
  BY DEF ReaperInit, Passed
<1>2. TypeOK /\ Safe /\ Passed /\ [ReaperNext]_reaperVars => Passed'
  <2> SUFFICES ASSUME Safe, Passed, [ReaperNext]_reaperVars PROVE Passed'
    OBVIOUS
  <2>1. CASE UNCHANGED reaperVars
    BY <2>1 DEF reaperVars, Passed
  <2>2. CASE Others \/ scan_time
    BY <2>2 DEF Others, scan_time, Note, Passed
  <2>3. CASE scan_expires \/ scan_lock \/ scan_erase \/ scan_cancel \/ scan_release
    BY <2>3 DEF scan_expires, scan_lock, scan_erase, scan_cancel, scan_release, Passed
  <2>4. CASE scan_flag
    <3>1. CASE proc
      BY <2>4, <3>1 DEF scan_flag, Passed
    <3>2. CASE ~proc
      <4>1. ~Busy
        BY <3>2 DEF Safe, ProcessingFlag, Busy
      <4>2. task' = task /\ Note(FALSE)
        BY <2>4 DEF scan_flag, vars
      <4> QED
        BY <4>1, <4>2 DEF Note, Busy, Passed
    <3> QED
      BY <3>1, <3>2
  <2> QED
    BY <2>1, <2>2, <2>3, <2>4 DEF ReaperNext, Scan
<1>3. Passed => CutsNoRequest
  BY DEF Passed, CutsNoRequest
<1> QED
  BY <1>1, <1>2, <1>3, SafeWithTimer, PTL DEF ReaperSpec
=============================================================================
