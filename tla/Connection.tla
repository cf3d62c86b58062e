----------------------------- MODULE Connection -----------------------------
(***************************************************************************)
(* connection.cpp: the life of one Connection object, from the accept that *)
(* constructed it to its destructor.                                       *)
(*                                                                         *)
(* The io_context is run by several threads and the code uses no strand,   *)
(* so a connection is driven by a chain of completion handlers any of      *)
(* which may run on any thread.  A member of Tasks is one such handler:    *)
(* first an operation the io_context (or the handler pool) holds, then a   *)
(* thread that executes it, last a thread that has started the next        *)
(* operation and is on its way out.  Every task captures `self`, so the    *)
(* object lives as long as one of them, or the timer's temporary           *)
(* shared_ptr (pin), does.                                                 *)
(*                                                                         *)
(* The connection is cancelled by its environment here, at any time; how   *)
(* the idle timer decides to do so is IdleReaper's subject.                *)
(***************************************************************************)
EXTENDS HttpResponse, Sequences, FiniteSets

CONSTANTS Tasks,        \* handlers that can be outstanding at once (bound)
          kIdleTimeout, \* idle seconds after which is_idle() holds
          Requests,     \* what clients ask for: [body, keep]
          Handlers      \* handler programs: [io, job], sequences of calls

BodyKinds == {"none", "sized", "chunked", "toolarge"}

ASSUME TasksAssumption == IsFiniteSet(Tasks) /\ Tasks # {}
ASSUME TimeoutAssumption == kIdleTimeout \in Nat
ASSUME RequestsAssumption == Requests \subseteq [body : BodyKinds, keep : BOOLEAN]
ASSUME HandlersAssumption == Handlers \subseteq [io : Seq(Call), job : Seq(Call)]

VARIABLES
    task,    \* what each task is doing
    sock,    \* socket_, and whether the object still exists
    reg,     \* TimerManager::connections_ holds a weak_ptr to it
    pin,     \* the timer has locked that weak_ptr
    proc,    \* is_processing_
    age,     \* seconds since last_active_time_, saturating above kIdleTimeout
    keep,    \* keep_alive_
    req,     \* the request whose body is being read
    resp,    \* the response object
    prog,    \* calls the handler and its stream lambda have yet to make
    client,  \* the client's view of the response stream
    peer     \* the client's end: "up", "fin" (half-closed), "gone" (reset)

vars == <<task, sock, reg, pin, proc, age, keep, req, resp, prog, client, peer>>

life  == <<sock, reg, pin>>
flags == <<proc, age, keep>>
work  == <<req, resp, prog>>
wire  == <<client, peer>>

-----------------------------------------------------------------------------
(* Tasks.                                                                  *)

\* Asynchronous operations on the socket, and all that can be pending: the
\* accept that constructed the object, a lambda posted to the handler pool,
\* and the finish_request the lambda posts back.
SocketOps == {"header", "body", "write"}
Pending   == SocketOps \cup {"accept", "job", "finish"}

\* "more": part of the data came, the composed operation is about to wait
\* again.
Outcome == {"wait", "more", "ok", "eof", "abort", "fail"}

\* Where a thread is in the code: start(), read()'s handler after it set
\* is_processing_, HttpHandler::handle, the stream lambda, finish_request's
\* three statements, and the way out with nothing left to do but drop self.
Place == {"start", "parse", "handler", "lambda", "fin1", "fin2", "fin3", "ret"}

TaskState == [k : {"free"}, st : {"free"}] \cup [k : Pending, st : Outcome]
             \cup [k : {"run"}, st : Place]

Free         == [k |-> "free", st |-> "free"]
Run(pc)      == [k |-> "run", st |-> pc]
Async(k, st) == [k |-> k, st |-> st]

Goto(t, pc) == task' = [task EXCEPT ![t] = Run(pc)]

IsOpen == sock \in {"open", "shut"}

\* Start operation k in a fresh task; thread t has nothing left to do.
\* On a socket that is not open asio completes the operation at once.
Launch(t, k) ==
    \E u \in Tasks :
        /\ task[u] = Free
        /\ task' = [task EXCEPT
               ![u] = Async(k, IF k \in SocketOps /\ sock # "open"
                              THEN "fail" ELSE "wait"),
               ![t] = Run("ret")]

\* socket_.cancel(), and the first thing socket_.close() does: what waits in
\* the reactor completes with operation_aborted.
Aborted(f) ==
    [u \in Tasks |-> IF f[u].k \in SocketOps /\ f[u].st = "wait"
                     THEN Async(f[u].k, "abort") ELSE f[u]]

\* Connection::close() by thread t, which then returns.
close(t) ==
    /\ sock' = IF IsOpen THEN "closed" ELSE sock
    /\ task' = [(IF IsOpen THEN Aborted(task) ELSE task) EXCEPT ![t] = Run("ret")]

-----------------------------------------------------------------------------
(* Construction and start.                                                 *)

Init ==
    /\ \E t \in Tasks :
          task = [u \in Tasks |-> IF u = t THEN Async("accept", "wait") ELSE Free]
    /\ sock = "new" /\ reg = FALSE /\ pin = FALSE
    /\ proc = FALSE /\ age = 0 /\ keep = FALSE
    /\ req = [body |-> "none", keep |-> FALSE]
    /\ resp = NewResponse(200, "close")
    /\ prog = [io |-> <<>>, job |-> <<>>]
    /\ client = InitClient /\ peer = "up"

\* A client connects: HttpServer's handler registers the connection with the
\* timer and calls start().  last_active_time_ still is the time at which
\* the accept was posted.
Accept(t) ==
    /\ task[t] = Async("accept", "wait")
    /\ sock' = "open" /\ reg' = TRUE
    /\ Goto(t, "start")
    /\ UNCHANGED <<pin, flags, work, wire>>

\* The accept fails, or stop() closes the acceptor.
AcceptFails(t) ==
    /\ task[t] = Async("accept", "wait")
    /\ Goto(t, "ret")
    /\ UNCHANGED <<life, flags, work, wire>>

start(t) ==
    /\ task[t] = Run("start")
    /\ Launch(t, "header")
    /\ UNCHANGED <<life, flags, work, wire>>

-----------------------------------------------------------------------------
(* read() and the body readers.                                            *)

\* dispatch() up to the call of the handler.
dispatch(t, request) ==
    /\ keep' = request.keep
    /\ resp' = NewResponse(200, IF request.keep THEN "keep-alive" ELSE "close")
    /\ prog' \in Handlers
    /\ Goto(t, "handler")

\* The library's own responses, 500 and 413.
ErrorResponse(status) == set_body(NewResponse(status, "close"), 1)

write_buffered(t, r) == resp' = r /\ Launch(t, "write")

reject_payload_too_large(t) ==
    /\ keep' = FALSE
    /\ write_buffered(t, ErrorResponse(413))
    /\ UNCHANGED prog

\* The header of a request is complete.
read_header(t) ==
    /\ task[t] = Async("header", "ok")
    /\ proc' = TRUE
    /\ Goto(t, "parse")
    /\ UNCHANGED <<life, age, keep, work, wire>>

\* Mutant: errors other than eof and operation_aborted are retried.
read_error_retries(t) ==
    /\ task[t].k = "header" /\ task[t].st \in {"eof", "abort", "fail"}
    /\ proc' = FALSE
    /\ IF task[t].st = "fail" THEN Launch(t, "header") /\ UNCHANGED sock ELSE close(t)
    /\ UNCHANGED <<reg, pin, age, keep, work, wire>>

\* read() fails: eof and operation_aborted close the socket, other errors
\* leave that to the destructor.
read_error(t) ==
    /\ task[t].k = "header" /\ task[t].st \in {"eof", "abort", "fail"}
    /\ proc' = FALSE
    /\ IF task[t].st = "fail" THEN Goto(t, "ret") /\ UNCHANGED sock ELSE close(t)
    /\ UNCHANGED <<reg, pin, age, keep, work, wire>>

\* parse_header fails.  It does so only for a block without CRLF, which
\* async_read_until never delivers (see HttpRequest); the early return is
\* modelled all the same.
malformed(t) ==
    /\ task[t] = Run("parse")
    /\ age' = 0
    /\ close(t)
    /\ UNCHANGED <<reg, pin, proc, keep, work, wire>>

\* read_body: a chunked body is read piece by piece; of a sized one the part
\* that came with the header is taken first, which may be all of it.
read_body(t) ==
    /\ task[t] = Run("parse")
    /\ age' = 0
    /\ client' = IF peer = "gone" THEN client ELSE Expect(client)
    /\ \E request \in Requests :
          /\ req' = request
          /\ \/ /\ request.body \in {"none", "sized"}
                /\ dispatch(t, request)
             \/ /\ request.body \in {"sized", "chunked"}
                /\ Launch(t, "body")
                /\ UNCHANGED <<keep, resp, prog>>
             \/ /\ request.body = "toolarge"
                /\ reject_payload_too_large(t)
    /\ UNCHANGED <<life, proc, peer>>

\* The rest of a sized body, or the end of a chunked one.
body_complete(t) ==
    /\ task[t] = Async("body", "ok")
    /\ dispatch(t, req)
    /\ UNCHANGED <<life, proc, age, req, wire>>

\* A piece of a chunked body: size line, data, CRLF or trailer line; the
\* next one is awaited.
read_chunk(t) ==
    /\ task[t] = Async("body", "ok") /\ req.body = "chunked"
    /\ Launch(t, "body")
    /\ UNCHANGED <<life, flags, work, wire>>

\* A size line that exceeds max_body_size_.
chunk_too_large(t) ==
    /\ task[t] = Async("body", "ok") /\ req.body = "chunked"
    /\ reject_payload_too_large(t)
    /\ UNCHANGED <<life, proc, age, req, wire>>

\* Mutant: the error branch lacks its return and falls into dispatch.
body_error_falls_through(t) ==
    /\ task[t].k = "body"
    /\ \/ task[t].st \in {"eof", "abort", "fail"}
       \/ task[t].st = "ok" /\ req.body = "chunked"
    /\ proc' = FALSE
    /\ sock' = IF IsOpen THEN "closed" ELSE sock
    /\ dispatch(t, req)
    /\ UNCHANGED <<reg, pin, age, req, wire>>

\* A read inside the body fails, or a size line is no number.
body_error(t) ==
    /\ task[t].k = "body"
    /\ \/ task[t].st \in {"eof", "abort", "fail"}
       \/ task[t].st = "ok" /\ req.body = "chunked"
    /\ proc' = FALSE
    /\ close(t)
    /\ UNCHANGED <<reg, pin, age, keep, work, wire>>

-----------------------------------------------------------------------------
(* dispatch(): the handler runs.                                           *)

\* A synchronous write blocks until the client took the bytes; it can fail
\* only when the connection is reset.
SocketOutcome(call) ==
    IF Sends(resp, call) /\ peer = "gone" THEN BOOLEAN ELSE {TRUE}

\* A call on the response, by the handler or by its lambda.
MakeCall(call, ok) ==
    /\ resp' = Apply(resp, call, ok)
    /\ client' = IF ok /\ peer # "gone" THEN Transmit(client, resp, call) ELSE client

Throws(calls) == calls # <<>> /\ Head(calls).op = "throw"
Calls(calls)  == calls # <<>> /\ Head(calls).op # "throw"

\* The calls that follow: a handler whose write failed may give up.
Rest(calls, ok) == {Tail(calls)} \cup (IF ok THEN {} ELSE {<<>>})

handler_call(t) ==
    /\ task[t] = Run("handler") /\ Calls(prog.io)
    /\ \E ok \in SocketOutcome(Head(prog.io)) :
          /\ MakeCall(Head(prog.io), ok)
          /\ \E rest \in Rest(prog.io, ok) : prog' = [prog EXCEPT !.io = rest]
    /\ UNCHANGED <<task, life, flags, req, peer>>

\* Mutant: the 500 is sent without a look at headers_flushed().
handler_throws_unchecked(t) ==
    /\ task[t] = Run("handler") /\ Throws(prog.io)
    /\ keep' = FALSE
    /\ write_buffered(t, ErrorResponse(500))
    /\ prog' = [io |-> <<>>, job |-> <<>>]
    /\ UNCHANGED <<life, proc, age, req, wire>>

\* An exception leaves the handler: a 500 if no header is on the wire yet,
\* else the connection is closed.
handler_throws(t) ==
    /\ task[t] = Run("handler") /\ Throws(prog.io)
    /\ keep' = FALSE
    /\ IF resp.flushed
       THEN Goto(t, "fin1") /\ UNCHANGED resp
       ELSE write_buffered(t, ErrorResponse(500))
    /\ prog' = [io |-> <<>>, job |-> <<>>]
    /\ UNCHANGED <<life, proc, age, req, wire>>

HandlerReturned(t) == task[t] = Run("handler") /\ prog.io = <<>>

\* The handler returned; its response is Buffered.
finish_buffered(t) ==
    /\ HandlerReturned(t) /\ resp.mode = "Buffered"
    /\ write_buffered(t, resp)
    /\ UNCHANGED <<life, flags, req, prog, wire>>

\* Mutant: keep-alive is not given up when the response has no length.
finish_immediate_keeps(t) ==
    /\ HandlerReturned(t) /\ resp.mode = "Immediate"
    /\ Goto(t, "fin1")
    /\ UNCHANGED <<life, flags, work, wire>>

\* Immediate: everything is written; without a length the client needs the
\* connection to close.
finish_immediate(t) ==
    /\ HandlerReturned(t) /\ resp.mode = "Immediate"
    /\ keep' = (keep /\ (resp.cl # Absent \/ resp.te))
    /\ Goto(t, "fin1")
    /\ UNCHANGED <<life, proc, age, work, wire>>

\* Mutant: the Stream case lacks its return; the io thread goes on to finish.
post_stream_work_falls_through(t) ==
    /\ HandlerReturned(t) /\ resp.mode = "Stream"
    /\ \E u \in Tasks :
          /\ task[u] = Free
          /\ task' = [task EXCEPT ![u] = Async("job", "wait"), ![t] = Run("fin1")]
    /\ UNCHANGED <<life, flags, work, wire>>

\* Mutant: the io thread clears is_processing_ when it hands the request over.
post_stream_work_clears(t) ==
    /\ HandlerReturned(t) /\ resp.mode = "Stream"
    /\ proc' = FALSE
    /\ Launch(t, "job")
    /\ UNCHANGED <<life, age, keep, work, wire>>

\* Stream: the lambda goes to the handler pool.
post_stream_work(t) ==
    /\ HandlerReturned(t) /\ resp.mode = "Stream"
    /\ Launch(t, "job")
    /\ UNCHANGED <<life, flags, work, wire>>

-----------------------------------------------------------------------------
(* The handler pool.                                                       *)

run_lambda(t) ==
    /\ task[t] = Async("job", "wait")
    /\ Goto(t, "lambda")
    /\ UNCHANGED <<life, flags, work, wire>>

lambda_call(t) ==
    /\ task[t] = Run("lambda") /\ Calls(prog.job)
    /\ \E ok \in SocketOutcome(Head(prog.job)) :
          /\ MakeCall(Head(prog.job), ok)
          /\ \E rest \in Rest(prog.job, ok) : prog' = [prog EXCEPT !.job = rest]
    /\ UNCHANGED <<task, life, flags, req, peer>>

\* Mutant: nobody terminates the chunks of a lambda.
lambda_returns_unterminated(t) ==
    /\ task[t] = Run("lambda") /\ prog.job = <<>>
    /\ Launch(t, "finish")
    /\ UNCHANGED <<life, flags, work, wire>>

\* The lambda returned: terminate its chunks, hand back to an io thread.
lambda_returns(t) ==
    LET call == [op |-> "end_chunks", n |-> 0] IN
    /\ task[t] = Run("lambda") /\ prog.job = <<>>
    /\ \E ok \in SocketOutcome(call) : MakeCall(call, ok)
    /\ Launch(t, "finish")
    /\ UNCHANGED <<life, flags, req, prog, peer>>

\* Mutant: the exception path forgets keep_alive_ = false.
lambda_throws_keeps(t) ==
    /\ task[t] = Run("lambda") /\ Throws(prog.job)
    /\ resp' = IF resp.flushed THEN resp ELSE ErrorResponse(500)
    /\ client' = IF resp.flushed \/ peer = "gone" THEN client
                 ELSE SendSerialized(client, ErrorResponse(500))
    /\ prog' = [io |-> <<>>, job |-> <<>>]
    /\ Launch(t, "finish")
    /\ UNCHANGED <<life, flags, req, peer>>

\* The lambda throws: a 500, written synchronously from the pool thread, if
\* no header is on the wire.
lambda_throws(t) ==
    /\ task[t] = Run("lambda") /\ Throws(prog.job)
    /\ keep' = FALSE
    /\ resp' = IF resp.flushed THEN resp ELSE ErrorResponse(500)
    /\ client' = IF resp.flushed \/ peer = "gone" THEN client
                 ELSE SendSerialized(client, ErrorResponse(500))
    /\ prog' = [io |-> <<>>, job |-> <<>>]
    /\ Launch(t, "finish")
    /\ UNCHANGED <<life, proc, age, req, peer>>

-----------------------------------------------------------------------------
(* The end of a request.                                                   *)

run_finish(t) ==
    /\ task[t] = Async("finish", "wait")
    /\ Goto(t, "fin1")
    /\ UNCHANGED <<life, flags, work, wire>>

\* finish_request, statement by statement.  write_buffered's handler ends
\* with the same two statements.
finish_clear(t) ==
    /\ task[t] = Run("fin1")
    /\ proc' = FALSE
    /\ Goto(t, "fin2")
    /\ UNCHANGED <<life, age, keep, work, wire>>

\* Mutant: last_active_time_ is given the next deadline instead of the time.
finish_touch_deadline(t) ==
    /\ task[t] = Run("fin2")
    /\ age' = 0 - kIdleTimeout
    /\ Goto(t, "fin3")
    /\ UNCHANGED <<life, proc, keep, work, wire>>

finish_touch(t) ==
    /\ task[t] = Run("fin2")
    /\ age' = 0
    /\ Goto(t, "fin3")
    /\ UNCHANGED <<life, proc, keep, work, wire>>

finish_next(t) ==
    /\ task[t] = Run("fin3")
    /\ IF keep
       THEN Launch(t, "header") /\ UNCHANGED sock
       ELSE /\ Goto(t, "ret")
            /\ sock' = IF IsOpen THEN "shut" ELSE sock
    /\ UNCHANGED <<reg, pin, flags, work, wire>>

\* Mutant: is_processing_ is cleared on the error path only.
write_done_keeps_flag(t) ==
    /\ task[t].k = "write" /\ task[t].st \in {"ok", "abort", "fail"}
    /\ proc' = (task[t].st = "ok")
    /\ Goto(t, IF task[t].st = "ok" THEN "fin2" ELSE "ret")
    /\ UNCHANGED <<life, age, keep, work, wire>>

\* write_buffered's handler: the error path stops here, without a close.
write_done(t) ==
    /\ task[t].k = "write" /\ task[t].st \in {"ok", "abort", "fail"}
    /\ proc' = FALSE
    /\ Goto(t, IF task[t].st = "ok" THEN "fin2" ELSE "ret")
    /\ UNCHANGED <<life, age, keep, work, wire>>

\* A thread leaves the handler and drops self.  The last reference runs the
\* destructor, which closes the socket.
Unreferenced(f, p) == ~p /\ \A u \in Tasks : f[u] = Free

return(t) ==
    /\ task[t] = Run("ret")
    /\ task' = [task EXCEPT ![t] = Free]
    /\ sock' = IF Unreferenced(task', pin) THEN "destroyed" ELSE sock
    /\ UNCHANGED <<reg, pin, flags, work, wire>>

-----------------------------------------------------------------------------
(* The environment: the client, the kernel, time, the timer.               *)

\* A read on the socket makes progress.
Receive(t) ==
    /\ task[t].k \in {"header", "body"} /\ task[t].st = "wait"
    /\ \E st \in Outcome :
          /\ \/ st \in {"ok", "more"} /\ peer # "gone"
             \/ st = "eof" /\ peer = "fin"
             \/ st \in {"eof", "fail"} /\ peer = "gone"
          /\ task' = [task EXCEPT ![t].st = st]
    /\ UNCHANGED <<life, flags, work, wire>>

\* The client takes the bytes of a write_buffered: some, or all.
Drain(t) ==
    /\ task[t] = Async("write", "wait")
    /\ \/ /\ task' = [task EXCEPT ![t].st = "ok"]
          /\ client' = IF peer = "gone" THEN client ELSE SendSerialized(client, resp)
       \/ /\ peer # "gone"
          /\ task' = [task EXCEPT ![t].st = "more"]
          /\ UNCHANGED client
       \/ /\ peer = "gone"
          /\ task' = [task EXCEPT ![t].st = "fail"]
          /\ UNCHANGED client
    /\ UNCHANGED <<life, flags, work, peer>>

\* A composed operation that got part of its data waits in the reactor again.
Resume(t) ==
    /\ task[t].k \in SocketOps /\ task[t].st = "more"
    /\ task' = [task EXCEPT ![t].st = "wait"]
    /\ UNCHANGED <<life, flags, work, wire>>

HalfClose ==
    /\ peer = "up" /\ sock \notin {"new", "destroyed"}
    /\ peer' = "fin"
    /\ UNCHANGED <<task, life, flags, work, client>>

Reset ==
    /\ peer # "gone" /\ sock \notin {"new", "destroyed"}
    /\ peer' = "gone"
    /\ UNCHANGED <<task, life, flags, work, client>>

Tick ==
    /\ age <= kIdleTimeout /\ sock # "destroyed"
    /\ age' = age + 1
    /\ UNCHANGED <<task, life, proc, keep, work, wire>>

\* The idle scan locks its weak_ptr,
Pin ==
    /\ reg /\ ~pin /\ sock # "destroyed"
    /\ pin' = TRUE
    /\ UNCHANGED <<task, sock, reg, flags, work, wire>>

\* calls cancel(),
cancel ==
    /\ pin
    /\ task' = IF IsOpen THEN Aborted(task) ELSE task
    /\ UNCHANGED <<life, flags, work, wire>>

\* and lets go of the connection.
Unpin ==
    /\ pin
    /\ pin' = FALSE
    /\ sock' = IF Unreferenced(task, FALSE) THEN "destroyed" ELSE sock
    /\ UNCHANGED <<task, reg, flags, work, wire>>

\* An entry whose weak_ptr has expired is erased.
Erase ==
    /\ reg /\ sock = "destroyed"
    /\ reg' = FALSE
    /\ UNCHANGED <<task, sock, pin, flags, work, wire>>

-----------------------------------------------------------------------------
Reading(t)  == \/ start(t) \/ read_header(t) \/ read_error(t) \/ malformed(t)
               \/ read_body(t) \/ body_complete(t) \/ read_chunk(t)
               \/ chunk_too_large(t) \/ body_error(t)
Handling(t) == \/ handler_call(t) \/ handler_throws(t) \/ finish_buffered(t)
               \/ finish_immediate(t) \/ post_stream_work(t)
Pooled(t)   == run_lambda(t) \/ lambda_call(t) \/ lambda_returns(t) \/ lambda_throws(t)
Finishing(t) == \/ run_finish(t) \/ finish_clear(t) \/ finish_touch(t)
                \/ finish_next(t) \/ write_done(t) \/ return(t)

\* What the server's threads do for task t.
Server(t) == Reading(t) \/ Handling(t) \/ Pooled(t) \/ Finishing(t) \/ Resume(t)

Environment(t) == Accept(t) \/ AcceptFails(t) \/ Receive(t) \/ Drain(t)

Next ==
    \/ \E t \in Tasks : Server(t) \/ Environment(t)
    \/ HalfClose \/ Reset \/ Tick \/ Pin \/ cancel \/ Unpin \/ Erase

Spec == Init /\ [][Next]_vars

\* A thread always gets to run the handlers it owes (the io_context and the
\* pool serve their queues), a reset is reported to a waiting read, a client
\* that does not go away reads on until a buffered response is through, and
\* the scan does not keep the connection locked.
Fairness ==
    /\ \A t \in Tasks :
          /\ WF_vars(Server(t))
          /\ WF_vars(peer = "gone" /\ Receive(t))
          /\ SF_vars(Drain(t) /\ task'[t].st # "more")
    /\ WF_vars(Unpin)

FairSpec == Spec /\ Fairness

-----------------------------------------------------------------------------
(* Properties.                                                             *)

\* Every variable stays in the set of values the code can give it.
TypeOK ==
    /\ task \in [Tasks -> TaskState]
    /\ sock \in {"new", "open", "shut", "closed", "destroyed"}
    /\ reg \in BOOLEAN /\ pin \in BOOLEAN
    /\ proc \in BOOLEAN /\ age \in 0 .. kIdleTimeout + 1 /\ keep \in BOOLEAN
    /\ req \in [body : BodyKinds, keep : BOOLEAN]
    /\ resp \in Response
    /\ prog \in [io : Seq(Call), job : Seq(Call)]
    /\ client \in Client /\ peer \in {"up", "fin", "gone"}

\* Task t may still read or write the connection.
Driving(t) == task[t] # Free /\ task[t] # Run("ret")

\* Without a strand, nothing but the shape of the handler chain keeps two
\* threads off one connection: a thread that has started the next operation
\* (or posted the lambda, or the finish_request) never touches the
\* connection again, so at most one task drives it ("only one handler /
\* stream-lambda writes to a given socket at any time", connection.cpp:20).
SoleDriver == \A t, u \in Tasks : Driving(t) /\ Driving(u) => t = u

IdleTask(s) == s.k \in {"accept", "header"} \/ s \in {Run("start"), Run("fin2"), Run("fin3")}
BusyTask(s) == \/ s.k \in {"body", "write", "job", "finish"}
               \/ s \in {Run("parse"), Run("handler"), Run("lambda"), Run("fin1")}

\* is_processing_ is what keeps the idle scan away from a request in
\* progress: it is set from the completed header to the end of the response,
\* through the body, the handler, the pool and the write, and it is clear
\* whenever the connection waits for a request, so that it can be reaped.
ProcessingFlag ==
    \A t \in Tasks : (IdleTask(task[t]) => ~proc) /\ (BusyTask(task[t]) => proc)

\* Nobody closes, shuts down or destroys the socket under an operation or a
\* thread that still works on the connection.
OpenWhileDriven ==
    \A t \in Tasks : Driving(t) => sock = IF task[t].k = "accept" THEN "new" ELSE "open"

\* The server waits for another request only when the client has received
\* a complete, framed response to the last one ("we can't safely keep-alive
\* (client can't frame the body)", connection.cpp:400).
KeepAliveFramed ==
    \A t \in Tasks : task[t].k = "header" /\ peer # "gone" => client.st = "quiet"

\* Whatever the handler and its lambda do, and wherever they throw, a request
\* is answered with at most one status line.
OneHead == client.heads <= 1

\* keep_alive_ is decided apart from the Connection field the client reads,
\* yet whatever the handler does and wherever it throws, a client that was
\* told "Connection: close" is never waited for again: unless the handler
\* wrote that field itself, of which keep_alive_ does not learn.
CloseHonoured ==
    \A t \in Tasks :
        task[t].k = "header" /\ peer # "gone" /\ client.close => resp.own

\* A request that reached the handler gets its whole response, unless the
\* client goes away or the connection is torn down.
Answered ==
    (\E t \in Tasks : task[t] = Run("handler"))
      ~> \/ client.st \in {"quiet", "tillclose"}
         \/ peer = "gone" \/ sock = "destroyed"

\* A connection whose client has reset it is given up, wherever it was.
Reclaimed == (peer = "gone") ~> (sock = "destroyed")
=============================================================================
