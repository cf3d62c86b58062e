----------------------------- MODULE HttpServer -----------------------------
(***************************************************************************)
(* http_server.cpp: the server's threads from run() to the destructor.     *)
(*                                                                         *)
(* io threads take completion handlers from one io_context: the accept     *)
(* loop, the timer's scan, the signal handler and the handlers of the      *)
(* connections.  Stream lambdas go to a pool that the first of them        *)
(* creates.  stop() may be called at any time by another thread (Ext) or   *)
(* by the signal handler, and both at once; each of its three statements,  *)
(* and each statement of run() and of the destructor, is a step.           *)
(*                                                                         *)
(* What a connection does inside a handler is Connection's subject; here   *)
(* it starts its next operation, goes away, or posts a lambda.             *)
(***************************************************************************)
EXTENDS Naturals, Sequences, FiniteSets

CONSTANTS Conns,                \* connections alive at once (bound)
          None,                 \* no connection
          io_threads,           \* second argument of HttpServer
          PoolSizes,            \* arguments of set_stream_pool_size; 0 is the default
          hardware_concurrency  \* what std::thread reports; 0 if unknown

ASSUME ConnsAssumption == IsFiniteSet(Conns) /\ None \notin Conns
ASSUME SizesAssumption ==
    io_threads \in Nat /\ PoolSizes \subseteq Nat /\ hardware_concurrency \in Nat

VARIABLES
    main,      \* where the thread that calls run() and ~HttpServer is
    handler,   \* set_handler was called
    stream_pool_size,  \* what set_stream_pool_size was given, before run()
    th,        \* what the io threads and the external thread do: [at, c]
    stopped,   \* io_context_.stop() was called
    acceptor,  \* acceptor_: "open" or "closed"
    acc,       \* the accept: none, pending, or its handler queued with a result
    timer,     \* the timer's wait, likewise
    sig,       \* the signal wait, likewise
    conn,      \* connections, by where their reference is held
    once,      \* stream_pool_init_
    pool,      \* stream_pool_: "none", "up", "stopped"
    pools,     \* thread pools constructed so far
    queue      \* lambdas waiting in the pool

setup == <<handler, stream_pool_size>>
vars  == <<main, setup, th, stopped, acceptor, acc, timer, sig, conn, once,
           pool, pools, queue>>

ops      == <<acceptor, acc, timer, sig>>
poolVars == <<once, pool, pools, queue>>

-----------------------------------------------------------------------------
(* Threads.                                                                *)

OrIfZero(n, default) == IF n = 0 THEN default ELSE n

\* Impl's constructor, and post(): hardware_concurrency() may be 0.
IoThreadCount == OrIfZero(OrIfZero(io_threads, hardware_concurrency), 1)

\* Mutant: the default is taken for granted.
PoolThreadCount_unchecked == OrIfZero(stream_pool_size, 4 * hardware_concurrency)

PoolThreadCount == OrIfZero(OrIfZero(stream_pool_size, 4 * hardware_concurrency), 4)

Io      == 1 .. IoThreadCount
Ext     == 0
Threads == Io \cup {Ext}

\* "none": not created yet.  "poll": inside io_context_.run(), between two
\* handlers.  For Ext: "poll" is before, "exited" after its call of stop().
Place == {"none", "poll", "is_open", "accept", "scan", "rearm", "handler",
          "post", "create", "enqueue", "finish", "stop1", "stop2", "stop3", "exited"}

At(at)     == [at |-> at, c |-> None]
Go(p, at)  == th' = [th EXCEPT ![p].at = at]
Poll(i)    == th' = [th EXCEPT ![i] = At("poll")]

\* io_context_.run() hands out handlers until the context is stopped.
Takes(i) == th[i].at = "poll" /\ ~stopped

\* Where the server holds a connection: nowhere, waiting in the reactor,
\* in the io_context's queue, in a handler on an io thread, in the pool's
\* queue, in a lambda, or in the finish_request that the lambda posted.
ConnState == {"free", "idle", "ready", "busy", "queued", "lambda", "back"}

Init ==
    /\ main = "new" /\ handler \in BOOLEAN /\ stream_pool_size \in PoolSizes
    /\ th = [p \in Threads |-> At(IF p = Ext THEN "poll" ELSE "none")]
    /\ stopped = FALSE
    /\ acceptor = "open" /\ acc = "none" /\ timer = "none" /\ sig = "none"
    /\ conn = [c \in Conns |-> "free"]
    /\ once = "no" /\ pool = "none" /\ pools = 0 /\ queue = <<>>

-----------------------------------------------------------------------------
(* The accept loop.                                                        *)

\* accept(): on a closed acceptor the operation fails at once.
accept == acc' = IF acceptor = "open" THEN "pending" ELSE "failed"

\* Mutant: the loop goes on only after a successful accept.
accept_done_returns(i) ==
    /\ Takes(i) /\ acc \in {"ok", "failed"}
    /\ IF acc = "ok"
       THEN \E c \in Conns : conn[c] = "free" /\ conn' = [conn EXCEPT ![c] = "idle"]
       ELSE UNCHANGED conn
    /\ acc' = "none"
    /\ IF acc = "ok" THEN Go(i, "is_open") ELSE UNCHANGED th
    /\ UNCHANGED <<main, setup, stopped, acceptor, timer, sig, poolVars>>

\* The handler: register the connection with the timer and start it,
accept_done(i) ==
    /\ Takes(i) /\ acc \in {"ok", "failed"}
    /\ IF acc = "ok"
       THEN \E c \in Conns : conn[c] = "free" /\ conn' = [conn EXCEPT ![c] = "idle"]
       ELSE UNCHANGED conn
    /\ acc' = "none"
    /\ Go(i, "is_open")
    /\ UNCHANGED <<main, setup, stopped, acceptor, timer, sig, poolVars>>

\* then, whatever the outcome, test is_open()
accept_is_open(i) ==
    /\ th[i].at = "is_open"
    /\ Go(i, IF acceptor = "open" THEN "accept" ELSE "poll")
    /\ UNCHANGED <<main, setup, stopped, ops, conn, poolVars>>

\* and accept again.
accept_again(i) ==
    /\ th[i].at = "accept"
    /\ accept
    /\ Poll(i)
    /\ UNCHANGED <<main, setup, stopped, acceptor, timer, sig, conn, poolVars>>

-----------------------------------------------------------------------------
(* The timer, as far as its chain of waits goes.                           *)

\* Mutant: the handler starts the next wait first and scans after it.
timer_done_rearms(i) ==
    /\ Takes(i) /\ timer \in {"expired", "aborted"}
    /\ timer' = IF timer = "expired" THEN "armed" ELSE "none"
    /\ Go(i, IF timer = "expired" THEN "scan" ELSE "poll")
    /\ UNCHANGED <<main, setup, stopped, acceptor, acc, sig, conn, poolVars>>

\* async_wait completed: an error ends the chain, else
\* check_idle_connections runs,
timer_done(i) ==
    /\ Takes(i) /\ timer \in {"expired", "aborted"}
    /\ timer' = "none"
    /\ Go(i, IF timer = "expired" THEN "scan" ELSE "poll")
    /\ UNCHANGED <<main, setup, stopped, acceptor, acc, sig, conn, poolVars>>

\* cancels what is idle
scan(i) ==
    /\ th[i].at = "scan"
    /\ \E S \in SUBSET {c \in Conns : conn[c] = "idle"} :
          conn' = [c \in Conns |-> IF c \in S THEN "ready" ELSE conn[c]]
    /\ Go(i, "rearm")
    /\ UNCHANGED <<main, setup, stopped, ops, poolVars>>

\* and ends in start(), stop() or no stop().
rearm(i) ==
    /\ th[i].at = "rearm"
    /\ timer' = "armed"
    /\ Poll(i)
    /\ UNCHANGED <<main, setup, stopped, acceptor, acc, sig, conn, poolVars>>

-----------------------------------------------------------------------------
(* Connections and the handler pool.                                       *)

\* A completion handler of connection c: of a read or write, or the
\* finish_request posted by its lambda.
take(i, c) ==
    /\ Takes(i) /\ conn[c] \in {"ready", "back"}
    /\ th' = [th EXCEPT ![i] = [at |-> IF conn[c] = "ready" THEN "handler" ELSE "finish",
                                c  |-> c]]
    /\ conn' = [conn EXCEPT ![c] = "busy"]
    /\ UNCHANGED <<main, setup, stopped, ops, poolVars>>

\* It starts the next operation, or it was the last one;
handled(i) ==
    /\ th[i].at \in {"handler", "finish"}
    /\ \E st \in {"idle", "free"} : conn' = [conn EXCEPT ![th[i].c] = st]
    /\ Poll(i)
    /\ UNCHANGED <<main, setup, stopped, ops, poolVars>>

\* or the response is a Stream: post_stream_work calls Impl::post.
posts(i) ==
    /\ th[i].at = "handler"
    /\ Go(i, "post")
    /\ UNCHANGED <<main, setup, stopped, ops, conn, poolVars>>

\* Mutant: `if (!stream_pool_)` in place of call_once.
post_once_unguarded(i) ==
    /\ th[i].at = "post"
    /\ Go(i, IF pool = "none" THEN "create" ELSE "enqueue")
    /\ UNCHANGED <<main, setup, stopped, ops, conn, once, pool, pools, queue>>

\* std::call_once: one thread creates the pool, others wait until it has.
post_once(i) ==
    /\ th[i].at = "post" /\ once # "running"
    /\ IF once = "no"
       THEN once' = "running" /\ Go(i, "create")
       ELSE UNCHANGED once /\ Go(i, "enqueue")
    /\ UNCHANGED <<main, setup, stopped, ops, conn, pool, pools, queue>>

post_create(i) ==
    /\ th[i].at = "create"
    /\ once' = "done" /\ pool' = "up" /\ pools' = pools + 1
    /\ Go(i, "enqueue")
    /\ UNCHANGED <<main, setup, stopped, ops, conn, queue>>

\* Mutant: the lambda's reference was moved away before the lambda is posted.
post_enqueue_moved(i) ==
    /\ th[i].at = "enqueue"
    /\ queue' = Append(queue, None)
    /\ conn' = [conn EXCEPT ![th[i].c] = "queued"]
    /\ Poll(i)
    /\ UNCHANGED <<main, setup, stopped, ops, once, pool, pools>>

post_enqueue(i) ==
    /\ th[i].at = "enqueue"
    /\ queue' = Append(queue, th[i].c)
    /\ conn' = [conn EXCEPT ![th[i].c] = "queued"]
    /\ Poll(i)
    /\ UNCHANGED <<main, setup, stopped, ops, once, pool, pools>>

Lambdas == {c \in Conns : conn[c] = "lambda"}

\* A pool thread takes the next lambda.
pool_run ==
    /\ pool = "up" /\ queue # <<>> /\ Cardinality(Lambdas) < PoolThreadCount
    /\ conn' = [conn EXCEPT ![Head(queue)] = "lambda"]
    /\ queue' = Tail(queue)
    /\ UNCHANGED <<main, setup, th, stopped, ops, once, pool, pools>>

\* A lambda ends; its finish_request goes to the io_context, stopped or not.
lambda_ends(c) ==
    /\ conn[c] = "lambda"
    /\ conn' = [conn EXCEPT ![c] = "back"]
    /\ UNCHANGED <<main, setup, th, stopped, ops, poolVars>>

-----------------------------------------------------------------------------
(* stop(), by thread p.                                                    *)

\* Another thread calls stop(), before, during or after run().
stop_called ==
    /\ th[Ext].at = "poll" /\ main \notin {"unpooled", "destroyed"}
    /\ Go(Ext, "stop1")
    /\ UNCHANGED <<main, setup, stopped, ops, conn, poolVars>>

\* The signal handler does not look at its error code.
signal_done(i) ==
    /\ Takes(i) /\ sig = "raised"
    /\ sig' = "none"
    /\ Go(i, "stop1")
    /\ UNCHANGED <<main, setup, stopped, acceptor, acc, timer, conn, poolVars>>

\* TimerManager::stop() aborts the wait if there is one at this moment.
stop_timer(p) ==
    /\ th[p].at = "stop1"
    /\ timer' = IF timer = "armed" THEN "aborted" ELSE timer
    /\ Go(p, "stop2")
    /\ UNCHANGED <<main, setup, stopped, acceptor, acc, sig, conn, poolVars>>

stop_acceptor(p) ==
    /\ th[p].at = "stop2"
    /\ acceptor' = "closed"
    /\ acc' = IF acc = "pending" THEN "failed" ELSE acc
    /\ Go(p, "stop3")
    /\ UNCHANGED <<main, setup, stopped, timer, sig, conn, poolVars>>

\* Mutant: stop() leaves it to the io_context to run out of work.
stop_context_drains(p) ==
    /\ th[p].at = "stop3"
    /\ Go(p, IF p = Ext THEN "exited" ELSE "poll")
    /\ UNCHANGED <<main, setup, stopped, ops, conn, poolVars>>

stop_context(p) ==
    /\ th[p].at = "stop3"
    /\ stopped' = TRUE
    /\ Go(p, IF p = Ext THEN "exited" ELSE "poll")
    /\ UNCHANGED <<main, setup, ops, conn, poolVars>>

\* run() of a stopped io_context returns, with handlers still queued.
io_exit(i) ==
    /\ th[i].at = "poll" /\ stopped
    /\ Go(i, "exited")
    /\ UNCHANGED <<main, setup, stopped, ops, conn, poolVars>>

-----------------------------------------------------------------------------
(* run() and the destructor.                                               *)

run_refused ==
    /\ main = "new" /\ ~handler
    /\ main' = "returned"
    /\ UNCHANGED <<setup, th, stopped, ops, conn, poolVars>>

\* TimerManager::init and start.
run_timer ==
    /\ main = "new" /\ handler
    /\ main' = "timer" /\ timer' = "armed"
    /\ UNCHANGED <<setup, th, stopped, acceptor, acc, sig, conn, poolVars>>

\* The signal wait and the first accept.
run_listen ==
    /\ main = "timer"
    /\ main' = "spawn" /\ sig' = "waiting" /\ accept
    /\ UNCHANGED <<setup, th, stopped, acceptor, timer, conn, poolVars>>

run_spawn(i) ==
    /\ main = "spawn" /\ th[i].at = "none"
    /\ Go(i, "poll")
    /\ UNCHANGED <<main, setup, stopped, ops, conn, poolVars>>

run_join ==
    /\ main = "spawn" /\ \A i \in Io : th[i].at = "exited"
    /\ main' = "joined"
    /\ UNCHANGED <<setup, th, stopped, ops, conn, poolVars>>

\* stream_pool_->stop(): lambdas that run go on, queued ones stay queued.
\* The signal_set dies with run()'s frame.
run_pool_stop ==
    /\ main = "joined"
    /\ IF pool = "none"
       THEN main' = "returned" /\ sig' = "none" /\ UNCHANGED pool
       ELSE main' = "draining" /\ pool' = "stopped" /\ UNCHANGED sig
    /\ UNCHANGED <<setup, th, stopped, acceptor, acc, timer, conn, once, pools, queue>>

\* Mutant: run() does not wait for the pool.
run_pool_join_skipped ==
    /\ main = "draining"
    /\ main' = "returned" /\ sig' = "none"
    /\ UNCHANGED <<setup, th, stopped, acceptor, acc, timer, conn, poolVars>>

\* stream_pool_->join().
run_pool_join ==
    /\ main = "draining" /\ Lambdas = {}
    /\ main' = "returned" /\ sig' = "none"
    /\ UNCHANGED <<setup, th, stopped, acceptor, acc, timer, conn, poolVars>>

\* Mutant: stream_pool_ is declared before io_context_ and dies after it.
destroy_pool_late ==
    /\ main = "returned" /\ th[Ext].at \in {"poll", "exited"}
    /\ main' = "unpooled"
    /\ UNCHANGED <<setup, th, stopped, ops, conn, poolVars>>

\* Members are destroyed last to first: stream_pool_ with its queue,
destroy_pool ==
    /\ main = "returned" /\ th[Ext].at \in {"poll", "exited"}
    /\ main' = "unpooled"
    /\ conn' = [c \in Conns |-> IF conn[c] = "queued" THEN "free" ELSE conn[c]]
    /\ pool' = "none" /\ queue' = <<>>
    /\ UNCHANGED <<setup, th, stopped, ops, once, pools>>

\* then acceptor_ and io_context_ with every handler it still holds.
destroy_context ==
    /\ main = "unpooled"
    /\ main' = "destroyed"
    /\ conn' = [c \in Conns |-> IF conn[c] \in {"idle", "ready", "back"} THEN "free"
                                ELSE conn[c]]
    /\ acc' = "none" /\ acceptor' = "closed"
    /\ UNCHANGED <<setup, th, stopped, timer, sig, poolVars>>

-----------------------------------------------------------------------------
(* The environment.                                                        *)

\* Someone connects, or accept(2) fails.
Connects ==
    /\ acc = "pending"
    /\ \/ acc' = "ok" /\ \E c \in Conns : conn[c] = "free"
       \/ acc' = "failed"
    /\ UNCHANGED <<main, setup, th, stopped, acceptor, timer, sig, conn, poolVars>>

Expires ==
    /\ timer = "armed" /\ main # "destroyed"
    /\ timer' = "expired"
    /\ UNCHANGED <<main, setup, th, stopped, acceptor, acc, sig, conn, poolVars>>

\* SIGINT, SIGTERM or SIGTSTP.
Signal ==
    /\ sig = "waiting"
    /\ sig' = "raised"
    /\ UNCHANGED <<main, setup, th, stopped, acceptor, acc, timer, conn, poolVars>>

\* An operation of connection c completes.
Completes(c) ==
    /\ conn[c] = "idle" /\ main # "destroyed"
    /\ conn' = [conn EXCEPT ![c] = "ready"]
    /\ UNCHANGED <<main, setup, th, stopped, ops, poolVars>>

-----------------------------------------------------------------------------
IoStep(i) ==
    \/ accept_done(i) \/ accept_is_open(i) \/ accept_again(i)
    \/ timer_done(i) \/ scan(i) \/ rearm(i)
    \/ \E c \in Conns : take(i, c)
    \/ handled(i) \/ posts(i) \/ post_once(i) \/ post_create(i) \/ post_enqueue(i)
    \/ signal_done(i) \/ io_exit(i)

Stop(p) == stop_timer(p) \/ stop_acceptor(p) \/ stop_context(p)

Run ==
    \/ run_refused \/ run_timer \/ run_listen \/ (\E i \in Io : run_spawn(i))
    \/ run_join \/ run_pool_stop \/ run_pool_join

Destroy == destroy_pool \/ destroy_context

Environment ==
    \/ Connects \/ Expires \/ Signal \/ stop_called
    \/ \E c \in Conns : Completes(c)

Next ==
    \/ \E i \in Io : IoStep(i)
    \/ \E p \in Threads : Stop(p)
    \/ Run \/ Destroy \/ pool_run \/ (\E c \in Conns : lambda_ends(c)) \/ Environment

Spec == Init /\ [][Next]_vars

\* Threads run, the io_context gets round to a signal handler it holds
\* (its queue is served in order), and lambdas end.
Fairness ==
    /\ \A i \in Io : WF_vars(IoStep(i)) /\ SF_vars(signal_done(i))
    /\ \A p \in Threads : WF_vars(Stop(p))
    /\ WF_vars(Run) /\ WF_vars(pool_run)
    /\ \A c \in Conns : WF_vars(lambda_ends(c))

FairSpec == Spec /\ Fairness

-----------------------------------------------------------------------------
(* Properties.                                                             *)

\* Every variable stays in the set of values the code can give it, and the
\* pool's queue holds each connection at most once: a connection has one
\* lambda outstanding, whichever threads post lambdas at the same time.
TypeOK ==
    /\ main \in {"new", "timer", "spawn", "joined", "draining", "returned",
                 "unpooled", "destroyed"}
    /\ handler \in BOOLEAN /\ stream_pool_size \in PoolSizes /\ stopped \in BOOLEAN
    /\ th \in [Threads -> [at : Place, c : Conns \cup {None}]]
    /\ acceptor \in {"open", "closed"}
    /\ acc \in {"none", "pending", "ok", "failed"}
    /\ timer \in {"none", "armed", "expired", "aborted"}
    /\ sig \in {"none", "waiting", "raised"}
    /\ conn \in [Conns -> ConnState]
    /\ once \in {"no", "running", "done"} /\ pool \in {"none", "up", "stopped"}
    /\ pools \in Nat
    /\ queue \in Seq(Conns)
    /\ \A j, k \in DOMAIN queue : queue[j] = queue[k] => j = k

Chain(pending, places) ==
    (IF pending THEN 1 ELSE 0) + Cardinality({i \in Io : th[i].at \in places})

\* The accept loop is one chain: never two accepts at once, and as long as
\* the acceptor is open none is lost, whatever an accept returned and
\* however stop() falls between is_open() and the next accept.
AcceptLoop ==
    LET n == Chain(acc # "none", {"is_open", "accept"})
    IN  n <= 1 /\ (main = "spawn" /\ acceptor = "open" => n = 1)

StopBegun == stopped \/ \E p \in Threads : th[p].at \in {"stop2", "stop3", "exited"}

\* The timer is one chain as well: never two scans at once (TimerManager
\* has a single timer_), and no scan forgets to arm the timer again until
\* stop() is called.
TimerLoop ==
    LET n == Chain(timer # "none", {"scan", "rearm"})
    IN  n <= 1 /\ (main = "spawn" /\ ~StopBegun => n = 1)

\* The pool is created once, however many io threads post their first
\* lambda together, and no lambda is posted before it exists.
OnePool == pools <= 1 /\ (\A c \in Conns : conn[c] \in {"queued", "lambda"} => pools = 1)

\* When run() has returned, none of the user's code runs, and none ever
\* will: "Handler lifetime is caller-managed and must outlive run()"
\* (http_server.h:20), not longer.
QuietAfterRun ==
    main \in {"returned", "unpooled", "destroyed"} =>
        /\ \A i \in Io : th[i].at \in {"none", "exited"}
        /\ Lambdas = {}
        /\ pool # "up"

\* No connection survives the io_context its socket belongs to: a lambda
\* that never ran, a handler that was never called and a finish_request
\* posted to a stopped context all give up their reference before.
ContextOutlivesSockets == main = "destroyed" => \A c \in Conns : conn[c] = "free"

\* A signal, or a call of stop(), makes run() return, with clients still
\* connected and lambdas still queued.
ShutsDown ==
    sig = "raised" \/ th[Ext].at = "stop1" ~> main \in {"returned", "unpooled", "destroyed"}

\* While the server runs, a posted lambda gets its thread.
LambdasRun == \A c \in Conns : conn[c] = "queued" ~> conn[c] # "queued" \/ stopped
=============================================================================
