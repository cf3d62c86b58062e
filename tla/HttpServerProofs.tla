-------------------------- MODULE HttpServerProofs --------------------------
(***************************************************************************)
(* Theorems about HttpServer, for any number of connections, io threads    *)
(* and pool threads.                                                       *)
(***************************************************************************)
EXTENDS HttpServer, FiniteSetTheorems, SequenceTheorems, TLAPS

Over     == {"returned", "unpooled", "destroyed"}
ExtPlace == {"poll", "stop1", "stop2", "stop3", "exited"}

\* Places where an io thread works for a connection, and where it carries
\* the chain of accepts or of timer waits.
Holding     == {"handler", "post", "create", "enqueue", "finish"}
AcceptPlace == {"is_open", "accept"}
TimerPlace  == {"scan", "rearm"}

\* An io thread exists only between run()'s spawn and its join.
Placed ==
    /\ \A i \in Io : /\ main \in {"new", "timer"} => th[i].at = "none"
                     /\ main \in {"joined", "draining"} => th[i].at = "exited"
                     /\ main \in Over => th[i].at \in {"none", "exited"}
    /\ th[Ext].at \in ExtPlace

\* A connection in a handler is in the hands of some thread.
Held ==
    /\ \A i \in Io : th[i].at \in Holding => th[i].c \in Conns
    /\ \A c \in Conns : conn[c] = "busy" =>
           \E i \in Io : th[i].at \in Holding /\ th[i].c = c

\* It is in a handler, and no other thread works for it.
Owned ==
    /\ \A i \in Io : th[i].at \in Holding => conn[th[i].c] = "busy"
    /\ \A i, j \in Io : th[i].at \in Holding /\ th[j].at \in Holding /\ th[i].c = th[j].c => i = j

\* What is in the pool's queue is not in a handler.
Lined == \A j \in 1 .. Len(queue) : conn[queue[j]] = "queued"

\* The pool is made by the one thread that call_once lets through, and
\* whoever enqueues comes after it.
PoolMade ==
    /\ main \in {"new", "timer"} => once = "no"
    /\ once # "done" => pools = 0 /\ pool = "none"
    /\ once = "done" => pools = 1
    /\ once = "done" /\ main \notin {"unpooled", "destroyed"} => pool # "none"
    /\ main \in Over \cup {"draining"} => pool # "up"
    /\ \A i \in Io : /\ th[i].at = "create" => once = "running"
                     /\ th[i].at = "enqueue" => once = "done"
    /\ \A i, j \in Io : th[i].at = "create" /\ th[j].at = "create" => i = j
    /\ \A c \in Conns : conn[c] \in {"queued", "lambda"} => once = "done"

\* What has been joined or destroyed holds no connection any more.
Emptied ==
    /\ main \in Over => \A c \in Conns : conn[c] # "lambda"
    /\ main \in {"unpooled", "destroyed"} => \A c \in Conns : conn[c] # "queued"
    /\ main = "destroyed" => \A c \in Conns : conn[c] = "free"

\* The chain of accepts has one carrier: the pending operation or a thread.
AcceptOnce ==
    /\ \A i \in Io : th[i].at \in AcceptPlace => acc = "none"
    /\ \A i, j \in Io : th[i].at \in AcceptPlace /\ th[j].at \in AcceptPlace => i = j
    /\ main \in {"new", "timer"} => acc = "none"
    /\ main = "spawn" /\ acceptor = "open" =>
           acc # "none" \/ \E i \in Io : th[i].at \in AcceptPlace

\* So has the chain of timer waits; only stop() aborts it.
TimerOnce ==
    /\ \A i \in Io : th[i].at \in TimerPlace => timer = "none"
    /\ \A i, j \in Io : th[i].at \in TimerPlace /\ th[j].at \in TimerPlace => i = j
    /\ timer = "aborted" => StopBegun
    /\ main \in {"timer", "spawn"} /\ ~StopBegun =>
           timer # "none" \/ \E i \in Io : th[i].at \in TimerPlace

Inv == TypeOK /\ Placed /\ Held /\ Owned /\ Lined /\ PoolMade /\ Emptied /\ AcceptOnce /\ TimerOnce

-----------------------------------------------------------------------------
\* The external thread is none of the io threads.
LEMMA ThreadSets == Ext \in Threads /\ Ext \notin Io /\ (\A i \in Io : i \in Threads)
                    /\ \A p \in Threads : p = Ext \/ p \in Io
BY DEF Threads, Ext, Io

ThreadType == [Threads -> [at : Place, c : Conns \cup {None}]]

\* Thread p goes to a place, with a connection or None; the others stay.
Step(p, at, c) ==
    /\ th' \in ThreadType
    /\ th'[p].at = at /\ th'[p].c = c
    /\ \A q \in Threads : q # p => th'[q] = th[q]

\* A thread that goes to a place keeps its connection,
LEMMA GoStep ==
    ASSUME TypeOK, NEW p \in Threads, NEW at \in Place, Go(p, at)
    PROVE  Step(p, at, th[p].c)
<1>1. th[p] \in [at : Place, c : Conns \cup {None}]
  BY DEF TypeOK
<1>2. /\ [th[p] EXCEPT !.at = at] \in [at : Place, c : Conns \cup {None}]
      /\ [th[p] EXCEPT !.at = at].at = at
      /\ [th[p] EXCEPT !.at = at].c = th[p].c
  BY <1>1
<1>3. th' = [th EXCEPT ![p] = [th[p] EXCEPT !.at = at]]
  BY DEF Go
<1> QED
  BY <1>2, <1>3 DEF TypeOK, Step, ThreadType

\* and drops it when it is back in the io_context.
LEMMA PollStep ==
    ASSUME TypeOK, NEW p \in Threads, Poll(p)
    PROVE  Step(p, "poll", None)
BY DEF TypeOK, Poll, Step, ThreadType, At, Place

-----------------------------------------------------------------------------
(* What a step does to the threads.                                        *)

\* Where the statements of an io thread lead,
LEMMA IoMoves ==
    ASSUME TypeOK, NEW i \in Io
    PROVE  /\ accept_done(i) => Step(i, "is_open", th[i].c)
           /\ accept_is_open(i) => Step(i, IF acceptor = "open" THEN "accept" ELSE "poll", th[i].c)
           /\ accept_again(i) \/ rearm(i) \/ handled(i) \/ post_enqueue(i) => Step(i, "poll", None)
           /\ timer_done(i) => Step(i, IF timer = "expired" THEN "scan" ELSE "poll", th[i].c)
           /\ scan(i) => Step(i, "rearm", th[i].c)
           /\ posts(i) => Step(i, "post", th[i].c)
           /\ post_once(i) => Step(i, IF once = "no" THEN "create" ELSE "enqueue", th[i].c)
           /\ post_create(i) => Step(i, "enqueue", th[i].c)
           /\ signal_done(i) => Step(i, "stop1", th[i].c)
           /\ io_exit(i) => Step(i, "exited", th[i].c)
           /\ run_spawn(i) => Step(i, "poll", th[i].c)
<1> USE GoStep, PollStep, ThreadSets DEF Place
<1>1. accept_done(i) => Step(i, "is_open", th[i].c)
  BY DEF accept_done
<1>2. accept_is_open(i) => Step(i, IF acceptor = "open" THEN "accept" ELSE "poll", th[i].c)
  BY DEF accept_is_open
<1>3. accept_again(i) \/ rearm(i) \/ handled(i) \/ post_enqueue(i) => Step(i, "poll", None)
  BY DEF accept_again, rearm, handled, post_enqueue
<1>4. timer_done(i) => Step(i, IF timer = "expired" THEN "scan" ELSE "poll", th[i].c)
  BY DEF timer_done
<1>5. scan(i) => Step(i, "rearm", th[i].c)
  BY DEF scan
<1>6. posts(i) => Step(i, "post", th[i].c)
  BY DEF posts
<1>7. post_once(i) => Step(i, IF once = "no" THEN "create" ELSE "enqueue", th[i].c)
  BY DEF post_once
<1>8. post_create(i) => Step(i, "enqueue", th[i].c)
  BY DEF post_create
<1>9. signal_done(i) => Step(i, "stop1", th[i].c)
  BY DEF signal_done
<1>10. io_exit(i) => Step(i, "exited", th[i].c)
  BY DEF io_exit
<1>11. run_spawn(i) => Step(i, "poll", th[i].c)
  BY DEF run_spawn
<1> QED
  BY <1>1, <1>2, <1>3, <1>4, <1>5, <1>6, <1>7, <1>8, <1>9, <1>10, <1>11

\* the start of a connection's handler,
LEMMA TakeMoves ==
    ASSUME TypeOK, NEW i \in Io, NEW c \in Conns, take(i, c)
    PROVE  Step(i, IF conn[c] = "ready" THEN "handler" ELSE "finish", c)
BY ThreadSets DEF TypeOK, take, Step, ThreadType, Place

\* and the statements of stop().
LEMMA StopMoves ==
    ASSUME TypeOK, NEW p \in Threads
    PROVE  /\ stop_timer(p) => Step(p, "stop2", th[p].c)
           /\ stop_acceptor(p) => Step(p, "stop3", th[p].c)
           /\ stop_context(p) => Step(p, IF p = Ext THEN "exited" ELSE "poll", th[p].c)
           /\ stop_called => Step(Ext, "stop1", th[Ext].c)
<1> USE GoStep, ThreadSets DEF Place
<1>1. stop_timer(p) => Step(p, "stop2", th[p].c)
  BY DEF stop_timer
<1>2. stop_acceptor(p) => Step(p, "stop3", th[p].c)
  BY DEF stop_acceptor
<1>3. stop_context(p) => Step(p, IF p = Ext THEN "exited" ELSE "poll", th[p].c)
  BY DEF stop_context
<1>4. stop_called => Step(Ext, "stop1", th[Ext].c)
  BY DEF stop_called
<1> QED
  BY <1>1, <1>2, <1>3, <1>4

\* An io thread that is somewhere has been spawned and not joined.
LEMMA Working ==
    ASSUME TypeOK, Placed, NEW i \in Io, th[i].at \notin {"none", "exited"}
    PROVE  main = "spawn"
BY DEF TypeOK, Placed, Over

-----------------------------------------------------------------------------
(* Each part of the invariant survives every step.                         *)

\* No thread is spawned early or lives on after the join.
LEMMA PlacedKept == ASSUME Inv, Next PROVE Placed'
<1> USE ThreadSets DEF Inv, Step, Placed, Over, ExtPlace
<1>1. ASSUME NEW i \in Io, IoStep(i) PROVE Placed'
  <2>1. main = "spawn" /\ main' = main /\ \A q \in Threads : q # i => th'[q] = th[q]
    BY <1>1, Working, IoMoves, TakeMoves
       DEF IoStep, Takes, accept_done, accept_is_open, accept_again, timer_done, scan, rearm,
           take, handled, posts, post_once, post_create, post_enqueue, signal_done, io_exit
  <2> QED
    BY <2>1
<1>2. ASSUME NEW p \in Threads, Stop(p) PROVE Placed'
  <2>1. th[p].at \in {"stop1", "stop2", "stop3"} /\ main' = main
    BY <1>2 DEF Stop, stop_timer, stop_acceptor, stop_context
  <2>2. /\ \A q \in Threads : q # p => th'[q] = th[q]
        /\ p = Ext => th'[p].at \in ExtPlace
    BY <1>2, StopMoves DEF Stop
  <2> QED
    BY <2>1, <2>2, Working
<1>3. CASE stop_called
  BY <1>3, StopMoves DEF stop_called
<1>4. CASE Run
  <2>1. ASSUME NEW i \in Io, run_spawn(i) PROVE Placed'
    BY <2>1, IoMoves DEF run_spawn
  <2> QED
    BY <1>4, <2>1 DEF Run, run_refused, run_timer, run_listen, run_join, run_pool_stop, run_pool_join
<1>5. CASE Destroy \/ pool_run \/ (\E c \in Conns : lambda_ends(c))
  BY <1>5 DEF Destroy, destroy_pool, destroy_context, pool_run, lambda_ends
<1>6. CASE Connects \/ Expires \/ Signal \/ (\E c \in Conns : Completes(c))
  BY <1>6 DEF Connects, Expires, Signal, Completes
<1> QED
  BY <1>1, <1>2, <1>3, <1>4, <1>5, <1>6 DEF Next, Environment

\* A thread that works for no connection, before and after, leaves those
\* that do.
LEMMA HeldFrame ==
    ASSUME Held, NEW p \in Threads, NEW at, NEW c, Step(p, at, c),
           p \in Io => at \notin Holding /\ th[p].at \notin Holding,
           \A d \in Conns : conn'[d] = "busy" => conn[d] = "busy"
    PROVE  Held'
BY ThreadSets DEF Held, Step

\* A connection in a handler keeps its thread.
LEMMA HeldKept == ASSUME Inv, Next PROVE Held'
<1> USE ThreadSets DEF Inv, Holding
<1>1. ASSUME NEW i \in Io, accept_done(i) PROVE Held'
  <2>1. Step(i, "is_open", th[i].c)
    BY <1>1, IoMoves
  <2>2. th[i].at = "poll" /\ \A d \in Conns : conn'[d] = "busy" => conn[d] = "busy"
    BY <1>1 DEF accept_done, Takes, TypeOK
  <2> QED
    BY <2>1, <2>2, HeldFrame
<1>2. ASSUME NEW i \in Io, accept_is_open(i) \/ accept_again(i) \/ timer_done(i) \/ rearm(i)
                           \/ scan(i) \/ signal_done(i) \/ io_exit(i) \/ run_spawn(i)
      PROVE  Held'
  <2>1. PICK at \in Place, c \in Conns \cup {None} : Step(i, at, c) /\ at \notin Holding
    BY <1>2, IoMoves DEF TypeOK, Place
  <2>2. th[i].at \in {"none", "poll", "is_open", "accept", "scan", "rearm"}
    BY <1>2 DEF Takes, accept_is_open, accept_again, timer_done, rearm, scan, signal_done,
                io_exit, run_spawn
  <2>3. \A d \in Conns : conn'[d] = "busy" => conn[d] = "busy"
    BY <1>2 DEF accept_is_open, accept_again, timer_done, rearm, scan, signal_done, io_exit, run_spawn
  <2> QED
    BY <2>1, <2>2, <2>3, HeldFrame
<1>3. ASSUME NEW i \in Io, NEW c \in Conns, take(i, c) PROVE Held'
  <2>1. Step(i, IF conn[c] = "ready" THEN "handler" ELSE "finish", c)
    BY <1>3, TakeMoves
  <2>2. th[i].at = "poll" /\ \A d \in Conns : conn'[d] = "busy" => conn[d] = "busy" \/ d = c
    BY <1>3 DEF take, Takes, TypeOK
  <2> QED
    BY <2>1, <2>2 DEF Step, Held
<1>4. ASSUME NEW i \in Io, handled(i) \/ post_enqueue(i) PROVE Held'
  <2>1. Step(i, "poll", None)
    BY <1>4, IoMoves
  <2>2. \A d \in Conns : conn'[d] = "busy" => conn[d] = "busy" /\ d # th[i].c
    BY <1>4 DEF handled, post_enqueue, TypeOK
  <2> QED
    BY <2>1, <2>2 DEF Step, Held
<1>5. ASSUME NEW i \in Io, posts(i) \/ post_once(i) \/ post_create(i) PROVE Held'
  <2>1. PICK at \in Holding : Step(i, at, th[i].c)
    BY <1>5, IoMoves
  <2>2. th[i].at \in Holding /\ conn' = conn
    BY <1>5 DEF posts, post_once, post_create
  <2> QED
    BY <2>1, <2>2 DEF Step, Held
<1>6. ASSUME NEW p \in Threads, Stop(p) PROVE Held'
  <2>1. PICK at \in Place, c \in Conns \cup {None} : Step(p, at, c) /\ at \notin Holding
    BY <1>6, StopMoves DEF Stop, TypeOK, Place
  <2>2. th[p].at \in {"stop1", "stop2", "stop3"} /\ conn' = conn
    BY <1>6 DEF Stop, stop_timer, stop_acceptor, stop_context
  <2> QED
    BY <2>1, <2>2, HeldFrame
<1>7. CASE stop_called
  <2>1. Step(Ext, "stop1", th[Ext].c) /\ conn' = conn
    BY <1>7, StopMoves DEF stop_called
  <2> QED
    BY <2>1, HeldFrame
<1>8. CASE run_refused \/ run_timer \/ run_listen \/ run_join \/ run_pool_stop \/ run_pool_join
  BY <1>8 DEF Held, run_refused, run_timer, run_listen, run_join, run_pool_stop, run_pool_join
<1>9. CASE Destroy \/ pool_run \/ (\E c \in Conns : lambda_ends(c) \/ Completes(c))
  <2>1. th' = th /\ \A d \in Conns : conn'[d] = "busy" => conn[d] = "busy"
    BY <1>9 DEF TypeOK, Destroy, destroy_pool, destroy_context, pool_run, lambda_ends, Completes
  <2> QED
    BY <2>1 DEF Held
<1>10. CASE Connects \/ Expires \/ Signal
  BY <1>10 DEF Held, Connects, Expires, Signal
<1> QED
  BY <1>1, <1>2, <1>3, <1>4, <1>5, <1>6, <1>7, <1>8, <1>9, <1>10
     DEF Next, IoStep, Run, Environment

\* A step that leaves the holders and their connections alone.
LEMMA OwnedFrame ==
    ASSUME Owned, NEW p \in Threads, NEW at, NEW c, Step(p, at, c),
           p \in Io => at \notin Holding,
           \A i \in Io : th[i].at \in Holding /\ i # p => conn'[th[i].c] = "busy"
    PROVE  Owned'
BY ThreadSets DEF Owned, Step

\* No two threads work for one connection.
LEMMA OwnedKept == ASSUME Inv, Next PROVE Owned'
<1> USE ThreadSets DEF Inv, Holding
<1>0. \A i \in Io : th[i].at \in Holding => th[i].c \in Conns /\ conn[th[i].c] = "busy"
  BY DEF Held, Owned
<1>1. ASSUME NEW i \in Io, accept_done(i) PROVE Owned'
  <2>1. Step(i, "is_open", th[i].c)
    BY <1>1, IoMoves
  <2>2. \A d \in Conns : conn[d] = "busy" => conn'[d] = "busy"
    BY <1>1 DEF accept_done, TypeOK
  <2> QED
    BY <1>0, <2>1, <2>2, OwnedFrame
<1>2. ASSUME NEW i \in Io, accept_is_open(i) \/ accept_again(i) \/ timer_done(i) \/ rearm(i)
                           \/ scan(i) \/ signal_done(i) \/ io_exit(i) \/ run_spawn(i)
      PROVE  Owned'
  <2>1. PICK at \in Place, c \in Conns \cup {None} : Step(i, at, c) /\ at \notin Holding
    BY <1>2, IoMoves DEF TypeOK, Place
  <2>2. \A d \in Conns : conn[d] = "busy" => conn'[d] = "busy"
    BY <1>2 DEF accept_is_open, accept_again, timer_done, rearm, scan, signal_done, io_exit, run_spawn
  <2> QED
    BY <1>0, <2>1, <2>2, OwnedFrame
<1>3. ASSUME NEW i \in Io, NEW c \in Conns, take(i, c) PROVE Owned'
  <2>1. Step(i, IF conn[c] = "ready" THEN "handler" ELSE "finish", c)
    BY <1>3, TakeMoves
  <2>2. conn[c] # "busy" /\ conn' = [conn EXCEPT ![c] = "busy"]
    BY <1>3 DEF take
  <2>3. conn'[c] = "busy" /\ \A d \in Conns : conn[d] = "busy" => conn'[d] = "busy"
    BY <2>2 DEF TypeOK
  <2>4. \A j \in Io : j # i => th'[j] = th[j]
    BY <2>1 DEF Step
  <2>5. th'[i].c = c
    BY <2>1 DEF Step
  <2>6. \A j \in Io : j # i /\ th'[j].at \in Holding => th'[j].c # c /\ conn'[th'[j].c] = "busy"
    BY <1>0, <2>2, <2>3, <2>4
  <2>7. \A j, k \in Io : j # i /\ k # i /\ th'[j].at \in Holding /\ th'[k].at \in Holding
                          /\ th'[j].c = th'[k].c => j = k
    BY <2>4 DEF Owned
  <2> QED
    BY <2>3, <2>5, <2>6, <2>7 DEF Owned
<1>4. ASSUME NEW i \in Io, handled(i) \/ post_enqueue(i) PROVE Owned'
  <2>1. Step(i, "poll", None)
    BY <1>4, IoMoves
  <2>2. th[i].at \in Holding /\ \A d \in Conns : d # th[i].c => conn'[d] = conn[d]
    BY <1>4 DEF handled, post_enqueue, TypeOK
  <2>3. \A j \in Io : th[j].at \in Holding /\ j # i => th[j].c # th[i].c
    BY <2>2 DEF Owned
  <2> QED
    BY <1>0, <2>1, <2>2, <2>3, OwnedFrame
<1>5. ASSUME NEW i \in Io, posts(i) \/ post_once(i) \/ post_create(i) PROVE Owned'
  <2>1. PICK at \in Holding : Step(i, at, th[i].c)
    BY <1>5, IoMoves
  <2>2. th[i].at \in Holding /\ conn' = conn
    BY <1>5 DEF posts, post_once, post_create
  <2> QED
    BY <2>1, <2>2 DEF Step, Owned
<1>6. ASSUME NEW p \in Threads, Stop(p) PROVE Owned'
  <2>1. PICK at \in Place, c \in Conns \cup {None} : Step(p, at, c) /\ at \notin Holding
    BY <1>6, StopMoves DEF Stop, TypeOK, Place
  <2>2. conn' = conn
    BY <1>6 DEF Stop, stop_timer, stop_acceptor, stop_context
  <2> QED
    BY <1>0, <2>1, <2>2, OwnedFrame
<1>7. CASE stop_called
  <2>1. Step(Ext, "stop1", th[Ext].c) /\ conn' = conn
    BY <1>7, StopMoves DEF stop_called
  <2> QED
    BY <1>0, <2>1, OwnedFrame
<1>8. CASE \/ run_refused \/ run_timer \/ run_listen \/ run_join \/ run_pool_stop \/ run_pool_join
           \/ Connects \/ Expires \/ Signal
  BY <1>8 DEF Owned, run_refused, run_timer, run_listen, run_join, run_pool_stop, run_pool_join,
              Connects, Expires, Signal
<1>9. CASE Destroy \/ (\E c \in Conns : lambda_ends(c) \/ Completes(c))
  <2>1. th' = th /\ \A d \in Conns : conn[d] = "busy" => conn'[d] = "busy"
    BY <1>9 DEF TypeOK, Destroy, destroy_pool, destroy_context, lambda_ends, Completes
  <2> QED
    BY <1>0, <2>1 DEF Owned
<1>10. CASE pool_run
  <2>1. th' = th /\ conn' = [conn EXCEPT ![Head(queue)] = "lambda"] /\ queue # <<>>
    BY <1>10 DEF pool_run
  <2>2. conn[Head(queue)] = "queued"
    BY <2>1 DEF TypeOK, Lined
  <2>3. \A d \in Conns : conn[d] = "busy" => conn'[d] = "busy"
    BY <2>1, <2>2 DEF TypeOK
  <2> QED
    BY <1>0, <2>1, <2>3 DEF Owned
<1> QED
  BY <1>1, <1>2, <1>3, <1>4, <1>5, <1>6, <1>7, <1>8, <1>9, <1>10
     DEF Next, IoStep, Run, Environment

\* The queue moves with the connections that are queued.
LEMMA LinedKept == ASSUME Inv, Next PROVE Lined'
<1> USE ThreadSets DEF Inv, Lined
<1>0. queue \in Seq(Conns) /\ \A j \in 1 .. Len(queue) : queue[j] \in Conns
  BY DEF TypeOK
<1>1. ASSUME NEW i \in Io, post_enqueue(i) PROVE Lined'
  <2>1. th[i].c \in Conns /\ queue' = Append(queue, th[i].c)
        /\ conn' = [conn EXCEPT ![th[i].c] = "queued"]
    BY <1>1 DEF post_enqueue, Held, Holding
  <2>2. /\ Len(queue') = Len(queue) + 1 /\ queue'[Len(queue) + 1] = th[i].c
        /\ \A j \in 1 .. Len(queue) : queue'[j] = queue[j]
    BY <1>0, <2>1, AppendProperties
  <2>3. \A d \in Conns : conn'[d] = IF d = th[i].c THEN "queued" ELSE conn[d]
    BY <2>1 DEF TypeOK
  <2>4. \A j \in 1 .. Len(queue) + 1 : j \in 1 .. Len(queue) \/ j = Len(queue) + 1
    BY <1>0
  <2> QED
    BY <1>0, <2>1, <2>2, <2>3, <2>4
<1>2. CASE pool_run
  <2>1. queue # <<>> /\ queue' = Tail(queue) /\ conn' = [conn EXCEPT ![Head(queue)] = "lambda"]
    BY <1>2 DEF pool_run
  <2>2. /\ Len(queue') = Len(queue) - 1 /\ Len(queue) \in Nat \ {0} /\ Head(queue) = queue[1]
        /\ \A j \in 1 .. Len(queue) - 1 : queue'[j] = queue[j + 1]
    BY <1>0, <2>1, HeadTailProperties
  <2>3. \A j \in 1 .. Len(queue) - 1 : j + 1 \in 1 .. Len(queue) /\ 1 \in 1 .. Len(queue) /\ j + 1 # 1
    BY <2>2
  <2>4. \A j \in 1 .. Len(queue) - 1 : queue[j + 1] # queue[1]
    BY <2>3 DEF TypeOK
  <2>5. \A d \in Conns : d # queue[1] => conn'[d] = conn[d]
    BY <2>1, <2>2 DEF TypeOK
  <2>6. SUFFICES ASSUME NEW j \in 1 .. Len(queue) - 1 PROVE conn'[queue'[j]] = "queued"
    BY <2>2 DEF Lined
  <2>7. queue'[j] = queue[j + 1] /\ queue[j + 1] \in Conns /\ conn[queue[j + 1]] = "queued"
    BY <1>0, <2>2, <2>3 DEF Lined
  <2> QED
    BY <2>4, <2>5, <2>7
<1>3. CASE destroy_pool
  BY <1>3 DEF destroy_pool
<1>4. ASSUME queue' = queue, \A d \in Conns : conn[d] = "queued" => conn'[d] = "queued"
      PROVE  Lined'
  BY <1>0, <1>4
<1>5. ASSUME NEW i \in Io, handled(i) PROVE Lined'
  <2>1. conn[th[i].c] = "busy" /\ queue' = queue
    BY <1>5 DEF handled, Owned, Holding, poolVars
  <2>2. \A d \in Conns : conn[d] = "queued" => conn'[d] = "queued"
    BY <1>5, <2>1 DEF handled, TypeOK
  <2> QED
    BY <1>4, <2>1, <2>2
<1>6. ASSUME NEW i \in Io,
             \/ accept_done(i) \/ accept_is_open(i) \/ accept_again(i) \/ timer_done(i)
             \/ scan(i) \/ rearm(i) \/ (\E c \in Conns : take(i, c)) \/ posts(i)
             \/ post_once(i) \/ post_create(i) \/ signal_done(i) \/ io_exit(i) \/ run_spawn(i)
      PROVE  Lined'
  <2>1. queue' = queue
    BY <1>6 DEF accept_done, accept_is_open, accept_again, timer_done, scan, rearm, take,
                posts, post_once, post_create, signal_done, io_exit, run_spawn, poolVars
  <2>2. \A d \in Conns : conn[d] = "queued" => conn'[d] = "queued"
    BY <1>6 DEF accept_done, accept_is_open, accept_again, timer_done, scan, rearm, take,
                posts, post_once, post_create, signal_done, io_exit, run_spawn, TypeOK
  <2> QED
    BY <1>4, <2>1, <2>2
<1>7. CASE \/ (\E p \in Threads : Stop(p)) \/ stop_called \/ run_refused \/ run_timer
           \/ run_listen \/ run_join \/ run_pool_stop \/ run_pool_join
           \/ Connects \/ Expires \/ Signal
  <2>1. queue' = queue /\ conn' = conn
    BY <1>7 DEF Stop, stop_timer, stop_acceptor, stop_context, stop_called, run_refused, run_timer,
                run_listen, run_join, run_pool_stop, run_pool_join, Connects, Expires, Signal, poolVars
  <2> QED
    BY <1>4, <2>1
<1>8. CASE destroy_context \/ (\E c \in Conns : lambda_ends(c) \/ Completes(c))
  <2>1. queue' = queue /\ \A d \in Conns : conn[d] = "queued" => conn'[d] = "queued"
    BY <1>8 DEF destroy_context, lambda_ends, Completes, poolVars, TypeOK
  <2> QED
    BY <1>4, <2>1
<1> QED
  BY <1>1, <1>2, <1>3, <1>5, <1>6, <1>7, <1>8 DEF Next, IoStep, Run, Destroy, Environment

\* A thread that stays clear of the pool leaves it alone.
LEMMA PoolFrame ==
    ASSUME PoolMade, NEW p \in Threads, NEW at, NEW c, Step(p, at, c),
           at \notin {"create", "enqueue"}, UNCHANGED <<main, once, pool, pools>>,
           \A d \in Conns : conn'[d] \in {"queued", "lambda"} =>
                            conn[d] \in {"queued", "lambda"} \/ once = "done"
    PROVE  PoolMade'
BY ThreadSets DEF PoolMade, Step

\* The pool is made once, by whoever call_once let through.
LEMMA PoolMadeKept == ASSUME Inv, Next PROVE PoolMade'
<1> USE ThreadSets DEF Inv
<1>1. ASSUME NEW i \in Io, accept_done(i) PROVE PoolMade'
  <2>1. Step(i, "is_open", th[i].c)
    BY <1>1, IoMoves
  <2>2. \A d \in Conns : conn'[d] \in {"queued", "lambda"} => conn[d] \in {"queued", "lambda"}
    BY <1>1 DEF accept_done, TypeOK
  <2> QED
    BY <1>1, <2>1, <2>2, PoolFrame DEF accept_done, poolVars
<1>2. ASSUME NEW i \in Io, accept_is_open(i) \/ accept_again(i) \/ timer_done(i) \/ rearm(i)
                           \/ scan(i) \/ signal_done(i) \/ io_exit(i) \/ run_spawn(i)
      PROVE  PoolMade'
  <2>1. PICK at \in Place, c \in Conns \cup {None} : Step(i, at, c) /\ at \notin {"create", "enqueue"}
    BY <1>2, IoMoves DEF TypeOK, Place
  <2>2. /\ \A d \in Conns : conn'[d] \in {"queued", "lambda"} => conn[d] \in {"queued", "lambda"}
        /\ UNCHANGED <<main, once, pool, pools>>
    BY <1>2 DEF accept_is_open, accept_again, timer_done, rearm, scan, signal_done, io_exit,
                run_spawn, poolVars
  <2> QED
    BY <2>1, <2>2, PoolFrame
<1>3. ASSUME NEW i \in Io, NEW c \in Conns, take(i, c) PROVE PoolMade'
  <2>1. PICK at \in {"handler", "finish"} : Step(i, at, c)
    BY <1>3, TakeMoves
  <2>2. \A d \in Conns : conn'[d] \in {"queued", "lambda"} => conn[d] \in {"queued", "lambda"}
    BY <1>3 DEF take, TypeOK
  <2> QED
    BY <1>3, <2>1, <2>2, PoolFrame DEF take, poolVars
<1>4. ASSUME NEW i \in Io, handled(i) \/ post_enqueue(i) PROVE PoolMade'
  <2>1. Step(i, "poll", None)
    BY <1>4, IoMoves
  <2>2. /\ \A d \in Conns : conn'[d] \in {"queued", "lambda"} =>
                            conn[d] \in {"queued", "lambda"} \/ once = "done"
        /\ UNCHANGED <<main, once, pool, pools>>
    BY <1>4 DEF handled, post_enqueue, poolVars, TypeOK, PoolMade
  <2> QED
    BY <2>1, <2>2, PoolFrame
<1>5. ASSUME NEW i \in Io, posts(i) PROVE PoolMade'
  <2>1. Step(i, "post", th[i].c)
    BY <1>5, IoMoves
  <2> QED
    BY <1>5, <2>1, PoolFrame DEF posts, poolVars
<1>6. ASSUME NEW i \in Io, post_once(i) PROVE PoolMade'
  <2>1. Step(i, IF once = "no" THEN "create" ELSE "enqueue", th[i].c)
    BY <1>6, IoMoves
  <2>2. main = "spawn"
    BY <1>6, Working DEF post_once
  <2> QED
    BY <1>6, <2>1, <2>2 DEF post_once, PoolMade, Step, Over, TypeOK
<1>7. ASSUME NEW i \in Io, post_create(i) PROVE PoolMade'
  <2>1. Step(i, "enqueue", th[i].c)
    BY <1>7, IoMoves
  <2>2. main = "spawn"
    BY <1>7, Working DEF post_create
  <2> QED
    BY <1>7, <2>1, <2>2 DEF post_create, PoolMade, Step, Over
<1>8. ASSUME NEW p \in Threads, Stop(p) PROVE PoolMade'
  <2>1. PICK at \in Place, c \in Conns \cup {None} : Step(p, at, c) /\ at \notin {"create", "enqueue"}
    BY <1>8, StopMoves DEF Stop, TypeOK, Place
  <2> QED
    BY <1>8, <2>1, PoolFrame DEF Stop, stop_timer, stop_acceptor, stop_context, poolVars
<1>9. CASE stop_called
  <2>1. Step(Ext, "stop1", th[Ext].c)
    BY <1>9, StopMoves
  <2> QED
    BY <1>9, <2>1, PoolFrame DEF stop_called, poolVars
<1>10. CASE run_refused \/ run_timer \/ run_listen \/ run_join \/ run_pool_stop \/ run_pool_join
  BY <1>10 DEF PoolMade, Over, poolVars,
               run_refused, run_timer, run_listen, run_join, run_pool_stop, run_pool_join
<1>11. CASE Destroy \/ pool_run \/ (\E c \in Conns : lambda_ends(c) \/ Completes(c))
  <2>1. CASE Destroy
    BY <2>1 DEF TypeOK, PoolMade, Over, Destroy, destroy_pool, destroy_context, poolVars
  <2>2. CASE pool_run
    BY <2>2 DEF TypeOK, PoolMade, pool_run
  <2>3. ASSUME NEW c \in Conns, lambda_ends(c) \/ Completes(c) PROVE PoolMade'
    BY <2>3 DEF TypeOK, PoolMade, lambda_ends, Completes, poolVars
  <2> QED
    BY <1>11, <2>1, <2>2, <2>3
<1>12. CASE Connects \/ Expires \/ Signal
  BY <1>12 DEF PoolMade, Connects, Expires, Signal, poolVars
<1> QED
  BY <1>1, <1>2, <1>3, <1>4, <1>5, <1>6, <1>7, <1>8, <1>9, <1>10, <1>11, <1>12
     DEF Next, IoStep, Run, Environment

\* What is joined or destroyed has let go of the connections.
LEMMA EmptiedKept == ASSUME Inv, Next PROVE Emptied'
<1> USE DEF Inv, Emptied, Over
<1>1. ASSUME NEW i \in Io, IoStep(i) PROVE Emptied'
  <2>1. main = "spawn" /\ main' = main
    BY <1>1, Working
       DEF IoStep, Takes, accept_done, accept_is_open, accept_again, timer_done, scan, rearm,
           take, handled, posts, post_once, post_create, post_enqueue, signal_done, io_exit
  <2> QED
    BY <2>1
<1>2. CASE (\E p \in Threads : Stop(p)) \/ stop_called
  BY <1>2 DEF Stop, stop_timer, stop_acceptor, stop_context, stop_called
<1>3. CASE Run
  <2>1. CASE run_refused
    BY <2>1 DEF run_refused, PoolMade
  <2>2. CASE run_pool_stop
    BY <2>2 DEF run_pool_stop, PoolMade
  <2>3. CASE run_pool_join
    BY <2>3 DEF run_pool_join, Lambdas
  <2> QED
    BY <1>3, <2>1, <2>2, <2>3 DEF Run, run_timer, run_listen, run_spawn, run_join
<1>4. CASE destroy_pool
  BY <1>4 DEF destroy_pool
<1>5. CASE destroy_context
  <2>1. \A c \in Conns : conn[c] # "busy"
    BY <1>5 DEF destroy_context, Held, Placed, Holding
  <2>2. \A c \in Conns : conn[c] \in {"free", "idle", "ready", "back"}
    BY <1>5, <2>1 DEF destroy_context, TypeOK, ConnState
  <2> QED
    BY <1>5, <2>2 DEF destroy_context
<1>6. CASE pool_run
  <2>1. main \notin Over
    BY <1>6 DEF pool_run, PoolMade
  <2> QED
    BY <1>6, <2>1 DEF pool_run
<1>7. ASSUME NEW c \in Conns, lambda_ends(c) PROVE Emptied'
  BY <1>7 DEF lambda_ends
<1>8. ASSUME NEW c \in Conns, Completes(c) PROVE Emptied'
  BY <1>8 DEF Completes, TypeOK
<1>9. CASE Connects \/ Expires \/ Signal
  BY <1>9 DEF Connects, Expires, Signal
<1> QED
  BY <1>1, <1>2, <1>3, <1>4, <1>5, <1>6, <1>7, <1>8, <1>9 DEF Next, Destroy, Environment

\* A thread that stays clear of the accept loop leaves its chain alone.
LEMMA AcceptFrame ==
    ASSUME AcceptOnce, NEW p \in Threads, NEW at, NEW c, Step(p, at, c),
           p \in Io => at \notin AcceptPlace /\ th[p].at \notin AcceptPlace,
           UNCHANGED <<main, acceptor, acc>>
    PROVE  AcceptOnce'
BY ThreadSets DEF AcceptOnce, Step

\* The accept loop keeps exactly one carrier while the acceptor is open.
LEMMA AcceptOnceKept == ASSUME Inv, Next PROVE AcceptOnce'
<1> USE ThreadSets DEF Inv, AcceptPlace
<1>1. ASSUME NEW i \in Io, accept_done(i) PROVE AcceptOnce'
  <2>1. Step(i, "is_open", th[i].c)
    BY <1>1, IoMoves
  <2>2. main = "spawn"
    BY <1>1, Working DEF accept_done, Takes
  <2> QED
    BY <1>1, <2>1, <2>2 DEF accept_done, AcceptOnce, Step
<1>2. ASSUME NEW i \in Io, accept_is_open(i) PROVE AcceptOnce'
  <2>1. Step(i, IF acceptor = "open" THEN "accept" ELSE "poll", th[i].c)
    BY <1>2, IoMoves
  <2> QED
    BY <1>2, <2>1 DEF accept_is_open, ops, AcceptOnce, Step, TypeOK
<1>3. ASSUME NEW i \in Io, accept_again(i) PROVE AcceptOnce'
  <2>1. Step(i, "poll", None)
    BY <1>3, IoMoves
  <2>2. main = "spawn"
    BY <1>3, Working DEF accept_again
  <2> QED
    BY <1>3, <2>1, <2>2 DEF accept_again, accept, AcceptOnce, Step
<1>4. ASSUME NEW i \in Io, timer_done(i) \/ rearm(i) \/ scan(i) \/ handled(i) \/ posts(i)
                           \/ post_once(i) \/ post_create(i) \/ post_enqueue(i)
                           \/ signal_done(i) \/ io_exit(i) \/ run_spawn(i)
      PROVE  AcceptOnce'
  <2>1. PICK at \in Place, c \in Conns \cup {None} : Step(i, at, c) /\ at \notin AcceptPlace
    BY <1>4, IoMoves DEF TypeOK, Place
  <2>2. th[i].at \notin AcceptPlace /\ UNCHANGED <<main, acceptor, acc>>
    BY <1>4 DEF Takes, ops, timer_done, rearm, scan, handled, posts, post_once, post_create,
                post_enqueue, signal_done, io_exit, run_spawn
  <2> QED
    BY <2>1, <2>2, AcceptFrame
<1>5. ASSUME NEW i \in Io, NEW c \in Conns, take(i, c) PROVE AcceptOnce'
  <2>1. PICK at \in {"handler", "finish"} : Step(i, at, c)
    BY <1>5, TakeMoves
  <2> QED
    BY <1>5, <2>1, AcceptFrame DEF take, Takes, ops
<1>6. ASSUME NEW p \in Threads, stop_timer(p) \/ stop_context(p) PROVE AcceptOnce'
  <2>1. PICK at \in Place : Step(p, at, th[p].c) /\ at \notin AcceptPlace
    BY <1>6, StopMoves DEF Place
  <2> QED
    BY <1>6, <2>1, AcceptFrame DEF stop_timer, stop_context, ops
<1>7. ASSUME NEW p \in Threads, stop_acceptor(p) PROVE AcceptOnce'
  <2>1. Step(p, "stop3", th[p].c)
    BY <1>7, StopMoves
  <2> QED
    BY <1>7, <2>1 DEF stop_acceptor, AcceptOnce, Step
<1>8. CASE stop_called
  <2>1. Step(Ext, "stop1", th[Ext].c)
    BY <1>8, StopMoves
  <2> QED
    BY <1>8, <2>1, AcceptFrame DEF stop_called, ops
<1>9. CASE run_listen
  BY <1>9 DEF run_listen, accept, AcceptOnce, Placed
<1>10. CASE run_refused \/ run_timer \/ run_join \/ run_pool_stop \/ run_pool_join
  BY <1>10 DEF run_refused, run_timer, run_join, run_pool_stop, run_pool_join, ops, AcceptOnce
<1>11. CASE destroy_context
  BY <1>11 DEF destroy_context, AcceptOnce
<1>12. CASE destroy_pool \/ pool_run \/ (\E c \in Conns : lambda_ends(c) \/ Completes(c))
            \/ Expires \/ Signal
  BY <1>12 DEF destroy_pool, pool_run, lambda_ends, Completes, Expires, Signal, ops, AcceptOnce
<1>13. CASE Connects
  BY <1>13 DEF Connects, AcceptOnce
<1> QED
  BY <1>1, <1>2, <1>3, <1>4, <1>5, <1>6, <1>7, <1>8, <1>9, <1>10, <1>11, <1>12, <1>13
     DEF Next, IoStep, Stop, Run, Destroy, Environment

\* Once begun, stop() stays begun: a thread in it goes on, and either it is
\* the external one or it has stopped the io_context when it returns.
LEMMA StopFrame ==
    ASSUME NEW p \in Threads, NEW at, NEW c, Step(p, at, c), StopBegun, stopped => stopped',
           th[p].at \notin {"stop2", "stop3", "exited"}
    PROVE  StopBegun'
BY DEF StopBegun, Step

LEMMA StopKept == ASSUME Inv, Next, StopBegun PROVE StopBegun'
<1> USE ThreadSets DEF Inv
<1>1. ASSUME NEW i \in Io, IoStep(i) \/ run_spawn(i) PROVE StopBegun'
  <2>1. PICK at \in Place, c \in Conns \cup {None} : Step(i, at, c)
    BY <1>1, IoMoves, TakeMoves DEF IoStep, TypeOK, Place
  <2>2. stopped' = stopped /\ th[i].at \notin {"stop2", "stop3", "exited"}
    BY <1>1 DEF IoStep, Takes, accept_done, accept_is_open, accept_again, timer_done, scan, rearm,
                take, handled, posts, post_once, post_create, post_enqueue, signal_done, io_exit,
                run_spawn
  <2> QED
    BY <2>1, <2>2, StopFrame
<1>2. ASSUME NEW p \in Threads, stop_timer(p) \/ stop_acceptor(p) \/ stop_context(p)
      PROVE  StopBegun'
  <2>1. CASE stop_context(p)
    BY <2>1 DEF stop_context, StopBegun
  <2>2. CASE stop_timer(p) \/ stop_acceptor(p)
    BY <2>2, StopMoves DEF StopBegun, Step
  <2> QED
    BY <1>2, <2>1, <2>2
<1>3. CASE stop_called
  BY <1>3, StopMoves, StopFrame DEF stop_called
<1>4. CASE \/ run_refused \/ run_timer \/ run_listen \/ run_join \/ run_pool_stop
           \/ run_pool_join \/ Destroy \/ pool_run
           \/ (\E c \in Conns : lambda_ends(c) \/ Completes(c))
           \/ Connects \/ Expires \/ Signal
  BY <1>4 DEF StopBegun, run_refused, run_timer, run_listen, run_join, run_pool_stop,
              run_pool_join, Destroy, destroy_pool, destroy_context, pool_run, lambda_ends,
              Completes, Connects, Expires, Signal
<1> QED
  BY <1>1, <1>2, <1>3, <1>4 DEF Next, Stop, Run, Environment

\* A thread that stays clear of the timer leaves its chain alone.
LEMMA TimerFrame ==
    ASSUME TimerOnce, NEW p \in Threads, NEW at, NEW c, Step(p, at, c),
           p \in Io => at \notin TimerPlace /\ th[p].at \notin TimerPlace,
           UNCHANGED <<main, timer>>, StopBegun => StopBegun'
    PROVE  TimerOnce'
BY ThreadSets DEF TimerOnce, Step

\* The timer keeps exactly one carrier until stop() has begun.
LEMMA TimerOnceKept == ASSUME Inv, Next PROVE TimerOnce'
<1> USE ThreadSets DEF Inv, TimerPlace
<1>0. StopBegun => StopBegun'
  BY StopKept
<1>1. ASSUME NEW i \in Io, timer_done(i) PROVE TimerOnce'
  <2>1. Step(i, IF timer = "expired" THEN "scan" ELSE "poll", th[i].c)
    BY <1>1, IoMoves
  <2> QED
    BY <1>0, <1>1, <2>1 DEF timer_done, TimerOnce, Step
<1>2. ASSUME NEW i \in Io, scan(i) PROVE TimerOnce'
  <2>1. Step(i, "rearm", th[i].c)
    BY <1>2, IoMoves
  <2> QED
    BY <1>0, <1>2, <2>1 DEF scan, ops, TimerOnce, Step
<1>3. ASSUME NEW i \in Io, rearm(i) PROVE TimerOnce'
  <2>1. Step(i, "poll", None)
    BY <1>3, IoMoves
  <2> QED
    BY <1>0, <1>3, <2>1 DEF rearm, TimerOnce, Step
<1>4. ASSUME NEW i \in Io, accept_done(i) \/ accept_is_open(i) \/ accept_again(i) \/ handled(i)
                           \/ posts(i) \/ post_once(i) \/ post_create(i) \/ post_enqueue(i)
                           \/ signal_done(i) \/ io_exit(i) \/ run_spawn(i)
      PROVE  TimerOnce'
  <2>1. PICK at \in Place, c \in Conns \cup {None} : Step(i, at, c) /\ at \notin TimerPlace
    BY <1>4, IoMoves DEF TypeOK, Place
  <2>2. th[i].at \notin TimerPlace /\ UNCHANGED <<main, timer>>
    BY <1>4 DEF Takes, ops, accept_done, accept_is_open, accept_again, handled, posts, post_once,
                post_create, post_enqueue, signal_done, io_exit, run_spawn
  <2> QED
    BY <1>0, <2>1, <2>2, TimerFrame
<1>5. ASSUME NEW i \in Io, NEW c \in Conns, take(i, c) PROVE TimerOnce'
  <2>1. PICK at \in {"handler", "finish"} : Step(i, at, c)
    BY <1>5, TakeMoves
  <2> QED
    BY <1>0, <1>5, <2>1, TimerFrame DEF take, Takes, ops
<1>6. ASSUME NEW p \in Threads, stop_timer(p) PROVE TimerOnce'
  <2>1. Step(p, "stop2", th[p].c)
    BY <1>6, StopMoves
  <2>2. StopBegun'
    BY <2>1 DEF StopBegun, Step
  <2> QED
    BY <1>6, <2>1, <2>2 DEF stop_timer, TimerOnce, Step
<1>7. ASSUME NEW p \in Threads, stop_acceptor(p) \/ stop_context(p) PROVE TimerOnce'
  <2>1. PICK at \in Place : Step(p, at, th[p].c) /\ at \notin TimerPlace
    BY <1>7, StopMoves DEF Place
  <2> QED
    BY <1>0, <1>7, <2>1, TimerFrame DEF stop_acceptor, stop_context, ops
<1>8. CASE stop_called
  <2>1. Step(Ext, "stop1", th[Ext].c)
    BY <1>8, StopMoves
  <2> QED
    BY <1>0, <1>8, <2>1, TimerFrame DEF stop_called, ops
<1>9. CASE run_timer
  BY <1>9 DEF run_timer, TimerOnce, Placed
<1>10. CASE run_listen
  BY <1>0, <1>10 DEF run_listen, TimerOnce
<1>11. CASE run_refused \/ run_join \/ run_pool_stop \/ run_pool_join \/ destroy_context
  BY <1>0, <1>11 DEF run_refused, run_join, run_pool_stop, run_pool_join, destroy_context,
                     ops, TimerOnce
<1>12. CASE destroy_pool \/ pool_run \/ (\E c \in Conns : lambda_ends(c) \/ Completes(c))
            \/ Connects \/ Signal
  BY <1>0, <1>12 DEF destroy_pool, pool_run, lambda_ends, Completes, Connects, Signal, ops, TimerOnce
<1>13. CASE Expires
  BY <1>0, <1>13 DEF Expires, TimerOnce
<1> QED
  BY <1>1, <1>2, <1>3, <1>4, <1>5, <1>6, <1>7, <1>8, <1>9, <1>10, <1>11, <1>12, <1>13
     DEF Next, IoStep, Stop, Run, Destroy, Environment

-----------------------------------------------------------------------------
(* Types.                                                                  *)

\* TypeOK for the variables that are plain values.
Flags ==
    /\ main \in {"new", "timer", "spawn", "joined", "draining", "returned",
                 "unpooled", "destroyed"}
    /\ handler \in BOOLEAN /\ stream_pool_size \in PoolSizes /\ stopped \in BOOLEAN
    /\ acceptor \in {"open", "closed"}
    /\ acc \in {"none", "pending", "ok", "failed"}
    /\ timer \in {"none", "armed", "expired", "aborted"}
    /\ sig \in {"none", "waiting", "raised"}
    /\ once \in {"no", "running", "done"} /\ pool \in {"none", "up", "stopped"}

\* Every step keeps the types; a queued connection is a connection because
\* the thread that queues it holds one, and it is not queued yet because a
\* connection a thread holds is in a handler.
LEMMA TypeKept == ASSUME Inv, Next PROVE TypeOK'
<1> USE ThreadSets DEF Inv, TypeOK
<1>1. th' \in [Threads -> [at : Place, c : Conns \cup {None}]]
  <2>1. ASSUME NEW p \in Threads, NEW at, NEW c, Step(p, at, c)
        PROVE  th' \in [Threads -> [at : Place, c : Conns \cup {None}]]
    BY <2>1 DEF Step, ThreadType
  <2>2. ASSUME NEW i \in Io, IoStep(i) \/ run_spawn(i)
        PROVE  th' \in [Threads -> [at : Place, c : Conns \cup {None}]]
    BY <2>1, <2>2, IoMoves, TakeMoves DEF IoStep
  <2>3. ASSUME NEW p \in Threads, Stop(p) \/ stop_called
        PROVE  th' \in [Threads -> [at : Place, c : Conns \cup {None}]]
    BY <2>1, <2>3, StopMoves DEF Stop
  <2> QED
    BY <2>2, <2>3
       DEF Next, Run, Destroy, Environment, run_refused, run_timer, run_listen, run_join,
           run_pool_stop, run_pool_join, destroy_pool, destroy_context, pool_run, lambda_ends,
           Completes, Connects, Expires, Signal
<1>2. conn' \in [Conns -> ConnState] /\ queue' \in Seq(Conns) /\ pools' \in Nat
  <2> USE DEF ConnState, poolVars
  <2>1. ASSUME NEW i \in Io, IoStep(i) \/ run_spawn(i)
        PROVE  conn' \in [Conns -> ConnState] /\ queue' \in Seq(Conns) /\ pools' \in Nat
    <3>1. CASE post_enqueue(i)
      <4>1. th[i].c \in Conns
        BY <3>1 DEF post_enqueue, Held, Holding
      <4> QED
        BY <3>1, <4>1, AppendProperties DEF post_enqueue
    <3> QED
      BY <2>1, <3>1
         DEF IoStep, accept_done, accept_is_open, accept_again, timer_done, scan, rearm, take,
             handled, posts, post_once, post_create, signal_done, io_exit, run_spawn
  <2>2. CASE pool_run
    BY <2>2, HeadTailProperties DEF pool_run
  <2>3. CASE destroy_pool
    BY <2>3 DEF destroy_pool
  <2>4. CASE \/ (\E p \in Threads : Stop(p)) \/ stop_called \/ run_refused \/ run_timer
             \/ run_listen \/ run_join \/ run_pool_stop \/ run_pool_join \/ destroy_context
             \/ (\E c \in Conns : lambda_ends(c) \/ Completes(c))
             \/ Connects \/ Expires \/ Signal
    BY <2>4 DEF Stop, stop_timer, stop_acceptor, stop_context, stop_called, run_refused, run_timer,
                run_listen, run_join, run_pool_stop, run_pool_join, destroy_context, lambda_ends,
                Completes, Connects, Expires, Signal
  <2> QED
    BY <2>1, <2>2, <2>3, <2>4 DEF Next, Run, Destroy, Environment
<1>3. Flags'
  <2> USE DEF Flags, ops, poolVars, setup
  <2>1. ASSUME NEW i \in Io, IoStep(i) \/ run_spawn(i) PROVE Flags'
    BY <2>1 DEF IoStep, accept_done, accept_is_open, accept_again, accept, timer_done, scan, rearm,
                take, handled, posts, post_once, post_create, post_enqueue, signal_done, io_exit,
                run_spawn
  <2>2. ASSUME NEW p \in Threads, stop_timer(p) \/ stop_acceptor(p) \/ stop_context(p)
                                  \/ stop_called
        PROVE  Flags'
    <3>1. CASE stop_timer(p)
      BY <3>1 DEF stop_timer
    <3>2. CASE stop_acceptor(p)
      BY <3>2 DEF stop_acceptor
    <3>3. CASE stop_context(p)
      BY <3>3 DEF stop_context
    <3>4. CASE stop_called
      BY <3>4 DEF stop_called
    <3> QED
      BY <2>2, <3>1, <3>2, <3>3, <3>4
  <2>3. CASE run_refused \/ run_timer \/ run_listen \/ run_join \/ run_pool_stop \/ run_pool_join
    BY <2>3 DEF run_refused, run_timer, run_listen, accept, run_join, run_pool_stop, run_pool_join
  <2>4. CASE Destroy \/ pool_run \/ (\E c \in Conns : lambda_ends(c) \/ Completes(c))
    BY <2>4 DEF Destroy, destroy_pool, destroy_context, pool_run, lambda_ends, Completes
  <2>5. CASE Connects \/ Expires \/ Signal
    BY <2>5 DEF Connects, Expires, Signal
  <2> QED
    BY <2>1, <2>2, <2>3, <2>4, <2>5 DEF Next, Stop, Run, Environment
<1>4. (\A j, k \in DOMAIN queue : queue[j] = queue[k] => j = k)'
  <2> SUFFICES \A j, k \in 1 .. Len(queue') : queue'[j] = queue'[k] => j = k
    BY <1>2
  <2>0. queue \in Seq(Conns) /\ \A j, k \in 1 .. Len(queue) : queue[j] = queue[k] => j = k
    OBVIOUS
  <2>1. ASSUME NEW i \in Io, post_enqueue(i)
        PROVE  \A j, k \in 1 .. Len(queue') : queue'[j] = queue'[k] => j = k
    <3>1. th[i].c \in Conns /\ conn[th[i].c] = "busy" /\ queue' = Append(queue, th[i].c)
      BY <2>1 DEF post_enqueue, Held, Owned, Holding
    <3>2. /\ Len(queue') = Len(queue) + 1 /\ queue'[Len(queue) + 1] = th[i].c
          /\ \A j \in 1 .. Len(queue) : queue'[j] = queue[j]
      BY <2>0, <3>1, AppendProperties
    <3>3. \A j \in 1 .. Len(queue) : queue[j] # th[i].c
      BY <3>1 DEF Lined
    <3>4. \A j \in 1 .. Len(queue) + 1 : j \in 1 .. Len(queue) \/ j = Len(queue) + 1
      BY <2>0
    <3> QED
      BY <2>0, <3>2, <3>3, <3>4
  <2>2. CASE pool_run
    <3>1. queue # <<>> /\ queue' = Tail(queue)
      BY <2>2 DEF pool_run
    <3>2. /\ Len(queue') = Len(queue) - 1 /\ Len(queue) \in Nat \ {0}
          /\ \A j \in 1 .. Len(queue) - 1 : queue'[j] = queue[j + 1]
      BY <2>0, <3>1, HeadTailProperties
    <3>3. \A j, k \in 1 .. Len(queue) - 1 : j + 1 \in 1 .. Len(queue) /\ (j + 1 = k + 1 => j = k)
      BY <3>2
    <3> QED
      BY <2>0, <3>2, <3>3
  <2>3. CASE destroy_pool
    BY <2>3 DEF destroy_pool
  <2>4. CASE queue' = queue
    BY <2>0, <2>4
  <2>5. \/ (\E i \in Io : post_enqueue(i)) \/ pool_run \/ destroy_pool \/ queue' = queue
    BY DEF Next, IoStep, Stop, Run, Destroy, Environment, poolVars, accept_done, accept_is_open,
       accept_again, timer_done, scan, rearm, take, handled, posts, post_once, post_create,
       signal_done, io_exit, stop_timer, stop_acceptor, stop_context, stop_called, run_refused,
       run_timer, run_listen, run_spawn, run_join, run_pool_stop, run_pool_join,
       destroy_context, lambda_ends, Completes, Connects, Expires, Signal
  <2> QED
    BY <2>1, <2>2, <2>3, <2>4, <2>5
<1> QED
  BY <1>1, <1>2, <1>3, <1>4 DEF Flags

-----------------------------------------------------------------------------
(* The invariant.                                                          *)

\* The server starts in the invariant,
LEMMA InitInv == Init => Inv
<1> SUFFICES ASSUME Init PROVE Inv
  OBVIOUS
<1>1. TypeOK
  <2>1. th \in [Threads -> [at : Place, c : Conns \cup {None}]]
    BY DEF Init, Place, At
  <2>2. handler \in BOOLEAN /\ stopped \in BOOLEAN /\ stream_pool_size \in PoolSizes
    BY DEF Init
  <2>3. conn \in [Conns -> ConnState] /\ queue \in Seq(Conns)
    BY DEF Init, ConnState
  <2> QED
    BY <2>1, <2>2, <2>3 DEF Init, TypeOK
<1>2. /\ \A i \in Io : th[i].at = "none"
      /\ th[Ext].at = "poll"
  BY ThreadSets DEF Init, At
<1>3. Lined
  <2>1. 1 .. Len(queue) = {}
    BY DEF Init
  <2> QED
    BY <2>1 DEF Lined
<1> QED
  BY <1>1, <1>2, <1>3 DEF Init, Inv, Placed, Held, Owned, PoolMade, Emptied, AcceptOnce, TimerOnce, Over,
                         ExtPlace, Holding, AcceptPlace, TimerPlace

\* never leaves it,
LEMMA StepInv == Inv /\ [Next]_vars => Inv'
<1> SUFFICES ASSUME Inv, [Next]_vars PROVE Inv'
  OBVIOUS
<1>1. CASE Next
  BY <1>1, TypeKept, PlacedKept, HeldKept, OwnedKept, LinedKept, PoolMadeKept, EmptiedKept, AcceptOnceKept,
     TimerOnceKept DEF Inv
<1>2. CASE UNCHANGED vars
  BY <1>2 DEF vars, setup, Inv, TypeOK, Placed, Held, Owned, Lined, PoolMade, Emptied, AcceptOnce, TimerOnce,
              StopBegun
<1> QED
  BY <1>1, <1>2

\* and so is always in it.
LEMMA Invariance == Spec => []Inv
BY InitInv, StepInv, PTL DEF Spec

\* One carrier counts as one.
LEMMA OneCarrier ==
    ASSUME NEW places, NEW pending \in BOOLEAN,
           pending => \A i \in Io : th[i].at \notin places,
           \A i, j \in Io : th[i].at \in places /\ th[j].at \in places => i = j
    PROVE  /\ Chain(pending, places) <= 1
           /\ pending \/ (\E i \in Io : th[i].at \in places) => Chain(pending, places) = 1
<1> DEFINE C == {i \in Io : th[i].at \in places}
<1>0. Chain(pending, places) = (IF pending THEN 1 ELSE 0) + Cardinality(C)
  BY DEF Chain
<1>1. CASE C = {}
  <2>1. Cardinality(C) = 0
    BY <1>1, FS_EmptySet
  <2> QED
    BY <1>0, <1>1, <2>1
<1>2. CASE C # {}
  <2>1. PICK i \in Io : C = {i}
    BY <1>2
  <2>2. Cardinality(C) = 1 /\ ~pending
    BY <2>1, FS_Singleton
  <2> QED
    BY <1>0, <2>2
<1> QED
  BY <1>1, <1>2

-----------------------------------------------------------------------------
(* Theorems.                                                               *)

\* Every variable stays in its type, for any number of threads.
THEOREM ServerTypes == Spec => []TypeOK
<1>1. Inv => TypeOK
  BY DEF Inv
<1> QED
  BY <1>1, Invariance, PTL

\* However stop() falls into the accept handler, the loop is one chain, and it
\* ends only when the acceptor is closed (HttpServer::Impl::accept).
THEOREM OneAcceptLoop == Spec => []AcceptLoop
<1>1. Inv => AcceptLoop
  <2> SUFFICES ASSUME Inv PROVE AcceptLoop
    OBVIOUS
  <2>1. /\ Chain(acc # "none", AcceptPlace) <= 1
        /\ acc # "none" \/ (\E i \in Io : th[i].at \in AcceptPlace)
               => Chain(acc # "none", AcceptPlace) = 1
    BY OneCarrier DEF Inv, AcceptOnce
  <2> QED
    BY <2>1 DEF Inv, AcceptOnce, AcceptLoop, AcceptPlace
<1> QED
  BY <1>1, Invariance, PTL

\* However stop() falls into the scan, there is one chain of waits, and it
\* ends only when stop() has begun (TimerManager::start and stop).
THEOREM OneTimerLoop == Spec => []TimerLoop
<1>1. Inv => TimerLoop
  <2> SUFFICES ASSUME Inv PROVE TimerLoop
    OBVIOUS
  <2>1. /\ Chain(timer # "none", TimerPlace) <= 1
        /\ timer # "none" \/ (\E i \in Io : th[i].at \in TimerPlace)
               => Chain(timer # "none", TimerPlace) = 1
    BY OneCarrier DEF Inv, TimerOnce
  <2> QED
    BY <2>1 DEF Inv, TimerOnce, TimerLoop, TimerPlace
<1> QED
  BY <1>1, Invariance, PTL

\* Any number of io threads may post their first lambda together: there is one
\* pool, made before anything is queued in it (HttpServer::Impl::post).
THEOREM PoolMadeOnce == Spec => []OnePool
<1>1. Inv => OnePool
  BY DEF Inv, TypeOK, PoolMade, OnePool
<1> QED
  BY <1>1, Invariance, PTL

\* When run() has returned no handler and no lambda runs, or ever will.
THEOREM QuietWhenReturned == Spec => []QuietAfterRun
<1>1. Inv => QuietAfterRun
  BY DEF Inv, Placed, PoolMade, Emptied, Over, QuietAfterRun, Lambdas
<1> QED
  BY <1>1, Invariance, PTL

\* No connection outlives the io_context of its socket (~Impl).
THEOREM SocketsDieFirst == Spec => []ContextOutlivesSockets
<1>1. Inv => ContextOutlivesSockets
  BY DEF Inv, Emptied, ContextOutlivesSockets
<1> QED
  BY <1>1, Invariance, PTL
=============================================================================
