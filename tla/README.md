# fox-http: a TLA+ model of the server core

fox-http is a small HTTP/1.1 server library on Boost.Asio. One `io_context` is
run by several threads and the code uses no strand. A connection is therefore
correct only because of the shape of its chain of completion handlers, the
order in which they set a few flags that a timer reads from another thread,
and the discipline with which two kinds of reads share one buffer. Around it are
the threads of the server with their start and shutdown, the timer's map, and
sequential code that turns bytes into requests and requests into calls. This
project models all of these, checks them with TLC on small instances and proves
every invariant that a run checks, and the refinements between the specifications, with
TLAPS for all instances. Liveness is checked with TLC only.

Paths below are relative to the repository.

## The system

| Component | State | Operations | Interacts with |
|---|---|---|---|
| `Connection` (src/connection.cpp) | `socket_`, `request_buffer_`, `keep_alive_`, `last_active_time_`, `is_processing_`, the reference count | start, read, the body readers, dispatch, write_buffered, post_stream_work, finish_request, cancel, close | created by the accept loop, scanned and cancelled by the timer, posts lambdas to the pool, calls the handler |
| `HttpResponse` (src/http_response.cpp) | status, headers, body, mode, `headers_flushed_`, `chunked_` | set_body, write, writev, write_chunk, end_chunks, write_sse_event, stream, serialize | filled by handler (io thread) or lambda (pool thread); writes synchronously through `Connection::SocketStream` |
| `HttpHandler` (user code) | none of the library's | `handle`, and the lambda given to `stream` | calls the response; may throw anywhere |
| `TimerManager` (src/timer_manager.cpp) | map id -> `weak_ptr<Connection>` under a mutex, one timer | init, add_connection, start, stop, check_idle_connections | a process-wide singleton; reads `is_processing_` and `last_active_time_`, calls cancel |
| `ServerStatus` (src/server_status.h) | counts and peaks | increment, decrement, set | written by connections (any thread) and by the timer under its mutex |
| `HttpServer` (src/http_server.cpp) | `io_context`, acceptor, signal wait, lazily created handler pool | run, stop, accept, post, the destructor | owns the threads; constructs connections; starts and stops the timer |
| `HttpRouter` (src/http_router.cpp) | three tables of routes, two fallback handlers | add, set_*_handler, handle | is a handler; filled before run(), read by all io threads |
| `HttpRequest` (src/http_request.cpp) | method, path, version, headers, query | parse_header, content_length, header lookup | `Connection::read` parses, `read_body` asks for the length |
| `HttpUtil` (src/http_util.cpp) | none | url_decode, parse_form_urlencoded | query strings and forms |

What is hard here:

* **Threads.** After `read()`, `async_write` or `post` is called, the next handler may run
  on another thread before the caller has returned. CHANGELOG 2026-02-18 tells of a race
  of exactly this kind.
* **Stale reads.** The idle scan reads two variables, then acts; the connection writes them
  in two statements.
* **Failures between steps.** A handler throws before or after its header block is on the
  wire, on the io thread or on the pool thread; the client resets or half-closes at any
  point; a cancel hits a composed operation between two of its parts.
* **Framing.** Three response modes, two framing headers and the keep-alive decision must
  agree with what a client makes of the bytes.
* **Shutdown.** `stop()` is three statements and may run on an io thread, on another thread, or
  both at once, between any two statements of the accept loop, of the timer and of `run()`; lambdas
  are then running or queued, and members are destroyed in the order of their declaration.
* **Shared map.** Accepting threads add to the timer's map, the scan removes from it, and other
  threads drop the last reference of a connection in between.
* **Overlap of rules.** Routes overlap and tables are kept sorted; three copies of the matching loop
  must agree. Bytes that are separators, escapes and data at once are cut and decoded.
* **Segmentation.** Headers, size lines, data and CRLFs arrive in arbitrary pieces;
  `async_read_until` overshoots, `async_read` bypasses the buffer.

The hazards are listed one by one, with their lines and the properties aimed at them, in
`PROJECT.json`.

## Modules

```
HttpFraming      the client's side of HTTP/1.1 framing (external: RFC 7230)
  HttpResponse     response object: operators on a record, and what they send
    Connection       one connection: state machine over tasks
      IdleReaper       the timer's scan of that connection, step by step
        ConnectionProofs theorems about Connection and about the scan beside it
      ConnectionExchange  (INSTANCE Exchange) Connection implements Exchange
        ExchangeProofs   theorems: one status line, the library's close is kept; it implements Exchange
    HandlerPrograms  the uses of the three modes that http_response.h describes
Exchange         abstract specification: what a connection promises
HttpServer       threads, accept loop, pool, stop, run, destructor; many connections
  HttpServerProofs theorems about HttpServer
TimerManager     the map, its mutex, ServerStatus; many connections
  TimerManagerProofs theorems about TimerManager
BodyReader       the byte side of read() and the body readers
  BodyStreams      the streams a client may send (grammar of RFC 7230)
    BodyReaderProofs theorems about BodyReader
HttpRequest      header block -> request
  HttpRequestProofs theorems about HttpRequest
HttpUtil         percent decoding, forms, query strings
  UrlEncoding      what an encoder of pairs writes
    HttpUtilProofs   theorems about HttpUtil
HttpRouter       registration and choice of a route
  HttpRouterProofs theorems about HttpRouter
MC*              instances for TLC
  MCHttpText       BodyReader, HttpRequest, HttpRouter and HttpUtil in one state graph
```

The pieces meet at operations, not at shared variables: HttpServer's `conn[c]` is one connection
reduced to who holds its reference, Connection is what happens inside; TimerManager's `life[a]` is the same
object seen from the map; IdleReaper puts the scan and one connection together. BodyReader, HttpRequest, HttpRouter and
HttpUtil are sequential and share nothing: MCHttpText lets one of them work per behaviour while the others stay at an
initial state.

### HttpFraming and HttpResponse

A response is a record with the fields that decide framing: `cl` (Content-Length or
`Absent`), `te`, `conn`, `body` (its size), `mode`, `flushed`, `chunked`. `Apply(r, call, ok)`
is the object after a call whose socket write succeeded or not, `Transmit(c, r, call)` the
client after the bytes of that call. The client is a parser with six states: it is `quiet` when
every response so far was complete and framed, and `garbled` when bytes arrive that its
framing does not account for. The asserts of `http_response.cpp` are compiled out of
the default Release build and guard nothing in the model. `transfer_encoding` stands for
`headers().insert("Transfer-Encoding", "chunked")`; a handler that then writes its own chunk
framing through `write` is not distinguished from one that writes raw bytes. `insert_close` and `insert_keep_alive` stand for
`headers().insert("Connection", v)`, which overwrites what `dispatch()` set and leaves `keep_alive_` alone; `own` records that
it happened. Left out: reason phrases, the text of SSE frames, HEAD and bodiless status codes, headers that neither framing nor the
connection depends on, and values of the framing headers that the named setters cannot produce (a Content-Length or
Transfer-Encoding inserted as free text).

### Connection

A member of `Tasks` is one completion handler of the connection. It is first pending
(`[k, st]`: the operation and its outcome), then runs on a thread (`k = "run"`, `st` is the place in
the code), and ends in the place `"ret"`: the thread has started the next operation,
touches nothing any more, but still holds `self`. A new operation is a new task, so a thread
on its way out overlaps with the handlers that follow. Threads have no identity: any
task may run at any time, which covers every number of io and pool threads. The object
is destroyed when the last task ends and the timer's temporary `shared_ptr` (`pin`) is gone.

| Action | Code |
|---|---|
| `Accept`, `AcceptFails`, `start` | `HttpServer::Impl::accept`, `Connection::start` |
| `read_header`, `read_error`, `malformed`, `read_body` | `read()` and `read_body()`; setting `is_processing_` is one step, the rest of the handler the next |
| `body_complete`, `read_chunk`, `chunk_too_large`, `body_error` | the handlers of the body readers |
| `handler_call`, `handler_throws` | the handler runs, one call on the response per step |
| `finish_buffered`, `finish_immediate`, `post_stream_work` | the three cases of `dispatch()` after the handler |
| `run_lambda`, `lambda_call`, `lambda_returns`, `lambda_throws` | the job posted to the handler pool |
| `run_finish`, `finish_clear`, `finish_touch`, `finish_next` | `finish_request()`, statement by statement, because the timer reads in between; `write_done` joins it after the flag |
| `return` | the handler ends; perhaps the destructor |
| `Receive`, `Drain`, `Resume`, `HalfClose`, `Reset`, `Tick` | kernel, client, clock |
| `Pin`, `cancel`, `Unpin`, `Erase` | what the timer may do, at any time |

Requests are reduced to the kind of body and whether the `Connection` header keeps the
connection. A handler is a pair of call sequences, the handler's and its lambda's; after a write that
failed it may go on or give up. A synchronous write fails only when the
client has reset the connection. `last_active_time_` is kept as an age that saturates
just above `kIdleTimeout`. Once the client has reset the connection its view is frozen.

### IdleReaper

Extends Connection: the environment's `Pin`, `cancel`, `Unpin` and `Erase` become the steps
of `check_idle_connections` at this connection, with `is_processing_` and `last_active_time_` read in two
separate steps and the cancel in a third. `through` is a history variable: since the scan locked the
connection, at every instant some task was between a request's header and the end of its response.
`TimerManager::mutex_` is not in the model: no connection takes it.

### BodyReader

The stream is a sequence of units (a header block, a size line, a body byte, a CR, an LF, a
trailer line). `net` is what the socket still holds, `buf` is `request_buffer_`. `Arrival` moves any
number of units; counted reads take theirs from `net` alone. Every dispatched request is
taken to be answered and the connection kept, so that the next, pipelined request is
read from what was left. Sums of sizes are taken modulo `SizeMax + 1`. A chunk that passes the test of the limit only because its sum
with what was read wrapped around ends the behaviour in `pc = "wrapped"`: what `resize()` and the read after it then do is
not modelled. BodyStreams says which streams are well formed: a layout names the piece that begins at each place (message,
chunk or trailer), how many messages are complete there and what the chunks have brought so far. The bytes
after a chunk's data are not constrained, as the code skips two of them unread.

### Exchange and ConnectionExchange

Exchange says what a connection promises without tasks, sockets or response modes: a phase
(accepting, awaiting, receiving, serving, over), how much of the current response the client has, how many
status lines, whether it was told that the connection closes. `LifeCycle` is the part about the phase alone.
ConnectionExchange maps Connection to it: the phase is read off the one task that drives the connection (two
drivers would be `"torn"`, which Exchange does not allow), the answer off the client's parser.

### HttpServer

`th[p]` is where an io thread, or an external thread that calls `stop()` (`Ext`), is in the code; `main` is the thread
that calls `run()` and later destroys the server. `acc`, `timer` and `sig` are the three waits of the
io_context: none, pending, or a handler queued with a result. A connection is where its reference is: in the
reactor, in the io_context's queue, in a handler, in the pool's queue, in a lambda, or in the finish_request
that its lambda posted.

| Action | Code |
|---|---|
| `accept_done`, `accept_is_open`, `accept_again` | the accept handler, cut where `stop()` can fall in between |
| `timer_done`, `scan`, `rearm` | the timer's handler: error test, scan, start() |
| `take`, `handled`, `posts`, `post_once`, `post_create`, `post_enqueue` | a connection's handler on an io thread; `Impl::post` with its call_once |
| `pool_run`, `lambda_ends` | the handler pool with its number of threads |
| `stop_called`, `signal_done`, `stop_timer`, `stop_acceptor`, `stop_context` | `stop()`, its two callers, its three statements |
| `run_*`, `io_exit` | `run()`, the threads' end, the joins |
| `destroy_pool`, `destroy_context` | members destroyed last to first |
| `Connects`, `Expires`, `Signal`, `Completes` | clients, clock, operating system |

Thread counts are computed as the code does (`hardware_concurrency()` may be 0). A stopped io_context hands
out no handlers but keeps those it has until it is destroyed. The external caller is assumed to
have returned from `stop()` before the destructor starts.

### TimerManager

One name per address. `make_shared` puts object and control block in one allocation and the map's
`weak_ptr` keeps it, so an address returns only after its entry was erased; `construct` says so.
`add_connection` and the scan are cut where another thread can see the map (never: they hold `mutex_`) or drop the last
reference (always). The destructor may run inside the scan, under the mutex; it takes no lock of
TimerManager, and `timer` checks that nothing deadlocks.

### HttpRouter

A path is the sequence of its parts between slashes, empty ones included. `add` is four actions by the
table the route lands in; `handle` is one: it takes no lock and writes nothing. The table of catch-alls is
any order `std::sort` may produce, as it is not stable. The properties are stated over the list of
calls of `add()`, never over the tables; that the two agree is proved (HttpRouterProofs).

### HttpRequest and HttpUtil

HttpRequest parses a block line by line; spelling is kept apart from text, and a field value is its leading
digits and whether something follows, because that is what `from_chars` looks at. HttpUtil works on byte
values, character by character, since cutting and decoding are all it does. `DecodeExact` compares it with a
definition of what every position of the text stands for, `KeysExact` and `RoundTrip` the two parsers with the
pairs an encoder started from. UrlEncoding says what it is for a text to encode pairs of words of any length (a piece per
character, a layout of the pairs); the texts of the run that claim to mean pairs satisfy it, which TLC evaluates.

## Runs

| Run | Instance | Shows |
|---|---|---|
| `connection_anyhandler` | 2 tasks, `kIdleTimeout` 1, all handlers of up to two calls, all lambdas of up to two calls | `TypeOK`; `SoleDriver`: at most one task drives the connection; `ProcessingFlag`: `is_processing_` brackets the request; `OpenWhileDriven`: no close, shutdown or destruction under a driver; `OneHead`, `CloseHonoured`: one status line per request and nothing after a close that the library announced, for correct and incorrect handlers |
| `connection_exchange` | 2 tasks, the documented handlers | `KeepAliveFramed`: the next request is awaited only after a complete response; `ImplementsLifeCycle`, `ImplementsExchange`: each request is answered once, whole and framed before the next is awaited, nothing is sent outside; `Answered`, `Reclaimed` |
| `reaper` | 2 tasks, `kIdleTimeout` 1, one handler per mode | `CutsNoRequest`: a request in progress during the whole visit of the scan is not cancelled, also while it changes threads; `SilentReaped`: a silent client is cut off in the end |
| `server` | 2 connections, 2 io threads, a pool of 1 and the default pool where `hardware_concurrency()` is 0 | `TypeOK`; `AcceptLoop`, `TimerLoop`: one chain each, neither doubled nor lost; `OnePool`; `QuietAfterRun`: no user code after run(); `ContextOutlivesSockets`; `ShutsDown`: a signal or stop() makes run() return; `LambdasRun`: a queued lambda gets its thread |
| `timer` | 4 addresses | `TypeOK`, `StatusExact`, `Registered`, `PinHolds`, `MutexFreed`, `Swept`, no deadlock |
| `text`, body readers | 196 pairs of pipelined requests, all truncations of one, a bad size line, sizes up to `SizeMax` after 0 to 2 bytes; limit 2, `SizeMax` 255 | `BodiesExact`, `BufferDrained`, `LimitExact`, `ReadToTheEnd` |
| `text`, header blocks | 10 request lines, up to 3 of 9 fields, `LengthMax` 3 | `HeadersExact` |
| `text`, router | any 3 calls over 10 overlapping patterns, 6 paths, two methods and UNKNOWN | `Precedence`: the documented order; `ParamsExact`: captures and literals are the segments of the path; `AllowExact`: 405 lists exactly the methods that would be served |
| `text`, decoders | all texts of up to 5 characters of `% & + = 2 6 G`; all encodings of two pairs of short keys and values | `DecodeExact`, `KeysExact`, `RoundTrip` |
| `connection_sse`, `connection_endchunks`, `router_slash`, `router_suffix`, `body_wrap`, `request_length` | the smallest instance that shows it, or that of `text` | violations, see Findings |

Deadlock is checked in `timer` only. Everywhere else the system may stop: a connection that has been
destroyed, a server that has been destroyed, a text that has been parsed. That nothing stops earlier is
what the liveness properties show.

**Bounds.** Two tasks are one driver and one thread on its way out. As a task in `"ret"` only drops a
reference, more of them add no new kind of interleaving, and the theorems hold for any number.
`kIdleTimeout = 1` gives an age that is fresh, at the limit and beyond it. Bodies of up to three bytes in up
to two chunks put the limit, the end of a chunk and the end of the buffer before, at and after one another.
Two connections on a pool of one thread give a lambda that runs and one that waits or is being posted, on two
io threads that race for the pool's creation and for `stop()`. Four addresses are one in
each of: being added, pinned, dead with an entry, new; the theorems hold for any number. Three registrations let
two catch-alls be re-sorted around a third route. Five characters hold an escape with a separator
on each side. In HttpRequest `LengthMax = 3` stands for the largest `size_t`: 5 is a number that does not fit. In BodyReader it is `SizeMax = 255`,
above every sum of the bodies and reached by the sizes that wrap.
Tasks are interchangeable and `connection_anyhandler`, which checks invariants only, uses that symmetry; no
other run does.

**Fairness.** `Server(t)` is weakly fair for each task: `io_context` and pool run what is queued
(for the pool this assumes that other lambdas end). A reset is reported to a waiting read. A
buffered write is completed (strong fairness, since it alternates between waiting and partial
progress): a client that neither reads nor goes away is outside the liveness claims. The
scan lets go of its `shared_ptr`. In `reaper` nothing is assumed of the client; the clock and the
timer run. In `server` threads run and lambdas end; a thread may take other handlers first any number of
times, but the io_context serves its queue in order, hence strong fairness of the signal's handler; nothing is assumed of clients, of
the clock or of who calls `stop()`, and nobody has to destroy the server. In `timer` the scan's steps and the end of
`add_connection` are weakly fair, and the scan gets the mutex although accepts take it too (strong fairness:
the timer fires for ever, and the lock is free between any two accepts).

## Findings

* **Streamed responses without a length are kept alive** (`connection_sse`). `dispatch()`
  turns keep-alive off for an Immediate response that has neither Content-Length nor Transfer-Encoding; the
  Stream case has no such test. The SSE handler of README.md and of the demo, asked with
  `Connection: keep-alive`, leaves the client in the middle of an unframed body while the server reads
  on. http_response.h:75-77 says that keep-alive is disabled.
* **Two terminators** (`connection_endchunks`). `post_stream_work` always calls `end_chunks()`, which is
  not idempotent. A lambda that follows README.md:141-142 and calls it too sends a second
  last-chunk where the client expects a status line.
* **A sum that wraps** (`body_wrap`). The limit is compared with `acc->size() + chunk_size`, formed in `size_t`
  (connection.cpp:248). A chunk size close to the largest `size_t`, after a byte of an earlier chunk, makes a small sum; the request is
  not answered with 413 as http_server.h:29-31 and README.md:239 say, and `read_chunk_data` sets out to read it.
* **A suffix without its slashes** (`router_suffix`). Paths are cut into non-empty segments and a catch-all joins those that are left: "/a/*r"
  asked for "/a/b/" captures "b", and "/a//b" does too. README.md:165 says that it captures the complete remaining suffix.
* **"1x" is a length of 1** (`request_length`). `content_length()` does not look where the digits end; http_request.h:53 says 0 if
  invalid.
* **Registered with a slash, not served with it** (`router_slash`). `add()` stores a static route without its trailing slash,
  `handle()` looks up the path as it came: "/a/" answers 404 at "/a/". http_router.h:22 promises an exact match.

Noted while modelling, without a run of their own; the instances of the passing runs hold no such input
unless said otherwise:

* A length set too late: `dispatch()` tests the headers as they are when the handler has returned. A handler that
  writes first and sets Content-Length afterwards has sent a block without it, and keep-alive is not disabled
  (http_response.h:75-77 says it is). Such handlers are among those of `connection_anyhandler`, not of
  `connection_exchange`.
* A handler may overwrite the Connection header. One that inserts "close" into the response of a kept-alive request tells the
  client so, while `finish_request()` goes by `keep_alive_` and reads on; one that inserts "keep-alive" where the library
  closes is closed. No document says what such a handler may expect. `CloseHonoured` speaks of the closes the library announces
  (`~resp.own`); all programs with such calls are in `connection_anyhandler`.
* Between the two statements of `finish_request()` a connection whose request took longer than `kIdleTimeout` looks idle, and the
  scan may cancel the read of its next request. `reaper` contains this; `CutsNoRequest` is about requests in progress.
* "%-2" is an escape, as `from_chars` into an int takes the minus sign; util_test.cpp:25 says malformed
  escapes pass through. The texts of `DecodeExact` hold no '-'.
* `parse_header()` cannot fail for a block that `async_read_until` delivered: a line without two spaces is
  dispatched as method UNKNOWN with an empty path (http_request.h:19-20). `text` includes such lines.

## Proofs

`ConnectionProofs` proves, for every finite non-empty set of tasks, every `kIdleTimeout` in Nat,
every set of requests and every set of handler programs (the named ASSUMEs of Connection):

* `TypeCorrect`: `Spec => []TypeOK`. Lemmas give the types of the response and client operators,
  then one lemma per group of actions.
* `OneDriver`, `FlagTracksRequest`, `DriverHasSocket`: `SoleDriver`, `ProcessingFlag` and `OpenWhileDriven` are
  invariants. None is inductive alone: a step that clears `is_processing_` or closes the
  socket preserves the other two only because nobody else drives, and a started operation waits
  (instead of failing at once) only because the socket is open. Their conjunction `Safe` is inductive
  relative to `TypeOK`. The argument: every action is performed by the driver `t` and leaves at most one
  driver, in a known place (`Only(w, s)`), and that place fits the new flag and socket (`Fits`).
  `GotoSafe`, `LaunchSafe`, `CloseNone` and `RetNone` say so for the four ways an action can end.

`ExchangeProofs` proves `RefinesLifeCycle`, `Spec => ImplementsLifeCycle`, from the same assumptions: every step of Connection is
a step of Exchange's life cycle or leaves the phase alone. It rests on `Safe`: the phase is the driver's
(`DriverPhase`), so it is defined only because there is one; an action hands it to one successor
(`OnlyEdge`) or to none (`NoneEdge`); and the operation it starts waits instead of failing
because the socket is open (`LaunchEdge`).

The same module proves `AnsweredOnce` and `CloseKept`, from the same assumptions: `OneHead` and `CloseHonoured` are invariants
behind any handlers, correct or not, `CloseHonoured` as long as the handler has not overwritten the Connection header itself. Neither says enough to survive a step: that a response is answered
once depends on `headers_flushed_` being false only while the client has no status line, and that a close is kept depends on
`keep_alive_`, the `Connection` field of the response and what the client was told. `Told` says that these agree
as seen by the driver (`Agrees`), while the client has not reset the connection; and that a Buffered response has not sent
anything. `ApplyKeeps` and `TransmitTold` are what a call does to both sides, `ErrorTold` the library's own responses.

The last part of `ExchangeProofs` proves `FramedBeforeNext` (`KeepAliveFramed`) and `RefinesExchange` (`Spec => ImplementsExchange`). These do depend
on the handlers, and the findings below `connection_sse` and `connection_endchunks` refute them for the wrong ones. The hypothesis is `Documented`:
every handler is `WellFramed` (module HandlerPrograms), that is, it leaves the Connection header to the library and uses one mode in
one of the five ways that http_response.h describes, for programs of any length and bodies of any size, with an exception anywhere. MCConnection states that
the instance of `connection_exchange` satisfies it and that the handlers of the two findings do not, and TLC evaluates both. The
inductive invariant `Framed` says at each place of the driver what the rest of the exchange will make of the
client's parser. In the handler and in the lambda it says that the program is on track (`AtHandler`, `AtLambda`): the calls
still to be made are those the parser needs, for instance exactly as many bytes as are left of an announced
length. `HandlerTrack` and `LambdaTrack` show that a call keeps it so; when the program ends or throws, the last step of
the exchange either finds the response complete or gives up `keep_alive_`. The refinement then follows step by step: a
step of Connection is one of Exchange's Open, Begin, Received, Respond, Again, GiveUp and Vanish, or a stutter, from
`Safe` (there is a phase), `Told` (one status line, the close) and `Framed` (the answer grows and is whole
when the next request is awaited).

The end of `ConnectionProofs` is about the scan. `ReaperBehaves` (a lemma, by the way IdleReaper is written) carries the invariants of
Connection over to it (`SafeWithTimer`). `RequestsNotCut` (`CutsNoRequest`) is about what the scan must not do: it needs that `is_processing_` is set at
every instant of a request, including those at which the request passes from an io thread to the pool and back, since one clear instant
would be enough for `scan_flag`; that is `ProcessingFlag` with `SoleDriver`, and the invariant adds that a visit that is past
`scan_flag` has seen a moment without a request. `ScanHoldsConnection` says that from `lock()` to the end of a visit the
connection exists, so no guard that the scan inherits from Connection's actions hides a step of the code.

`HttpServerProofs` proves the six invariants of the run `server` for any number of connections, io threads and pool
threads: `ServerTypes`, `OneAcceptLoop`, `OneTimerLoop`, `PoolMadeOnce`, `QuietWhenReturned` and `SocketsDieFirst`. The inductive invariant `Inv`
adds to them where everything is. `Placed`: an io thread exists only between `run()`'s spawn and its join. `Held`: a
connection in a handler is in the hands of some thread, so that joined threads leave none running. `PoolMade`: only the one thread that
`call_once` let through makes the pool, and whoever enqueues comes after it; the pool is joined before
`run()` returns. `Emptied`: what has been joined or destroyed holds no connection. `AcceptOnce` and `TimerOnce`: each chain has
one carrier, the pending operation or one thread; the timer's is lost only to `stop()` and the acceptor's only when it is
closed.

`TimerManagerProofs` proves, for every finite set of addresses, `TypesKept`, `FiguresExact`, `StartedIsRegistered` and `ScanPins`:
`TypeOK`, `StatusExact`, `Registered` and `PinHolds` are invariants. The inductive invariant adds
`Discipline`: an entry is being added exactly by the holder of the mutex, a connection that is only constructed has no entry, and
only the scan, while it holds the mutex, has places to visit or a connection in its hands. Without it a scan could pin a
connection that is still being added, or one that `release` is about to destroy.
`StepMap` carries the map, `StepFigures` the counts: `connection_count` depends on the set of objects alone and changes by one
exactly when it does (`ConstructCounts`, `DestroyCounts`), so it is never decremented below zero.

`BodyReaderProofs` proves the three invariants of BodyReader that the run `text` checks, for streams, segments and limits of any
size. `CountedReadsDrained` (`BufferDrained`) assumes only that lengths are values of `size_t` (`TypedStreams`). The inductive
invariants behind it, `Drained` and `Cut`, say that buffer and socket are together exactly the rest of the stream, so
every reader cuts it at one place, `pos`. `BodiesRead` (`BodiesExact`) assumes in addition that the streams are well formed
(`FormedStreams`), which includes streams cut off anywhere. `Tracked` relates the reader at `pos` to the piece that the layout has there: one
lemma per reader (`HeadReached`, `FixedReached`, `SizeReached`, `ChunkReached`, `CrlfReached`, `TrailerReached`, `BytesReached`) follows it
to the next piece, with the data in the buffer, in the socket or split between them. No induction over the stream is needed, since every step
starts from a place whose piece is known. `LimitHeld` (`LimitExact`) needs nothing
more, whatever sizes are announced: as long as a sum does not wrap the comparison of connection.cpp:248 is exact, and when it does the
model stops in "wrapped", where `LimitKept` fails. `Bounded` is its invariant. MCBodyReader states that all streams of the run satisfy these hypotheses, each with its
layout, and TLC evaluates that.

`HttpRouterProofs` proves the three invariants of HttpRouter that the run `text` checks, for any methods, patterns, paths and number of calls:
`OrderKept` (`Precedence`), `AllowRight` (`AllowExact`) and `ParamsRight` (`ParamsExact`). The properties speak of the list of calls
of `add()`, the code of its tables, so the inductive invariant `Tables` relates the two: per method, the static table holds the canonical
paths of its static registrations with the latest of each (`StaticTable`), the bucket of a length exactly the dynamic
registrations of that length, in the order of their calls (`DynamicTable`), and the third table exactly the catch-alls, none of them after
one it should precede (`CatchAllTable`, for every result `std::sort` may have). `StaticAdded`, `DynamicAdded` and `CatchAllAdded` add one route,
`TablesKept` says that the other tables stay right. `StaticFound`, `DynamicFound` and `CatchAllFound` then read the
tables: the first route that matches is a winner among the registrations. `CapturesTold` gives what its handler is told. What
`parse_pattern` and `split_path` do to one string is `Without`, a recursive function that drops the empty parts. `RestExists`
shows that its recursion has a solution, by the last place at which it had none, and `Downwards` (a set that holds n + 1 and goes
down one by one is all of 1 .. n + 1) stands for the induction of the lemmas after it: what is dropped is gone (`WithoutTyped`), what holds
nothing of it stays (`WithoutSame`), a dropped part in front is not seen (`WithoutFirst`). From them come `PatternsCut` and `PathsCut`: cutting
yields segments, and segments that are joined and cut again are the same. The assumptions `PatternsAssumption` and
`PathsAssumption` say no more than that a pattern is a sequence of parts and a path one of strings.

`HttpRequestProofs` proves `HeadersRight` (`HeadersExact`) for any number of fields. `Progress` says that after k fields the table is that of the first
k: its names are those of the fields that count, each with the value of its last (`HeadersUpTo`); `FieldAdded` adds one.

`HttpUtilProofs` proves the three invariants of HttpUtil that the run `text` checks, for texts of any length: `DecodeRight` (`DecodeExact`),
`KeysRight` (`KeysExact`) and `RoundTripRight` (`RoundTrip`). `url_decode` is a recursive function, and the library's induction theorems
cannot be instantiated here; each induction is instead over the set of places where the claim fails, which has a
greatest element (`GreatestOne`, from the well-foundedness of the naturals) that turns out not to be one. `FromExists` shows in this
way that the recursive definition has a solution, so that it can be unfolded at any place (`FromAt`), and `DecodedMeant`
that from any place that no escape covers the result is what the rest of the text means. Places of the result are counted
(`Count`): the character at i becomes the one whose number is that of the uncovered places up to i. `DecodeRight` assumes
`NoSignedEscape`, since "%-2" is decoded (noted above). For the parsers `TokenCut` says what `find` and `substr` cut out. `KeysSoFar` is
the invariant for the keys: they are those that begin before `pos`, a place where a token may begin (`KeysNext` is one token). `RoundTripRight` assumes
`WellEncoded`, that a text that is said to mean pairs encodes them. A spelling is decoded to its word (`SpellingDecoded`) and holds no
separator (`WordClean`), so the cuts are those of the layout (`PairCut`), and `PairsSoFar` says that the pairs before `pos` are stored.

Only model-checked: the liveness properties `Answered`, `Reclaimed`, `SilentReaped`, `ShutsDown`, `LambdasRun`, `MutexFreed`, `Swept`
and `ReadToTheEnd` (fairness is outside the prover's reach), and the runs that show violations.

## Not modelled

* The logger, the wording of messages and error pages, `stringify`, `TCP_NODELAY`, and Boost.Asio itself, which appears as
  the actions marked external.
* `ServerStatus`'s count of timeouts (it only grows) and `status_str` (formatting). For its reader: "connections" includes the
  object of the pending accept, "live objects" counts map entries and so includes connections that are gone until the next scan.
* `TimerManager::remove_connection`: nothing calls it.
* Several servers in one process, which would share the TimerManager: the second `init` replaces the timer under the
  first one's scan. Also the end of the process, where the singleton's timer outlives the io_context it
  was made for.
* Data races on plain objects: calls on one socket, acceptor or timer from two threads at once (the timer's
  `cancel` beside an io thread, `stop()` beside the accept loop or `run()`) are taken as atomic, although Asio does not promise
  that for one object.
* A client that stops in the middle of a body or does not take its response: `is_processing_` then
  keeps the connection for good. This is the code's behaviour and the reason for the fairness of
  writes; no line of the repository says otherwise.
* Demo and test drivers, except the demo's handlers, which are instances in MCConnection.
