# Verification of the concurrent HTTP proxy server

TLA+ modules, TLC configurations and TLAPS proofs for the proxy: a forward
proxy for plain HTTP `GET` with one accept loop, a pool of worker threads, a
shared LRU response cache and shared counters. Every definition is written from
the C code under `src/src` and `src/include`; where a document and the code
disagree the module follows the code and a run shows the disagreement.

The code has a Windows and a POSIX branch. The Makefile builds the Windows one
only. The two branches of `thread_pool.c` have the same shape, statement by
statement, so that one module stands for both; line numbers in `PROJECT.json`
point to the Windows branch where there are two.

## 1. Inventory

| Component | State | Operations | Interacts with |
|---|---|---|---|
| Accept loop, server life (`proxy_server_run`) | `g_shutdown_requested`, the listening socket, `result` | start up, poll, accept, submit, tear down; the signal handler | submits to the pool; destroys pool, metrics, cache at the end |
| Thread pool (`thread_pool.c`) | ring buffer of jobs, `queue_size/head/tail`, `shutting_down`, `threads_started`; mutex and two condition variables | create, worker loop, submit, shutdown, destroy | calls the connection handler, outside the mutex |
| Connection handler (`process_client_connection`) | the locals of a call, on the worker's stack | one call per connection: read, parse, look up, replay or fetch, store, close | cache, metrics, forwarder, sockets |
| Response forwarder (`response_forwarder.c`) | locals: origin socket, capture buffer | connect, rewrite the request, relay loop with capture | sockets; hands the capture to the handler |
| Cache (`cache.c`) | hash table, LRU list, byte count; mutex | create, get, put (insert, replace, evict), destroy | called by all workers |
| LRU list (`lru.c`) | head, tail, count; `prev`/`next` in the entries | attach front, detach, move to front, remove tail | called under the cache's mutex |
| Metrics (`metrics.c`) | eight counters; mutex | increments, saturating decrement, snapshot, summary | called by all workers, summary at the end |
| Request parser (`request_parser.c`) | none | text to request or error | handler |
| Socket wrappers, error pages | none (the operating system's handles) | read, write all, connect, timeouts, close | handler, forwarder, accept loop |
| Configuration, logger, error reports, `main` | the configuration, the log level | parse arguments, print | at start; log lines from everywhere |

What is hard, and what would make each part correct:

- **Thread pool.** Two wait loops on two conditions with one signal per change
  of the queue; a shutdown that may arrive between any two steps; creation that
  fails half way and tears down threads that already run; destruction that must
  wait for all of them. Correct: a bounded FIFO, each job handled once by one
  worker, no lost wakeup on either side, destroy returns and drains first.
- **Cache and list.** Two structures over the same entries and a count of their
  bytes, changed by calls that may fail half way (allocation after eviction,
  replacement with the old entry detached). Correct: list, table and count
  agree after every step; eviction follows the order of use and goes no further
  than needed; the entry being replaced is not evicted for itself.
- **Handler and forwarder.** Eight ways out of one function and seven out of
  the other, each of which must close the sockets and free the buffers it has;
  work on the cache in two critical sections with a whole fetch in between;
  peers that fail at any byte. Correct: no socket is leaked or closed twice,
  only relayed responses are cached, the counters fit together, every
  connection ends.
- **Server life.** Five acquisitions that may fail, a signal flag that is only
  looked at between two accepts, a submit that may block, a teardown order that
  must let workers finish before what they use is freed. Correct: nothing is
  used after its release, everything acquired is released, nobody who was
  accepted is lost, the run ends.
- **Reading, parsing, rewriting.** Sequential, but fed in pieces that the peers
  choose: two separate tests for complete headers, six searches over one line,
  partial writes, a list of addresses to try. Correct: the verdict on a request
  does not depend on how it was cut into reads; the line means what its grammar
  says; the origin gets what the client sent except for what is replaced; the
  first address that accepts is used and no other socket stays open.
- **Configuration.** A loop that moves its own index, and conversions with
  limits. Correct: what the server starts with is usable by its components and
  is what the arguments say.

`PROJECT.json` lists every hazard at its line with the properties that cover it.

## 2. How the project is built up

1. `JobQueue` (abstract) and `ThreadPool`, proofs in `ThreadPoolProofs`,
   refinement in `ThreadPoolRefinement`: the concurrent core.
2. `LruList`, `LruCache` (abstract) and `Cache`, proofs in `LruListProofs` and
   `CacheProofs`.
3. `RequestHandler`, proofs in `RequestHandlerProofs`: all workers at once, over
   the cache as a store and the metrics.
4. `ProxyServer` EXTENDS `ThreadPool`: the accept loop as the pool's only
   submitter and owner, with startup, signal and teardown; proofs in
   `ProxyServerProofs` on top of those of the pool.
5. `RequestParser` (operators) and `RequestPath` (one request through reader,
   parser, connect, rewrite and write), proofs in `RequestPathProofs`.
6. `Config`: command line to exit status, proofs in `ConfigProofs`.

What could follow: the relay of `RequestHandler` continued to clients that read
slowly.

## 3. Modules

| Module | What it is |
|---|---|
| `JobQueue` | what the pool promises: a bounded FIFO, one server per job, a door that closes once |
| `ThreadPool` | `thread_pool.c`; the properties of the pool; `JQ == INSTANCE JobQueue` |
| `MCThreadPool` | assumption on the instances of the pool TLC checks |
| `LruList` | `lru.c`: operators on a record of head, tail, count, prev, next |
| `LruCache` | what the cache promises: an LRU store with a byte limit |
| `Cache` | `cache.c` over `LruList`; `LC == INSTANCE LruCache` |
| `MCCache` | keys, hash and objects of the instances |
| `RequestHandler` | `process_client_connection`, `response_forwarder_forward`, the counters |
| `MCRequestHandler` | responses of the instances |
| `ProxyServer` | `proxy_server_run` around `ThreadPool` |
| `MCProxyServer` | assumption on the handles of the instance |
| `RequestParser` | `request_parser.c` and `build_cache_key` as operators on sequences of tokens |
| `RequestPath` | `read_request_bytes`, `socket_utils_connect_to_host`, `build_origin_request`, `socket_utils_write_all` |
| `MCRequestPath` | streams and address lists of the instances |
| `Config` | `main`, `proxy_config_parse_args`, `logger_parse_level` |
| `MCConfig` | command lines and numerals of the instances |
| `ThreadPoolProofs`, `ThreadPoolRefinement`, `LruListProofs`, `CacheProofs`, `RequestHandlerProofs`, `ProxyServerProofs`, `RequestPathProofs`, `ConfigProofs` | theorems |

Some definitions are marked "Mutant": each repeats the definition below it with
a plausible slip (a missing signal, a count that is not put back). No
specification uses them. For every property of a passing run one of them,
substituted for its original, makes TLC report that property; `PROJECT.json`
names the pairs. They show that the properties can fail.

### 3.1 ThreadPool

State: the fields of `struct thread_pool` under their own names, the place each
worker and each submitting thread is at, the job it holds, and how far the
pool's owner is with create, use and destroy. What a thread does between taking
the mutex and releasing it, or going to sleep, is one action; nothing outside
the mutex touches the pool's fields except creation (before the threads run, or
`threads_started`, which the owner alone uses) and the end of destroy (after
they were joined). A sleeping thread becomes "contending" through a signal (any
one sleeper), a broadcast or spuriously.

| Action | Code |
|---|---|
| `WorkerWait`, `WorkerExit`, `WorkerTake`, `HandlerReturn` | `thread_pool_worker` |
| `SubmitCall`, `SubmitWait`, `SubmitReject`, `SubmitEnqueue` | `thread_pool_submit` |
| `CreateThread`, `CreateThreadFails` | the creation loop, and its failure that calls destroy |
| `Shutdown` | `thread_pool_shutdown` by itself (only with `ConcurrentShutdown`; the proxy does not do it, the interface allows it) |
| `Destroy`, `JoinThread`, `FreePool` | `thread_pool_destroy` |

`Destroy` requires that nobody is inside submit: in the proxy the only submitter
is the thread that destroys. Failing allocations before the first thread starts
end in a NULL with nothing running and are not modelled.

### 3.2 LruList and Cache

An entry is an address; `key[e] = NoKey` says it is not allocated. The list is
modelled pointer by pointer. A hash chain is the sequence of its entries from
the head of its bucket on: a new entry goes in at the head (`InsertEntry`), and
`Skipping` takes one out at its place, by linking what is before it to what is
behind it. `TableIntact` sees an entry that was taken out of the wrong chain,
and one taken out of the wrong place of the right chain.
`evicted` is `result->evicted`, which `cache_put` clears first and the eviction
loop sets, whatever the call then returns. It is a variable of `LruCache` too,
so that the refinement also says: a call evicts what it must and no more, and
reports it, on the paths that fail for lack of memory as well.
The mutex covers all of `cache_put` and `cache_get`, so at most one call is
under way and calls of any number of threads are a sequence of calls; a
`cache_put` that has to make room takes a step per eviction, so that the
invariants also hold between two turns of the loop. Any allocation may fail in
any call (`PutShrinkFails`, `InsertFails`, `GrowFails`, `GetMiss`).
The cache's destruction needs no thread to be inside: the proxy joins the
workers first.

### 3.3 RequestHandler

One step is what a worker does up to and including its next call in which
somebody else takes part: a socket or the cache. The calls on the metrics in
between are single increments under the metrics' mutex; they commute with every
step of the other workers, none of which reads a counter, and are part of the
step before. The bytes of a request are read in one step with all its outcomes
(a request, an unacceptable request, none, too much, error or timeout).

- The origin follows a script: it sends some number of pieces of one of the
  responses, none and all of them included, and then closes, resets or stays
  silent. `capture` may be dropped at any piece (`realloc` may fail) and must be
  at the limit.
- `SocketsOwned` looks at all handles the handlers hold (those still in the
  pool's queue are the business of `OneHolder`); the operating system hands out
  any handle that is not open, so that a handle closed twice would be closed
  under its new owner.
- Which other keys a `cache_put` evicts is left open here (`Evictions`, any set
  of them, wider than the code) and settled in `Cache`. What a theorem or a run
  says of the handlers it says for every policy of eviction.
- Each return of the handler takes its connection off `active_connections`
  itself, as each of the eight does in the code; what they share (`Leave`) is
  only the close of the client's socket and the outcome.
- `CountersFitTogether` counts the keys that are filled now along with
  `cache_evictions`: together they are at most the misses whose fetch is over
  and did not fail. A store that is counted as an eviction without having cost
  another key its place breaks this.
- `relayed` and `lost` are history: what some client got from an origin, and
  how many capture buffers nobody owns. `lost` is changed by one action only,
  the return that forgets the buffer.
- The key fits its buffer always (8 + 256 + 5 + 2048 and separators are less
  than 4096), so the branch for a missing key is left out.

### 3.4 ProxyServer

`ProxyServer` extends `ThreadPool`: its variables are the pool's and its own
(`stage`, `live`, `shutdown_requested`, the network's and the metrics'
counters), and each of its steps is one of the pool's with something added, or
leaves the pool alone (`ServerStepIsPoolStep`, proved). `live` is the set of
what `proxy_server_run` has acquired and not yet released.

| Action | Code |
|---|---|
| `Acquire`, `AcquireFails` | Winsock, metrics, listener, cache, in this order, each with its branch of releases (`Undo` lists what each branch releases, as the code does) |
| `CreatePool`, `NoPool` | `thread_pool_create`, also when it destroys what it started |
| `CheckFlag`, `Poll`, `Accept`, `AcceptFails`, `Submit` | the accept loop |
| `CloseListener`, `Drain`, `Report`, `Release` | the teardown |
| `Signal`, `ClientConnects` | the signal handler; the kernel's backlog |
| `WorkerRuns` | the pool's worker with the first and last count of the handler |

Taking a job (`thread_pool.c:79`) and counting it (`proxy_server.c:115`) are one
step here: between the two the worker touches nothing that another thread sees,
and every property that relates the counters to the pool looks at them where
both are done or neither is.

What a handler does in between is `RequestHandler`'s; here it is one place,
"handling", which is all the teardown depends on: a handler uses the cache, the
metrics, the sockets and a context on the stack of `proxy_server_run` for as
long as it is there.

### 3.5 RequestParser and RequestPath

A text is a sequence of tokens. Every character the code searches for is a token
of its own; the words between them are single tokens. Both tests for complete
headers, the split of the request line, the URL, the port with `strtol`'s plus
sign and leading zeros and the size of every buffer are kept. `Parse` is the
whole parser, and `Meanings` says the same without searching, as the set of all
ways to cut a line into its parts, to compare it with.

`RequestPath` is what one worker does with one client before the relay:
`Receive` takes any number of tokens that fits the buffer, and the test for the
end of the headers sees the whole buffer up to its first NUL; `TryAddress` is
one turn of the loop over the addresses; `FilterLine` one turn of the header
filter; `Send` one `send`, which may take any part of what is left and
hands over the bytes from the place the loop has reached. `received` is what has
arrived at the origin. `OriginReached` compares it with the text at every step
of the writing and `ForwardedAsMeant` is about it, so that a rest written from
the wrong place is seen. A header's name is one token; its comparison without
regard to case and the search for its colon are in the token (`Replaced`).
`RequestHandler` has all of this as one step with several outcomes. The two
modules are about the same function at different grain and share no variable,
so that neither repeats the other.

### 3.6 Config

An argument is a string, and what `strtol`, `strtoull` and the level's spelling
make of it is given by two maps (`Numeral`, `LevelOf`) that are constants of the
module. The option loop, its index, the limits and the wrap-around of
`strtoull` are the code's.

## 4. Runs

| Run | Instance | Checks |
|---|---|---|
| `pool_shared` | 3 workers, 2 slots, 2 submitters, shutdown at any moment | the invariants of the pool |
| `server` | 2 workers, 2 slots, 5 handles, backlog 2, 5 clients (63,678 states) | the invariants of the server, that its pool implements `JobQueue` with its fairness, every job handled, next client accepted, the run ends |
| `cache` | 3 addresses, 4 keys in 2 buckets, three of them in one, objects of 0 to 4 bytes, at most 3 in all (30,342 states) | the invariants of the cache, refinement of `LruCache` |
| `handler_states` | 2 workers, 2 keys, 3 sockets, 3 connections | the invariants of the handlers |
| `handler_ends` | 2 workers, 1 key, 3 sockets, 2 connections | every connection ends |
| `request_path` | buffer of 19 tokens, some thousand streams, address lists up to 2 (173,853 states) | verdict, parser, rewriting, connection, every request ends |
| `config` | every command line of up to 4 of 16 arguments (144,250 states) | what the server is started with, the exit status |
| `handler_partial`, `handler_answer`, `handler_capture` | 1 worker, 1 key, 1 connection | three claims the code does not keep |
| `request_bare` | one good line, short headers | a claim the code does not keep |
| `config_negative` | as `config`, shorter command lines | a claim the code does not keep |

Bounds, and why they are enough:

- Pool: `Clients` bounds the handles open at once, to workers + slots +
  submitters (`EnoughHandles`), so that everything can be full at the same
  time; behaviours are unbounded since closed handles come back. Two slots wrap
  around and tell head from tail; three workers and two submitters are needed
  for a signal that goes to the wrong one of several sleepers.
- Cache: three bytes hold one to three entries. With three keys in one bucket a
  chain has a head, a middle and an end to take an entry from; with sizes below,
  at and above the limit a put may evict nothing, some or all. Behaviours are
  unbounded.
- Server: `MaxConnections` clients at most connect (guard of `ClientConnects`);
  the assumption of `MCProxyServer` asks for enough handles that both workers
  are busy, the queue is full and the accept loop is held up by it, all at once;
  five clients do that, and with fewer in the pool some wait in the backlog.
- Request path: the limit of 19 tokens is below, at and above the length of the
  streams of one family, so that the buffer is filled exactly, too early and
  not at all. The other two families vary the request line (every text of up
  to 3 of 9 tokens for the URL's authority and path) and what follows a good
  line (every text of up to 3 of 5 tokens). `MaxPort`, `PortSize`, `HostSize`
  and `PathSize` are scaled down so that numbers and copies reach them.
- Config: four arguments are an option given twice, an option with a value
  that is an option, a missing value and anything behind a mistake. `SIZE_MAX`
  is scaled to 2,000,000, above the default size of the cache.
- Handler: `MaxConnections` is the one bound on behaviours, guarding `Begin`.
  Three connections are a fill, a hit and a concurrent miss; three sockets are
  one fewer than two workers can use, so that connecting fails for lack of
  handles too. The three responses are below, at and above the capture limit of
  two pieces.

Deadlock is checked in every run: each module has a stuttering `Finished` that
is enabled only where the program has nothing more to do.

## 5. Fairness

- Pool: weak fairness of each worker's step, each handler's return, each
  submitter's step and of create and destroy. The mutex is released after
  every step and threads are preemptive; handlers return by `ConnectionEnds`.
  Spurious wakeups, new submissions, shutdowns and destroy get none. Liveness
  is checked in the server, where the accept loop is the only submitter: with
  several, one could overtake another forever, since the condition variables
  promise no order.
- Server: weak fairness of the server's own thread and of each worker. Its
  waits end: the poll has a timeout of 500 ms, a submit that blocks is woken by
  the next take, a handler returns by `ConnectionEnds`. Clients and signals get
  none. `NextIsAccepted` therefore says that a full queue delays the next
  client and cannot block it for good; `RunEnds` that startup ends, and that a
  signal, or an error of the loop, ends the run from wherever it is.
- Request path: weak fairness of the one worker; `recv` and `send` return by
  their timeouts. `RequestEnds` has clients that send single tokens, each just
  in time: the buffer is what ends their hold on the worker.
- Cache: the thread that holds the mutex runs on.
- Handler: a worker with a connection runs on. Its reads and writes return
  because both sockets have a timeout of five seconds (`SO_RCVTIMEO`,
  `SO_SNDTIMEO`); the model's silent origin therefore ends in `OriginFails`.
  Each read has its own timeout and the code sets no limit on a whole response:
  an origin that keeps sending keeps its worker. Here every response has an
  end, so `ConnectionEnds` says nothing about such origins.

## 6. Findings

1. `handler_partial`: an orderly close by the origin in the middle of a response
   is taken for its end, and what came so far is cached and served to later
   clients (`response_forwarder.c:196`), while `docs/design-decisions.md:71`
   says that the design "avoids caching partial responses".
2. `handler_answer`: after a failure in mid-relay a whole 502 response is
   written behind the part that was already sent (`proxy_server.c:206`).
3. `handler_capture`: the return for a failed read from the origin does not free
   the capture buffer (`response_forwarder.c:193`); the other returns do.

4. `request_bare`: a `GET` with no header fields, its line followed by CR LF CR
   LF, is taken for complete by the reader and refused with 400 by the parser
   (`request_parser.c:214`), which looks for an empty line behind the line break
   it has just consumed; `README.md:8` says that absolute-form `GET` requests
   are parsed. `VerdictFixed` excludes these requests by name (`Bare`): they are
   the only ones whose verdict depends on what comes in the same read.
5. `config_negative`: `--cache-size -1` passes as `SIZE_MAX`, since `strtoull`
   negates as unsigned (`config.c:49`); the message at `config.c:56` says the
   value "must be between 1 and" that.

Also met, without a run: a failed write to the client counts as an origin fetch
failure (`proxy_server.c:205`), a cut replay counts all its bytes as sent
(`:190`), and evictions by a `cache_put` that then fails are not counted
(`:220`). `CacheHoldsRelayed` is the strongest statement about the cache's
contents that the code does keep: what is cached is what a client got.
A request whose lines end in LF only passes the parser, but the header filter
splits at CR LF only (`response_forwarder.c:47`) and forwards or drops its
headers as one line; no document says what should happen, and
`ForwardedAsMeant` is about requests whose lines end in CR LF. One failed
accept ends the server (`proxy_server.c:328`); the server model has this exit
and the same drain follows. A client in the backlog when the listener closes
gets no answer; `NoneLost` is about those that were accepted.

## 7. Proofs

All theorems are about the same `Spec` the runs check, for all values of the
constants. The assumptions are those of the modules (`PoolAssumption`,
`NullAssumption`, `CacheAssumption`, `HandlerAssumption`, `ServerAssumption`,
`ParserAssumption`, `RefusedAssumption`, `PathAssumption`, `ConfigAssumption`): what the create
functions check before they succeed, that markers such as `NoJob` are no
values, and that there are finitely many threads.

- **Pool.** `IInv` conjoins the ring (`RingBySlot`), `OneHolder`, the wakeup
  invariants, `ShutdownReachesAll` and `LifecycleInv`. `RingConsistent` speaks
  of `%`, which the SMT backend handles badly; `RingForms` proves it equivalent
  to `RingBySlot`, which says for every slot whether it holds a job by its
  distance from the head. Neither wakeup invariant is inductive alone: after
  the flag goes up they hold because nobody sleeps, and `DrainedBeforeFreed`
  needs `LifecycleInv` (a worker that left saw the flag up and the queue empty,
  and nothing is submitted after it; threads that were never started leave the
  queue empty). Numbers of contending threads are compared through the
  cardinality theorems of the library.
- **Refinement of the queue.** `PoolIsJobQueue` shows `Spec => JQ!Safety`: each
  action is a step of `JobQueue` under the mapping `Waiting` (the jobs from head
  to tail), or leaves it alone. `ServerIsJobQueue` carries this over to the
  server. The liveness part stays with TLC.
- **List.** `LruListProofs` has, for each operation, the order before and after
  as explicit functions (`InFront`, `TakenOut`), for lists of any length.
  `Order` picks *the* order; no proof needs it to be unique.
- **Chains.** `SkippingIs` gives the chain without one of its entries as an
  explicit function, `LinkedIs` the chain with a new head; both keep every entry
  from being in a chain twice.
- **Cache.** `CInv` adds to the checked invariants what a cache_put in progress
  knows (`CallInv`: the entry it holds is out of the list, still allocated, and
  the list and it together fit the limit). The byte count is stated as the
  cardinality of a set of byte positions, because a sum over a set would need
  induction over data; `CellsAdd` and its companions carry it through adding,
  removing and resizing one entry.
- **Refinement of the store.** `CacheIsLruCache` shows `Spec => LC!Safety`. The
  mapping reads the keys along the list, so that here *the* order matters, and
  its uniqueness is proved: two chains through the same `next` agree at every
  position. Each call of the code is one step of `LruCache` or none: detaching,
  attaching and moving an entry change the sequence of keys as `Without` and
  `ToFront` do, an eviction drops its last key, and the bytes of the store are
  those of the table (a bijection between the two sets of byte positions).
- **Handler.** `HInv` adds `Streams` to the checked invariants: while a worker
  relays and still captures, its capture is what its client got so far; while
  it stores or replays, its buffer is in `relayed`.

- **Handler's counters.** `CountersFitTogether` is inductive with the types. Its
  two inequalities are read as numbers, `EarlyRoom` and `LateRoom`, that must
  not get negative; a worker that moves from place to place changes the number
  of workers at a set of places by at most one (`OneMoves`), and each action
  changes a counter by as much as it has to. The set of filled keys is shown to
  be finite along the way, since only finitely many were ever stored.
- **Server.** Since each step is a step of the pool or leaves it alone, the
  pool's invariant comes for free (`PoolInServer`). `SInv` adds where the server
  is and what it holds then (`PhaseInv`), the network's counters, the balance of
  accepted, queued and counted clients, and what the summary saw.
  `HandlersAreServed` needs the pool's `LifecycleInv`: in the stages behind the
  join no worker is alive.
- **Request path.** `VerdictInv` says that a reader that still waits has seen no
  terminator in any prefix of its buffer, and that the parser gets a text with
  one, or all there is. The rest is about texts: `TextIs` (reading appends, also
  when a NUL hides the rest), `TerminatorStays`, `SameLine` and `RestStays` (a
  longer text has the same first line and keeps its terminator), and from these
  `TakenStaysTaken` and `TakenLaterIsBare`: more bytes never turn an accepted
  request into a refused one, and turn a refused complete one into an accepted
  one only if it is a bare line. `MinIsLeast` gives the searches their first
  match, from the well-foundedness of the naturals. `OriginReached` follows from
  `ConnectInv`, which says what is known of the addresses before the cursor.
- **Configuration.** `LoopInv` ties the loop's index to the pairs read so far:
  `Read` contains all pairs before the index, and each field is the last of its
  option among them or the default.

- **Recursion.** Four functions of the models are recursive: `Decimal` writes a
  number, `Numeral` reads one, `NumberOf` reads it for the key, and the one
  inside `FieldsKept` copies the fields. What such a function is at an argument
  is proved once, for any size that gets smaller (`Recursion`, from the
  well-foundedness of the naturals), by the uniqueness of its initial segments;
  what holds of all its values is proved by looking at a smallest exception
  (`SmallerFirst`). Neither needs an induction theorem with a predicate as its
  parameter.
- **Types of the request path.** `TypeInv` adds to `TypeOK` what the rewriting
  needs: from the parser on there is a request with all its parts, and nothing
  is written before the text is complete.
- **The parser and its grammar.** `Understood` compares searches with a set. A
  cut that meets the conditions of `Meanings` is where the searches arrive
  (`CutIsFound`), and where they arrive is such a cut; so the set has the
  parser's answer as its only element. A key is read back from its end: the
  scheme and the host contain no separator, the port's digits are those of
  `Decimal`, and the rest is the path (`CutHasKey`).
- **The rewriting.** `ForwardInv` says that while the filter runs it stands at
  the start of a line of the first complete text, with `outbound` equal to the
  proxy's own lines and what `FieldsKept` keeps up to there. The work is in
  `FilterStep` (one turn of the filter, which searches for CR LF, copies what
  the definition by tokens copies), in `FieldsTaken` (the parser's headers begin
  with the fields of the first complete text, and may have more behind its
  empty line, where the filter stops) and in `FirstEnds` (the first complete
  text ends with its terminator).
- **The writing.** `WriteInv` says that what the origin has received is the text
  up to `written` (`PartsJoin`: a prefix and the part behind it are a longer
  prefix), hence all of it when the relay begins (`AllReceived`).

- **Nobody waits in vain.** TLC's deadlock check covers the configured sizes;
  `NobodyEverWaitsInVain` covers all: whoever sleeps on a condition variable or
  joins waits, directly or through one other thread, for one that is awake. It
  follows from the two wakeup invariants and `LifecycleInv` (with no sleeping
  worker, some worker is alive and awake; with one, there are as many contending
  workers as jobs). `ServerNeverStuck` is the same for the accept loop and the
  teardown.
- **Measures.** Liveness is out of the prover's reach, but most of what it rests
  on is not: that no step leads back. `DestroyAlwaysGoesOn` gives
  `thread_pool_destroy` a number (`ToDo`: two for each waiting job, one for each
  running handler, each awake worker, each thread not joined, and the pool) that
  every step of any thread lowers; `DrainAlwaysGoesOn` carries it into the
  server. `EveryPutGoesOn` bounds the eviction loop by `entry_count`, and shows
  this counter to be the number of listed entries. `ConnectionsAlwaysGoOn` orders
  the places of the handler, and shows that a worker's step leaves alone all that
  another worker's call holds. `RequestAlwaysGoesOn` orders the stages of a
  request, with what is left of the buffer, the addresses, the text or the
  bytes to write inside a stage. What remains for TLC is that a step is possible
  and, by fairness, taken.

Only model-checked:

- all liveness (`EveryJobHandled`, `NextIsAccepted`, `RunEnds`,
  `ConnectionEnds`, `RequestEnds`, and the fairness halves of
  `ImplementsJobQueue` and `ImplementsLruCache`), which is out of the prover's
  reach (its measures are proved, see above);
- what the mutants show, and the five claims the code does not keep.

## 8. Not modelled

- Output: the logger's lines and how those of several threads mix (a line is
  three calls on `stdio`, `logger.c:120`; on POSIX `localtime`, `logger.c:30`,
  has one buffer for all threads), the usage text, the text of error pages, the
  client's printable address. Nothing reads any of it again.
- The time before the signal handler is set, when a signal ends the process;
  a second Ctrl-C on Windows, where the C runtime has reset the handler, which
  ends the process in the middle of the drain. A `select` interrupted by a
  signal on POSIX ends the loop with -1 and is one of the failures of `Poll`.
- Branches no input reaches: the overflow of the buffer for the origin's request
  (the longest is about 10,600 bytes of 12,288), the copy of the raw headers
  that does not fit, the key that does not fit, null arguments.
- `strtol`'s leading white space, and negative ports, which are refused anyway.
- Overflow of counters and of `size_t` sums, which need more memory or more
  requests than a process sees.
- Address lookup (`getaddrinfo` returns any of the given lists or fails), the
  kernel's side of a socket, and a client that reads slowly (its worker's writes
  end by their timeout, like those to a dead one).
- A limit on a whole response: the code has none, so that an origin that keeps
  sending keeps its worker, and a shutdown waits for it.
- The tests and scripts of the repository.
