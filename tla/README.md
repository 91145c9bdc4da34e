# TLA+ models of ccl2

This directory holds TLA+ models of the ccl2 library (`src/`), the
TLC configurations that check them, and `PROJECT.json`, which maps every
modelled definition to the source lines it translates and lists the runs,
mutants, findings and hazards.

## The system

ccl2 is a C++20 utility library built around Boost.Asio coroutines:

| part | source | what it does |
|---|---|---|
| UrlParser | `src/src/url.cpp`, `include/ccl2/url.h` | `url_parse_requri` canonicalises a request-target in three in-place passes (percent-decode, slash-collapse, dot-segment removal), validates UTF-8 and splits path/query/fragment; `url_parse` adds scheme, userinfo, host, port |
| Router | `src/src/http/router.cpp`, `http/router.h` | `set_prefix`, `add_route` (a `:name` template compiled to a `std::regex` with `(\S+)` groups), `handle_request` (parse target, strip prefix, first matching route, parameters into a `std::map`, query pairs, handler) |
| HttpServer session | `src/src/http/session.cpp` | accepts connections; per connection a coroutine loop reads a request, serves it from a static-file route or the Router, writes the response, loops while keep-alive |
| MultipartFormDataParser | `http/multipart_parser.h` | incremental parser of a multipart body fed in chunks |
| AsyncQueue | `async_queue.h` | a list under a recursive mutex; `pop` waits on a strand-guarded `steady_timer` that `push` cancels |
| AsioPool | `asio_pool.h` | a process-wide `io_context` run on N threads |
| Signal, Service | `signal.h`, `service.h` | topic → handler registries under a reader/writer lock policy |
| Signal examples over asio | `examples/src/coro/async_signal.cpp`, `async_signal2.cpp` | a Signal turned into an asio asynchronous wait (`signal_async_wait`), and Signal handlers feeding AsyncQueues that coroutines drain (`SignalStream`) |
| json | `json.h`, `examples/src/json.cpp`, `json2.cpp` | `dump<T>`/`parse<T>` between Boost.Hana reflection structs (and vectors, maps, optionals, scalars, raw `yyjson_val*`) and JSON text through yyjson; json2 sets a struct member named by a key path |
| function/bind | `function.h` | compile-time type erasure (no run-time protocol) |
| HTTP client | `src/src/http/client.cpp` | a sequential connect/write/read wrapper |

Data flows one way through the core: the session reads a request, the Router
calls UrlParser on its target, matches the canonical path and invokes a
handler, the session writes the response. AsyncQueue, Signal and Service are
independent building blocks that applications run on the AsioPool's
`io_context`; the two async_signal examples compose them (a Signal handler
pushes into an AsyncQueue, or completes an asio operation).

## Modules

**UrlRequri** (`UrlRequri.tla`) models `url_parse_requri`. Strings are
sequences of byte values; `At(s, i)` returns 0 past the end, the NUL that the
C loops test. Every loop is a RECURSIVE operator over the loop's cursors:
`Decode` (url.cpp 110-139), `Collapse` (141-158), `Dots` with `Backtrack`
(160-193), `Utf8Validate` (27-75, as written, including where it reads the
continuation bytes), `Canonify` (103-203), `Split`/`Requri` (222-262). The
state is the last target passed and the `url_t` fields the call filled in;
one action, `ParseRequri`, is one call. The harness grows the target by one
token per step or restarts from the empty target, so every concatenation of
tokens up to `MaxLen` bytes is parsed once.

Beside the code the module defines the specification's canonical form
independently (`RefCanonical`: cut the decoded path into '/' pieces, drop
doubled slashes, fold `/.` and `/..` with a stack) and well-formed UTF-8
(`WellFormedUtf8`: minimal length, no surrogates, at most U+10FFFF).

**Router** (`Router.tla`) models the Router behind the HttpServer's
sessions (`session.cpp`). State: `prefix` (`prefix_`), `routes`
(`api_routes_`: method, keys, compiled regex, template), `statics`
(`static_file_routes_`), `serving` (do_launch has run), `conn` (the
connection do_session serves, and how it ended), the request being answered
and the response. Start-up actions: `SetPrefix`, `AddRoute` and
`ServeStatic` (start-up only, as the specification requires) and `Launch`
(`do_launch`). Serving actions: `Accept` (do_listen hands over the next
connection; one connection is modelled at a time), `HandleRequest` (the
session's reads plus either `static_file_handler` or the whole
`handle_request`, which touches no router state after it invokes the
handler, so it is one step), `ReadUpload` (the upload branch, a TODO that
reads and answers nothing), `Respond(k)` (the write; without keep-alive the
loop breaks and the socket is shut down) and `StreamError(e)` (a read or
write fails: ignored errors return, end_of_stream shuts down, others are
rethrown). The static route is the first `std::map` entry, in key order,
whose path plus '/' begins the raw target (`SeqLess`, `MountPrefix`,
`FirstMount`); `StaticFile` is the handler's `..` and leading-'/' test and
`path_cat`; `FileOpened` is the file system's answer to `body.open` (found,
no such file, other error), a nondeterministic choice. A compiled regex is a sequence of bytes and the token `Group` for
`(\S+)`; `RegexMatch` is libstdc++'s backtracking `regex_match` on it
(greedy groups tried longest first, '.' a wildcard, captures of the first
full match). `Emplace` is `std::map::emplace` (never overwrites). The router
instantiates UrlRequri for the target, so the parameters it sees are those of
the modelled canonicaliser.

The reference semantics of routing are written from the specification:
`RefMatch` (a template matches when every `:name` can be replaced by a
non-empty string to give the path), `Accepts`, `Fill`. `Escapes` walks a
relative path segment by segment and tells whether it climbs above the
directory it starts in.

**UrlParse** (`UrlParse.tla`) models `url_parse` (url.cpp 269-376) and
instantiates UrlRequri for the request-target. `AuthScan` is the
`[user@]host` loop exactly as written (its `len = 0` reset after '@', which
makes the next `len++` skip a byte, and the read past the terminator when '@'
is last, reported as `ub` rather than guessed); `IsWildcard`, `HostSplit`
(IPv6 brackets), `PortOf` with `Stoi` (std::stoi: spaces, sign, digits,
`out_of_range`, `invalid_argument`) and `UrlDefaultPort`. The state is the
last URL and the `url_t` it produced; the harness grows the URL by tokens
from a few beginnings. `RefParse` is the specification's decomposition of a
URL, written independently.

**MC_Url** (`MC_Url.tla`) runs the two entry points of url.cpp side by side:
a variable `entry` picks a caller of `url_parse` (MC_UrlParse's harness) or a
caller of `url_parse_requri` (UrlRequri instantiated with path tokens), and
the other's variables keep their initial values, so the state spaces add up
rather than multiply.

**Json** (`Json.tla`) models `json.h`. A C++ type is a record (`bool`, `int`,
`double`, `string`, `val` for `yyjson_val*`, `vector`/`map` of a type, or a
`struct` with named, possibly optional members); a value of a struct is the
tuple of its members. `ToJson`/`StructTo` are the `to_json`
specialisations (an empty optional is skipped, a map is walked in key
order), `Dump` adds what the yyjson writer and reader do (a NaN makes the
write fail, a non-negative signed integer reads back unsigned). `FromJson`,
`StructFrom`, `ArrFrom`, `MapFrom` are the `from_json` specialisations:
a missing required member reaches `gsl::not_null` and terminates, a wrong
JSON type throws, `int` accepts a real and reads 0, `double` accepts only a
real, `Emplace` keeps a duplicate key's first value. The state is the type
and value the program holds (json.cpp's `test_obj_serialize` and the
test values), the text of the last dump and the outcome of the last parse;
`ParseText` parses either the text dump made or a foreign document.

**JsonPath** (`JsonPath.tla`) models json2.cpp's `hana_struct_set_impl`:
`Set` walks the key path (a struct member of that name, a vector index by
`std::stoi` with a resize to `Default` values and `at()`), assigns the
string literal where `is_assignable` holds, and throws where `stoi`,
`resize`, `at` or `keys.at` would. `DefaultInit` is `person_t p;` (an `int`
member is indeterminate, any value). The state is main's person, the keys of
the last call and whether an exception has escaped. MC_Json runs it beside
Json through an `entry` variable, as MC_Url does.

**AsyncQueue** (`AsyncQueue.tla`) models `ccl2::AsyncQueue` driven as the
example `examples/src/coro/async_queue.cpp` drives it: producer coroutines
(`async_sleep(0)`, then `push`), consumer coroutines (`pop` in a loop,
consume the list) and the monitor coroutine, which calls
`asio_pool_shutdown` once both counters reach the total. Variables: `queue`
(`queue_`), `owner` (the holder of `queue_mtx_`), `waiting` (consumers with
an `async_wait` pending on `timer_`), `cancels` (cancel handlers dispatched
to the strand and not yet run), `stopped` (`AsioPool::stopped_`), each
coroutine's program counter, the lists held by consumers and the items
consumed. Actions, one per step between two points where another thread or
coroutine can act: `Sleep`, `Lock`, `Emplace`, `Wake` (push); `TryPop`,
`Strand` (the strand section: `expires_at` cancels the pending wait of the
other consumer, then `async_wait`), `Resume` (the locked move after the wait)
and `Consume`; `RunCancel` (the strand runs a queued `timer_.cancel`);
`Monitor`. `multi` chooses the executor: with one io_context thread
(`asio_pool_init(1)`, as in the example) a coroutine runs until it suspends
and `dispatch` to a free strand runs the cancel inline; with several threads
every step interleaves and the cancel runs later.

**Multipart** (`Multipart.tla`) models `MultipartFormDataParser`:
`set_boundary` and `parse`, called by a client that passes one body in chunks
of every size (`Feed(n)`, as long as `parse` has returned true). The parser
record holds `buf_` (as a sequence), `state_`, `is_valid_`, `file_` and the
entries the callbacks received. `Parse` is `buf_append` followed by `Run`,
the `while (buf_size() > 0)` loop, whose body `Step` dispatches on `state_`
to `InitialBoundary`, `NewEntry`, `HeaderLines` (with `Headers`, the inner
header-line loop, and the `CPPHTTPLIB_HEADER_MAX_LENGTH` test), `Body` (which
holds back the bytes that may start a split delimiter) and `AfterBoundary`.
A step returns a record that says whether `parse` returned (and what) or the
loop goes round (`Out`, `Again`). `Find`, `BufStartWith` and `Erase` are
`buf_find`, `buf_start_with` and `buf_erase`. Header text is abstracted: a
line is a `Content-Disposition` line, a `Content-Type` line or any other
line; the boundary is one byte.

**Signal** (`Signal.tla`) models `ccl2::Signal` with the `NonMutex` policy
(`SignalProvider`, used by one thread) or `std::shared_mutex`
(`ConcurrentSignalProvider`). `registry` is the `unordered_multimap` as a bag
of topic/handler pairs; each thread has a script of calls, the call it waits
to take the lock for (`pending`), the stack of emits it is inside (an emit
frame keeps the range it found and the handlers still to invoke) and the
shared locks it holds. Actions: `Call` (the next call of the script),
`LockShared` (emit takes the ReaderLock and `equal_range`), `Invoke` (one
handler; `HandlerCall` is what the handlers of `examples/src/signal.cpp` do:
`on_vel` emits `game_over` when x < 0), `Unlock` (the loop ends), `Register`
and `Remove` (the WriterLock, granted when no thread holds the lock:
`Exclusive`). glibc's rwlock prefers readers, so a shared lock is granted
even while a writer waits.

**Service** (`Service.tla`) extends Signal with `ccl2::Service`, used by the
same threads under the same policy: `services` is `registry_`. `SvcRegister` (both overloads of
`register_handler`: a taken name throws, else emplace) and `SvcCall` (a
missing name throws, else the handler is invoked). An exception leaves the
thread (`Throw`: no further calls). Each Service operation holds its own
mutex from start to end and its handlers do not call back, so each is one
step. Because the duplicate test and the emplace are one step under the
writer lock, no property is spent on two registrations of one name: it
would restate the guard. Service takes part in the signal run through
`SvcTypeOK` and through `EmitStable` and `AllReturn`, which its lock steps
share with Signal's.

**AsyncSignal** (`AsyncSignal.tla`) models `examples/src/coro/async_signal.cpp`
on its one io_context thread. `registry` holds the outer lambdas
`signal_async_wait` registered with `register_handler2` (for each, whether it
still holds its completion handler), `bg` is `background_task`'s progress,
`invoked` counts the calls of each completion handler. Actions:
`SignalAsyncWait` (background_task's first run registers the awaitable's
handler and suspends) and `Tick` (ModuleA's 1500 ms sleep ends and it emits
"/a": `Emit` calls every outer lambda; each moves its handler into the
dispatched inner lambda, which runs inline). `Invoke` is the call through
`ccl2::function` and `bind_t`, which call the lambda in place, so what it
captured (a moved-from handler) persists to the next emit. main's lambda is
registered before `asio_pool_run`, so it is in the initial registry.

**SignalStream** (`SignalStream.tla`) models `examples/src/coro/async_signal2.cpp`
on its one io_context thread: the Signal with the handlers of ModuleB (print),
ModuleC (push to its AsyncQueue) and the SignalStream (push to the stream's
queue), and the coroutines of ModuleA (sleep 1500 ms, emit), ModuleC
(`pop`, sleep 500 ms, print) and `async_background_task` (`async_wait`,
print). `ready` is the io_context's FIFO of ready handlers (`Runs(x)`: x is
resumed next), `pc` where each coroutine is suspended, `waiting` the queues
with an `async_wait` pending on `timer_`, `held` the list ModuleC sleeps on.
A coroutine runs from one suspension to the next in one step: `TaskStart`,
`Tick` (the emit: `Push` and `Wake` per queue, the woken completions made
ready in either order, as the `unordered_multimap` gives them), `WorkerStart`,
`WorkerResume`, `WorkerWake` (print, then `pop` again: `TryPop`, `Pop`),
`StreamRun` (`StreamSubscribe` at start, then print what `pop` moved out and
wait again). `Expire(x)` is a sleep timer expiring; when is not modelled,
so it may come between any two handlers. Printing is appending the item
number to `printed`.

## Runs

| run | cfg | expect | shows |
|---|---|---|---|
| url | `Url.cfg` | pass | `DecompositionAgrees`: where no '@', bare '*' or leniently read port is involved, `url_parse` returns the specification's decomposition or fails where it fails; and every target of up to 8 bytes from tokens `/`, `/a`, `.`, `..`, `?`, `#`, `%2E`, `%2f`, `%C3`, `%` canonicalises to the specification's path (`CanonMatchesReference`) and is a fixed point (`CanonIdempotent`); `UrlTypeOK` |
| router | `Router.cfg` | pass | `RouteSelection`: the handler invoked is the first route the specification accepts, not_found only when none does; `ParamsRebuildPath`: the parameters rebuild the stripped path; `NoEscape`: a static request never opens a file outside its doc_root, although the raw target reaches `path_cat` uncanonicalised |
| router_spec | `Router_spec.cfg` | violation | `RouterAsSpecified` (`RouteSelection` and `QueryOutcome` together, templates `/a.b` and `/:k`): template `/a.b` handles `/a/b` because '.' is a regex wildcard (router.cpp:29), and a well-formed query gets bad_request while a malformed one reaches the handler (router.cpp:166); each conjunct alone is violated under this cfg |
| urlparse_accepted | `UrlParse_accepted.cfg` | violation | `AcceptedAsSpecified`: `url_parse` reads past the terminator of `foo://u@` (url.cpp:298), gives `http://u@/` the host `/` (url.cpp:310), keeps the host `*` (url.cpp:315), accepts port 0 (url.cpp:362) and accepts `wss:///%E0%80%A0`, an overlong encoding, because `url_utf8_validate` builds the code point from the wrong bytes (url.cpp:62) |
| asyncqueue | `AsyncQueue.cfg` | pass | `Conservation`: on one or several threads no item is lost or duplicated by try_pop, pop and push racing; `SingleThreadStops`: on one thread every item is consumed and the monitor shuts the pool down |
| asyncqueue_lost | `AsyncQueue_lost.cfg` | violation | `AllConsumed`: on several threads a push and its cancel between a consumer's empty `try_pop` and its `async_wait` leave it waiting forever beside a non-empty queue (async_queue.h:42) |
| multipart | `Multipart.cfg` | pass | `DeliveredPrefix`: whatever the chunking, the callbacks only see a prefix of what the whole-body parse gives; `SameOutcome`: when the input is complete the entries and the return value are those of the whole-body parse (chunkings that keep the opening delimiter in the first chunk and the epilogue with the close delimiter) |
| multipart_chunking | `Multipart_chunking.cfg` | violation | `ChunkingIndependence`: a first chunk that ends inside the opening delimiter loses it (multipart_parser.h:69), and an epilogue in a later chunk is parsed as a new entry (multipart_parser.h:162) |
| signal | `Signal.cfg` | pass | `EmitStable`: no register or remove lands inside an emit's loop; `AllReturn`: every thread finishes its calls, nested emits included |
| asyncsignal_once | `AsyncSignal_once.cfg` | violation | `CompletionOnce`: the second emit calls main's lambda again and background_task's moved-from awaitable handler (async_signal.cpp:35) |
| json | `Json.cfg` | pass | `RoundTrip`: for every value of the six types within the bounds, `parse<T>` of what `dump<T>` wrote is the same value (member order, skipped optionals, map key order, unsigned reread and emplaced items agree); `SetWritesPath`: every `hana_struct_set_impl` call of json2 that returns has written exactly the string member its key path names, growing vectors with default elements and touching nothing else |
| signal_stream | `SignalStream.cfg` | pass | `InOrderOnce`: ModuleB, ModuleC and the stream each print every emitted pair exactly once, in emit order (counting what ModuleC holds and what the queues hold); `AllPrinted`: eventually all three have printed everything emitted |

Each property of a passing run has a mutant in `PROJECT.json` (an operator
defined just before the definition it replaces) that TLC catches: the
dot-segment end test without '?', the decode pass run last, a failed parse
leaving fields unset, the empty-key check dropped, `([^/]+)` instead of
`(\S+)`, `insert_or_assign` instead of `emplace`, the static handler without
its `..` test, an IPv6 host without the check after ']', a failed `url_parse`
leaving fields unset, the strand's cancel run without a dispatch, `try_pop`
copying instead of moving the list, `push` without its cancel, the close
delimiter moving to a state of its own, the body state holding back too few
bytes, `parse` dropping held bytes, emit returning without its unlock,
`register_handler` without its lock, a
writer-preferring rwlock, and in SignalStream `try_pop` copying the list and a
wake whose cancel completes no wait; in json `from_json` of a vector putting each item in front, and json2's last-key walk assigning every string member.

## Bounds

* UrlRequri: 8 bytes of target for the canonical-form run (two levels of
  `..`, escapes next to dots, doubled slashes before and after `?`/`#`);
  the UTF-8 validator is exercised through url_parse (below).
* Router: verbs get/post plus `unknown` (any-method routes); templates `/a`,
  `/:k`, `/:k/:j`, `/:` (the last rejected at registration); prefixes none
  and `/a`; up to two routes, so precedence between two matching routes
  occurs; one static mount `/a`, so static and router requests compete for
  the same targets. Targets of up to 8 bytes from `/a`, `?k=b`, `&b` and
  `/..`: they include `/a/a` (a greedy `:k` spanning '/'), `/a?k=b&b` (a
  query key colliding with a path key, followed by a malformed pair), the
  prefix itself and `/a/..` (a climb out of the static directory). The
  violation run uses `/b` instead of `/..`, no mount, and the templates
  `/a.b` and `/:k`.
* UrlParse: beginnings `http://`, `wss://`, `foo://`, `unix://`, `http:/`
  and up to four tokens from host, port (`8`, `0`, `99999`, `-`), IPv6,
  `u@`, `*` and path pieces: every branch of the scan, the bracket test and
  stoi's outcomes (valid, zero, too large, no digits, trailing text) occurs.
  The violation run adds the path `/%E0%80%A0` (an overlong encoding).
* AsyncQueue: two producers of two items each (so pushes of different
  producers interleave and a producer pushes after a consumer has waited),
  two consumers for the safety run and the one-thread liveness run (two pops
  sharing one timer), one consumer for the lost wake-up (the smallest case).
* Multipart: 144 bodies: no preamble or one byte; four header blocks (none,
  disposition, disposition plus content type, an unknown line); three
  contents (empty, one byte, bytes that begin like a delimiter); six tails
  (no close, close, close with epilogues of two lengths, a second entry,
  junk). Every chunking is explored, so a delimiter split at each of its
  bytes occurs.
* Signal and Service: two threads with up to two calls each, of the signal
  (emit `vel` with x negative or not, emit `game_over`, register, remove) or
  of a Service (register `/add` with one of two handlers, call it); both
  lock policies. A nested emit, a writer waiting during an emit, and two
  threads registering one service name all occur.
* AsyncSignal: two waiters (main's lambda, background_task's awaitable) and
  up to three emits; the second emit is the case.
* SignalStream: five emits. ModuleC then holds a list through its sleep
  while one or more emits push behind it, the stream is woken before or
  after ModuleC, and timers expire between any two handlers.

* Json: the types of json.cpp and test_json.cpp (car_t with an optional
  owner, person_t, common_msg_t of person_t and of `yyjson_val*`, maps of int
  and of `yyjson_val*`); ints -1 and 2018 (a signed integer that stays
  signed and one read back unsigned), doubles 1.0, 2.1 and NaN, strings
  `alan` and `cc` (two map keys, so order matters), vectors of up to 2
  items (so item order matters). Foreign documents: car_json, and variants
  without `year`, with `year` 2018.5, with an integer tire pressure, with
  `owner` null, an object with a duplicate key, and unparsable text.
* JsonPath: json2's person_t (name, car, cars), key paths of up to 3 keys
  from `car`, `cars`, `make`, `tire_pressure`, `1`, `-1`: a nested member,
  a vector grown by two elements, an index into a vector of doubles (not
  assignable), a negative index, an unknown key and the empty path occur.

## Fairness

The URL, Router and Multipart models are sequences of calls with no waiting
and assume no fairness. AsyncQueue assumes strong fairness of every
coroutine's step, of the strand's cancel handler and of the monitor. The
io_context keeps ready handlers in a FIFO queue, so a handler made ready (a
producer's `async_sleep(0)` completion, a consumer's cancelled wait, the
monitor's sleep) runs before handlers made ready after it; a step that keeps
becoming enabled is therefore eventually taken. Weak fairness is not enough
on one thread: two idle consumers cancel each other's waits in turn, and the
thread is never free at the instant a weakly fair producer is checked. Signal
and Service assume weak fairness of each thread: an OS thread that can run is
eventually scheduled. SignalStream assumes weak fairness of each coroutine's
steps (the io_context thread runs the ready handler at the head of its
queue) and of each sleep timer's expiry (a steady_timer does expire).

Deadlock checking is off where the system really stops: the asyncqueue run
(consumers wait forever once all items are consumed: `co_consumer` never
ends), multipart (the body is finite) and signal (each thread makes its calls
and ends). It is also off for signal_stream, where the stop is the bound's:
the program's ModuleA emits for ever, the model's stops after `MaxEmits`, and
the consumers, having printed everything, then wait on their timers as they
do between two emits. The json run is off too: json2's main ends when an exception escapes `hana_struct_set_impl`, and json.cpp's main ends after its calls. The Router model never stops: do_listen accepts connections for
ever.

## Not modelled, and why

* The HTTP wire format, sockets, TLS, timeout durations, `body_limit`, mime
  types and response bodies: I/O and data done by Beast. What the next header
  read sees after an upload request depends on the client's bytes.
* json: `std::unordered_map`'s iteration order, `std::list` (read and
  written as a vector), `float` and the fixed-width integer types (not used
  by the examples; 64-bit widths are past TLC's integers), string encoding
  and the lifetime of a returned `yyjson_val*`, which points into a freed
  document (a hazard in PROJECT.json). json2's `if (0)` branch is dead code.
* function/bind (beyond calling the bound callable in place, which
  AsyncSignal models): compile-time machinery with no run-time state; the
  `static_cast` of a stored handler to `function<R>` in `Service::call` is a
  type question.
* Handler bodies: the model records which handler was invoked and with what;
  Signal's handlers are those of the example.
* `Signal::emit_on` (never called) and `Service::async_call` (declared, not
  defined). `AsyncQueue::size`/`empty`: read-only.
* AsioPool's `once_flag` and thread start-up: the examples always initialise
  the pool first; the model starts from an initialised pool. Two start-up
  edges are listed as hazards and have no model. `asio_pool_shutdown` before
  any init dereferences a null pointer. The default thread count,
  `hardware_concurrency()`, may be 0, which makes the constructor throw.
* `callback_wrapper.cpp`: the same async-init macro (`asio_helper.h`
  15-34) around a thread that reads stdin and calls its callback once; the
  one-shot rule holds there by construction and the rest is console I/O.
* The SignalStream handler's `weak_ptr`: the stream lives as long as its
  task, which never ends, so the lock always succeeds.
* Concurrent registration and serving: undefined by the specification's
  contract; the model enforces registration before `Launch`.
* The HTTP client: a sequential connect/write/read wrapper with no state of
  its own.
