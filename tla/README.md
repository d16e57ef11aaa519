# A TLA+ model of AISL

AISL is a small C library for HTTP/1.x servers: one thread, non-blocking sockets, an event
loop that the application calls in a cycle, and callbacks for everything that happens. This
directory holds TLA+ modules that model it, TLC configurations that check them on small
instances, and proofs checked by TLAPS. Paths below are relative to the repository, whose root
is `src/`: the library itself is `src/src/`.

## 1. The system

| component | state it keeps | operations | interacts with |
|---|---|---|---|
| Instance, event loop (`instance.c`) | server array, client spool, TLS contexts, configuration | `aisl_new`, `aisl_run_cycle`, `aisl_sleep`, `aisl_free`, raising events | calls servers and clients, calls the application back |
| Server (`server.c`) | listening descriptor | open (again until it works), accept, free | hands each new client to the loop |
| List (`list.c`) | array, size, count | init, append, remove_index, release | is the client spool |
| Client (`client.c`) | descriptor, flags keepalive / can read / can write, HTTP version, timestamp, input buffer, one stream | new, touch (input, parse, output, timeout), close, free, disconnect | socket, parser, stream |
| Stream (`stream.c`) | state, content length (first of the request, then of the response), header flags, output buffer, body offset | parser side: set_request, set_header, set_end_of_headers, set_body; application side: response, header, header_printf, write, printf, puts, flush, reject, set_output_event | client, buffer, application |
| Buffer (`buffer.c`) | block, size, used | init, release, append, append_printf, insert, shift | the input of a client, the output of a stream |
| Parser (`http.c`) | none: it scans the input buffer again from the first unparsed byte | request line, header, body | stream |
| TLS contexts (`ssl.c`) | list of host, files, context | new, get_ctx, free | OpenSSL |
| String utilities, stringifiers (`str-utils.c`, `types.c`) | none | copy, compare, names | |
| Template `bare/`, example `examples/` | contexts on streams | a router of modules; a hello-world handler | users of the library |

What is hard about it:

* **Handlers run inside library calls.** A handler called while one client is touched may close
  any other client, or begin the response whose request is still being parsed: the state the
  library looked at before the callback is not the state after it.
* **The walk over the spool changes the spool.** Clients are removed while they are walked.
* **Partial input and output.** Requests arrive, and responses leave, in arbitrary pieces, and the
  buffer that holds them moves its contents, or drops them.
* **Failure in the middle.** Every append may need memory; some flags are set before it is there.
* **Order of calls.** The response is built by calls that may come in any order, in handlers and
  between cycles, before and after parts of it were sent.
* **Time.** A silence timeout competes with late input and output.

What makes each component correct: the spool holds the allocated clients, each once; every loss is
reported once; no client is starved, a silent one is closed, a closed one is freed (loop). The
buffer stays in its block, is a queue of bytes, and a failure changes no data (buffer). Events of a
stream come in the documented order; the announced body is delivered, exactly; reading and writing
of one connection exclude each other; what is written is sent in its order; a response that was
completed is well-formed, was flushed, and its Connection header decides what happens to its
connection; a touch ends (client and stream). A scanner stays in its line, accepts only parts that
lie apart, and reads a line of the documented form as it was meant, however it was cut (parser). An
instance that cannot be made leaves nothing behind, shared TLS contexts live as long as they are
needed, and OpenSSL as long as there is an instance (construction, TLS contexts). A context of the
application is freed once with its stream, and a delivered request is answered or its connection
closed (template and example).

## 2. Modules

| module | models | state and actions |
|---|---|---|
| `EventLoop` | `instance.c`, `server.c`, `list.c`, the life cycle of `client.c` | `spool`, `capacity` are `client_spool`; `client` is the life of each client object, `fd` its descriptor, `silence` the age of its timestamp; `pc`, `pos` say where the thread is: one action per iteration of the server loop (`ServerOpen`, `AcceptNothing`, `AcceptClient`, `AcceptRefused`, `AcceptLeaked`), of the client loop (`TouchKeep`, `TouchReap`), and of `list_release` in `aisl_free` (`Release...`) |
| `Buffer` | `buffer.c` and the receive of `client.c` | `size`, `data` are the struct; one action per function; `buffer_append_vprintf` is split where it calls itself again |
| `ByteQueue` | what users expect of a buffer | a queue; `op` tells which operation was asked for, with which data or offset. A take of some of the bytes, but not fewer than remain, may lose the rest (`Discard`) |
| `Client` | `client.c`, `stream.c`, and the control of `http.c` | `conn` and `stream` are the two structs; `pc`, `ret`, `p`, `parsed`, `result` are the locals of `aisl_client_touch` and what it calls; one action per branch of input, parse, output and timeout, one per function the application may call |
| `StreamEvents` | what an application may rely on | the order of the events of a stream; not that a stream is silent once its connection is down |
| `HttpParser` | the scanners of `http.c` | `buf` is what was received of the line, `at` the byte that the loop looks at, `ptr` the local pointers; one action per case of the two switches, and one per way a call returns |
| `Lifecycle` | `aisl_new`, `aisl_free` (`instance.c`), `ssl.c`, and what they allocate in `server.c` and `list.c` | `heap` is the set of allocated blocks, each named by what it is for; `ssl` the registry; `m_instances` and `library` (is OpenSSL set up) are the process's; one action per allocation or loop iteration, each of which may fail |
| `Application` | `bare/src` and `examples/hello-world.c`, composed with `Client` | EXTENDS `Client`; `hand` says where the handler is; one action per call it makes; `ctx`, `contexts` are the context of the stream and those allocated |
| `EventLoopProofs`, `BufferProofs`, `HttpParserProofs`, `LifecycleProofs` | | theorems about the module each is named after |
| `ClientProofs`, `ResponseProofs`, `ShapeProofs` | | theorems about `Client`: the connection and its events; the bytes of the response and its Connection header; the form of the whole response. Each extends the one before |
| `ApplicationProofs` | | theorems about `Application`; extends `ShapeProofs`, and so has all that holds of `Client` |
| `MCEventLoop`, `MCBuffer`, `MCClient`, `MCHttpParser`, `MCLifecycle`, `MCApplication` | | constants for TLC |

`EventLoop` and `Client` meet in `aisl_client_touch`: `EventLoop` has many clients and reduces a touch
to its outcome (kept and heard, kept and silent, gone); `Client` has one client and the whole touch,
and its last step returns to the loop. `Client` abstracts the two buffers to sequences and keeps of
`Buffer` what `Buffer` shows to matter: that an append may fail, and that a shift may lose the rest.
`Application` replaces the free choice of calls in `Client` by what the two programs really do.
`Client` keeps of `HttpParser` that a line is complete or not, and which kind it is; `Lifecycle` and
`EventLoop` share `aisl_free`: the one looks at what it frees, the other at the clients' events.

Abstractions worth knowing:

* Input is a sequence of units, each the end of a line (named by what the line says) or a fragment of
  one; a unit in a body counts as one byte. Where a segment ends within a line, and so how much of it
  is kept or lost by `buffer_shift`, is open: both happen.
* Output is a sequence of tokens (status line, header, blank line, piece of body). Sends cut it
  between tokens. Whether the rest after a send is longer than what was sent, and survives, is open.
* Undefined behaviour is a choice: reading `server->instance` after `aisl_server_free` may give the old
  pointer, memory without a callback, or end the program (`ReleaseDelivered`, `ReleaseLost`,
  `ReleaseCrash`).
* Inserting into a buffer of which a part was sent puts the header at any place, with a wrong length.
* HTTP/0.9 to 1.1 behave alike; HTTP/2.0 stops the parser, as in the code.
* A Content-Length of the peer that `strtoll` reads as -1 is `AISL_AUTO_LENGTH`: a body without an end.
  Other negative and overflowing numbers become lengths that no body reaches, like any large one.
* A Connection header of the application has the value "close", "keepalive" (as the code compares and
  sends it) or "keep-alive" (which the code takes for "close").
* `HttpParser` keeps bytes apart as far as the scanners do: the characters of their switches, and a few
  others, of which one has a lower case. Versions and methods are shorter than in HTTP.
* A size that wraps around `int32_t` counts as refused by `realloc`, like any above `MemoryLimit`. In the
  code most negative sizes are; but `buffer.c:28-36` rounds -1..-4095 to 4096 and -4097..-8191 to 0. It takes
  two lengths near 2^31 to get there, and `Buffer` does not follow.
* A read through a null pointer ends the program; so may a format with more directives than arguments
  (`router.c:250`).
* `mutants` in `PROJECT.json` name operators that stand beside the ones they alter (`X_...`, marked
  "Mutant of X"). No specification uses them; they are plausible mistakes, and each makes TLC report
  the property it is listed with.

Assumptions about the application: it does not call `aisl_run_cycle` or `aisl_free` from a handler;
the handler of CLIENT_DISCONNECT does not disconnect the same client again (`aisl_client_close` would
call it for ever); its formats can be formatted (`BadFormatSpec` of `Buffer` drops this); it uses a stream from its first event until STREAM_CLOSE. Which functions it calls,
in which order, and whether it looks at their results, is not restricted.

## 3. What is checked

Passing runs:

| run | instance | shows |
|---|---|---|
| `loop` | 3 clients, a plain and a secure server, spool of 1, timeout 2, allocation failures | `SpoolOwnsLive`, `DisconnectOnce`, `MissedMovesUp`, `EveryClientVisited`, `OfflineReaped`, `SilentClosed`: three clients are the fewest of which one is removed, one missed and one still ahead; a spool of 1 makes it grow |
| `buffer` | 2 bytes, pages of 2, blocks up to 6, texts up to 3 | all of `Buffer`; texts are empty, below, at and above a page, so that every comparison goes both ways |
| `client_request` | input buffer of 3 units, up to 2 per receive, every kind of line, bodies up to 2 or without end, early answers and rejections | `ReadXorWrite`, `BodyAccounted`, `EventOrder`: a receive may hold the end of one line and a part of the next, and the buffer can fill up |
| `client_response` | simple requests, headers that conflict, plain and formatted, two headers and two pieces of body, failing allocations | `CompleteIsWellFormed`; `KeptAsSpelled`: "keepalive" and "keep-alive", plain and as a second header; `OnlyFlushedCompletes`: nothing that was written is left out, sent twice or out of order except by a shift that drops the rest, and no stream is replaced before it was flushed; `EventOrder`, also without a stream |
| `client_liveness` | small requests with bodies, output events | `TouchReturns`, `SilentClosed`, `OfflineReaped` |
| `http_parser` | every target of up to 4 characters out of 5, 28 wrong methods and versions, headers with names of up to 2 and values of up to 4 characters, each cut into any segments | `PartsInLine`, `AcceptedPath`, `RequestRead`, `HeaderRead`: four characters hold every separator next to every other, a path, "?", and a query, and a "?" before the path |
| `lifecycle` | two instances, none, a documented and two swapped TLS configurations with up to four entries, a counter of 4 values, 5 uncounted failures | `NothingLeaked`, `FreedOnce`, `ContextsLive`, `CounterBalance`, `LibraryUp`: the counter wraps, contexts are shared by two entries beside one that has its own, and one instance fails while the other is up |
| `application` | both programs, requests with and without a body of 1, good and bad, failing allocations | `ContextsFreed`, `Answered`, `PageWhole`, `FlushedIsCompleted`, `Served` |

`CompleteIsWellFormed` has exceptions, the `marks` in `log`: each names one way in which the code breaks
the response ("lost": the rest was dropped by a shift; "late_length": Content-Length inserted after a
part was sent; "unterminated": flushed without headers being closed; "bodiless": no Content-Length for
an empty body; "after_flush": written after the flush; "failed": a call failed). Without any of them the response is
shown to be right, and `AllSent`, `AutoLengthIsRight`, `FlushedIsTerminated` and `EmptyBodyHasLength` (below)
show the first four to be real. Three marks only say how a response was made: "explicit" (the application
gave a length, which may be any), "formatted" (it formatted a Connection header), "torn" (a header line of
the request lost its start).

`KeptAsSpelled` says what the library does with a connection: it is kept exactly if the first Connection
header of the response reads "keepalive". That is not what HTTP means by "keep-alive", nor what
client.h:82 suggests: `ConnectionHonest` is that statement, and the code keeps it neither for the standard
spelling nor for formatted headers.

`PartsInLine` orders the pointers of a scanner only as far as the code does: while a line is scanned, a
path may begin within the method ("g/x y", refused in the end), and a "?" may come before the path or
after the target; the path of an accepted request begins after the method and ends with the target.
`AcceptedPath` allows "?" in a path in one case: the
first "?" of the target, where the query begins, comes before the path, so only that one is cut off
("GET ?/?a" has the path "/?a"). `RequestRead` and `HeaderRead` speak of targets without ":" (the code
refuses many with one), and of values that neither begin nor end with ":" ("x :" is handed on as "x").

`EventOrder` lets events follow a disconnect (`RejectedIsSilent` below); it keeps them in order. It is not
checked with failing memory and early answers together: an `aisl_response` that fails in the handler of
STREAM_OPEN stores its length all the same, and INPUT then follows OPEN. `FlushedIsCompleted` does not
hold of every application (below), and does hold of the two in the repository, which write and flush in
one handler.

Runs that find a violation, each a statement of a document or comment that the code does not keep:

| run | statement | what happens |
|---|---|---|
| `x_TeardownSurvives` | stream.h:73, contexts are freed on STREAM_CLOSE | `aisl_free` raises it through freed servers |
| `x_KeptAliveListens` | client.h:80, keep connection alive | the connection never reads again |
| `x_TemplateSurvives` | router.c:119, a stream may have no module | the context is read through a null pointer before that: a peer that leaves before its request line is complete, or asks for an unknown path, ends the template |
| `x_ConfigAccepted` | config.h:40-42, host, key and certificate | handed to `aisl_ssl_new` in another order; a documented TLS configuration is refused |

More statements have a configuration of their own, `<statement>.cfg`, under which TLC refutes them as
well: `tlc -config AcceptLimitHonoured.cfg MCEventLoop`, `ConnectAnnounced` and `SecureServed` likewise;
`AbsoluteUriAccepted` with `MCHttpParser`, `LibraryStays` with `MCLifecycle`, `ErrorReplied` with
`MCApplication`, `FormatFailureKeepsData` with `MCBuffer`, the others with `MCClient`. They are kept
beside the runs, since each names a place where a reader of the headers is led astray:

| configuration | statement | what happens |
|---|---|---|
| `AcceptLimitHonoured` | config.h:60, maximal number of clients | never compared |
| `ConnectAnnounced` | types.h:167, CLIENT_CONNECT | raised nowhere |
| `FlushStarts` | stream.h:82, flush starts transmission | it starts with the first output |
| `FlushedIsCompleted` | stream.h:84, ready to be processed | a flush on a drained buffer waits for the timeout |
| `FlushedIsTerminated` | stream.h:84 | no blank line |
| `RejectedIsSilent` | stream.h:90, reject | events go on |
| `AutoLengthIsRight` | stream.h:100, automatic length | inserted at a stale offset |
| `EmptyBodyHasLength` | stream.h:100 | none for an empty body |
| `ConnectionHonestPrintf` (`ConnectionHonest`) | client.h:82 | a formatted Connection header is not obeyed |
| `ConnectionHonestSpelled` (`ConnectionHonest`) | client.h:82 | "keep-alive" is taken for a close, since "keepalive" is compared |
| `SecureServed` | config.h:33, TLS | no context is found, each client is closed |
| `EarlyAnswerAccepted` | README.md:5, respond without waiting | taken for a malformed request |
| `AllSent` | client.c:229, "data has been sent" | the rest may have been dropped |
| `AbsoluteUriAccepted` | http.c:88, a URI with a host | refused: it would have to begin with both schemes; and any ":" in a path is taken for a host's |
| `LibraryStays` | instance.h, `aisl_new` and `aisl_free` are about one instance | a failed `aisl_new` may clean OpenSSL up under another instance |
| `ErrorReplied` | stream.h, `aisl_printf` returns a length | `router_reply_error` takes zero for success: always rejected |
| `FormatFailureKeepsData` | -1 is a failure | the -1 of `vsnprintf` is added to the count |

Bounds. `Timeout` bounds the silence counters; it saturates, as only "at least the timeout" matters.
`MaxRecv` and `InSize` bound the input, `MaxOut` the headers and the pieces of body the application
adds to one response; a connection answers one request at most, since the code reads no second one.
`MemoryLimit` bounds the block. `MaxFailures` bounds the calls of `aisl_new` that fail before the instance is counted;
it exceeds `CounterSize`, so that the counter goes all the way round. Texts and units are small sets, since nothing depends on their values.

Fairness. In `EventLoop` it is that the application keeps calling `aisl_run_cycle` (the example and the
template do nothing else) and a call runs on (`WF(Cycle)`), and that the clock ticks (`WF(Tick)`). In
`Client`, that touches are begun and run on (`WF(Library)`), handlers return (`WF(Return)`) and the clock
ticks. In `Application` the same, with the handlers' steps for the calls; time passes again and again wherever
the thread is, which is strong fairness for `TimePasses`, shown between two touches only. Nothing is assumed of peers, of the outcome of system calls, or of what the application calls.

## 4. What is proved

Every safety property that a passing run checks, but for `FlushedIsCompleted`, is a theorem, for every value of the constants that
the `ASSUME`s admit: any clients, instances, texts, peer input, sizes, bounds, headers and sets of calls.
What each argument turns on:

**`EventLoopProofs`**: `TypeCorrect`, `SpoolCorrect` (`[]SpoolOwnsLive`), `DisconnectedOnce`
(`[]DisconnectOnce`), `MissedMoveUp` (`[]MissedMovesUp`). `TypeOK` is inductive. `SpoolOwnsLive` is
inductive under it: a removal shifts the later entries down (lemma `RemoveIndex`), and during
teardown it speaks of the entries from `pos` on. `DisconnectOnce` needs both, since only a spool that
holds each live client once keeps it from being closed twice by the walk. `MissedMovesUp` is not
inductive: it needs to know where the entries ahead of the walk were when it began, and `WalkInv`
says that each is as far back, or further, and was not passed.

**`BufferProofs`**: `TypeCorrect`, `NeverOverrun` (`[]WithinBlock`), `RetriedOnce` (`[]RetryOnce`),
`FailureAtomic` (`FailureKeepsData`) and `ImplementsQueue` (`Spec => IsByteQueue`, a refinement). The
invariant `BufferInv` adds to these that a text being formatted is one of `Texts` (`PendingText`); the
steps rest on the bounds of `RoundUp` and of what `buffer_set_size` yields. In the refinement `op` fixes for
each call what the queue must do: a shift by an offset takes that many bytes, and only one that takes some,
but not fewer than remain, may lose the rest.

**`LifecycleProofs`**: `TypeCorrect`, `NoLeak` (`[]NothingLeaked`), `NoDoubleFree` (`[]FreedOnce`),
`ContextsStay` (`[]ContextsLive`), `CounterBalanced` (`[]CounterBalance`), `LibraryServes`
(`[]LibraryUp`). `NothingLeaked` speaks of the moments between two calls only; `HeapInv` says for every
moment what is allocated: the blocks of the complete instances, and those that the instance in hand has
at the point where its `aisl_new` or `aisl_free` is. `EntriesInv` explains why shared contexts are freed
once: entries are numbered as they were made, and one that keeps the name of its key file has a context
with its own number, so that freeing it takes nothing that a later entry frees. `CounterInv` counts the
instance in hand from the moment the code counts it, modulo `CounterSize`. `LibraryServes` has a
hypothesis, `Cardinality(Instances) <= CounterSize` (2^32 in the code): with more instances the counter
may come back to zero at a free while others are up. (With exactly as many, it reads zero when all are
counted, and none is left to be taken for the first.)

**`HttpParserProofs`**: `TypeCorrect`, `PointersInLine` (`[]PartsInLine`), `PathIsPath`
(`[]AcceptedPath`), `RequestLinesRead` (`[]RequestRead`), `HeaderLinesRead` (`[]HeaderRead`). The invariant
orders method end, target end and version, and puts the path before the target's end; `RequestBytes` adds
which byte each pointer is at and which bytes cannot lie between the path and its end, a "?" among them
unless one came before. That the path of an accepted request begins after the method follows from
`KnownMethod`, whose names hold no slash. For lines of the documented form, `RequestAt` and
`HeaderAt` give all pointers as a function of the place the scan has reached, so that a scan that
stopped anywhere and was begun again arrives at the same ones; and the name of a header is as it was
sent, or lowered up to some place by an earlier attempt, which lowering it again does not change
(`LowerCase` maps into bytes it leaves alone). The proofs use `ParserAssumption`: versions have the
length and the one slash that the offsets in the code suppose, methods and versions are made of plain
bytes, and "http://" and "https://" differ within the shorter of the two.

**`ClientProofs`**: `TypeCorrect`, `ReadsOrWrites` (`[]ReadXorWrite`), `BodyDelivered`
(`[]BodyAccounted`), `EventsInOrder` (`EventOrder`, the refinement of `StreamEvents`). `ClientInv` ties the place of the thread to the direction of the
connection, the state of the stream and the last event. The steps are classified before they are
examined: a step is `Quiet`, a `Parse` or a call of the application, and every call has one of few
effects (`CallEffect`: the stream goes forward by appended tokens, or a failure is marked, or the
connection goes down). `StageInv` tells which event may have been the last in each state of the stream;
`BodyInv` that what was delivered and what the stream still waits for add up to the announced length.
`EventsInOrder` assumes `~(EarlyAnswer /\ OutOfMemory)`, as the runs do: with both, TLC finds
`EventOrder` violated, because an `aisl_response` that fails before the headers end leaves its length
behind, and INPUT follows OPEN without a header.

**`ResponseProofs`**: `ConnectionTold` (`[]KeptAsSpelled`) and `FlushedThenCompleted`
(`OnlyFlushedCompletes`). What was sent and what is buffered form one sequence; a send moves the border, a
call appends, an insertion puts one token somewhere, and the first Connection header among them reads
"keepalive" exactly if the flag is set, whatever the request and later headers said. Neither has a
hypothesis. `FlushedThenCompleted` is about steps: `PrefixOf` and the lemmas after it show that every call lets
the sequence grow, and `ReplacedWhenDone` (in `ClientProofs`) that a stream goes back to an earlier state only
when it was flushed and its buffer is empty.

**`ShapeProofs`**: `CompletedIsWhole` (`[]CompleteIsWellFormed`), without a hypothesis. For each state of
the stream `Shape` says how much of a response lies in the wire and the buffer together: the status
line and headers that agree with the flags in `sent`; then the blank line and the body; once flushed, with
one Content-Length that is the number of pieces of body, or one the application gave. While nothing was sent, `bodyOff`
is the place right after the blank line, so that the inserted length falls among the headers.
`CompleteInv` keeps a completed response as it is until its connection ends.

**`ApplicationProofs`**: `AppTypeCorrect` (`[]AppTypeOK`), `ContextsAreFreed` (`[]ContextsFreed`),
`RequestsAnswered` (`[]Answered`), `PagesWhole` (`[]PageWhole`). Every step of `Application` is a step of `Client`, or
has the effect of a call of it (`AppCalls`), so the invariants of `Client` hold here too
(`LibraryInv`). `HandInv` says that a handler is under way exactly while the library waits in a
callback, and that one that answers does so for a complete request or an unknown path; `ContextInv`,
that a context belongs to an open stream, and that a stream just opened has none; `AnswerInv`, how far a
delivered request is from its answer; `PageInv`, that a page is whole in the buffer when it is flushed,
and then in wire and buffer together until it is sent or lost. `ApplicationAssumption` says that the
four functions the two programs call are among `Calls`, and that one of them may answer early, as
`router_reply_error` does.

`TypeOK` of `Client` and of `HttpParser` are proved from types that are stronger (`Typed`, the pointers
of `Pointers`).

Only model-checked: the liveness properties (`EveryClientVisited`, `OfflineReaped`, `SilentClosed`,
`TouchReturns`, `Served`), because the prover handles neither ENABLED nor fairness; `FlushedIsCompleted`, for
the two programs; and the runs that find a violation. Induction over data and recursive operators are out of the prover's reach; no module here
declares one. Where a count or a concatenation would need it, it is defined so that it does not
(`Count` is a cardinality, `MissingHeaders` a concatenation).

## 5. What is not modelled, and the plan

Not modelled:

* the TLS handshake of a connection (`client.c`): no secure client survives its creation, so it is never
  reached;
* `aisl_sleep`, which waits in `select` and changes no state; `FD_SET` of a descriptor beyond `FD_SETSIZE`
  is undefined and would need the operating system's limits;
* strings, stringifiers, constant tables and logging: pure and without state;
* getters, addresses and socket options;
* the stray file `src/)`, which no build rule names.

Order of work:

1. Done: `EventLoop`, `Buffer` with `ByteQueue`, `Client` with `StreamEvents`, the first theorems.
2. Done: `HttpParser`, `Lifecycle`, `Application`.
3. Done: theorems for every safety property that the runs check.
4. To do: `EventsInOrder` with failing memory as well, for a weaker order that lets INPUT follow OPEN; the
   effect that a touch has in `EventLoop`, derived from `Client`.
