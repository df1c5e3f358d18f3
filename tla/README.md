# A TLA+ model of connect-examples

The repository shows one service, Echo, spoken over Connect by two servers (Go,
Rust) and three clients (Go, Rust, Python). It is small, and its hard part is
what happens between its processes: clients retry calls that may already have
been served, servers are killed and started again on one port, and one contract
is written three times in three languages. This directory models that, checks it
with TLC on small instances, and proves the safety of all it models with TLAPS.

Paths below are relative to the repository; in `PROJECT.json` they carry the
prefix `src/`.

## Inventory

| Component | Code | State | Operations |
| --- | --- | --- | --- |
| Client retry loop | `go/echo/cmd/client/retry.go`, `rust/echo/client/src/retry.rs`, `python/echo/client/retry.py` | loop counter, last error, timer; in Go a context | attempt, classify the error, wait 1, 2, 4, 8 s, give up, abort |
| Client programs | `go/echo/cmd/client/main.go`, `rust/echo/client/src/main.rs`, `python/echo/client/__main__.py` | connection, exit status, output | dial, call, validate (Python), print or fail |
| Go server | `go/echo/cmd/server/{main,log}.go` | listening socket, requests in flight, log | listen, route, log, validate, greet, answer probes |
| Rust server | `rust/echo/server/src/{main,log}.rs` | the same | the same, with the interceptor before the dispatch |
| Generated glue | `go/api/v1/echo.connect.go`, `rust/api/gen/connect`, `python/gen/api/v1/echo_connect.py` | none | two dispatchers (Rust) for four kinds of call; decode, hand over, encode; unary client methods |
| Generated validators | `rust/api/gen/protovalidate` | none | `required`, `min_len = 1`; sort the violations into a result |
| Rust message codec | `rust/api/gen/buffa/api.v1.rs` | a message: optional text, unknown fields | two decoders (owned, view), clear, size, encode, JSON, owned copy, owned-view handle |
| Go message types | `go/api/v1/echo.pb.go` | pointer and presence bit; a builder's string | accessors, `Reset`, `Build` |
| Python package root | `python/__init__.py` | `sys.path`, `google.protobuf.__path__` | strip, import, restore |
| Descriptors, crate facade, build, CI | `python/gen/**/*_pb2.py`, `rust/api/src/lib.rs`, `*.bazel`, `*.bzl`, workflows | none at run time | none |

How they interact. A client program makes one call through its retry loop. Each
attempt is an independent HTTP request to `localhost:8080`. A server takes it
through routing, the log interceptor, validation and the handler, and the answer
returns the same way. Nothing relates two attempts of a call: no idempotency key,
no cancellation of an abandoned attempt by the retry loop, no deadline of an
attempt. The two servers contend for the same port and share nothing else.

What is hard about it, and tested nowhere in the repository (its tests call
`isRetryable`, `Echo` and the Rust handler directly):

- a reply that is lost after the handler ran, and the repeat that follows;
- an abandoned attempt that is still being served when the next one starts, or
  when the client process has exited;
- the race of the backoff timer with the end of the context in Go's `select`;
- the loop bound and the test for the last attempt, which are written apart;
- how long an outage a client survives, which is a sum over the whole schedule;
- a kill between handler, log line and reply; a start while the port is taken;
- interceptor order, which only a comment protects in Go and a name test in Rust;
- a connection that is dialed and says nothing, and a body that never comes, of
  which only the first runs into a timeout;
- a body that cannot be decoded, which Go refuses before its interceptors and Rust
  behind them;
- the presence of an empty text, which the handler cannot tell from absence, and
  half-merged messages in the owned decoder;
- the validator reads an owned copy and the handler a view of the same request, and
  the two decoders count unknown fields differently;
- two dispatchers and two body formats that must treat a request alike;
- one string shared by a Go builder and everything it has built;
- `sys.path` taken apart around an import that may raise, or may have happened before.

What makes each component correct: the retry loop gives one outcome per call and
reports a transient failure only when it has spent its whole budget; a server
logs every answer to an Echo request that passed its interceptor, with the right code, and
handles exactly what it validated; the codec's two decoders agree and lose nothing;
a message holds what was put into it, whatever it was converted into; the answer to a
request depends on what it says and not on how it was dispatched and encoded;
`google.protobuf` is the pip package, and nothing else moves on `sys.path`; the
system greets only with an answer that was computed for that call and repeats a
request only after a loss.

## Modules

| Module | Models | Uses |
| --- | --- | --- |
| `UnaryCall` | abstract: what a caller may rely on from a retry loop | |
| `Retry` | the retry loops | `UnaryCall` (refined) |
| `RetryProofs` | theorems about `Retry` | `Retry`, TLAPS |
| `EchoServer` | the two servers, their port, and each request inside them | |
| `EchoServerProofs` | theorems about `EchoServer` | `EchoServer`, TLAPS |
| `AtLeastOnce` | abstract: what the system promises to a caller | |
| `EchoSystem` | clients, network and servers together | `Retry`, `EchoServer`, `AtLeastOnce` (refined) |
| `EchoSystemProofs` | theorems about `EchoSystem` | `EchoSystem`, `RetryProofs`, `EchoServerProofs`, TLAPS |
| `SequenceFilter` | the filter of a sequence, as a fold | |
| `SequenceFolds` | what is true of any fold over a sequence, by induction | TLAPS |
| `EchoCodec` | the generated Rust codec, as operators | `SequenceFilter` |
| `EchoMessage` | the two decoders fed side by side | `EchoCodec` |
| `EchoMessageProofs` | theorems about `EchoCodec`, `EchoMessage` and `MessageHandles` | `EchoMessage`, `MessageHandles`, `SequenceFolds`, TLAPS |
| `MessageValues` | abstract: what a user of the Rust message types may rely on | `EchoCodec` |
| `MessageHandles` | owned message and owned-view handle, and their conversions | `EchoCodec`, `MessageValues` (refined) |
| `EchoCall` | the data of one call through the Rust programs | `EchoCodec`, `EchoServer` (refined) |
| `EchoCallProofs` | theorems about `EchoCall` | `EchoCall`, `EchoMessageProofs`, TLAPS |
| `GoMessage` | the Go opaque API | |
| `GoMessageProofs` | theorems about `GoMessage` | `GoMessage`, TLAPS |
| `GenPath` | the Python package root | `SequenceFilter` |
| `GenPathProofs` | theorems about `GenPath` | `GenPath`, `SequenceFolds`, TLAPS |
| `MC*` | instances of these for TLC | |

### Retry

The three loops have the same control and differ in which errors they retry, so
there is one loop and three classifiers (`GoRetryable`, `RustRetryable`,
`PythonRetryable`). An error is reduced to what these look at: its Connect code,
and what its chain of wrapped errors contains. `status` is the program counter
of a call: in an attempt, in a wait, settled, or in the `tail`, the code after the loop
that the authors wrote for the compiler (`return nil, last`, `last.expect(..)`,
`raise RuntimeError`). `Backoff` and `Resume` are the two halves of a wait;
`Abort` is the `ctx.Done()` branch of `waitBackoff`, which is enabled together with the
timer branch when both are ready. Timers may fire late: `Resume` is enabled from
the instant of the timer on. The only calls with a context that can end are Go's.
`begun` and `late` are history variables.

### EchoServer

`Start` binds the port or exits, `Crash` kills a process and all it was doing.
A request moves through `stage`: `dialed` (a connection without its header),
`headed` (without its body), `arrived`, `routed` (inside the interceptor), `valid`,
`returned` (the result has come back to the interceptor), `logged`, `answered`. The
client completes the header in `ReadHeader` and the body in `ReadBody`, or never, and may
close the connection before (`Abandon`). `Expire`, the read-header timeout, races
the header. The 10 s are not counted: the timeout may fire at any time before the
header is complete. After it nothing is timed: neither server sets a timeout on a body
(`go/echo/cmd/server/main.go:54-59`, `rust/echo/server/src/main.rs:53-55`).

Go mounts its interceptor on the Echo handler only, behind the decoding of the
message; Rust puts it before dispatch and decoding and skips the health service by
name. `Intercepted` and `Logs` are that difference. Everything with no interceptor on its
way is one step, `Bypass`: in Go a message that cannot be decoded takes it too, so
the refusal leaves no log line, which in Rust it does; and a name nobody serves is
refused before its body has come. The validator is
its verdict, `Satisfies`; the handler is `Echo`.

### EchoSystem

An instance of `Retry` and one of `EchoServer` over their own variables, with
`link`, the client's end of each attempt, between them. Attempt `k` of call `c`
is the request `<<c, k>>`. `Lose` breaks a connection at any time, before the
server has the request, while it is served, or with the reply under way; the
server does not notice and the handler runs on. `Break` is the transport error
the attempt then returns. What the HTTP clients make of a broken connection is
not in the repository, so it may be any error of the constant `Errors`, transient
or not, a Connect error or, in Python, an `OSError` or a `TimeoutError` as it is, but
none that says a server has rejected the message. A refused dial is a transient error
in each language, as the comments of the classifiers say; Python's may be an
`OSError`. The clients send header and body at once, so a server gives up on a request
only if its connection was lost (`Drop`): it sees the client gone, or
its timeout fires. `Exit` is the rest of `main`.

### EchoCodec, EchoMessage

`EchoCodec` translates the generated codec into operators. Bytes are abstracted to fields
with a number, a wire type, a text, the fields a group encloses, and the bytes a field takes
beyond its shortest encoding. `MergeField` is the owned decoder. It makes the
field present before it reads the text, decodes unknown fields, and counts
the contents of a group against the limit. `MergeViewField` is the view: an unknown
field is one record of skipped bytes, whatever it encloses. `Rematerializes` and `ToOwned` are
the copy of a view into an owned message, which decodes the records again and may
fail where the view did not. `WriteTo` and `ComputeSize` are the encoder's two passes, `Json`
and `FromJson` the serde implementations.

`EchoMessage` feeds one buffer to both decoders field by field, clears, and decodes again.
Buffers are never valid as a whole or invalid as a whole: any field may be
unknown, of the wrong wire type, or unreadable.

### MessageHandles, MessageValues

The message types as a user has them: an owned message, and the handle that
keeps a view together with the buffer it borrows from. Each public operation that changes
one of them is an action, in any order. `MessageValues` is the promise: two
registers, copied into each other or left alone, with an error only for too many
unknown fields. A user adds unknown fields that can be read, in their shortest encoding, because
an unknown field in memory is a number and its decoded value; their number is not limited (`MaxUnknown` is a bound of the model), so
`from_owned`, which encodes and decodes again, can fail, although its doc expects that it does
not (finding 2). The names of the module begin with `Handles`
because its proofs share a module with those of `EchoMessage`.

### EchoCall

One call inside the Rust programs with its real data: which dispatcher, which
kind of call, binary or JSON, any sequence of fields or members. The two dispatchers find the
method and decode the request in steps of their own. For the router's closure the library
decodes a view that owns its buffer (`DecodeOwnedView`); the generated `call_unary`
matches the path a second time, turns JSON into binary (`Transcode`) and decodes a view of the
result (`DecodeRequest`). Then both go the same way: copy and
validate, handle, encode in the format of the request, log, answer, read in the client.
`StepsOfEchoServer` shows that under `Mapped` every step is a step or a stutter of
`EchoServer` with one Rust process: the four classes of messages `EchoServer` has are those
the code's treatment of real bodies falls into. `Carriers`, `Readable` and `Said` state what a body means,
independently of the decoders.

### GoMessage

A Go message of the opaque API holds a pointer and a presence bit; a builder hands
its own pointer to what it builds. `mem` is the heap, so that sharing is visible: `WriteThrough` is the
owner of the builder changing the string. The two message types have the same code.

### GenPath

`_register_generated_wkt` in the steps it takes, `Strip`, `ImportGoogle`, `Restore`, `AddWkt`,
on any `sys.path`, whose entries are `python/gen`, a different spelling of it, the pip
directory, the repository and one that cannot be resolved. `Preload` is
`__main__.py`, which imports its libraries, and they `google.protobuf`, before the
package root is imported. If what they find is that of `gen`, the script ends there with a traceback
(`dead`); `PipFirst` says that this takes a `gen` with regular packages, or no pip
package, and that nothing of this repository has run. An import that raises unwinds the function; `Install` lets a
later one succeed.

### External parts

The libraries (connect-go, connectrpc, buffa, grpchealth, the HTTP stacks), the
network, the clock and the operating system are not in the repository; they are
modelled by how its code relies on them and marked `external` in the map: clock,
context, kills, lost connections, errors of a broken connection, the wire format. Of the
libraries it is assumed that connect-go decodes a message before the handler's interceptors run
and connectrpc behind them; that a body that cannot be decoded, and an owned copy that
fails, gets `invalid_argument` or `internal`, either; that an owned decode counts what
a group encloses against the limit on unknown fields and a view counts records;
that serde's derived code reads a missing member and `null` as absent and refuses a
repeated one. Of Python, that an import takes the first regular package on `sys.path`, and a namespace
package only if there is none.

## Runs

| Run | Shows | Bounds |
| --- | --- | --- |
| `retry_calls` | `TypeOK`, `TailUnreachable`, `BackoffFloor`, `AbortsPromptly`, `TransientMeansSpent`, `ImplementsUnaryCall`, `SettlesOrHangs` | a Go call with a context and a Python call, one error per verdict of the classifiers, 4 attempts, idle time up to 1 |
| `retry_transport` | violated: `OnlyNonConnectByTransport` (finding 1) | one Go call, every error |
| `server` | `TypeOK`, `OnlyOwnerServes`, `LogMatchesAnswer`, `HealthNotLogged`, `HandledIffGreeted`, `EndsOrAwaitsBody` | a Go and a Rust process, one start each; a valid, an empty, an undecodable and a health request |
| `system_one` | `TypeOK`, `SuccessWasServed`, `RepeatNeedsLoss`, `OutlivesShortOutage`, `KeepsPromise`, `EveryClientExits` | one Go client with the constants of the code (5 attempts, 15 s of waits), both servers once, one loss |
| `system_two` | `AnswerIsFinal`, `KeepsPromise` | a Python and a Rust client, one server started twice, 2 attempts, one loss |
| `message` | `TypeOK`, `DecodersAgree`, `DecodesMeaning`, `RoundTrips`, `SizeIsExact` | up to 4 fields of 12, limit of 3 unknown ones, texts of 0, 127 and 128 bytes |
| `message_handles` | `HandlesTypeOK`, `NeverGrows`, `KeepsValues` | 5 buffers, 4 documents, limit of 2 unknown fields, up to 4 added by the user |
| `message_handles_from` | violated: `FromOwnedSucceeds` (finding 2) | the same |
| `echo_call` | `TypeOK`, `AnswersByMeaning`, `RepliesSatisfyRules`, `StepsOfEchoServer` | binary bodies of up to 3 fields of 7, JSON of up to 2 members of 6, both dispatchers, every kind of call and path |
| `gen_path` | `TypeOK`, `PipFirst`, `OthersStay`, `GenBehind` | every `sys.path` of up to 4 entries, 3 executions |
| `gen_path_retry` | violated: `GenStays` (finding 3) | up to 2 entries, 2 executions |
| `go_message` | `TypeOK`, `HoldsWhatWasPut` | 3 messages, 2 texts, 5 addresses, symmetric |

Why the bounds are enough. Calls do not share state, so one or two show every
interleaving of a loop with its surroundings. `system_one` runs the schedule with the
code's own constants; where two parties multiply the states, two to four
attempts keep a first, a middle and a last one. `MaxTime` bounds only time that
passes while no timer runs (`Tick` goes on for a running timer), so no schedule
is cut short. In `server` the port passes from either process to the other; a process
that is started again while requests of its former life are outstanding is in
`system_two`, and the theorems hold for any number of starts. The unknown paths, which
`server` leaves out, are in `echo_call`.

Three unknown fields reach the limit of the decoders in `message` and four pass it, a
group with two fields inside leaves nothing for another; in `message_handles` and `echo_call` such a
group is over the limit of 2 by itself. The texts lie on both sides of the length at which
the prefix takes a second byte. Three fields hold a text, another text and a field
that cannot be read in every order. Four entries of `sys.path` hold `gen`, its other spelling and the
pip directory in any order around another entry, and a third execution finds what the second left.
With three messages two may share a string that the third does not. The
remaining constants are generality that the theorems cover.

Every property of a passing run has a mutant: a plausible bug in one of the
definitions (an operator `Bug..` beside the original), under which TLC finds the
property violated.

Four configurations switch off deadlock checking, because what they run ends: in
`server` a process has used up its starts with every request answered, dropped or killed;
a call of `echo_call` has been answered; in `gen_path` the executions are used up.
The client loops and the system end in an explicit `Done` step instead, so a call that
is stuck would be found as a deadlock; messages never end.

## Fairness

- `Retry`: weak fairness of the clock, of starting the first attempt, and of the
  two branches of the wait: runtimes fire timers and `select` returns. Nothing
  is assumed of an answer, because the code sets no deadline on an attempt. What can
  then be shown is `SettlesOrHangs`: a call settles, or one attempt hangs for ever.
- `EchoServer`: weak fairness of the steps of a request that has arrived (the
  goroutine or task is scheduled), and of `Expire` (timers fire). No client is obliged to
  complete a header or a body or to close its connection, no server to start or to stay up.
  `EndsOrAwaitsBody` then says that the timeout frees every connection whose header never comes,
  that a request which has arrived whole is answered, and that a request stays open for
  ever in one case only, which the code leaves open: its body never comes.
- `EchoSystem`: both of these for the clients and servers it has, and that a dial is answered
  or refused, that header and body arrive on a connection that is open, and that the kernel
  resets the connections of a killed process; all these attempts are on the
  loopback interface. Losses and kills are never obliged to happen or to stop.

## Proofs

`RetryProofs` (for any calls, languages, attempts and first delay) proves that
`Spec` implies the invariants `TypeOK`, `TailUnreachable`, `BackoffFloor`,
`TransientMeansSpent`, `AbortsPromptly`, and that it implements `UnaryCall`.
None of these is inductive alone. The invariant `IInv` says of each call that it
waits only below the last attempt and is never in the tail, so that `Resume`
cannot run off the loop; that an attempt starts, and a timer fires, no sooner than
the budget spent so far, where `Budget(k + 1) = Budget(k) + Delay(k)` carries
`BackoffFloor` over each wait; and that a call which is waiting has started no late
attempt, because a wait after a late attempt aborts at once. The refinement needs the
invariant too: a loop in the tail, or a transient error before the last attempt,
would have no step in `UnaryCall`. Powers of two enter as a constant function `Shl` with
its recurrence as an assumption; the MC modules give it the value `2^k` and TLC evaluates the assumption.

`EchoServerProofs` (for any processes, implementations and requests) proves
`TypeOK`, `OnlyOwnerServes`, `LogMatchesAnswer`, `HealthNotLogged` and `HandledIffGreeted`. Its
invariant says, for each stage, from the dialed connection on, what is known of the answer,
the log and the handler's runs, and for a killed request, the union of what could be known where
it was killed. `OneRequest` is the frame lemma: a step of one request leaves the rest.

`GoMessageProofs` (for any messages, texts and addresses) proves `TypeOK` and
`HoldsWhatWasPut`. That a message holds what was put into it is not inductive:
a write through the builder's pointer changes every message that has the pointer, and the
invariant must say that these are exactly the messages built with the builder's present string
(`SharesExactly`). A setter stores the address of a string nobody has, which keeps it so.

`EchoSystemProofs` (for any calls, attempts, servers and losses) uses that the composition keeps
its components. Every step of the system is a step or a stutter of `Retry` and of `EchoServer` over their
own variables (`ClientsAreRetry`, `ServersAreEchoServer`), so the two proof modules are instantiated
and their invariants hold here, for the calls and the requests `<<c, k>>`. What is left is how the
two sides fit. `LinkInv` says what each end of an attempt knows of the other: a link that
is open, lost or refused goes with the stages the server can be in, and an answer a client has is the
one the server gave. `FaultInv` dates the refused dial, the loss or the kill that an attempt fails of no earlier
than the schedule lets that attempt start, which is what `OutlivesShortOutage` needs; `ReportInv` ties exit status and
output to the last attempt. From these follow `TypeOK`, `SuccessWasServed`, `RepeatNeedsLoss`, `AnswerIsFinal`,
`OutlivesShortOutage`, and step by step that the system implements `AtLeastOnce`.

`SequenceFolds` makes induction over data possible. The provers cannot instantiate the library's
induction theorems, which take an operator; so the operator of the fold is a constant of
the module (`Join`, `Weight`, `Unit`), the lemmas are proved once for it by induction over a set of
lengths, and each use instantiates the module with a `LAMBDA`. `FoldAppend`, `FoldConcat` and `FoldType` are what
the other modules need. Filters are folds (`SequenceFilter`) because the provers know nothing of `SelectSeq`.

`EchoMessageProofs` (for any texts, limit and fields, buffers of any length) proves `TypeOK`, `DecodersAgree`,
`DecodesMeaning`, `RoundTrips` and `SizeIsExact`. The invariant says what each decoder holds as long as it has not failed,
in terms of the fields fed: the last text, the unknown fields in order, and what is left of its limit. The limits are
the hard part. The owned decoder counts what groups enclose, the view counts records, and the
copy of a view counts as the owned decoder does; so the view accepts more, and the invariant must relate the count of the
records (`CountAll`) to their number. The section on whole buffers says the same of `DecodeView` as
a fold and what it reads of its own encoding.

The same module proves `HandlesTypeOK`, `NeverGrows` and that `MessageHandles` implements `MessageValues`
(`KeepsValues`), for any buffers, documents and added fields. None of the three is inductive. The invariant `HandlesIInv` has two
halves. `Borrows`: a handle's buffer is one the view decoder accepts, and its view is the meaning of
that buffer, so that `Unwrap` decodes the same view again. `Owns`: an owned message has only
unknown fields that can be read and are in their shortest encoding, which is why it survives being written and decoded, and why a
view, whose records keep their padding, is equal to an owned message only after `ToOwned`.
The operations rest on lemmas about the operators. `AcceptsIs` says which buffers a view accepts.
`WrittenIsRead` says that what `WriteTo` writes, if within the limit, is decoded as the message. `Shrinks`, by induction over
the buffer, says that the meaning is written in no more bytes; a repeated text and
the padding of a text are what is saved. `JsonDrops` says that a JSON text is read as the message without
its unknown fields. By `WrittenIsRead` and `Borrows` re-encoding a view can never fail, which `HandlesTypeOK` states: `"broken"` is
no value of `res`. In the refinement `from_owned` is the delicate step: it copies the
message or, over the limit, changes nothing and says so (`HandlesRefine`, one step per operation).

`EchoCallProofs` (for any texts, limit and greeting, calls with bodies of any length) proves `TypeOK`, `AnswersByMeaning`,
`RepliesSatisfyRules` and, step by step, `StepsOfEchoServer`. It instantiates `EchoMessageProofs` for what the codec does with a whole buffer. `SentFacts` says that a
body arrives as the text it says, in either format, and is readable exactly if it arrives and can be owned;
`TranscodedIsRead` that a body in JSON is decoded from the binary it was turned into as the same message, by either dispatcher. The invariant
`IInv` says for each stage what is known: a call past dispatch was wanted, the view is what was sent,
what was validated is what the handler reads, and an answer is the one its meaning deserves (`Deserved`). The refinement rests on it: whichever of decoding, copying
and validating refuses a request, it is a step of `EchoServer`'s `Validate` because the code is one that the class of the
request deserves.

`GenPathProofs` (for any `sys.path` and any number of executions) proves `TypeOK`, `PipFirst`, `OthersStay` and `GenBehind`. The
invariant takes `sys.path` apart into the entries of `gen` and the others (`Gens`, `Others`): the others are the original
ones in their order at every point of the function, those of `gen` are on the path or saved unless an import failed, and
behind all others once the function has run. That libraries of the script find `gen` only if its packages
are regular or pip's are missing rests on the first pip entry of the path (`FirstSite`, by induction).

What the proofs assume are the named `ASSUME`s of the modules: types of constants; in `Retry` the recurrence of
powers of two; in `GoMessage` that a free address always exists; in `EchoSystem` that the payload
of a request is one that can be decoded, as a client's encoder makes it, and that no error of a broken connection (`Errors`) has
the code `invalid_argument`, with which a server rejects a message; in `EchoCodec` that the empty text is a text and the only one without length,
and that `null` and a number are no texts; in `MessageHandles` that buffers are sequences of fields and that a user adds unknown fields
in their shortest encoding; in `EchoCall` that the bodies carry texts of `Names`, and that greetings are not empty and differ. TLC evaluates
each of them on the instances.

Only model-checked: liveness (`SettlesOrHangs`, `EndsOrAwaitsBody`, `EveryClientExits`), because fairness and `ENABLED` are outside the
prover's reach. Every other property of a passing run is a theorem.

## Findings

1. `go/echo/cmd/client/retry.go:76` says that non-Connect transport failures are
   also transient. The rules under the comment look through the chain of every
   error, so a Connect error with a permanent code that wraps a `*net.OpError`
   or a timeout is retried as well. Rust and Python judge a Connect error by its
   code alone.
2. `rust/api/gen/buffa/api.v1.rs:474-475` (and 734-735) says that `from_owned` fails only if "the
   re-encoded bytes are somehow invalid (should not happen for well-formed messages)". It decodes
   what it has encoded, which is held to the limit on unknown fields, and a message that is built is not:
   one with more unknown fields, each of them well-formed, makes it fail.
3. `python/__init__.py:12` says that `python/gen` is on `sys.path` for
   `buf.validate`. The function takes it off while it imports `google.protobuf` and puts it
   back afterwards, with no `finally`: an import that raises loses the entries, and when the
   package root is imported again with success they are still gone.

Without a run, as no interleaving is in it: `api/v1/echo.proto:13` says that Echo returns the
same message that was sent, and both handlers return `Hello, <message>!` (`Echo` in `EchoServer`), as the README expects.

## Not modelled

- Python's descriptors, the Rust crate facade, build rules and CI: declarations, with no state and no control.
- The asyncio, ASGI and WSGI stubs of the Python glue: no program of the repository uses them.
- The entries of the generated Rust code for the `Any` registry, type URLs and reflection;
  reflection in Go: data for libraries, which nothing here reads.
- Go accessors on a nil message, which return the zero value.
- The wording and layout of log lines, output and violation reports.

## Plan

Done: `Retry` with `UnaryCall` (the behaviour that matters most) and its proofs, `EchoServer`
and its proofs, `EchoSystem` with `AtLeastOnce`, `EchoMessage`; then connections, header timeout and
undecodable bodies in `EchoServer`, the whole codec with `MessageHandles`, `EchoCall` with both
dispatchers, `GoMessage` with its proofs, and `GenPath`; then the proofs about the composition, the codec, the
call, the package root and the handles. Nothing of the plan is left. What could still be
stated, under bounds that TLC reaches, is liveness of more than two clients.
