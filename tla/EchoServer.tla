---------------------------- MODULE EchoServer ----------------------------
(***************************************************************************)
(* The echo servers: processes that compete for one listening address and  *)
(* take each request from its connection through routing, the log          *)
(* interceptor, validation and the handler.                                *)
(*   go    go/echo/cmd/server/{main,log}.go, go/api/v1/echo.connect.go     *)
(*   rust  rust/echo/server/src/{main,log}.rs and the generated router and *)
(*         validator under rust/api/gen                                    *)
(* Requests are served concurrently and each step of each is an action of  *)
(* its own.  A process stops only by failing to listen or by being killed: *)
(* neither server has a graceful shutdown.                                 *)
(***************************************************************************)
EXTENDS Naturals, Sequences

CONSTANTS
  Servers,    \* server processes
  Impl,       \* [Servers -> {"go", "rust"}]
  Requests,   \* requests that may reach a server
  Path,       \* [Requests -> Paths]
  Message,    \* [Requests -> Messages], the message field of the request
  NoServer,   \* not a process: nobody is bound to the address
  MaxStarts   \* bound: how often a process is started

\* A method of the service, another name below the service, the health service.
Paths == {"Echo", "Other", "Health"}

\* The message field: not set, set to the empty string, set to some text; or a
\* body that cannot be decoded.
Messages == {"absent", "empty", "Jane", "garbled"}

ASSUME ServerAssumption ==
  /\ Impl \in [Servers -> {"go", "rust"}]
  /\ Path \in [Requests -> Paths]
  /\ Message \in [Requests -> Messages]
  /\ NoServer \notin Servers
  /\ MaxStarts \in Nat

\* What a handler returns: a code, and a body when the code is "ok".
Hello(m) == <<"Hello", m>>
SERVING == <<"serving">>
NoBody == <<>>
Bodies == {Hello(m) : m \in Messages} \cup {SERVING, NoBody}

\* The codes an interceptor can see, and those of the answers.
Codes == {"ok", "invalid_argument", "internal"}
Answers == [code : Codes \cup {"none", "unimplemented"}, body : Bodies]
Answer(code, body) == [code |-> code, body |-> body]
NoAnswer == Answer("none", NoBody)

\* Mutant: an empty string is taken for a message.
BugPresent(m) == m # "absent"

\* The rules of api/v1/echo.proto on the field: required, and min_len = 1.
Satisfies(m) == m # "absent" /\ m # "empty"

Decodes(m) == m # "garbled"

\* The answers to a message that is refused.  The libraries choose the code for
\* one that cannot be decoded.
Refused(m) ==
  {Answer(code, NoBody) : code \in IF Decodes(m) THEN {"invalid_argument"} ELSE Codes \ {"ok"}}

-----------------------------------------------------------------------------
VARIABLES
  port,      \* the process that is bound to the address, or NoServer
  proc,      \* [Servers -> {"off", "serving", "exited"}]
  starts,    \* how often each process was started
  stage,     \* how far each request has come, see Stages
  at,        \* the process each request reached
  answer,    \* what the handler, or what refused for it, returned
  log,       \* the codes of the lines logged for each request
  served     \* (history) how often the Echo handler ran for each request

vars == <<port, proc, starts, stage, at, answer, log, served>>

Stages == {"none", "dialed", "headed", "arrived", "routed", "valid", "returned",
           "logged", "answered", "dropped", "killed"}
InFlight == Stages \ {"none", "answered", "dropped", "killed"}

Init ==
  /\ port = NoServer
  /\ proc = [s \in Servers |-> "off"]
  /\ starts = [s \in Servers |-> 0]
  /\ stage = [r \in Requests |-> "none"]
  /\ at = [r \in Requests |-> NoServer]
  /\ answer = [r \in Requests |-> NoAnswer]
  /\ log = [r \in Requests |-> <<>>]
  /\ served = [r \in Requests |-> 0]

\* Mutant: a second process does not find the address taken.
BugStealsPort(s) ==
  /\ proc[s] # "serving" /\ starts[s] < MaxStarts
  /\ starts' = [starts EXCEPT ![s] = @ + 1]
  /\ port' = s /\ proc' = [proc EXCEPT ![s] = "serving"]
  /\ UNCHANGED <<stage, at, answer, log, served>>

\* main: the address is free and is bound, or listening fails and main exits 1.
Start(s) ==
  /\ proc[s] # "serving"
  /\ starts[s] < MaxStarts
  /\ starts' = [starts EXCEPT ![s] = @ + 1]
  /\ IF port = NoServer
     THEN port' = s /\ proc' = [proc EXCEPT ![s] = "serving"]
     ELSE port' = port /\ proc' = [proc EXCEPT ![s] = "exited"]
  /\ UNCHANGED <<stage, at, answer, log, served>>

\* The process is killed: the address is free, its requests are gone.
Crash(s) ==
  /\ proc[s] = "serving"
  /\ proc' = [proc EXCEPT ![s] = "off"]
  /\ port' = NoServer
  /\ stage' = [r \in Requests |->
                 IF at[r] = s /\ stage[r] \in InFlight THEN "killed" ELSE stage[r]]
  /\ UNCHANGED <<starts, at, answer, log, served>>

\* The connection of r is accepted; its header is still to come.
Accept(r) ==
  /\ stage[r] = "none"
  /\ port # NoServer
  /\ stage' = [stage EXCEPT ![r] = "dialed"]
  /\ at' = [at EXCEPT ![r] = port]
  /\ UNCHANGED <<port, proc, starts, answer, log, served>>

\* The client completes the header, which it may never do.
ReadHeader(r) ==
  /\ stage[r] = "dialed"
  /\ stage' = [stage EXCEPT ![r] = "headed"]
  /\ UNCHANGED <<port, proc, starts, at, answer, log, served>>

\* The client completes the body, which it may never do either: neither server
\* limits the time it waits for a body.
ReadBody(r) ==
  /\ stage[r] = "headed"
  /\ stage' = [stage EXCEPT ![r] = "arrived"]
  /\ UNCHANGED <<port, proc, starts, at, answer, log, served>>

\* The client goes away before its request is complete, and the server sees it.
Abandon(r) ==
  /\ stage[r] \in {"dialed", "headed"}
  /\ stage' = [stage EXCEPT ![r] = "dropped"]
  /\ UNCHANGED <<port, proc, starts, at, answer, log, served>>

\* Mutant: the timeout is set on the body in place of the header.
BugExpire(r) ==
  /\ stage[r] = "headed"
  /\ stage' = [stage EXCEPT ![r] = "dropped"]
  /\ UNCHANGED <<port, proc, starts, at, answer, log, served>>

\* The read-header timeout of 10 s closes the connection.
Expire(r) ==
  /\ stage[r] = "dialed"
  /\ stage' = [stage EXCEPT ![r] = "dropped"]
  /\ UNCHANGED <<port, proc, starts, at, answer, log, served>>

\* Where the log interceptor stands.  Go mounts it on the Echo handler alone, with
\* a decoded message; Rust puts it before the dispatch and the decoding, and looks
\* at the procedure.
Intercepted(r) ==
  \/ Path[r] = "Echo" /\ (Decodes(Message[r]) \/ Impl[at[r]] = "rust")
  \/ Path[r] = "Health" /\ Impl[at[r]] = "rust"

\* Mutant: the Rust interceptor does not skip the health service.
BugLogsAll(r) == TRUE

Logs(r) == Impl[at[r]] = "rust" => Path[r] # "Health"

Routed(r) ==
  /\ stage[r] = "arrived"
  /\ Intercepted(r)
  /\ stage' = [stage EXCEPT ![r] = "routed"]
  /\ UNCHANGED <<port, proc, starts, at, answer, log, served>>

\* No interceptor: Go's health handler and its refusal of what it cannot decode,
\* and 404 or "unimplemented" for other names.
Bypassed(r) ==
  CASE Path[r] = "Health" -> {Answer("ok", SERVING)}
    [] Path[r] = "Other"  -> {Answer("unimplemented", NoBody)}
    [] Path[r] = "Echo"   -> Refused(Message[r])

\* An unknown name is refused without a look at the body.
Bypass(r) ==
  /\ stage[r] = "arrived" \/ (stage[r] = "headed" /\ Path[r] = "Other")
  /\ ~Intercepted(r)
  /\ stage' = [stage EXCEPT ![r] = "answered"]
  /\ \E a \in Bypassed(r) : answer' = [answer EXCEPT ![r] = a]
  /\ UNCHANGED <<port, proc, starts, at, log, served>>

\* Mutant: validation outermost, so that a rejected request skips the log.
BugValidateFirst(r) ==
  /\ stage[r] = "routed" /\ Path[r] = "Echo"
  /\ IF Satisfies(Message[r])
     THEN stage' = [stage EXCEPT ![r] = "valid"] /\ UNCHANGED answer
     ELSE /\ stage' = [stage EXCEPT ![r] = "answered"]
          /\ answer' = [answer EXCEPT ![r] = Answer("invalid_argument", NoBody)]
  /\ UNCHANGED <<port, proc, starts, at, log, served>>

\* Decoding, in Rust, and validation.
Validate(r) ==
  /\ stage[r] = "routed" /\ Path[r] = "Echo"
  /\ IF Decodes(Message[r]) /\ Satisfies(Message[r])
     THEN stage' = [stage EXCEPT ![r] = "valid"] /\ UNCHANGED answer
     ELSE /\ stage' = [stage EXCEPT ![r] = "returned"]
          /\ \E a \in Refused(Message[r]) : answer' = [answer EXCEPT ![r] = a]
  /\ UNCHANGED <<port, proc, starts, at, log, served>>

\* EchoServer.Echo / echo(): "Hello, <message>!".
Echo(r) ==
  /\ stage[r] = "valid"
  /\ stage' = [stage EXCEPT ![r] = "returned"]
  /\ answer' = [answer EXCEPT ![r] = Answer("ok", Hello(Message[r]))]
  /\ served' = [served EXCEPT ![r] = @ + 1]
  /\ UNCHANGED <<port, proc, starts, at, log>>

\* The static health checker behind Rust's interceptor.
Check(r) ==
  /\ stage[r] = "routed" /\ Path[r] = "Health"
  /\ stage' = [stage EXCEPT ![r] = "returned"]
  /\ answer' = [answer EXCEPT ![r] = Answer("ok", SERVING)]
  /\ UNCHANGED <<port, proc, starts, at, log, served>>

\* Mutant: the response leaves before its line is written.
BugAnswerFirst(r) ==
  /\ stage[r] \in {"returned", "logged"}
  /\ stage' = [stage EXCEPT ![r] = "answered"]
  /\ UNCHANGED <<port, proc, starts, at, answer, log, served>>

\* Mutant: the line is written before next is called.
BugLogEarly(r) ==
  /\ \/ /\ stage[r] = "routed" /\ log[r] = <<>> /\ Logs(r)
        /\ log' = [log EXCEPT ![r] = Append(@, answer[r].code)]
        /\ UNCHANGED stage
     \/ /\ stage[r] = "returned"
        /\ stage' = [stage EXCEPT ![r] = "logged"]
        /\ UNCHANGED log
  /\ UNCHANGED <<port, proc, starts, at, answer, served>>

\* The interceptor resumes after next: one line, with the code that is returned.
Log(r) ==
  /\ stage[r] = "returned"
  /\ stage' = [stage EXCEPT ![r] = "logged"]
  /\ log' = [log EXCEPT ![r] = IF Logs(r) THEN Append(@, answer[r].code) ELSE @]
  /\ UNCHANGED <<port, proc, starts, at, answer, served>>

\* The interceptor returns the result, and the library writes the response.
Respond(r) ==
  /\ stage[r] = "logged"
  /\ stage' = [stage EXCEPT ![r] = "answered"]
  /\ UNCHANGED <<port, proc, starts, at, answer, log, served>>

\* A step of a process that is serving r.
Serve(r) ==
  \/ Routed(r) \/ Bypass(r)
  \/ Validate(r) \/ Echo(r) \/ Check(r)
  \/ Log(r) \/ Respond(r)

Next ==
  \/ \E s \in Servers : Start(s) \/ Crash(s)
  \/ \E r \in Requests : Accept(r) \/ ReadHeader(r) \/ ReadBody(r) \/ Abandon(r)
                           \/ Expire(r) \/ Serve(r)

Spec == Init /\ [][Next]_vars

\* A process runs the goroutines and tasks it has started, and its timers.  No
\* client is obliged to complete a header or a body.
FairSpec == Spec /\ \A r \in Requests : WF_vars(Serve(r)) /\ WF_vars(Expire(r))
-----------------------------------------------------------------------------
TypeOK ==
  /\ port \in Servers \cup {NoServer}
  /\ proc \in [Servers -> {"off", "serving", "exited"}]
  /\ starts \in [Servers -> 0..MaxStarts]
  /\ stage \in [Requests -> Stages]
  /\ at \in [Requests -> Servers \cup {NoServer}]
  /\ answer \in [Requests -> Answers]
  /\ log \in [Requests -> Seq(Codes)]
  /\ served \in [Requests -> Nat]

\* Only the process that owns the address has requests in flight, however
\* starts, failures to listen and kills of the two servers interleave.
OnlyOwnerServes ==
  /\ \A s \in Servers : proc[s] = "serving" <=> port = s
  /\ \A r \in Requests : stage[r] \in InFlight => port = at[r] /\ at[r] # NoServer

\* Every answer to an Echo request, rejections included, is in the log of the
\* process that gave it: one line, with the code the client gets.  Only a body
\* that cannot be decoded leaves no line, and only in Go.  A request that was cut
\* off has a line only if it got as far as a code.
LogMatchesAnswer ==
  \A r \in Requests : Path[r] = "Echo" =>
    /\ stage[r] = "answered" =>
         IF Message[r] = "garbled" /\ Impl[at[r]] = "go"
         THEN log[r] = <<>> ELSE log[r] = <<answer[r].code>>
    /\ stage[r] # "answered" => log[r] \in {<<>>, <<answer[r].code>>}

\* Health probes leave no line, on either server, though the two put their
\* interceptor in different places.
HealthNotLogged == \A r \in Requests : Path[r] = "Health" => log[r] = <<>>

\* The handler ran exactly for the requests that were let through: it never
\* greets an empty name, and what was refused was never handled.
HandledIffGreeted ==
  \A r \in Requests :
    /\ served[r] = (IF answer[r].code = "ok" /\ Path[r] = "Echo" THEN 1 ELSE 0)
    /\ answer[r].body = Hello(Message[r]) => Message[r] = "Jane"

\* A connection whose header never comes is closed by the timeout; a request that
\* has arrived whole is answered and not dropped, unless its process is killed.  The
\* only request that stays open for ever is one whose client has completed its
\* header, and then neither completes the body nor closes the connection.
EndsOrAwaitsBody ==
  \A r \in Requests :
    /\ stage[r] \in InFlight ~> \/ stage[r] \in {"answered", "dropped", "killed"}
                                 \/ [](stage[r] = "headed")
    /\ stage[r] = "arrived" ~> stage[r] \in {"answered", "killed"}
=============================================================================
