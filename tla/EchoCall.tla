------------------------------ MODULE EchoCall ------------------------------
(***************************************************************************)
(* The data of one call through the Rust programs: a request in binary or  *)
(* in JSON is dispatched, decoded, validated, handled and answered in the  *)
(* same format, and the client reads the answer.                           *)
(*   rust/api/gen/connect/api.v1.rs, protovalidate/api.v1.echo.rs          *)
(*   rust/echo/server/src/{main,log}.rs, rust/echo/client/src/main.rs      *)
(* The generated code has two dispatchers, the router that the server uses *)
(* and the monomorphic EchoServiceServer.  The handler reads a view of the *)
(* request; the validator reads an owned copy of that view.                *)
(***************************************************************************)
EXTENDS EchoCodec

CONSTANTS
  Calls,    \* the calls that may be made, a subset of CallType
  Names,    \* texts a request may carry
  Greeting  \* [Names -> Texts], "Hello, <name>!"

ServiceName == "api.v1.EchoService"
Methods == [service : {ServiceName, "other"}, method : {"Echo", "Other"}]
Kinds == {"unary", "server_stream", "client_stream", "bidi"}

\* What arrives: [path, kind, dispatcher, format, body].  A body in JSON is a
\* sequence of members, in binary a sequence of fields.
WellFormed(c) ==
  /\ c.path \in Methods /\ c.kind \in Kinds
  /\ c.dispatcher \in {"router", "mono"} /\ c.format \in {"proto", "json"}
  /\ c.body \in Seq(IF c.format = "proto" THEN Fields ELSE Members)
  /\ c.format = "proto" => \A i \in DOMAIN c.body : c.body[i].num = 1 => c.body[i].text \in Names
  /\ c.format = "json" => \A i \in DOMAIN c.body :
       c.body[i].key = "message" => c.body[i].value \in Names \cup {Null, "number"}

ASSUME CallAssumption ==
  /\ \A c \in Calls : WellFormed(c)
  /\ Names \subseteq Texts /\ "" \in Names
  /\ Greeting \in [Names -> Texts \ {""}]
  /\ \A m, n \in Names : Greeting[m] = Greeting[n] => m = n

VARIABLES
  call,   \* the call
  stage,  \* how far it has come
  bytes,  \* the request in binary
  view,   \* the request as the handler sees it
  reply,  \* what the handler returned
  code,   \* the code of the answer
  wire,   \* the body of the answer
  log,    \* the codes logged
  text    \* what the client program prints, or None

vars == <<call, stage, bytes, view, reply, code, wire, log, text>>

Init ==
  /\ call \in Calls /\ stage = "arrived"
  /\ bytes = <<>> /\ view = Default /\ reply = Default
  /\ code = "none" /\ wire = <<>> /\ log = <<>> /\ text = None

\* The request that the generated client makes of EchoRequest with message t.
ClientRequest(t) ==
  [path |-> [service |-> ServiceName, method |-> "Echo"], kind |-> "unary",
   format |-> "proto", body |-> WriteTo(WithMessage(Default, t))]

-----------------------------------------------------------------------------
(* Dispatch. *)

\* register: the routes of the router.
Routes == {[service |-> ServiceName, method |-> "Echo"]}

\* EchoServiceServer::lookup strips the name of the service, then matches.
Lookup(p) == p.service = ServiceName /\ p.method = "Echo"

Finds(c) == IF c.dispatcher = "router" THEN c.path \in Routes ELSE Lookup(c.path)

Route ==
  /\ stage = "arrived" /\ call.kind = "unary" /\ Finds(call)
  /\ stage' = "routed"
  /\ UNCHANGED <<call, bytes, view, reply, code, wire, log, text>>

\* Nobody is called, and the interceptor is not either.
Unimplemented ==
  /\ stage' = "answered" /\ code' = "unimplemented"
  /\ UNCHANGED <<call, bytes, view, reply, wire, log, text>>

NoMethod == stage = "arrived" /\ call.kind = "unary" /\ ~Finds(call) /\ Unimplemented

\* call_server_streaming, call_client_streaming, call_bidi_streaming: no method.
CallStreaming == stage = "arrived" /\ call.kind # "unary" /\ Unimplemented

-----------------------------------------------------------------------------
(* Decoding, which each dispatcher does in its own way. *)

\* Mutant: an error leaves the server past the interceptor.
BugRefuse(codes) ==
  /\ stage' = "answered" /\ code' \in codes
  /\ UNCHANGED <<call, bytes, view, reply, wire, log, text>>

\* An error goes back to the interceptor; a library chooses from codes.
Refuse(codes) ==
  /\ stage' = "encoded" /\ code' \in codes
  /\ UNCHANGED <<call, bytes, view, reply, wire, log, text>>

Unreadable == {"invalid_argument", "internal"}

\* The router hands the closure of register an OwnedView, which owns its buffer: the
\* body itself, or the encoding of the message that was read from a JSON body.
DecodeOwnedView ==
  /\ stage = "routed" /\ call.dispatcher = "router"
  /\ LET b == IF call.format = "json" THEN WriteTo(FromJson(call.body)) ELSE call.body IN
     IF (call.format = "json" /\ ~ReadsJson(call.body)) \/ DecodeView(b).err
     THEN Refuse(Unreadable)
     ELSE /\ stage' = "decoded" /\ bytes' = b /\ view' = DecodeView(b).msg
          /\ UNCHANGED <<call, reply, code, wire, log, text>>

\* EchoServiceServer::call_unary strips and matches again, after lookup has.
Matches(p) == p.service = ServiceName /\ p.method = "Echo"

\* Mutant: a JSON body is checked to be JSON, and decoded as nothing.
BugTranscode ==
  /\ stage = "routed" /\ call.dispatcher = "mono"
  /\ stage' = "transcoded"
  /\ bytes' = IF call.format = "proto" THEN call.body ELSE <<>>
  /\ UNCHANGED <<call, view, reply, code, wire, log, text>>

\* call_unary, and request_proto_bytes: a JSON body is read into a message and encoded.
Transcode ==
  /\ stage = "routed" /\ call.dispatcher = "mono"
  /\ IF ~Matches(call.path) THEN Refuse({"unimplemented"})
     ELSE IF call.format = "json" /\ ~ReadsJson(call.body) THEN Refuse(Unreadable)
     ELSE /\ stage' = "transcoded"
          /\ bytes' = IF call.format = "proto" THEN call.body ELSE WriteTo(FromJson(call.body))
          /\ UNCHANGED <<call, view, reply, code, wire, log, text>>

\* decode_borrowed_request_view: the body is dropped with the call, and the view with it.
DecodeRequest ==
  /\ stage = "transcoded"
  /\ LET d == DecodeView(bytes) IN
     IF d.err THEN Refuse(Unreadable)
     ELSE /\ stage' = "decoded" /\ view' = d.msg
          /\ UNCHANGED <<call, bytes, reply, code, wire, log, text>>

\* EchoRequest::validate: the rules that are violated.
RequestViolations(m) ==
  IF m.message = None THEN <<"required">>
  ELSE IF TextLen[m.message] < 1 THEN <<"string.min_len">>
  ELSE <<>>

\* Both validators sort out an error of the rules themselves before the rest.
Verdict(violations) ==
  IF Contains(violations, "__cel_runtime_error__") THEN "internal"
  ELSE IF violations # <<>> THEN "invalid_argument"
  ELSE "ok"

\* EchoResponse::validate: the same two rules on the same field, and its result.
ResponseViolations(m) == RequestViolations(m)
ResponseAccepted(m) == Verdict(ResponseViolations(m)) = "ok"

\* connect_impl validates an owned copy, which may not be had.
Validate ==
  /\ stage = "decoded"
  /\ IF ~Rematerializes(view) THEN Refuse(Unreadable)
     ELSE LET verdict == Verdict(RequestViolations(ToOwned(view))) IN
          IF verdict # "ok" THEN Refuse({verdict})
          ELSE /\ stage' = "valid"
               /\ UNCHANGED <<call, bytes, view, reply, code, wire, log, text>>

\* Mutant: the handler keeps the message it was sent and sets nothing else.
BugEcho ==
  /\ stage = "valid"
  /\ stage' = "returned" /\ code' = "ok" /\ reply' = Default
  /\ UNCHANGED <<call, bytes, view, wire, log, text>>

\* EchoServer::echo: request.message.unwrap_or("") and with_message.
Echo ==
  /\ stage = "valid"
  /\ LET message == IF view.message = None THEN "" ELSE view.message IN
     reply' = WithMessage(Default, Greeting[message])
  /\ stage' = "returned" /\ code' = "ok"
  /\ UNCHANGED <<call, bytes, view, wire, log, text>>

\* .encode(format)
EncodeReply ==
  /\ stage = "returned"
  /\ wire' = IF call.format = "json" THEN Json(reply) ELSE WriteTo(reply)
  /\ stage' = "encoded"
  /\ UNCHANGED <<call, bytes, view, reply, code, log, text>>

\* Mutant: the line is written again when the body has been sent.
BugRespond ==
  /\ stage = "logged"
  /\ stage' = "answered" /\ log' = Append(log, code)
  /\ UNCHANGED <<call, bytes, view, reply, code, wire, text>>

\* LogInterceptor::intercept_unary, after next.
Log ==
  /\ stage = "encoded"
  /\ log' = Append(log, code) /\ stage' = "logged"
  /\ UNCHANGED <<call, bytes, view, reply, code, wire, text>>

Respond ==
  /\ stage = "logged" /\ stage' = "answered"
  /\ UNCHANGED <<call, bytes, view, reply, code, wire, log, text>>

\* The client decodes the body and prints view().message.unwrap_or_default().
ReadReply ==
  /\ stage = "answered" /\ code = "ok"
  /\ LET m == IF call.format = "json" THEN FromJson(wire) ELSE DecodeView(wire).msg IN
     text' = IF m.message = None THEN "" ELSE m.message
  /\ stage' = "read"
  /\ UNCHANGED <<call, bytes, view, reply, code, wire, log>>

Next ==
  \/ Route \/ NoMethod \/ CallStreaming
  \/ DecodeOwnedView \/ Transcode \/ DecodeRequest \/ Validate \/ Echo \/ EncodeReply
  \/ Log \/ Respond \/ ReadReply

Spec == Init /\ [][Next]_vars
-----------------------------------------------------------------------------
(* What a call means, read off its body, whoever dispatches it. *)

Wanted(c) == c.kind = "unary" /\ c.path = [service |-> ServiceName, method |-> "Echo"]

\* Every member or field that carries a text.
Carriers(c) ==
  IF c.format = "json" THEN MessageMembers(c.body)
  ELSE TextsIn(c.body)

Readable(c) ==
  IF c.format = "json"
  THEN Len(Carriers(c)) <= 1 /\ \A i \in DOMAIN Carriers(c) : Carriers(c)[i].value # "number"
  ELSE /\ \A i \in DOMAIN c.body : c.body[i].good /\ (c.body[i].num = 1 => c.body[i].wire = "len")
       /\ CountAll(UnknownIn(c.body)) <= UnknownLimit

\* The last text, or None.
Said(c) ==
  IF Carriers(c) = <<>> THEN None
  ELSE IF c.format = "proto" THEN Last(Carriers(c)).text
  ELSE IF Last(Carriers(c)).value = Null THEN None ELSE Last(Carriers(c)).value

TypeOK ==
  /\ call \in Calls
  /\ stage \in {"arrived", "routed", "transcoded", "decoded", "valid", "returned",
                "encoded", "logged", "answered", "read"}
  /\ code \in {"none", "ok", "unimplemented"} \cup Unreadable
  /\ view.message \in Names \cup {None} /\ text \in Texts \cup {None}
  /\ Len(log) <= 1

\* One meaning, one answer: the two dispatchers and the two formats treat a call
\* alike, and what the client prints is the greeting of the last text it sent, in
\* whatever way it was put on the wire.
AnswersByMeaning ==
  stage \in {"answered", "read"} =>
    /\ code = "unimplemented" <=> ~Wanted(call)
    /\ Wanted(call) =>
         /\ code = "ok" <=> Readable(call) /\ Said(call) \notin {None, ""}
         /\ Readable(call) /\ code # "ok" => code = "invalid_argument"
    /\ stage = "read" => text = Greeting[Said(call)]

\* A reply satisfies the rules of the response, which the server does not check
\* and the Python client does; and its encoding reads as one that does.
RepliesSatisfyRules ==
  /\ code = "ok" => ResponseAccepted(reply)
  /\ stage = "read" => ResponseAccepted(WithMessage(Default, text))

\* The classes of requests that EchoServer distinguishes.
Class(c) ==
  CASE ~Readable(c)    -> "garbled"
    [] Readable(c)     -> CASE Said(c) = None -> "absent"
                            [] Said(c) = ""   -> "empty"
                            [] OTHER          -> "Jane"

Mapped ==
  CASE stage \in {"routed", "transcoded", "decoded"} -> "routed"
    [] stage \in {"returned", "encoded"}             -> "returned"
    [] stage \in {"answered", "read"}                -> "answered"
    [] OTHER                                         -> stage

Greeted == IF code # "ok" THEN <<>>
           ELSE <<"Hello", IF reply.message = Greeting[""] THEN "empty" ELSE "Jane">>

\* EchoServer with one Rust process that serves call c alone.
Server(c) == INSTANCE EchoServer WITH
  Servers <- {"rust"}, Impl <- [s \in {"rust"} |-> "rust"],
  NoServer <- "nobody", MaxStarts <- 1,
  Requests <- {c},
  Path    <- [r \in {c} |-> IF Wanted(c) THEN "Echo" ELSE "Other"],
  Message <- [r \in {c} |-> Class(c)],
  port <- "rust", proc <- [s \in {"rust"} |-> "serving"], starts <- [s \in {"rust"} |-> 1],
  stage  <- [r \in {c} |-> Mapped],
  at     <- [r \in {c} |-> "rust"],
  answer <- [r \in {c} |-> [code |-> code, body |-> Greeted]],
  log    <- [r \in {c} |-> log],
  served <- [r \in {c} |-> IF code = "ok" THEN 1 ELSE 0]

\* Each step on the data is a step of the Rust server of EchoServer, or none: the
\* classes of messages it distinguishes are enough to say what the server does.
StepsOfEchoServer ==
  [][\A c \in {call} : Server(c)!Next]_<<Mapped, code, Greeted, log>>
=============================================================================
