-------------------------- MODULE EchoServerProofs --------------------------
(***************************************************************************)
(* Proofs about EchoServer, for any processes and any requests.  The       *)
(* invariant follows a request stage by stage: what is known of its        *)
(* answer, its log lines and its handler runs before, at and after each    *)
(* step, and in a process that was killed between two of them.             *)
(***************************************************************************)
EXTENDS EchoServer, TLAPS

\* What the rules of the proto make of a message: it is greeted, or it is refused.
Due(m) == IF Decodes(m) /\ Satisfies(m) THEN {Answer("ok", Hello(m))} ELSE Refused(m)

Untouched(r) == answer[r] = NoAnswer /\ log[r] = <<>> /\ served[r] = 0

\* The handler's result, as the interceptor sees it.
Decided(r) ==
  /\ answer[r].code \in Codes
  /\ served[r] = (IF answer[r].code = "ok" /\ Path[r] = "Echo" THEN 1 ELSE 0)
  /\ answer[r].body = Hello(Message[r]) => Message[r] = "Jane"
  /\ Path[r] = "Echo" => answer[r] \in Due(Message[r])

RequestInv(r) ==
  /\ stage[r] = "none" => Untouched(r)
  /\ stage[r] # "none" => at[r] \in Servers
  /\ stage[r] \in {"dialed", "headed", "arrived", "routed", "valid", "dropped"} => Untouched(r)
  /\ stage[r] = "routed" => Intercepted(r)
  /\ stage[r] = "valid" => Path[r] = "Echo" /\ Message[r] = "Jane"
  /\ stage[r] = "returned" => Decided(r) /\ log[r] = <<>> /\ Intercepted(r)
  /\ stage[r] = "logged" => Decided(r) /\ Intercepted(r)
  /\ stage[r] \in {"logged", "answered"} =>
       log[r] = IF Path[r] = "Echo" /\ Intercepted(r) THEN <<answer[r].code>> ELSE <<>>
  /\ stage[r] = "answered" =>
       /\ served[r] = (IF answer[r].code = "ok" /\ Path[r] = "Echo" THEN 1 ELSE 0)
       /\ answer[r].body = Hello(Message[r]) => Message[r] = "Jane"
       /\ Path[r] = "Echo" => answer[r] \in Due(Message[r])
  /\ stage[r] = "killed" =>
       /\ Untouched(r) \/ Decided(r)
       /\ log[r] = <<>> \/ (Path[r] = "Echo" /\ log[r] = <<answer[r].code>>)

IInv == TypeOK /\ OnlyOwnerServes /\ \A r \in Requests : RequestInv(r)

LEMMA InitIInv == Init => IInv
  BY ServerAssumption
  DEF Init, IInv, TypeOK, OnlyOwnerServes, RequestInv, Untouched, NoAnswer, Answer,
      Answers, Bodies, Stages, InFlight, NoBody

\* The answers the handlers and the router give are well formed and distinct.
LEMMA AnswerShapes ==
  /\ NoAnswer \in Answers /\ NoAnswer.code = "none" /\ NoAnswer.body = NoBody
  /\ \A m \in Messages :
       /\ Answer("ok", Hello(m)) \in Answers
       /\ Answer("ok", Hello(m)).code = "ok"
       /\ Answer("ok", Hello(m)).body = Hello(m)
       /\ Hello(m) # NoBody /\ Hello(m) # SERVING
  /\ Answer("ok", SERVING) \in Answers
  /\ Answer("ok", SERVING).code = "ok" /\ Answer("ok", SERVING).body = SERVING
  /\ \A code \in {"invalid_argument", "internal", "unimplemented"} :
       /\ Answer(code, NoBody) \in Answers
       /\ Answer(code, NoBody).code = code /\ Answer(code, NoBody).body = NoBody
  BY DEF NoAnswer, Answer, Answers, Bodies, Codes, Hello, SERVING, NoBody

LEMMA RefusalShapes ==
  ASSUME NEW m \in Messages, NEW a \in Refused(m)
  PROVE  /\ a \in Answers /\ a.code \in Codes /\ a.code # "ok"
         /\ a.body # Hello(m)
  BY AnswerShapes DEF Refused, Codes

LEMMA StartIInv == ASSUME IInv, NEW s \in Servers, Start(s) PROVE IInv'
<1>1. TypeOK'
  <2>1. starts[s] + 1 \in 0..MaxStarts
    BY ServerAssumption DEF IInv, TypeOK, Start
  <2>2. starts' \in [Servers -> 0..MaxStarts]
    BY <2>1 DEF IInv, TypeOK, Start
  <2>3. port' \in Servers \cup {NoServer} /\ proc' \in [Servers -> {"off", "serving", "exited"}]
    BY DEF IInv, TypeOK, Start
  <2>4. UNCHANGED <<stage, at, answer, log, served>>
    BY DEF Start
  <2> QED BY <2>2, <2>3, <2>4 DEF IInv, TypeOK
<1>2. OnlyOwnerServes'
  BY ServerAssumption DEF IInv, TypeOK, OnlyOwnerServes, Start
<1>3. ASSUME NEW r \in Requests PROVE RequestInv(r)'
  BY <1>3 DEF IInv, RequestInv, Start, Untouched, Decided, Intercepted
<1> QED BY <1>1, <1>2, <1>3 DEF IInv

LEMMA CrashIInv == ASSUME IInv, NEW s \in Servers, Crash(s) PROVE IInv'
<1>1. TypeOK'
  BY ServerAssumption DEF IInv, TypeOK, Crash, Stages
<1>2. OnlyOwnerServes'
  <2>1. port = s
    BY DEF IInv, OnlyOwnerServes, Crash
  <2>2. \A r \in Requests : stage'[r] \notin InFlight
    BY <2>1 DEF IInv, TypeOK, OnlyOwnerServes, Crash, InFlight, Stages
  <2> QED
    BY <2>1, <2>2, ServerAssumption DEF IInv, TypeOK, OnlyOwnerServes, Crash
<1>3. ASSUME NEW r \in Requests PROVE RequestInv(r)'
  <2>1. stage'[r] = stage[r] \/ (stage[r] \in InFlight /\ stage'[r] = "killed")
    BY <1>3 DEF IInv, TypeOK, Crash
  <2>2. stage[r] \in InFlight => Untouched(r) \/ Decided(r)
    BY <1>3 DEF IInv, RequestInv, InFlight, Stages
  <2>3. stage[r] \in InFlight =>
          log[r] = <<>> \/ (Path[r] = "Echo" /\ log[r] = <<answer[r].code>>)
    BY <1>3 DEF IInv, RequestInv, Untouched, InFlight, Stages
  <2> QED
    BY <1>3, <2>1, <2>2, <2>3
    DEF IInv, RequestInv, Crash, Untouched, Decided, Intercepted, InFlight, Stages
<1> QED BY <1>1, <1>2, <1>3 DEF IInv

(***************************************************************************)
(* A step of one request leaves the processes and the other requests alone. *)
(***************************************************************************)
LEMMA OneRequest ==
  ASSUME IInv, NEW r \in Requests,
         UNCHANGED <<port, proc, starts>>,
         \A q \in Requests \ {r} : /\ stage'[q] = stage[q] /\ at'[q] = at[q]
                                   /\ answer'[q] = answer[q] /\ log'[q] = log[q]
                                   /\ served'[q] = served[q],
         stage'[r] \in InFlight => port = at'[r] /\ at'[r] # NoServer,
         TypeOK', RequestInv(r)'
  PROVE  IInv'
<1>1. ASSUME NEW q \in Requests \ {r} PROVE RequestInv(q)'
  BY <1>1 DEF IInv, RequestInv, Untouched, Decided, Intercepted
<1>2. OnlyOwnerServes'
  BY DEF IInv, OnlyOwnerServes
<1> QED BY <1>1, <1>2 DEF IInv

LEMMA AcceptIInv == ASSUME IInv, NEW r \in Requests, Accept(r) PROVE IInv'
<1>1. TypeOK'
  BY DEF IInv, TypeOK, Accept, Stages
<1>2. RequestInv(r)'
  BY DEF IInv, TypeOK, RequestInv, Accept, Untouched
<1>3. at'[r] = port /\ port # NoServer
  BY DEF IInv, TypeOK, Accept
<1> QED BY <1>1, <1>2, <1>3, OneRequest DEF Accept, IInv, TypeOK

LEMMA ReadHeaderIInv == ASSUME IInv, NEW r \in Requests, ReadHeader(r) PROVE IInv'
<1>1. TypeOK'
  BY DEF IInv, TypeOK, ReadHeader, Stages
<1>2. RequestInv(r)'
  BY DEF IInv, TypeOK, RequestInv, ReadHeader, Untouched
<1>3. stage[r] \in InFlight
  BY DEF ReadHeader, InFlight, Stages
<1> QED BY <1>1, <1>2, <1>3, OneRequest DEF ReadHeader, IInv, TypeOK, OnlyOwnerServes

LEMMA ReadBodyIInv == ASSUME IInv, NEW r \in Requests, ReadBody(r) PROVE IInv'
<1>1. TypeOK'
  BY DEF IInv, TypeOK, ReadBody, Stages
<1>2. RequestInv(r)'
  BY DEF IInv, TypeOK, RequestInv, ReadBody, Untouched
<1>3. stage[r] \in InFlight
  BY DEF ReadBody, InFlight, Stages
<1> QED BY <1>1, <1>2, <1>3, OneRequest DEF ReadBody, IInv, TypeOK, OnlyOwnerServes

LEMMA AbandonIInv == ASSUME IInv, NEW r \in Requests, Abandon(r) PROVE IInv'
<1>1. TypeOK'
  BY DEF IInv, TypeOK, Abandon, Stages
<1>2. RequestInv(r)'
  BY DEF IInv, TypeOK, RequestInv, Abandon, Untouched
<1>3. stage'[r] \notin InFlight
  BY DEF Abandon, IInv, TypeOK, InFlight
<1> QED BY <1>1, <1>2, <1>3, OneRequest DEF Abandon, IInv, TypeOK

LEMMA ExpireIInv == ASSUME IInv, NEW r \in Requests, Expire(r) PROVE IInv'
<1>1. TypeOK'
  BY DEF IInv, TypeOK, Expire, Stages
<1>2. RequestInv(r)'
  BY DEF IInv, TypeOK, RequestInv, Expire, Untouched
<1>3. stage'[r] \notin InFlight
  BY DEF Expire, IInv, TypeOK, InFlight
<1> QED BY <1>1, <1>2, <1>3, OneRequest DEF Expire, IInv, TypeOK

LEMMA RoutedIInv == ASSUME IInv, NEW r \in Requests, Routed(r) PROVE IInv'
<1>1. TypeOK'
  BY DEF IInv, TypeOK, Routed, Stages
<1>2. RequestInv(r)'
  BY DEF IInv, TypeOK, RequestInv, Routed, Untouched, Intercepted
<1>3. stage[r] \in InFlight
  BY DEF Routed, InFlight, Stages
<1> QED BY <1>1, <1>2, <1>3, OneRequest DEF Routed, IInv, TypeOK, OnlyOwnerServes

LEMMA BypassIInv == ASSUME IInv, NEW r \in Requests, Bypass(r) PROVE IInv'
<1>1. Message[r] \in Messages /\ Path[r] \in Paths
  BY ServerAssumption
<1>2. PICK a \in Bypassed(r) : answer' = [answer EXCEPT ![r] = a]
  BY DEF Bypass
<1>3. /\ a \in Answers /\ a.body # Hello(Message[r])
      /\ Path[r] = "Echo" => a.code # "ok" /\ a \in Due(Message[r])
  <2>1. CASE Path[r] = "Echo"
    <3>1. a \in Refused(Message[r]) /\ ~Decodes(Message[r])
      BY <1>2, <2>1 DEF Bypassed, Bypass, Intercepted
    <3> QED BY <1>1, <3>1, RefusalShapes DEF Due
  <2>2. CASE Path[r] = "Health"
    BY <1>1, <1>2, <2>2, AnswerShapes DEF Bypassed
  <2>3. CASE Path[r] = "Other"
    BY <1>1, <1>2, <2>3, AnswerShapes DEF Bypassed
  <2> QED BY <1>1, <2>1, <2>2, <2>3 DEF Paths
<1>4. TypeOK'
  BY <1>2, <1>3 DEF IInv, TypeOK, Bypass, Stages
<1>5. answer'[r] = a
  BY <1>2 DEF IInv, TypeOK
<1>6. RequestInv(r)'
  BY <1>3, <1>5 DEF IInv, TypeOK, RequestInv, Bypass, Untouched, Intercepted
<1>7. stage'[r] \notin InFlight
  BY DEF Bypass, IInv, TypeOK, InFlight
<1> QED BY <1>2, <1>4, <1>6, <1>7, OneRequest DEF Bypass, IInv, TypeOK

LEMMA ValidateIInv == ASSUME IInv, NEW r \in Requests, Validate(r) PROVE IInv'
<1>1. Message[r] \in Messages
  BY ServerAssumption
<1>2. stage[r] \in InFlight
  BY DEF Validate, InFlight, Stages
<1>3. CASE Decodes(Message[r]) /\ Satisfies(Message[r])
  <2>1. TypeOK'
    BY <1>3 DEF IInv, TypeOK, Validate, Stages
  <2>2. RequestInv(r)'
    BY <1>1, <1>3
    DEF IInv, TypeOK, RequestInv, Validate, Untouched, Satisfies, Decodes, Messages
  <2> QED
    BY <1>2, <1>3, <2>1, <2>2, OneRequest DEF Validate, IInv, TypeOK, OnlyOwnerServes
<1>4. CASE ~(Decodes(Message[r]) /\ Satisfies(Message[r]))
  <2>1. PICK a \in Refused(Message[r]) : answer' = [answer EXCEPT ![r] = a]
    BY <1>4 DEF Validate
  <2>2. /\ a \in Answers /\ a.code \in Codes /\ a.code # "ok"
        /\ a.body # Hello(Message[r]) /\ a \in Due(Message[r])
    BY <1>1, <1>4, <2>1, RefusalShapes DEF Due
  <2>3. TypeOK'
    BY <1>4, <2>1, <2>2 DEF IInv, TypeOK, Validate, Stages
  <2>4. answer'[r] = a
    BY <2>1 DEF IInv, TypeOK
  <2>5. RequestInv(r)'
    BY <1>4, <2>2, <2>4
    DEF IInv, TypeOK, RequestInv, Validate, Untouched, Decided, Intercepted
  <2> QED
    BY <1>2, <1>4, <2>1, <2>3, <2>5, OneRequest DEF Validate, IInv, TypeOK, OnlyOwnerServes
<1> QED BY <1>3, <1>4

LEMMA EchoIInv == ASSUME IInv, NEW r \in Requests, Echo(r) PROVE IInv'
<1>1. Message[r] \in Messages
  BY ServerAssumption
<1>2. TypeOK'
  BY <1>1, AnswerShapes DEF IInv, TypeOK, Echo, Stages
<1>3. stage[r] \in InFlight
  BY DEF Echo, InFlight, Stages
<1>4. answer'[r].code = "ok" /\ answer'[r] \in Due(Message[r])
  BY <1>1, AnswerShapes DEF IInv, TypeOK, RequestInv, Echo, Due, Decodes, Satisfies
<1>5. RequestInv(r)'
  BY <1>4 DEF IInv, TypeOK, RequestInv, Echo, Untouched, Decided, Codes, Intercepted, Decodes
<1> QED BY <1>2, <1>3, <1>5, OneRequest DEF Echo, IInv, TypeOK, OnlyOwnerServes

LEMMA CheckIInv == ASSUME IInv, NEW r \in Requests, Check(r) PROVE IInv'
<1>1. TypeOK'
  BY AnswerShapes DEF IInv, TypeOK, Check, Stages
<1>2. Message[r] \in Messages
  BY ServerAssumption
<1>3. stage[r] \in InFlight
  BY DEF Check, InFlight, Stages
<1>4. answer'[r].code = "ok" /\ answer'[r].body # Hello(Message[r])
  BY <1>2, AnswerShapes DEF IInv, TypeOK, Check
<1>5. RequestInv(r)'
  BY <1>4 DEF IInv, TypeOK, RequestInv, Check, Untouched, Decided, Codes, Intercepted
<1> QED BY <1>1, <1>3, <1>5, OneRequest DEF Check, IInv, TypeOK, OnlyOwnerServes

LEMMA LogIInv == ASSUME IInv, NEW r \in Requests, Log(r) PROVE IInv'
<1>1. Decided(r) /\ log[r] = <<>> /\ Intercepted(r) /\ at[r] \in Servers
  BY DEF IInv, RequestInv, Log
<1>2. Logs(r) <=> Path[r] = "Echo"
  BY <1>1, ServerAssumption DEF Logs, Intercepted
<1> DEFINE lines == IF Path[r] = "Echo" THEN <<answer[r].code>> ELSE <<>>
<1>3. log' = [log EXCEPT ![r] = lines]
  <2>1. CASE Path[r] = "Echo"
    <3>1. log' = [log EXCEPT ![r] = Append(log[r], answer[r].code)]
      BY <2>1, <1>2 DEF Log
    <3>2. Append(<<>>, answer[r].code) = <<answer[r].code>>
      OBVIOUS
    <3> QED BY <2>1, <3>1, <3>2, <1>1
  <2>2. CASE Path[r] # "Echo"
    <3>1. log' = [log EXCEPT ![r] = log[r]]
      BY <2>2, <1>2 DEF Log
    <3> QED BY <2>2, <3>1, <1>1
  <2> QED BY <2>1, <2>2
<1>4. TypeOK'
  <2>1. lines \in Seq(Codes)
    <3>1. \A x \in Codes : <<x>> \in Seq(Codes)
      OBVIOUS
    <3>2. <<>> \in Seq(Codes)
      OBVIOUS
    <3>3. answer[r].code \in Codes
      BY <1>1 DEF Decided
    <3> QED BY <3>1, <3>2, <3>3
  <2>2. log' \in [Requests -> Seq(Codes)]
    BY <2>1, <1>3 DEF IInv, TypeOK
  <2> QED BY <2>2 DEF IInv, TypeOK, Log, Stages
<1>5. RequestInv(r)'
  BY <1>1, <1>3 DEF IInv, TypeOK, RequestInv, Log, Untouched, Decided, Intercepted
<1>6. stage[r] \in InFlight
  BY DEF Log, InFlight, Stages
<1> QED BY <1>3, <1>4, <1>5, <1>6, OneRequest DEF Log, IInv, TypeOK, OnlyOwnerServes

LEMMA RespondIInv == ASSUME IInv, NEW r \in Requests, Respond(r) PROVE IInv'
<1>1. TypeOK'
  BY DEF IInv, TypeOK, Respond, Stages
<1>2. RequestInv(r)'
  BY DEF IInv, TypeOK, RequestInv, Respond, Decided, Intercepted
<1>3. stage'[r] \notin InFlight
  BY DEF Respond, IInv, TypeOK, InFlight
<1> QED BY <1>1, <1>2, <1>3, OneRequest DEF Respond, IInv, TypeOK

LEMMA NextIInv == IInv /\ [Next]_vars => IInv'
<1> SUFFICES ASSUME IInv, [Next]_vars PROVE IInv'
  OBVIOUS
<1>1. ASSUME NEW s \in Servers, Start(s) PROVE IInv'
  BY <1>1, StartIInv
<1>2. ASSUME NEW s \in Servers, Crash(s) PROVE IInv'
  BY <1>2, CrashIInv
<1>3. ASSUME NEW r \in Requests,
             Accept(r) \/ ReadHeader(r) \/ ReadBody(r) \/ Abandon(r) \/ Expire(r)
      PROVE  IInv'
  BY <1>3, AcceptIInv, ReadHeaderIInv, ReadBodyIInv, AbandonIInv, ExpireIInv
<1>4. ASSUME NEW r \in Requests, Serve(r) PROVE IInv'
  <2>1. CASE Routed(r)
    BY <2>1, RoutedIInv
  <2>2. CASE Bypass(r)
    BY <2>2, BypassIInv
  <2>3. CASE Validate(r)
    BY <2>3, ValidateIInv
  <2>4. CASE Echo(r)
    BY <2>4, EchoIInv
  <2>5. CASE Check(r)
    BY <2>5, CheckIInv
  <2>6. CASE Log(r)
    BY <2>6, LogIInv
  <2>7. CASE Respond(r)
    BY <2>7, RespondIInv
  <2> QED BY <1>4, <2>1, <2>2, <2>3, <2>4, <2>5, <2>6, <2>7 DEF Serve
<1>5. CASE UNCHANGED vars
  BY <1>5
  DEF vars, IInv, TypeOK, OnlyOwnerServes, RequestInv, Untouched, Decided, Intercepted
<1> QED BY <1>1, <1>2, <1>3, <1>4, <1>5 DEF Next

(***************************************************************************)
(* What a step may do to a request: nothing, once its stage is final; a    *)
(* request appears by Accept alone; it is killed only when the address is  *)
(* given up; the handler runs once, for a message that passed the rules.   *)
(***************************************************************************)
Final == {"answered", "dropped", "killed"}

SameRequest(r) ==
  /\ stage'[r] = stage[r] /\ at'[r] = at[r] /\ answer'[r] = answer[r]
  /\ log'[r] = log[r] /\ served'[r] = served[r]

RunsHandler(r) ==
  /\ stage[r] = "valid" /\ Path[r] = "Echo" /\ Message[r] = "Jane"
  /\ served[r] = 0 /\ served' = [served EXCEPT ![r] = 1]

ServerStep == \/ \E s \in Servers : Start(s) \/ Crash(s)
              \/ \E r \in Requests : ReadHeader(r) \/ ReadBody(r) \/ Abandon(r)
                                       \/ Expire(r) \/ Serve(r)

LEMMA StepFrame ==
  ASSUME IInv, ServerStep
  PROVE  /\ \A r \in Requests :
              /\ stage'[r] = "none" <=> stage[r] = "none"
              /\ stage[r] \in Final => SameRequest(r)
              /\ stage'[r] = "killed" => stage[r] = "killed" \/ port' = NoServer
         /\ served' = served \/ \E r \in Requests : RunsHandler(r)
<1> DEFINE Frame ==
      /\ \A r \in Requests :
           /\ stage'[r] = "none" <=> stage[r] = "none"
           /\ stage[r] \in Final => SameRequest(r)
           /\ stage'[r] = "killed" => stage[r] = "killed" \/ port' = NoServer
      /\ served' = served \/ \E r \in Requests : RunsHandler(r)
<1>1. ASSUME NEW s \in Servers, Start(s) PROVE Frame
  BY <1>1 DEF Start, SameRequest
<1>2. ASSUME NEW s \in Servers, Crash(s) PROVE Frame
  BY <1>2 DEF IInv, TypeOK, Crash, SameRequest, Final, InFlight, Stages
<1>3. ASSUME NEW r \in Requests, ReadHeader(r) \/ ReadBody(r) \/ Abandon(r) \/ Expire(r)
      PROVE  Frame
  BY <1>3 DEF IInv, TypeOK, ReadHeader, ReadBody, Abandon, Expire, SameRequest, Final
<1>4. ASSUME NEW r \in Requests, Routed(r) \/ Bypass(r) PROVE Frame
  BY <1>4 DEF IInv, TypeOK, Routed, Bypass, SameRequest, Final
<1>5. ASSUME NEW r \in Requests, Validate(r) PROVE Frame
  BY <1>5 DEF IInv, TypeOK, Validate, SameRequest, Final
<1>6. ASSUME NEW r \in Requests, Echo(r) PROVE Frame
  <2>1. stage[r] = "valid" /\ Path[r] = "Echo" /\ Message[r] = "Jane" /\ served[r] = 0
    BY <1>6 DEF IInv, TypeOK, RequestInv, Untouched, Echo
  <2>2. RunsHandler(r)
    BY <1>6, <2>1 DEF Echo, RunsHandler
  <2> QED
    BY <1>6, <2>2 DEF IInv, TypeOK, Echo, SameRequest, Final
<1>7. ASSUME NEW r \in Requests, Check(r) \/ Log(r) \/ Respond(r) PROVE Frame
  BY <1>7 DEF IInv, TypeOK, Check, Log, Respond, SameRequest, Final
<1> QED
  BY <1>1, <1>2, <1>3, <1>4, <1>5, <1>6, <1>7 DEF ServerStep, Serve

LEMMA AcceptFrame ==
  ASSUME IInv, NEW r \in Requests, Accept(r)
  PROVE  /\ stage' = [stage EXCEPT ![r] = "dialed"] /\ port' = port
         /\ UNCHANGED <<answer, log, served>>
         /\ \A q \in Requests \ {r} : SameRequest(q)
  BY DEF IInv, TypeOK, Accept, SameRequest

\* In every reachable state each request's answer, log and run are those of its stage.
THEOREM Invariance == Spec => []IInv
BY InitIInv, NextIInv, PTL DEF Spec

(***************************************************************************)
(* Every variable keeps its type.                                          *)
(***************************************************************************)
THEOREM TypeCorrect == Spec => []TypeOK
<1>1. IInv => TypeOK
  BY DEF IInv
<1> QED BY <1>1, Invariance, PTL

(***************************************************************************)
(* Requests are in flight only in the process that owns the address.       *)
(***************************************************************************)
THEOREM OwnerServes == Spec => []OnlyOwnerServes
<1>1. IInv => OnlyOwnerServes
  BY DEF IInv
<1> QED BY <1>1, Invariance, PTL

(***************************************************************************)
(* Every answer to an Echo request that passed the interceptor is logged   *)
(* once, with its code.  What does not pass it, a body that cannot be      *)
(* decoded in Go, leaves no line; a request that was cut off is logged at  *)
(* most once, with the code it had.                                        *)
(***************************************************************************)
THEOREM AnswersAreLogged == Spec => []LogMatchesAnswer
<1>1. ASSUME IInv, NEW r \in Requests, Path[r] = "Echo"
      PROVE  /\ stage[r] = "answered" =>
                  IF Message[r] = "garbled" /\ Impl[at[r]] = "go"
                  THEN log[r] = <<>> ELSE log[r] = <<answer[r].code>>
             /\ stage[r] # "answered" => log[r] \in {<<>>, <<answer[r].code>>}
  <2>1. Intercepted(r) <=> Message[r] # "garbled" \/ Impl[at[r]] = "rust"
    BY <1>1 DEF Intercepted, Decodes
  <2>2. stage[r] = "answered" => Impl[at[r]] \in {"go", "rust"}
    BY <1>1, ServerAssumption DEF IInv, RequestInv
  <2> QED BY <1>1, <2>1, <2>2 DEF IInv, TypeOK, RequestInv, Untouched, Stages
<1>2. IInv => LogMatchesAnswer
  BY <1>1 DEF LogMatchesAnswer
<1> QED BY <1>2, Invariance, PTL

(***************************************************************************)
(* Health probes are never logged, by either server.                       *)
(***************************************************************************)
THEOREM ProbesAreNotLogged == Spec => []HealthNotLogged
<1>1. ASSUME IInv, NEW r \in Requests, Path[r] = "Health" PROVE log[r] = <<>>
  BY <1>1 DEF IInv, TypeOK, RequestInv, Untouched, Stages
<1>2. IInv => HealthNotLogged
  BY <1>1 DEF HealthNotLogged
<1> QED BY <1>2, Invariance, PTL

(***************************************************************************)
(* The handler runs once for what is greeted, and for nothing else.        *)
(***************************************************************************)
THEOREM HandlesWhatItGreets == Spec => []HandledIffGreeted
<1>1. ASSUME IInv, NEW r \in Requests, Untouched(r)
      PROVE  /\ served[r] = (IF answer[r].code = "ok" /\ Path[r] = "Echo" THEN 1 ELSE 0)
             /\ answer[r].body = Hello(Message[r]) => Message[r] = "Jane"
  <2>1. Message[r] \in Messages
    BY ServerAssumption
  <2> QED BY <1>1, <2>1, AnswerShapes DEF Untouched
<1>2. ASSUME IInv, NEW r \in Requests
      PROVE  /\ served[r] = (IF answer[r].code = "ok" /\ Path[r] = "Echo" THEN 1 ELSE 0)
             /\ answer[r].body = Hello(Message[r]) => Message[r] = "Jane"
  BY <1>1, <1>2 DEF IInv, TypeOK, RequestInv, Decided, Stages
<1>3. IInv => HandledIffGreeted
  BY <1>2 DEF HandledIffGreeted
<1> QED BY <1>3, Invariance, PTL

(***************************************************************************)
(* A request that is answered, dropped or cut off is over: no step of any  *)
(* process, a restart included, changes its answer, its log lines or its   *)
(* handler runs again.                                                     *)
(***************************************************************************)
THEOREM OverIsOver ==
  Spec => [][\A r \in Requests : stage[r] \in Final => SameRequest(r)]_vars
<1>1. IInv /\ [Next]_vars => [\A r \in Requests : stage[r] \in Final => SameRequest(r)]_vars
  <2> SUFFICES ASSUME IInv, Next, NEW r \in Requests, stage[r] \in Final
               PROVE  SameRequest(r)
    OBVIOUS
  <2>1. CASE ServerStep
    BY <2>1, StepFrame
  <2>2. ASSUME NEW q \in Requests, Accept(q) PROVE SameRequest(r)
    <3>1. q # r
      BY <2>2 DEF Accept, Final
    <3> QED BY <2>2, <3>1, AcceptFrame
  <2> QED BY <2>1, <2>2 DEF Next, ServerStep
<1> QED BY <1>1, Invariance, PTL DEF Spec
=============================================================================
