-------------------------- MODULE EchoSystemProofs --------------------------
(***************************************************************************)
(* Proofs about EchoSystem, for any clients, servers, messages, schedule   *)
(* and number of faults.  The system first is shown to be a composition:   *)
(* what its clients do is a behaviour of Retry, what its servers do is a   *)
(* behaviour of EchoServer, so that what is proved of these holds in it.   *)
(* LinkInv then relates the two: the connection of every attempt to the    *)
(* client's loop on one side and to the server's request on the other.     *)
(***************************************************************************)
EXTENDS EchoSystem, FiniteSetTheorems, TLAPS

\* The instances of the components' proofs.
RP == INSTANCE RetryProofs WITH
  Errors      <- AttemptErrors,
  Cancellable <- {},
  ctxDone     <- [c \in Calls |-> FALSE],
  late        <- [c \in Calls |-> 0]

SP == INSTANCE EchoServerProofs WITH
  Requests <- Attempts,
  Path     <- [a \in Attempts |-> "Echo"],
  Message  <- [a \in Attempts |-> Payload[a[1]]]

(***************************************************************************)
(* What the components assume of their constants holds in the system.      *)
(***************************************************************************)
LEMMA RetryAssumptions == RP!RetryAssumption /\ RP!ShlAssumption
<1>1. RP!ShlAssumption
  BY SystemAssumption DEF RP!ShlAssumption
<1>2. Errors \subseteq RP!AllErrors
  BY SystemAssumption DEF RP!AllErrors, RP!Codes, R!AllErrors, R!Codes
<1>3. \A c \in Calls : RefusedErrors(c) \subseteq RP!AllErrors
  BY DEF RefusedErrors, RP!AllErrors, RP!Codes
<1>4. [code |-> "invalid_argument", chain |-> {}] \in RP!AllErrors
  BY DEF RP!AllErrors, RP!Codes
<1>5. AttemptErrors \subseteq RP!AllErrors
  BY <1>2, <1>3, <1>4 DEF AttemptErrors
<1> QED
  BY <1>1, <1>5, SystemAssumption
  DEF RP!RetryAssumption, RP!Languages, R!Languages

LEMMA ServerAssumptions == SP!ServerAssumption
  BY SystemAssumption
  DEF SP!ServerAssumption, SP!Paths, SP!Messages, S!Messages, Attempts

(***************************************************************************)
(* The two instances of a component are the same formulas.                 *)
(***************************************************************************)
LEMMA SameRetry ==
  /\ R!Init <=> RP!Init
  /\ R!vars = RP!vars
  /\ R!Next <=> RP!Next
<1>1. R!Init <=> RP!Init
  BY DEF R!Init, RP!Init, R!NoError, RP!NoError
<1>2. R!vars = RP!vars
  BY DEF R!vars, RP!vars
<1>3. ASSUME NEW c \in Calls, NEW e
      PROVE  /\ R!Begin(c) <=> RP!Begin(c)
             /\ R!Succeed(c) <=> RP!Succeed(c)
             /\ R!GiveUp(c, e) <=> RP!GiveUp(c, e)
             /\ R!Backoff(c, e) <=> RP!Backoff(c, e)
             /\ R!Resume(c) <=> RP!Resume(c)
             /\ R!Abort(c) <=> RP!Abort(c)
             /\ R!Cancel(c) <=> RP!Cancel(c)
  BY DEF R!Begin, RP!Begin, R!Succeed, RP!Succeed, R!GiveUp, RP!GiveUp,
         R!Backoff, RP!Backoff, R!Resume, RP!Resume, R!Abort, RP!Abort,
         R!Cancel, RP!Cancel, R!CountLate, RP!CountLate, R!LastAttempt, RP!LastAttempt,
         R!Delay, RP!Delay, R!IsRetryable, RP!IsRetryable, R!Settled, RP!Settled,
         R!GoRetryable, RP!GoRetryable, R!RustRetryable, RP!RustRetryable,
         R!PythonRetryable, RP!PythonRetryable,
         R!Transient, RP!Transient, R!Transport, RP!Transport
<1>4. R!Tick <=> RP!Tick
  BY DEF R!Tick, RP!Tick
<1>5. R!Done <=> RP!Done
  BY <1>2 DEF R!Done, RP!Done, R!Settled, RP!Settled, R!vars, RP!vars
<1>6. \A c \in Calls : R!ErrorsOf(Language[c]) = RP!ErrorsOf(Language[c])
  BY DEF R!ErrorsOf, RP!ErrorsOf, R!AllErrors, RP!AllErrors, R!Codes, RP!Codes
<1> QED
  BY <1>1, <1>2, <1>3, <1>4, <1>5, <1>6 DEF R!Next, RP!Next

LEMMA SameServer ==
  /\ S!Init <=> SP!Init
  /\ S!vars = SP!vars
  /\ S!Next <=> SP!Next
  /\ \A a \in Attempts : S!Accept(a) <=> SP!Accept(a)
  /\ (\/ \E s \in Servers : S!Start(s) \/ S!Crash(s)
      \/ \E a \in Attempts : S!ReadHeader(a) \/ S!ReadBody(a) \/ S!Abandon(a)
                              \/ S!Expire(a) \/ S!Serve(a)) <=> SP!ServerStep
<1>1. S!Init <=> SP!Init
  BY DEF S!Init, SP!Init, S!NoAnswer, SP!NoAnswer, S!Answer, SP!Answer, S!NoBody, SP!NoBody
<1>2. S!vars = SP!vars
  BY DEF S!vars, SP!vars
<1>3. ASSUME NEW s \in Servers
      PROVE  (S!Start(s) <=> SP!Start(s)) /\ (S!Crash(s) <=> SP!Crash(s))
  BY DEF S!Start, SP!Start, S!Crash, SP!Crash, S!InFlight, SP!InFlight, S!Stages, SP!Stages
<1>4. ASSUME NEW a \in Attempts
      PROVE  /\ S!Accept(a) <=> SP!Accept(a)
             /\ S!ReadHeader(a) <=> SP!ReadHeader(a)
             /\ S!ReadBody(a) <=> SP!ReadBody(a)
             /\ S!Abandon(a) <=> SP!Abandon(a)
             /\ S!Expire(a) <=> SP!Expire(a)
  BY DEF S!Accept, SP!Accept, S!ReadHeader, SP!ReadHeader, S!ReadBody, SP!ReadBody,
         S!Abandon, SP!Abandon, S!Expire, SP!Expire
<1>5. ASSUME NEW a \in Attempts PROVE S!Serve(a) <=> SP!Serve(a)
  BY DEF S!Serve, SP!Serve, S!Routed, SP!Routed, S!Bypass, SP!Bypass,
         S!Validate, SP!Validate, S!Echo, SP!Echo, S!Check, SP!Check, S!Log, SP!Log,
         S!Respond, SP!Respond, S!Intercepted, SP!Intercepted, S!Bypassed, SP!Bypassed,
         S!Logs, SP!Logs, S!Decodes, SP!Decodes, S!Satisfies, SP!Satisfies,
         S!Refused, SP!Refused, S!Answer, SP!Answer, S!Hello, SP!Hello,
         S!NoBody, SP!NoBody, S!SERVING, SP!SERVING, S!Codes, SP!Codes
<1> QED
  BY <1>1, <1>2, <1>3, <1>4, <1>5 DEF S!Next, SP!Next, SP!ServerStep

(***************************************************************************)
(* The invariant.  LinkInv says where the connections of a call can be,    *)
(* given its loop, and how far the server can be with each.  FaultInv      *)
(* dates the fault that an attempt fails of: no earlier than the schedule  *)
(* lets that attempt start.  ReportInv is about what the client reports.   *)
(***************************************************************************)
Ks == 0..(MaxRetries - 1)

LinkInv(c) ==
  /\ status[c] # "aborted"
  /\ \A k \in Ks :
       /\ status[c] = "idle" \/ k > attempt[c] => link[<<c, k>>] = "none"
       /\ k < attempt[c] => link[<<c, k>>] \in {"refused", "lost"}
       /\ link[<<c, k>>] \in {"none", "dialing", "refused"} => stage[<<c, k>>] = "none"
       /\ link[<<c, k>>] = "done" => stage[<<c, k>>] = "answered"
  /\ status[c] = "call" => link[Current(c)] \in {"dialing", "refused", "open", "lost"}
  /\ status[c] = "wait" => link[Current(c)] \in {"refused", "lost"}
  /\ status[c] = "ok" => link[Current(c)] = "done" /\ answer[Current(c)].code = "ok"
  /\ status[c] = "error" =>
       \/ link[Current(c)] \in {"refused", "lost"}
       \/ link[Current(c)] = "done" /\ answer[Current(c)].code # "ok"

Faulted(c) == link[Current(c)] \in {"refused", "lost"} \/ stage[Current(c)] = "killed"

FaultInv(c) ==
  /\ status[c] = "call" /\ Faulted(c) =>
       lastFault >= begun[c] + R!Budget(attempt[c])
  /\ status[c] = "error" /\ R!IsRetryable(c, last[c]) =>
       lastFault >= begun[c] + R!Budget(MaxRetries - 1)

ReportInv(c) ==
  /\ exit[c] # "running" => status[c] \in R!Settled
  /\ exit[c] = "success" => status[c] = "ok" /\ printed[c] = answer[Current(c)].body
  /\ last[c].code = "invalid_argument" => Payload[c] # "Jane"

SystemType ==
  /\ link \in [Attempts -> Links]
  /\ exit \in [Calls -> {"running", "success", "failure"}]
  /\ printed \in [Calls -> S!Bodies]
  /\ losses \in 0..MaxLosses
  /\ lastFault \in 0..now

SystemInv ==
  /\ SystemType
  /\ \A c \in Calls : LinkInv(c) /\ FaultInv(c) /\ ReportInv(c)

IInv == RP!IInv /\ SP!IInv /\ SystemInv

(***************************************************************************)
(* Every step is a step of the servers, or leaves them alone; and it is a  *)
(* step of the clients, or leaves them alone.                              *)
(***************************************************************************)
LEMMA ServerMaps == ASSUME [Next]_vars PROVE [S!Next]_(S!vars)
<1>1. ASSUME NEW c \in Calls, Begin(c) \/ Resume(c) \/ Receive(c) \/ Break(c) \/ Exit(c)
      PROVE  UNCHANGED S!vars
  BY <1>1 DEF Begin, Resume, Receive, Break, Exit, serverVars, S!vars
<1>2. ASSUME NEW a \in Attempts, Dial(a) PROVE [S!Next]_(S!vars)
  BY <1>2 DEF Dial, serverVars, S!vars, S!Next
<1>3. ASSUME NEW a \in Attempts, ReadHeader(a) \/ ReadBody(a) \/ Drop(a) \/ Serve(a) PROVE S!Next
  BY <1>3 DEF ReadHeader, ReadBody, Drop, Serve, S!Next
<1>4. ASSUME NEW a \in Attempts, Lose(a) \/ Reset(a) PROVE UNCHANGED S!vars
  BY <1>4 DEF Lose, Reset, serverVars, S!vars
<1>5. ASSUME NEW s \in Servers, Start(s) \/ Crash(s) PROVE S!Next
  BY <1>5 DEF Start, Crash, S!Next
<1>6. CASE Tick
  BY <1>6 DEF Tick, serverVars, S!vars
<1>7. CASE UNCHANGED vars
  BY <1>7 DEF vars, serverVars, S!vars
<1> QED
  BY <1>1, <1>2, <1>3, <1>4, <1>5, <1>6, <1>7 DEF Next, Done

\* What the client makes of the two answers there are to a message it can send.
LEMMA AnswersToClients ==
  ASSUME SP!IInv, NEW c \in Calls, NEW k \in Ks, stage[<<c, k>>] = "answered"
  PROVE  /\ answer[<<c, k>>].code = "ok" =>
              /\ answer[<<c, k>>].body = S!Hello(Payload[c]) /\ Payload[c] = "Jane"
              /\ served[<<c, k>>] = 1 /\ log[<<c, k>>] = <<"ok">>
         /\ answer[<<c, k>>].code # "ok" =>
              answer[<<c, k>>].code = "invalid_argument" /\ Payload[c] # "Jane"
<1> DEFINE a == <<c, k>>
<1>1. a \in Attempts /\ a[1] = c
  BY DEF Attempts, Ks
<1>2. Payload[c] \in SP!Messages \ {"garbled"}
  BY SystemAssumption DEF S!Messages, SP!Messages
<1>3. /\ answer[a] \in SP!Due(Payload[c])
      /\ served[a] = (IF answer[a].code = "ok" THEN 1 ELSE 0)
      /\ log[a] = <<answer[a].code>>
  BY <1>1, <1>2 DEF SP!IInv, SP!RequestInv, SP!Intercepted, SP!Decodes
<1>4. CASE Payload[c] = "Jane"
  <2>1. answer[a] = SP!Answer("ok", SP!Hello(Payload[c]))
    BY <1>3, <1>4 DEF SP!Due, SP!Decodes, SP!Satisfies
  <2>2. answer[a].code = "ok" /\ answer[a].body = S!Hello(Payload[c])
    BY <2>1 DEF SP!Answer, SP!Hello, S!Hello
  <2> QED BY <1>3, <1>4, <2>2
<1>5. CASE Payload[c] # "Jane"
  BY <1>2, <1>3, <1>5 DEF SP!Due, SP!Refused, SP!Decodes, SP!Satisfies, SP!Messages, SP!Answer
<1> QED BY <1>4, <1>5

\* Each client can be told of a refused dial and of a rejected message.
LEMMA ClientErrors ==
  ASSUME NEW c \in Calls
  PROVE  /\ RefusedErrors(c) \subseteq AttemptErrors \cap R!ErrorsOf(Language[c])
         /\ [code |-> "invalid_argument", chain |-> {}] \in AttemptErrors \cap R!ErrorsOf(Language[c])
<1> DEFINE refused == [code |-> "unavailable", chain |-> IF Language[c] = "go" THEN {"op"} ELSE {}]
           rejected == [code |-> "invalid_argument", chain |-> {}]
           dial == [code |-> "none", chain |-> {"op"}]
<1>1. Language[c] \in {"go", "rust", "python"}
  BY SystemAssumption DEF R!Languages
<1>2. refused \in R!AllErrors /\ rejected \in R!AllErrors /\ dial \in R!AllErrors
  BY DEF R!AllErrors, R!Codes
<1>3. refused.code = "unavailable" /\ rejected.code = "invalid_argument" /\ rejected.chain = {}
      /\ (Language[c] # "go" => refused.chain = {})
      /\ dial.code = "none" /\ dial.chain = {"op"}
  OBVIOUS
<1>4. refused \in R!ErrorsOf(Language[c]) /\ rejected \in R!ErrorsOf(Language[c])
      /\ (Language[c] = "python" => dial \in R!ErrorsOf(Language[c]))
  <2> HIDE DEF refused, rejected, dial
  <2> QED BY <1>1, <1>2, <1>3 DEF R!ErrorsOf
<1>5. \A e \in RefusedErrors(c) :
        e \in AttemptErrors /\ (e = refused \/ (Language[c] = "python" /\ e = dial))
  BY DEF AttemptErrors, RefusedErrors
<1>6. rejected \in AttemptErrors
  BY DEF AttemptErrors
<1> QED BY <1>4, <1>5, <1>6

LEMMA ClientMaps == ASSUME SP!IInv, RP!IInv, [Next]_vars PROVE [R!Next]_(R!vars)
<1>1. ASSUME NEW c \in Calls, Begin(c) \/ Resume(c) PROVE R!Next
  BY <1>1 DEF Begin, Resume, R!Next
<1>2. ASSUME NEW c \in Calls, NEW e \in AttemptErrors \cap R!ErrorsOf(Language[c]), Return(c, e)
      PROVE  R!Next
  BY <1>2 DEF Return, R!Next
<1>3. ASSUME NEW c \in Calls, Receive(c) PROVE R!Next
  <2>1. CASE answer[Current(c)].code = "ok"
    BY <1>3, <2>1 DEF Receive, R!Next
  <2>2. CASE answer[Current(c)].code # "ok"
    <3>1. attempt[c] \in Ks
      BY RetryAssumptions DEF RP!IInv, RP!TypeOK, RP!CallInv, Ks, RP!RetryAssumption
    <3>2. AnsweredError(Current(c)) = [code |-> "invalid_argument", chain |-> {}]
      BY <1>3, <2>2, <3>1, AnswersToClients DEF Receive, AnsweredError, Current
    <3>3. AnsweredError(Current(c)) \in AttemptErrors \cap R!ErrorsOf(Language[c])
      BY <3>2, ClientErrors
    <3> QED BY <1>2, <1>3, <2>2, <3>3 DEF Receive
  <2> QED BY <2>1, <2>2
<1>4. ASSUME NEW c \in Calls, Break(c) PROVE R!Next
  <2>1. RefusedErrors(c) \subseteq AttemptErrors \cap R!ErrorsOf(Language[c])
    BY ClientErrors
  <2>2. BrokenErrors(c) \subseteq AttemptErrors \cap R!ErrorsOf(Language[c])
    BY DEF BrokenErrors, AttemptErrors
  <2> QED BY <1>2, <1>4, <2>1, <2>2 DEF Break
<1>5. ASSUME NEW c \in Calls, Exit(c) PROVE UNCHANGED R!vars
  BY <1>5 DEF Exit, retryVars, R!vars
<1>6. ASSUME NEW a \in Attempts,
             Dial(a) \/ ReadHeader(a) \/ ReadBody(a) \/ Drop(a) \/ Lose(a) \/ Reset(a) \/ Serve(a)
      PROVE  UNCHANGED R!vars
  BY <1>6 DEF Dial, ReadHeader, ReadBody, Drop, Lose, Reset, Serve, retryVars, R!vars
<1>7. ASSUME NEW s \in Servers, Start(s) \/ Crash(s) PROVE UNCHANGED R!vars
  BY <1>7 DEF Start, Crash, retryVars, R!vars
<1>8. CASE Tick
  BY <1>8 DEF Tick, R!Next
<1>9. CASE UNCHANGED vars
  BY <1>9 DEF vars, retryVars, R!vars
<1> QED
  BY <1>1, <1>3, <1>4, <1>5, <1>6, <1>7, <1>8, <1>9 DEF Next, Done

(***************************************************************************)
(* The servers of the system are EchoServer, whatever the clients do.      *)
(***************************************************************************)
THEOREM ServersAreEchoServer == Spec => S!Spec
<1>1. Init => S!Init
  BY DEF Init
<1>2. [Next]_vars => [S!Next]_(S!vars)
  BY ServerMaps
<1> QED BY <1>1, <1>2, PTL DEF Spec, S!Spec

LEMMA ServerInvariance == Spec => []SP!IInv
<1>1. S!Spec => SP!Spec
  <2>1. S!Init => SP!Init
    BY SameServer
  <2>2. [S!Next]_(S!vars) => [SP!Next]_(SP!vars)
    BY SameServer DEF S!vars, SP!vars
  <2> QED BY <2>1, <2>2, PTL DEF S!Spec, SP!Spec
<1>2. SP!Spec => []SP!IInv
  BY SP!Invariance, ServerAssumptions DEF SP!Invariance
<1> QED BY <1>1, <1>2, ServersAreEchoServer, PTL

LEMMA ClientInvariance == Spec => []RP!IInv
<1>1. Init => RP!IInv
  BY SameRetry, RP!InitIInv, RetryAssumptions DEF Init, RP!InitIInv
<1>2. SP!IInv /\ RP!IInv /\ [Next]_vars => RP!IInv'
  <2> SUFFICES ASSUME SP!IInv, RP!IInv, [Next]_vars PROVE RP!IInv'
    OBVIOUS
  <2>1. [RP!Next]_(RP!vars)
    BY ClientMaps, SameRetry DEF R!vars, RP!vars
  <2> QED BY <2>1, RP!NextIInv, RetryAssumptions DEF RP!NextIInv
<1> QED BY <1>1, <1>2, ServerInvariance, PTL DEF Spec

(***************************************************************************)
(* The clients of the system are Retry, whatever the servers and the       *)
(* network do.                                                             *)
(***************************************************************************)
THEOREM ClientsAreRetry == Spec => R!Spec
<1>1. Init => R!Init
  BY DEF Init
<1>2. SP!IInv /\ RP!IInv /\ [Next]_vars => [R!Next]_(R!vars)
  BY ClientMaps
<1> QED BY <1>1, <1>2, ServerInvariance, ClientInvariance, PTL DEF Spec, R!Spec

(***************************************************************************)
(* What the invariants of the components say, in the system's terms.       *)
(***************************************************************************)
LEMMA Schedule ==
  /\ \A k \in Ks : R!Budget(k) \in Int
  /\ MaxRetries - 1 \in Ks /\ 0 \in Ks
<1>1. \A k \in 0..MaxRetries : RP!Budget(k) \in Int
  BY RP!BudgetStep, RetryAssumptions DEF RP!BudgetStep
<1> QED BY <1>1, SystemAssumption DEF R!Budget, RP!Budget, Ks

LEMMA ClientFacts ==
  ASSUME RP!IInv, NEW c \in Calls
  PROVE  /\ now \in Nat /\ begun[c] \in Nat
         /\ attempt[c] \in Ks /\ Current(c) = <<c, attempt[c]>> /\ Current(c) \in Attempts
         /\ status[c] \in {"idle", "call", "wait", "ok", "error", "aborted"}
         /\ status[c] = "idle" => attempt[c] = 0
         /\ status[c] = "call" => now >= begun[c] + R!Budget(attempt[c])
<1>1. attempt[c] \in Ks
  BY SystemAssumption DEF RP!IInv, RP!TypeOK, RP!CallInv, Ks
<1>2. Current(c) \in Attempts
  BY <1>1 DEF Current, Attempts, Ks
<1> QED
  BY <1>1, <1>2
  DEF RP!IInv, RP!TypeOK, RP!CallInv, RP!Statuses, Current, R!Budget, RP!Budget

LEMMA FaultsAdvance ==
  ASSUME RP!IInv, SystemType, TrackFaults, now' \in {now, now + 1}
  PROVE  lastFault' \in 0..now' /\ lastFault' >= lastFault
  BY DEF RP!IInv, RP!TypeOK, SystemType, TrackFaults

(***************************************************************************)
(* A call is untouched by a step that leaves its loop, its connections and *)
(* its requests alone.                                                     *)
(***************************************************************************)
CallInvs(c) == LinkInv(c) /\ FaultInv(c) /\ ReportInv(c)

SameLoop(c) ==
  /\ status'[c] = status[c] /\ attempt'[c] = attempt[c]
  /\ last'[c] = last[c] /\ begun'[c] = begun[c]

SameLinks(c) ==
  \A k \in Ks : /\ link'[<<c, k>>] = link[<<c, k>>]
               /\ stage'[<<c, k>>] = stage[<<c, k>>]
               /\ answer'[<<c, k>>] = answer[<<c, k>>]

SameProcess(c) == exit'[c] = exit[c] /\ printed'[c] = printed[c]

LEMMA OtherCall ==
  ASSUME IInv, NEW c \in Calls, SameLoop(c), SameLinks(c), SameProcess(c),
         lastFault' \in Nat, lastFault' >= lastFault
  PROVE  CallInvs(c)'
<1>1. /\ attempt[c] \in Ks /\ Current(c) = <<c, attempt[c]>> /\ begun[c] \in Nat
  BY ClientFacts DEF IInv
<1>2. Current(c)' = <<c, attempt[c]>>
  BY DEF Current, SameLoop
<1>3. LinkInv(c)'
  BY <1>1, <1>2 DEF IInv, SystemInv, LinkInv, SameLoop, SameLinks
<1>4. FaultInv(c)'
  <2>1. lastFault \in Nat
    BY ClientFacts DEF IInv, SystemInv, SystemType
  <2>2. Faulted(c)' <=> Faulted(c)
    BY <1>1, <1>2 DEF Faulted, SameLinks
  <2>3. R!IsRetryable(c, last[c])' <=> R!IsRetryable(c, last[c])
    BY DEF R!IsRetryable, SameLoop
  <2>4. /\ R!Budget(attempt[c])' = R!Budget(attempt[c])
        /\ R!Budget(attempt[c]) \in Int /\ R!Budget(MaxRetries - 1) \in Int
    BY <1>1, Schedule DEF R!Budget, SameLoop
  <2> QED
    BY <1>1, <2>1, <2>2, <2>3, <2>4 DEF IInv, SystemInv, FaultInv, SameLoop, R!Budget
<1>5. ReportInv(c)'
  BY <1>1, <1>2 DEF IInv, SystemInv, ReportInv, SameLoop, SameLinks, SameProcess
<1> QED BY <1>3, <1>4, <1>5 DEF CallInvs

\* The components keep their invariants, and the step dates its fault.
ComponentsNext == RP!IInv' /\ SP!IInv' /\ TrackFaults

Others(c) ==
  \A d \in Calls \ {c} : SameLoop(d) /\ SameLinks(d) /\ SameProcess(d)

LEMMA OneCall ==
  ASSUME IInv, ComponentsNext, NEW c \in Calls, now' = now, Others(c),
         link' \in [Attempts -> Links],
         exit' \in [Calls -> {"running", "success", "failure"}],
         printed' \in [Calls -> S!Bodies], losses' \in 0..MaxLosses,
         CallInvs(c)'
  PROVE  IInv'
<1>1. lastFault' \in 0..now' /\ lastFault' >= lastFault /\ lastFault' \in Nat
  BY FaultsAdvance, ClientFacts DEF IInv, SystemInv, ComponentsNext
<1>2. \A d \in Calls \ {c} : CallInvs(d)'
  BY <1>1, OtherCall DEF Others
<1>3. SystemType'
  BY <1>1 DEF SystemType
<1> QED BY <1>2, <1>3 DEF IInv, SystemInv, CallInvs, ComponentsNext

\* An attempt with a connection that the client still follows is the current one.
LEMMA LiveAttempt ==
  ASSUME IInv, NEW c \in Calls, NEW k \in Ks, link[<<c, k>>] \in {"dialing", "open"}
  PROVE  /\ attempt[c] = k /\ status[c] = "call" /\ Current(c) = <<c, k>>
         /\ now >= begun[c] + R!Budget(k)
<1>1. attempt[c] \in Ks /\ Current(c) = <<c, attempt[c]>>
  BY ClientFacts DEF IInv
<1>2. attempt[c] = k
  BY <1>1 DEF IInv, SystemInv, LinkInv, Ks
<1>3. status[c] = "call"
  BY <1>1, <1>2, ClientFacts DEF IInv, SystemInv, LinkInv
<1> QED BY <1>1, <1>2, <1>3, ClientFacts DEF IInv

LEMMA InitIInv == Init => IInv
<1> SUFFICES ASSUME Init PROVE IInv
  OBVIOUS
<1>1. RP!IInv
  BY SameRetry, RP!InitIInv, RetryAssumptions DEF Init, RP!InitIInv
<1>2. SP!IInv
  BY SameServer, SP!InitIInv, ServerAssumptions DEF Init, SP!InitIInv
<1>3. SystemType
  BY <1>1, SystemAssumption
  DEF Init, SystemType, Links, S!Bodies, RP!IInv, RP!TypeOK, R!Init
<1>4. ASSUME NEW c \in Calls PROVE LinkInv(c) /\ FaultInv(c) /\ ReportInv(c)
  <2>1. status[c] = "idle" /\ last[c].code = "none" /\ attempt[c] = 0 /\ exit[c] = "running"
    BY <1>4 DEF Init, R!Init, R!NoError
  <2>2. \A k \in Ks : link[<<c, k>>] = "none" /\ stage[<<c, k>>] = "none"
    BY <1>4 DEF Init, S!Init, Attempts, Ks
  <2> QED BY <2>1, <2>2 DEF LinkInv, FaultInv, ReportInv, Ks
<1> QED BY <1>1, <1>2, <1>3, <1>4 DEF IInv, SystemInv

LEMMA BeginIInv ==
  ASSUME IInv, ComponentsNext, NEW c \in Calls, Begin(c) PROVE IInv'
<1>1. /\ status[c] = "idle" /\ status'[c] = "call" /\ attempt'[c] = 0
      /\ last'[c] = last[c] /\ exit'[c] = exit[c] /\ now' = now
  BY ClientFacts DEF Begin, R!Begin, IInv, RP!IInv, RP!TypeOK
<1>2. 0 \in Ks /\ <<c, 0>> \in Attempts
  BY Schedule DEF Attempts, Ks
<1>3. link' = [link EXCEPT ![<<c, 0>>] = "dialing"]
  BY DEF Begin, Connect
<1>4. Others(c) /\ UNCHANGED serverVars
  BY <1>3 DEF Begin, R!Begin, IInv, RP!IInv, RP!TypeOK, SystemInv, SystemType, Others,
              SameLoop, SameLinks, SameProcess, Attempts, Ks, serverVars
<1>5. link' \in [Attempts -> Links]
  BY <1>3 DEF IInv, SystemInv, SystemType, Links
<1>6. \A k \in Ks : /\ link'[<<c, k>>] = IF k = 0 THEN "dialing" ELSE "none"
                   /\ stage'[<<c, k>>] = "none"
  BY <1>1, <1>2, <1>3, <1>4
  DEF IInv, SystemInv, SystemType, LinkInv, Attempts, Ks, serverVars
<1>7. Current(c)' = <<c, 0>>
  BY <1>1 DEF Current
<1>8. CallInvs(c)'
  BY <1>1, <1>2, <1>6, <1>7
  DEF CallInvs, LinkInv, FaultInv, Faulted, ReportInv, IInv, SystemInv, Ks, R!Settled
<1> QED
  BY <1>1, <1>4, <1>5, <1>8, OneCall DEF Begin, IInv, SystemInv, SystemType

LEMMA ResumeIInv ==
  ASSUME IInv, ComponentsNext, NEW c \in Calls, Resume(c) PROVE IInv'
<1> DEFINE k == attempt[c] + 1
<1>1. attempt[c] \in Ks /\ attempt'[c] = k /\ k \in Ks /\ k < MaxRetries
  BY ClientFacts, SystemAssumption
  DEF Resume, R!Resume, IInv, ComponentsNext, RP!IInv, RP!TypeOK, RP!CallInv, Ks
<1>2. /\ status[c] = "wait" /\ status'[c] = "call"
      /\ last'[c] = last[c] /\ exit'[c] = exit[c] /\ now' = now
  BY <1>1 DEF Resume, R!Resume, IInv, RP!IInv, RP!TypeOK, Ks
<1>3. link' = [link EXCEPT ![<<c, k>>] = "dialing"] /\ <<c, k>> \in Attempts
  BY <1>1 DEF Resume, Connect, Ks, Attempts
<1>4. Others(c) /\ UNCHANGED serverVars
  BY <1>1, <1>3 DEF Resume, R!Resume, IInv, RP!IInv, RP!TypeOK, SystemInv, SystemType, Others,
                    SameLoop, SameLinks, SameProcess, Attempts, Ks, serverVars
<1>5. link' \in [Attempts -> Links]
  BY <1>3 DEF IInv, SystemInv, SystemType, Links
<1>6. Current(c) = <<c, attempt[c]>> /\ Current(c)' = <<c, k>>
  BY <1>1 DEF Current
<1>7. ASSUME NEW j \in Ks
      PROVE  /\ link'[<<c, j>>] = IF j = k THEN "dialing" ELSE link[<<c, j>>]
             /\ stage'[<<c, j>>] = stage[<<c, j>>]
             /\ j > k => link[<<c, j>>] = "none"
             /\ j < k => link[<<c, j>>] \in {"refused", "lost"}
             /\ j = k => stage[<<c, j>>] = "none"
  <2>1. <<c, j>> \in Attempts /\ (<<c, j>> = <<c, k>> <=> j = k)
    BY <1>7 DEF Attempts, Ks
  <2>2. link'[<<c, j>>] = IF j = k THEN "dialing" ELSE link[<<c, j>>]
    BY <1>3, <2>1 DEF IInv, SystemInv, SystemType
  <2>3. LinkInv(c)
    BY DEF IInv, SystemInv
  <2>4. /\ j > k => link[<<c, j>>] = "none"
        /\ j = k => link[<<c, j>>] = "none" /\ stage[<<c, j>>] = "none"
        /\ j < k => link[<<c, j>>] \in {"refused", "lost"}
    BY <1>1, <1>2, <1>6, <1>7, <2>3 DEF LinkInv, Ks
  <2> QED BY <1>4, <2>2, <2>4 DEF serverVars
<1>8. CallInvs(c)'
  BY <1>1, <1>2, <1>6, <1>7
  DEF CallInvs, LinkInv, FaultInv, Faulted, ReportInv, IInv, SystemInv, R!Settled
<1> QED
  BY <1>2, <1>4, <1>5, <1>8, OneCall DEF Resume, IInv, SystemInv, SystemType

\* What the loop does with an attempt that failed; no context ends here.
LEMMA ReturnSteps ==
  ASSUME IInv, NEW c \in Calls, NEW e, Return(c, e)
  PROVE  /\ status[c] = "call" /\ attempt'[c] = attempt[c] /\ begun'[c] = begun[c]
         /\ last'[c] = e /\ now' = now
         /\ \/ status'[c] = "error" /\ (R!IsRetryable(c, e) => attempt[c] = MaxRetries - 1)
            \/ status'[c] = "wait" /\ R!IsRetryable(c, e)
         /\ \A d \in Calls \ {c} : SameLoop(d)
  BY DEF Return, R!GiveUp, R!Backoff, R!LastAttempt, IInv, RP!IInv, RP!TypeOK, SameLoop

LEMMA ReceiveIInv ==
  ASSUME IInv, ComponentsNext, NEW c \in Calls, Receive(c) PROVE IInv'
<1> DEFINE k == attempt[c]
           a == <<c, k>>
<1>1. /\ k \in Ks /\ a \in Attempts /\ Current(c) = a /\ begun[c] \in Nat
      /\ status[c] = "call" /\ stage[a] = "answered"
      /\ link' = [link EXCEPT ![a] = "done"] /\ UNCHANGED <<serverVars, exit, printed, losses>>
  BY ClientFacts DEF Receive, IInv
<1>2. /\ now' = now /\ attempt'[c] = k
      /\ \A d \in Calls \ {c} : SameLoop(d)
      /\ \/ status'[c] = "ok" /\ answer[a].code = "ok" /\ last'[c] = last[c]
         \/ /\ status'[c] = "error" /\ answer[a].code # "ok"
            /\ last'[c] = [code |-> "invalid_argument", chain |-> {}]
            /\ Payload[c] # "Jane"
  <2>1. CASE answer[a].code = "ok"
    BY <1>1, <2>1 DEF Receive, R!Succeed, IInv, RP!IInv, RP!TypeOK, SameLoop
  <2>2. CASE answer[a].code # "ok"
    <3>1. /\ AnsweredError(a) = [code |-> "invalid_argument", chain |-> {}]
          /\ Payload[c] # "Jane"
      BY <1>1, <2>2, AnswersToClients DEF AnsweredError, IInv
    <3>2. ~R!IsRetryable(c, AnsweredError(a))
      BY <3>1 DEF R!IsRetryable, R!GoRetryable, R!RustRetryable, R!PythonRetryable,
                  R!Transient, R!Transport
    <3>3. Return(c, AnsweredError(a))
      BY <1>1, <2>2 DEF Receive
    <3> QED BY <2>2, <3>1, <3>2, <3>3, ReturnSteps
  <2> QED BY <2>1, <2>2
<1>3. Others(c)
  BY <1>1, <1>2 DEF Others, SameLinks, SameProcess, IInv, SystemInv, SystemType, Attempts, Ks,
                    serverVars
<1>4. link' \in [Attempts -> Links]
  BY <1>1 DEF IInv, SystemInv, SystemType, Links
<1>5. Current(c)' = a
  BY <1>2 DEF Current
<1>6. ASSUME NEW j \in Ks
      PROVE  /\ link'[<<c, j>>] = IF j = k THEN "done" ELSE link[<<c, j>>]
             /\ stage'[<<c, j>>] = stage[<<c, j>>] /\ answer'[<<c, j>>] = answer[<<c, j>>]
  <2>1. <<c, j>> \in Attempts /\ (<<c, j>> = a <=> j = k)
    BY <1>6 DEF Attempts, Ks
  <2> QED BY <1>1, <2>1 DEF IInv, SystemInv, SystemType, serverVars
<1>7. LinkInv(c)'
  <2>1. LinkInv(c)
    BY DEF IInv, SystemInv
  <2> QED BY <1>1, <1>2, <1>5, <1>6, <2>1 DEF LinkInv
<1>8. FaultInv(c)'
  <2>1. status'[c] = "error" => ~R!IsRetryable(c, last'[c])
    BY <1>2 DEF R!IsRetryable, R!GoRetryable, R!RustRetryable, R!PythonRetryable,
                R!Transient, R!Transport
  <2>2. R!IsRetryable(c, last[c])' <=> R!IsRetryable(c, last'[c])
    BY DEF R!IsRetryable
  <2> QED BY <1>2, <2>1, <2>2 DEF FaultInv
<1>9. ReportInv(c)'
  BY <1>1, <1>2, <1>5 DEF ReportInv, IInv, SystemInv, R!Settled
<1> QED
  BY <1>1, <1>2, <1>3, <1>4, <1>7, <1>8, <1>9, OneCall
  DEF CallInvs, IInv, SystemInv, SystemType

LEMMA BreakIInv ==
  ASSUME IInv, ComponentsNext, NEW c \in Calls, Break(c) PROVE IInv'
<1> DEFINE k == attempt[c]
           a == <<c, k>>
<1>1. /\ k \in Ks /\ a \in Attempts /\ Current(c) = a /\ begun[c] \in Nat
      /\ status[c] = "call" /\ link[a] \in {"refused", "lost"}
      /\ UNCHANGED <<serverVars, clientVars, losses>>
  BY ClientFacts DEF Break, IInv
<1>2. PICK e : Return(c, e) /\ e.code # "invalid_argument"
  <2>1. \A e \in RefusedErrors(c) : e.code # "invalid_argument"
    BY DEF RefusedErrors
  <2>2. \A e \in BrokenErrors(c) : e.code # "invalid_argument"
    BY SystemAssumption DEF BrokenErrors
  <2> QED BY <2>1, <2>2 DEF Break
<1>3. /\ now' = now /\ attempt'[c] = k /\ begun'[c] = begun[c] /\ last'[c] = e
      /\ \/ status'[c] = "error" /\ (R!IsRetryable(c, e) => k = MaxRetries - 1)
         \/ status'[c] = "wait"
  BY <1>2, ReturnSteps
<1>4. SameLinks(c) /\ SameProcess(c) /\ Others(c)
  BY <1>1, <1>2, ReturnSteps DEF Others, SameLinks, SameProcess, serverVars, clientVars
<1>5. Current(c)' = a
  BY <1>3 DEF Current
<1>6. LinkInv(c)'
  <2>1. LinkInv(c)
    BY DEF IInv, SystemInv
  <2> QED BY <1>1, <1>3, <1>4, <1>5, <2>1 DEF LinkInv, SameLinks
<1>7. FaultInv(c)'
  <2>1. lastFault >= begun[c] + R!Budget(k)
    BY <1>1 DEF IInv, SystemInv, FaultInv, Faulted
  <2>2. lastFault \in Nat /\ lastFault' \in Nat /\ lastFault' >= lastFault
    BY <1>3, FaultsAdvance, ClientFacts DEF IInv, SystemInv, SystemType, ComponentsNext
  <2>3. R!IsRetryable(c, last[c])' <=> R!IsRetryable(c, e)
    BY <1>3 DEF R!IsRetryable
  <2>4. R!Budget(k) \in Int /\ (R!Budget(MaxRetries - 1))' = R!Budget(MaxRetries - 1)
    BY <1>1, Schedule DEF R!Budget
  <2> QED
    BY <1>1, <1>3, <2>1, <2>2, <2>3, <2>4 DEF FaultInv
<1>8. ReportInv(c)'
  BY <1>1, <1>2, <1>3, <1>4, <1>5 DEF ReportInv, SameProcess, IInv, SystemInv, R!Settled
<1> QED
  BY <1>1, <1>3, <1>4, <1>6, <1>7, <1>8, OneCall
  DEF CallInvs, IInv, SystemInv, SystemType, clientVars

LEMMA ExitIInv ==
  ASSUME IInv, ComponentsNext, NEW c \in Calls, Exit(c) PROVE IInv'
<1> DEFINE a == Current(c)
<1>1. /\ attempt[c] \in Ks /\ a = <<c, attempt[c]>> /\ a \in Attempts
      /\ exit[c] = "running" /\ status[c] \in R!Settled
      /\ UNCHANGED <<retryVars, serverVars, link, losses>>
  BY ClientFacts DEF Exit, IInv
<1>2. \A d \in Calls : SameLoop(d) /\ SameLinks(d)
  BY <1>1 DEF SameLoop, SameLinks, retryVars, serverVars
<1>3. /\ exit' \in [Calls -> {"running", "success", "failure"}]
      /\ exit'[c] = "success" => status[c] = "ok" /\ printed'[c] = answer[a].body
      /\ printed' \in [Calls -> S!Bodies]
      /\ \A d \in Calls \ {c} : SameProcess(d)
  <2>1. answer[a].body \in S!Bodies
    BY <1>1 DEF IInv, SP!IInv, SP!TypeOK, SP!Answers, SP!Bodies, S!Bodies,
                SP!Hello, S!Hello, SP!Messages, S!Messages, SP!SERVING, S!SERVING,
                SP!NoBody, S!NoBody
  <2> QED BY <2>1 DEF Exit, IInv, SystemInv, SystemType, SameProcess
<1>4. Current(c)' = a
  BY <1>1 DEF Current, retryVars
<1>5. LinkInv(c)'
  <2>1. LinkInv(c)
    BY DEF IInv, SystemInv
  <2> QED BY <1>1, <1>4, <2>1 DEF LinkInv, retryVars, serverVars
<1>6. FaultInv(c)'
  <2>1. status[c] # "call"
    BY <1>1 DEF R!Settled
  <2>2. lastFault \in Nat /\ lastFault' \in Nat /\ lastFault' >= lastFault
    BY <1>1, FaultsAdvance, ClientFacts DEF IInv, SystemInv, SystemType, ComponentsNext, retryVars
  <2>3. R!IsRetryable(c, last[c])' <=> R!IsRetryable(c, last[c])
    BY <1>1 DEF R!IsRetryable, retryVars
  <2>4. /\ R!Budget(MaxRetries - 1) \in Int /\ begun[c] \in Nat
        /\ (R!Budget(MaxRetries - 1))' = R!Budget(MaxRetries - 1)
    BY Schedule, ClientFacts DEF R!Budget, IInv
  <2> QED
    BY <1>1, <2>1, <2>2, <2>3, <2>4 DEF IInv, SystemInv, FaultInv, retryVars
<1>7. ReportInv(c)'
  BY <1>1, <1>3, <1>4 DEF ReportInv, IInv, SystemInv, retryVars, serverVars
<1> QED
  BY <1>1, <1>2, <1>3, <1>5, <1>6, <1>7, OneCall
  DEF CallInvs, Others, IInv, SystemInv, SystemType, retryVars

(***************************************************************************)
(* The steps of the network change the connection of one attempt, which is *)
(* the current one of its call.                                            *)
(***************************************************************************)
NewLink(a, l) ==
  /\ link' = [link EXCEPT ![a] = l]
  /\ UNCHANGED <<retryVars, exit, printed, answer>>

LEMMA LinkChanges ==
  ASSUME IInv, ComponentsNext, NEW c \in Calls, NEW k \in Ks, NEW l \in {"refused", "open", "lost"},
         link[<<c, k>>] \in {"dialing", "open"}, NewLink(<<c, k>>, l),
         losses' \in 0..MaxLosses,
         \A b \in Attempts \ {<<c, k>>} : stage'[b] = stage[b],
         l = "refused" => stage'[<<c, k>>] = "none",
         l \in {"refused", "lost"} \/ stage'[<<c, k>>] = "killed" =>
           lastFault' >= begun[c] + R!Budget(k)
  PROVE  IInv'
<1> DEFINE a == <<c, k>>
<1>1. /\ a \in Attempts /\ attempt[c] = k /\ Current(c) = a /\ status[c] = "call"
  BY LiveAttempt DEF Attempts, Ks
<1>2. Current(c)' = a
  BY <1>1 DEF Current, NewLink, retryVars
<1>3. ASSUME NEW j \in Ks
      PROVE  /\ link'[<<c, j>>] = IF j = k THEN l ELSE link[<<c, j>>]
             /\ j # k => stage'[<<c, j>>] = stage[<<c, j>>]
             /\ answer'[<<c, j>>] = answer[<<c, j>>]
  <2>1. <<c, j>> \in Attempts /\ (<<c, j>> = a <=> j = k)
    BY <1>3 DEF Attempts, Ks
  <2> QED BY <2>1 DEF IInv, SystemInv, SystemType, NewLink
<1>4. link' \in [Attempts -> Links]
  BY DEF IInv, SystemInv, SystemType, Links, NewLink
<1>5. Others(c)
  BY DEF Others, SameLoop, SameLinks, SameProcess, NewLink, retryVars,
         IInv, SystemInv, SystemType, Attempts, Ks
<1>6. LinkInv(c)'
  <2>1. LinkInv(c)
    BY DEF IInv, SystemInv
  <2> QED BY <1>1, <1>2, <1>3, <2>1 DEF LinkInv, NewLink, retryVars
<1>7. FaultInv(c)'
  <2>1. Faulted(c)' => lastFault' >= begun[c] + R!Budget(k)
    BY <1>1, <1>2, <1>3 DEF Faulted
  <2> QED
    BY <1>1, <2>1 DEF FaultInv, NewLink, retryVars, R!Budget
<1>8. ReportInv(c)'
  BY <1>1 DEF ReportInv, IInv, SystemInv, NewLink, retryVars, R!Settled
<1> QED
  BY <1>4, <1>5, <1>6, <1>7, <1>8, OneCall
  DEF CallInvs, NewLink, retryVars, IInv, SystemInv, SystemType

LEMMA NetworkIInv ==
  ASSUME IInv, ComponentsNext, NEW a \in Attempts, Dial(a) \/ Lose(a) \/ Reset(a)
  PROVE  IInv'
<1>1. PICK c \in Calls, k \in Ks : a = <<c, k>>
  BY DEF Attempts, Ks
<1>2. link[a] \in {"dialing", "open"} /\ now' = now /\ losses \in 0..MaxLosses
  BY DEF Dial, Lose, Reset, retryVars, IInv, SystemInv, SystemType
<1>3. /\ Current(c) = a /\ now >= begun[c] + R!Budget(k) /\ status[c] = "call" /\ attempt[c] = k
      /\ link[a] = "dialing" => stage[a] = "none"
  BY <1>1, <1>2, LiveAttempt DEF IInv, SystemInv, LinkInv
<1>4. now \in Nat /\ lastFault \in Nat /\ lastFault' \in Nat /\ lastFault' >= lastFault
  BY <1>1, <1>2, FaultsAdvance, ClientFacts DEF IInv, SystemInv, SystemType, ComponentsNext
<1>5. /\ begun[c] \in Nat /\ R!Budget(k) \in Int
      /\ stage[a] = "killed" => lastFault' >= begun[c] + R!Budget(k)
  <2>1. stage[a] = "killed" => lastFault >= begun[c] + R!Budget(k)
    BY <1>3 DEF IInv, SystemInv, FaultInv, Faulted
  <2> QED BY <1>4, <2>1, Schedule, ClientFacts DEF IInv
<1>6. ASSUME Dial(a), port # NoServer PROVE IInv'
  <2>1. S!Accept(a) /\ NewLink(a, "open") /\ losses' = losses
    BY <1>6 DEF Dial, NewLink, S!Accept
  <2>2. stage' = [stage EXCEPT ![a] = "dialed"]
    BY <2>1 DEF S!Accept
  <2>3. stage'[a] # "killed" /\ \A b \in Attempts \ {a} : stage'[b] = stage[b]
    BY <2>2 DEF IInv, SP!IInv, SP!TypeOK
  <2> QED BY <1>1, <1>2, <2>1, <2>3, LinkChanges
<1>7. ASSUME Dial(a), port = NoServer PROVE IInv'
  <2>1. NewLink(a, "refused") /\ losses' = losses /\ stage' = stage /\ stage[a] = "none"
    BY <1>3, <1>7 DEF Dial, NewLink, serverVars
  <2>2. lastFault' = now
    BY <1>2, <1>7 DEF ComponentsNext, TrackFaults
  <2> QED BY <1>1, <1>2, <1>3, <2>1, <2>2, LinkChanges
<1>8. ASSUME Lose(a) PROVE IInv'
  <2>1. NewLink(a, "lost") /\ losses' = losses + 1 /\ losses < MaxLosses /\ stage' = stage
    BY <1>8 DEF Lose, NewLink, serverVars
  <2>2. lastFault' = now /\ losses' \in 0..MaxLosses
    BY <1>2, <2>1, SystemAssumption DEF ComponentsNext, TrackFaults
  <2> QED BY <1>1, <1>2, <1>3, <2>1, <2>2, LinkChanges
<1>9. ASSUME Reset(a) PROVE IInv'
  <2>1. /\ NewLink(a, "lost") /\ losses' = losses /\ stage' = stage /\ stage[a] = "killed"
        /\ link[a] = "open"
    BY <1>9 DEF Reset, NewLink, serverVars
  <2> QED BY <1>1, <1>2, <1>5, <2>1, LinkChanges
<1> QED BY <1>6, <1>7, <1>8, <1>9

(***************************************************************************)
(* The steps of the servers leave the clients and the connections alone.   *)
(***************************************************************************)
LEMMA ServerIInv ==
  ASSUME IInv, ComponentsNext, SP!ServerStep, UNCHANGED <<retryVars, clientVars, losses>>
  PROVE  IInv'
<1>1. lastFault \in Nat /\ lastFault' \in 0..now' /\ lastFault' \in Nat /\ lastFault' >= lastFault
  BY FaultsAdvance DEF IInv, SystemInv, SystemType, ComponentsNext, RP!IInv, RP!TypeOK, retryVars
<1>2. \A a \in Attempts :
        /\ stage'[a] = "none" <=> stage[a] = "none"
        /\ stage[a] = "answered" => stage'[a] = "answered" /\ answer'[a] = answer[a]
        /\ stage'[a] = "killed" => stage[a] = "killed" \/ port' = NoServer
  BY SP!StepFrame, ServerAssumptions
  DEF SP!StepFrame, SP!SameRequest, SP!Final, IInv
<1>3. ASSUME NEW c \in Calls PROVE CallInvs(c)'
  <2> DEFINE k == attempt[c]
             a == <<c, k>>
  <2>1. /\ k \in Ks /\ a \in Attempts /\ Current(c) = a /\ begun[c] \in Nat /\ now \in Nat
        /\ status[c] = "call" => now >= begun[c] + R!Budget(k)
    BY <1>3, ClientFacts DEF IInv
  <2>2. \A j \in Ks : <<c, j>> \in Attempts
    BY DEF Attempts, Ks
  <2>3. Current(c)' = a
    BY <2>1 DEF Current, retryVars
  <2>4. LinkInv(c) /\ FaultInv(c) /\ ReportInv(c)
    BY DEF IInv, SystemInv
  <2>5. LinkInv(c)'
    BY <1>2, <2>1, <2>2, <2>3, <2>4 DEF LinkInv, retryVars, clientVars
  <2>6. FaultInv(c)'
    <3>1. /\ R!Budget(k)' = R!Budget(k) /\ R!Budget(k) \in Int
          /\ (R!Budget(MaxRetries - 1))' = R!Budget(MaxRetries - 1)
          /\ R!Budget(MaxRetries - 1) \in Int
      BY <2>1, Schedule DEF R!Budget, retryVars
    <3>2. R!IsRetryable(c, last[c])' <=> R!IsRetryable(c, last[c])
      BY DEF R!IsRetryable, retryVars
    <3>3. Faulted(c)' => Faulted(c) \/ lastFault' = now
      BY <1>2, <2>1, <2>3 DEF Faulted, ComponentsNext, TrackFaults, retryVars, clientVars
    <3>4. status[c] = "call" /\ Faulted(c)' => lastFault' >= begun[c] + R!Budget(k)
      BY <1>1, <2>1, <2>4, <3>1, <3>3 DEF FaultInv
    <3>5. status[c] = "error" /\ R!IsRetryable(c, last[c]) =>
            lastFault' >= begun[c] + R!Budget(MaxRetries - 1)
      BY <1>1, <2>1, <2>4, <3>1 DEF FaultInv
    <3> QED BY <3>1, <3>2, <3>4, <3>5 DEF FaultInv, retryVars
  <2>7. ReportInv(c)'
    <3>1. exit[c] = "success" => answer'[a] = answer[a]
      BY <1>2, <2>1, <2>4 DEF ReportInv, LinkInv
    <3> QED BY <2>1, <2>3, <2>4, <3>1 DEF ReportInv, retryVars, clientVars
  <2> QED BY <2>5, <2>6, <2>7 DEF CallInvs
<1>4. SystemType'
  BY <1>1 DEF IInv, SystemInv, SystemType, retryVars, clientVars
<1> QED BY <1>3, <1>4 DEF IInv, SystemInv, CallInvs, ComponentsNext

LEMMA TickIInv == ASSUME IInv, ComponentsNext, Tick PROVE IInv'
<1>1. now' = now + 1
  BY DEF Tick, R!Tick
<1>2. lastFault' \in 0..now' /\ lastFault' \in Nat /\ lastFault' >= lastFault
  BY <1>1, FaultsAdvance DEF IInv, SystemInv, SystemType, ComponentsNext, RP!IInv, RP!TypeOK
<1>3. \A c \in Calls : CallInvs(c)'
  BY <1>2, OtherCall
  DEF Tick, R!Tick, SameLoop, SameLinks, SameProcess, serverVars, clientVars
<1>4. SystemType'
  BY <1>2 DEF IInv, SystemInv, SystemType, Tick, clientVars
<1> QED BY <1>3, <1>4 DEF IInv, SystemInv, CallInvs, ComponentsNext

LEMMA SystemStep == ASSUME IInv, RP!IInv', SP!IInv', [Next]_vars PROVE IInv'
<1>1. ASSUME TrackFaults PROVE ComponentsNext
  BY <1>1 DEF ComponentsNext
<1>2. ASSUME NEW c \in Calls, TrackFaults,
             Begin(c) \/ Resume(c) \/ Receive(c) \/ Break(c) \/ Exit(c)
      PROVE  IInv'
  BY <1>1, <1>2, BeginIInv, ResumeIInv, ReceiveIInv, BreakIInv, ExitIInv
<1>3. ASSUME NEW a \in Attempts, TrackFaults, Dial(a) \/ Lose(a) \/ Reset(a) PROVE IInv'
  BY <1>1, <1>3, NetworkIInv
<1>4. ASSUME NEW a \in Attempts, TrackFaults, ReadHeader(a) \/ ReadBody(a) \/ Drop(a) \/ Serve(a)
      PROVE  IInv'
  <2>1. SP!ServerStep /\ UNCHANGED <<retryVars, clientVars, losses>>
    BY <1>4, SameServer DEF ReadHeader, ReadBody, Drop, Serve
  <2> QED BY <1>1, <1>4, <2>1, ServerIInv
<1>5. ASSUME NEW s \in Servers, TrackFaults, Start(s) \/ Crash(s) PROVE IInv'
  <2>1. SP!ServerStep /\ UNCHANGED <<retryVars, clientVars, losses>>
    BY <1>5, SameServer DEF Start, Crash
  <2> QED BY <1>1, <1>5, <2>1, ServerIInv
<1>6. ASSUME Tick, TrackFaults PROVE IInv'
  BY <1>1, <1>6, TickIInv
<1>7. CASE UNCHANGED vars
  <2>1. lastFault' = lastFault /\ lastFault \in Nat
    BY <1>7 DEF vars, IInv, SystemInv, SystemType, RP!IInv, RP!TypeOK
  <2>2. \A c \in Calls : CallInvs(c)'
    BY <1>7, <2>1, OtherCall
    DEF vars, retryVars, serverVars, clientVars, SameLoop, SameLinks, SameProcess
  <2>3. SystemType'
    BY <1>7 DEF vars, IInv, SystemInv, SystemType, retryVars, clientVars
  <2> QED BY <2>2, <2>3 DEF IInv, SystemInv, CallInvs
<1> QED BY <1>2, <1>3, <1>4, <1>5, <1>6, <1>7 DEF Next, Done

\* In every reachable state the client's end of each attempt agrees with the server's.
THEOREM Invariance == Spec => []IInv
<1>1. IInv /\ RP!IInv' /\ SP!IInv' /\ [Next]_vars => IInv'
  BY SystemStep
<1> QED BY <1>1, InitIInv, ClientInvariance, ServerInvariance, PTL DEF Spec

(***************************************************************************)
(* Every variable of the composition keeps its type.                       *)
(***************************************************************************)
THEOREM TypeCorrect == Spec => []TypeOK
<1>1. RP!TypeOK => R!TypeOK
  BY DEF RP!TypeOK, R!TypeOK, RP!Statuses, R!Statuses, RP!AllErrors, R!AllErrors,
         RP!Codes, R!Codes
<1>2. SP!TypeOK => S!TypeOK
  BY DEF SP!TypeOK, S!TypeOK, SP!Stages, S!Stages, SP!Answers, S!Answers, SP!Codes, S!Codes,
         SP!Bodies, S!Bodies, SP!Hello, S!Hello, SP!Messages, S!Messages,
         SP!SERVING, S!SERVING, SP!NoBody, S!NoBody
<1>3. IInv => TypeOK
  BY <1>1, <1>2 DEF IInv, SystemInv, SystemType, TypeOK, RP!IInv, SP!IInv
<1> QED BY <1>3, Invariance, PTL

(***************************************************************************)
(* A client that succeeds prints the greeting of its own message, which    *)
(* the handler computed once for the attempt that succeeded and which is   *)
(* logged as ok.                                                           *)
(***************************************************************************)
THEOREM SuccessesAreServed == Spec => []SuccessWasServed
<1>1. ASSUME IInv, NEW c \in Calls, exit[c] = "success"
      PROVE  /\ printed[c] = S!Hello(Payload[c]) /\ Payload[c] = "Jane"
             /\ served[Current(c)] = 1 /\ log[Current(c)] = <<"ok">>
  <2>1. attempt[c] \in Ks /\ Current(c) = <<c, attempt[c]>>
    BY <1>1, ClientFacts DEF IInv
  <2>2. stage[Current(c)] = "answered" /\ answer[Current(c)].code = "ok"
        /\ printed[c] = answer[Current(c)].body
    BY <1>1, <2>1 DEF IInv, SystemInv, LinkInv, ReportInv
  <2> QED BY <1>1, <2>1, <2>2, AnswersToClients DEF IInv
<1>2. IInv => SuccessWasServed
  BY <1>1 DEF SuccessWasServed
<1> QED BY <1>2, Invariance, PTL

(***************************************************************************)
(* Only a lost connection makes the handler run for two attempts of one    *)
(* call: a refused attempt never reached a server, and an answered one is  *)
(* not repeated.                                                           *)
(***************************************************************************)
THEOREM RepeatsNeedLosses == Spec => []RepeatNeedsLoss
<1>1. ASSUME IInv, NEW c \in Calls, NEW i \in Ks, NEW j \in Ks,
             i < j, served[<<c, i>>] > 0, served[<<c, j>>] > 0
      PROVE  link[<<c, i>>] = "lost"
  <2>1. \A k \in Ks : stage[<<c, k>>] = "none" => served[<<c, k>>] = 0
    BY <1>1 DEF IInv, SP!IInv, SP!RequestInv, SP!Untouched, Attempts, Ks
  <2>2. stage[<<c, i>>] # "none" /\ stage[<<c, j>>] # "none"
    BY <1>1, <2>1
  <2>3. LinkInv(c) /\ attempt[c] \in Ks
    BY <1>1, ClientFacts DEF IInv, SystemInv
  <2>4. j <= attempt[c]
    BY <2>2, <2>3 DEF LinkInv, Ks
  <2>5. i < attempt[c]
    BY <1>1, <2>3, <2>4 DEF Ks
  <2> QED BY <2>2, <2>3, <2>5 DEF LinkInv
<1>2. IInv => RepeatNeedsLoss
  BY <1>1 DEF RepeatNeedsLoss, Ks
<1> QED BY <1>2, Invariance, PTL

(***************************************************************************)
(* An answer that reached the client ended its call, on that attempt.      *)
(***************************************************************************)
THEOREM AnswersAreFinal == Spec => []AnswerIsFinal
<1>1. ASSUME IInv, NEW c \in Calls, NEW k \in Ks, link[<<c, k>>] = "done"
      PROVE  /\ attempt[c] = k
             /\ status[c] = (IF answer[<<c, k>>].code = "ok" THEN "ok" ELSE "error")
  <2>1. LinkInv(c) /\ attempt[c] \in Ks /\ Current(c) = <<c, attempt[c]>>
        /\ status[c] \in {"idle", "call", "wait", "ok", "error", "aborted"}
    BY <1>1, ClientFacts DEF IInv, SystemInv
  <2>2. attempt[c] = k
    BY <1>1, <2>1 DEF LinkInv, Ks
  <2> QED BY <1>1, <2>1, <2>2 DEF LinkInv
<1>2. ASSUME IInv, NEW a \in Attempts, link[a] = "done"
      PROVE  /\ attempt[a[1]] = a[2]
             /\ status[a[1]] = (IF answer[a].code = "ok" THEN "ok" ELSE "error")
  <2>1. PICK c \in Calls, k \in Ks : a = <<c, k>>
    BY DEF Attempts, Ks
  <2> QED BY <1>1, <1>2, <2>1
<1>3. IInv => AnswerIsFinal
  BY <1>2 DEF AnswerIsFinal
<1> QED BY <1>3, Invariance, PTL

(***************************************************************************)
(* A transient error is reported only if a fault came after the whole      *)
(* schedule of waits, for any number of attempts and any initial backoff.  *)
(***************************************************************************)
THEOREM OutlivesShortOutages == Spec => []OutlivesShortOutage
<1>1. IInv => OutlivesShortOutage
  BY DEF IInv, SystemInv, FaultInv, OutlivesShortOutage
<1> QED BY <1>1, Invariance, PTL

(***************************************************************************)
(* Refinement.  RunsBar and ResultBar are the images of the state under    *)
(* the mapping of Promise.  Runs counts the attempts that the handler ran  *)
(* for; a run adds one to it, and there are MaxRetries attempts.           *)
(***************************************************************************)
RunsBar == [c \in Calls |-> Runs(c)]
ResultBar == [c \in Calls |-> Result(c)]

Handled(c) == {k \in Ks : served[<<c, k>>] > 0}

LEMMA RunsCount == \A c \in Calls : Runs(c) = Cardinality(Handled(c))
  BY DEF Runs, Handled, Ks

LEMMA CountAttempts ==
  ASSUME NEW A \in SUBSET Ks
  PROVE  /\ Cardinality(A) \in Nat
         /\ A # {} => Cardinality(A) > 0
         /\ \A k \in Ks \ A : /\ Cardinality(A \cup {k}) = Cardinality(A) + 1
                             /\ Cardinality(A) < MaxRetries
<1>1. IsFiniteSet(Ks) /\ Cardinality(Ks) = MaxRetries
  <2>1. 0 \in Int /\ MaxRetries - 1 \in Int /\ ~(0 > MaxRetries - 1)
        /\ (MaxRetries - 1) - 0 + 1 = MaxRetries
    BY SystemAssumption
  <2> QED BY <2>1, FS_Interval DEF Ks
<1>2. IsFiniteSet(A) /\ Cardinality(A) \in Nat
  BY <1>1, FS_Subset, FS_CardinalityType
<1>3. A # {} => Cardinality(A) > 0
  BY <1>2, FS_EmptySet
<1>4. ASSUME NEW k \in Ks \ A
      PROVE  /\ Cardinality(A \cup {k}) = Cardinality(A) + 1
             /\ Cardinality(A) < MaxRetries
  <2>1. Cardinality(A \cup {k}) = Cardinality(A) + 1
    BY <1>2, <1>4, FS_AddElement
  <2>2. Cardinality(A \cup {k}) <= MaxRetries
    BY <1>1, <1>4, FS_Subset
  <2> QED BY <1>2, <2>1, <2>2, SystemAssumption
<1> QED BY <1>2, <1>3, <1>4

LEMMA ResultOf ==
  ASSUME NEW c \in Calls
  PROVE  /\ exit[c] = "running" =>
              Result(c) = IF status[c] = "idle" THEN "none" ELSE "pending"
         /\ exit[c] = "success" => Result(c) = "greeted"
         /\ exit[c] = "failure" =>
              Result(c) = IF last[c].code = "invalid_argument" THEN "rejected" ELSE "failed"
  BY DEF Result

LEMMA ResultOfNext ==
  ASSUME NEW c \in Calls
  PROVE  /\ exit'[c] = "running" =>
              Result(c)' = IF status'[c] = "idle" THEN "none" ELSE "pending"
         /\ exit'[c] = "success" => Result(c)' = "greeted"
         /\ exit'[c] = "failure" =>
              Result(c)' = IF last'[c].code = "invalid_argument" THEN "rejected" ELSE "failed"
  BY DEF Result

LEMMA SameRuns == ASSUME served' = served PROVE RunsBar' = RunsBar
  BY DEF RunsBar, Runs

LEMMA SameResults ==
  ASSUME \A c \in Calls : Result(c)' = Result(c) PROVE ResultBar' = ResultBar
  BY DEF ResultBar

LEMMA InitKeeps == Init => Promise!Init
<1> SUFFICES ASSUME Init PROVE Promise!Init
  OBVIOUS
<1>1. ASSUME NEW c \in Calls PROVE Runs(c) = 0 /\ Result(c) = "none"
  <2>1. Handled(c) = {}
    BY <1>1 DEF Handled, Init, S!Init, Attempts, Ks
  <2>2. Runs(c) = 0
    BY <1>1, <2>1, RunsCount, FS_EmptySet
  <2>3. exit[c] = "running" /\ status[c] = "idle"
    BY <1>1 DEF Init, R!Init
  <2> QED BY <1>1, <2>2, <2>3, ResultOf
<1> QED BY <1>1 DEF Promise!Init

LEMMA BeginKeeps == ASSUME IInv, NEW c \in Calls, Begin(c) PROVE Promise!Next
<1>1. /\ exit' = exit /\ status[c] = "idle" /\ status'[c] = "call" /\ served' = served
      /\ \A d \in Calls \ {c} : status'[d] = status[d] /\ last'[d] = last[d]
  BY DEF Begin, R!Begin, IInv, RP!IInv, RP!TypeOK, serverVars
<1>2. exit[c] = "running"
  BY <1>1 DEF IInv, SystemInv, SystemType, ReportInv, R!Settled
<1>3. Result(c) = "none" /\ Result(c)' = "pending"
  BY <1>1, <1>2, ResultOf, ResultOfNext
<1>4. ASSUME NEW d \in Calls \ {c} PROVE Result(d)' = Result(d)
  BY <1>1, <1>4 DEF Result
<1>5. ResultBar' = [ResultBar EXCEPT ![c] = "pending"] /\ RunsBar' = RunsBar
  BY <1>1, <1>3, <1>4, SameRuns DEF ResultBar
<1>6. Promise!Start(c)
  BY <1>3, <1>5 DEF Promise!Start, ResultBar, RunsBar
<1> QED BY <1>6 DEF Promise!Next

\* The later steps of the loop are stutters: the call stays pending.
LEMMA LoopKeeps ==
  ASSUME IInv, NEW c \in Calls, Resume(c) \/ Receive(c) \/ Break(c)
  PROVE  UNCHANGED <<RunsBar, ResultBar>>
<1>1. /\ exit' = exit /\ served' = served
      /\ status[c] \in {"call", "wait"} /\ status'[c] # "idle"
      /\ \A d \in Calls \ {c} : status'[d] = status[d] /\ last'[d] = last[d]
  <2>1. CASE Resume(c)
    BY <2>1 DEF Resume, R!Resume, IInv, RP!IInv, RP!TypeOK, serverVars
  <2>2. CASE Receive(c) \/ Break(c)
    <3>1. R!Succeed(c) \/ \E e : Return(c, e)
      BY <2>2 DEF Receive, Break
    <3>2. CASE R!Succeed(c)
      BY <2>2, <3>2 DEF R!Succeed, Receive, Break, IInv, RP!IInv, RP!TypeOK, serverVars, clientVars
    <3>3. ASSUME NEW e, Return(c, e)
          PROVE  /\ status[c] = "call" /\ status'[c] # "idle"
                 /\ \A d \in Calls \ {c} : status'[d] = status[d] /\ last'[d] = last[d]
      BY <3>3, ReturnSteps DEF SameLoop
    <3>4. exit' = exit /\ served' = served
      BY <2>2 DEF Receive, Break, serverVars, clientVars
    <3> QED BY <3>1, <3>2, <3>3, <3>4
  <2> QED BY <2>1, <2>2
<1>2. exit[c] = "running"
  BY <1>1 DEF IInv, SystemInv, SystemType, ReportInv, R!Settled
<1>3. Result(c)' = Result(c)
  BY <1>1, <1>2, ResultOf, ResultOfNext
<1>4. ASSUME NEW d \in Calls \ {c} PROVE Result(d)' = Result(d)
  BY <1>1, <1>4 DEF Result
<1> QED BY <1>1, <1>3, <1>4, SameRuns, SameResults

LEMMA ExitKeeps == ASSUME IInv, NEW c \in Calls, Exit(c) PROVE Promise!Next
<1> DEFINE o == Result(c)'
<1>1. /\ exit[c] = "running" /\ status[c] \in R!Settled /\ UNCHANGED <<retryVars, serverVars>>
      /\ exit'[c] = "success" => status[c] = "ok"
      /\ exit'[c] \in {"success", "failure"}
      /\ \A d \in Calls \ {c} : exit'[d] = exit[d]
  BY DEF Exit, IInv, SystemInv, SystemType
<1>2. Result(c) = "pending"
  BY <1>1, ResultOf DEF R!Settled
<1>3. o \in {"greeted", "rejected", "failed"}
  BY <1>1, ResultOfNext
<1>4. o = "greeted" => Runs(c) > 0
  <2>1. SUFFICES ASSUME status[c] = "ok" PROVE Runs(c) > 0
    BY <1>1, ResultOfNext
  <2>2. attempt[c] \in Ks /\ Current(c) = <<c, attempt[c]>>
    BY ClientFacts DEF IInv
  <2>3. stage[Current(c)] = "answered" /\ answer[Current(c)].code = "ok"
    BY <2>1, <2>2 DEF IInv, SystemInv, LinkInv
  <2>4. attempt[c] \in Handled(c)
    BY <2>2, <2>3, AnswersToClients DEF IInv, Handled
  <2>5. Handled(c) \in SUBSET Ks /\ Handled(c) # {}
    BY <2>4 DEF Handled
  <2> QED BY <2>5, CountAttempts, RunsCount
<1>5. o = "rejected" => Payload[c] # "Jane"
  <2>1. o = "rejected" => last[c].code = "invalid_argument"
    BY <1>1, ResultOfNext DEF retryVars
  <2> QED BY <2>1 DEF IInv, SystemInv, ReportInv
<1>6. ASSUME NEW d \in Calls \ {c} PROVE Result(d)' = Result(d)
  BY <1>1, <1>6 DEF Result, retryVars
<1>7. ResultBar' = [ResultBar EXCEPT ![c] = o] /\ RunsBar' = RunsBar
  BY <1>1, <1>6, SameRuns DEF ResultBar, serverVars
<1>8. Promise!End(c, o)
  BY <1>2, <1>4, <1>5, <1>7 DEF Promise!End, ResultBar, RunsBar
<1> QED BY <1>3, <1>8 DEF Promise!Next

LEMMA ServerKeeps ==
  ASSUME IInv, SP!ServerStep, UNCHANGED <<retryVars, clientVars>>
  PROVE  [Promise!Next]_(<<RunsBar, ResultBar>>)
<1>1. \A c \in Calls : Result(c)' = Result(c)
  BY DEF Result, retryVars, clientVars
<1>2. ResultBar' = ResultBar
  BY <1>1, SameResults
<1>3. CASE served' = served
  BY <1>2, <1>3, SameRuns
<1>4. ASSUME NEW a \in Attempts, SP!RunsHandler(a) PROVE Promise!Next
  <2>1. PICK c \in Calls, k \in Ks : a = <<c, k>>
    BY DEF Attempts, Ks
  <2>2. /\ stage[a] = "valid" /\ Payload[c] = "Jane" /\ served[a] = 0
        /\ served' = [served EXCEPT ![a] = 1]
    BY <1>4, <2>1 DEF SP!RunsHandler
  <2>3. Result(c) # "none"
    <3>1. status[c] # "idle"
      BY <2>1, <2>2 DEF IInv, SystemInv, LinkInv
    <3>2. exit[c] \in {"running", "success", "failure"}
      BY DEF IInv, SystemInv, SystemType
    <3> QED BY <3>1, <3>2, ResultOf
  <2>4. /\ Handled(c) \in SUBSET Ks /\ k \in Ks \ Handled(c)
        /\ Handled(c)' = Handled(c) \cup {k}
    BY <2>1, <2>2 DEF Handled, IInv, SP!IInv, SP!TypeOK, Attempts, Ks
  <2>5. Runs(c)' = Runs(c) + 1 /\ Runs(c) < MaxRetries
    <3>1. Runs(c)' = Cardinality(Handled(c)')
      BY DEF Runs, Handled, Ks
    <3> QED BY <2>4, <3>1, RunsCount, CountAttempts
  <2>6. ASSUME NEW d \in Calls \ {c} PROVE Runs(d)' = Runs(d)
    <3>1. \A j \in Ks : served'[<<d, j>>] = served[<<d, j>>]
      BY <2>1, <2>2, <2>6 DEF IInv, SP!IInv, SP!TypeOK, Attempts, Ks
    <3>2. Handled(d)' = Handled(d)
      BY <3>1 DEF Handled
    <3> QED BY <3>2 DEF Runs, Handled, Ks
  <2>7. RunsBar' = [RunsBar EXCEPT ![c] = Runs(c) + 1]
    BY <2>5, <2>6 DEF RunsBar
  <2>8. Promise!Run(c)
    BY <1>2, <2>2, <2>3, <2>5, <2>7 DEF Promise!Run, RunsBar, ResultBar
  <2> QED BY <2>8 DEF Promise!Next
<1> QED
  BY <1>3, <1>4, SP!StepFrame, ServerAssumptions DEF SP!StepFrame, IInv

LEMMA StepKeeps ==
  ASSUME IInv, [Next]_vars PROVE [Promise!Next]_(<<RunsBar, ResultBar>>)
<1>1. ASSUME NEW c \in Calls, Begin(c) \/ Exit(c) PROVE Promise!Next
  BY <1>1, BeginKeeps, ExitKeeps
<1>2. ASSUME NEW c \in Calls, Resume(c) \/ Receive(c) \/ Break(c)
      PROVE  UNCHANGED <<RunsBar, ResultBar>>
  BY <1>2, LoopKeeps
<1>3. ASSUME served' = served, UNCHANGED <<retryVars, exit>>
      PROVE  UNCHANGED <<RunsBar, ResultBar>>
  <2>1. \A c \in Calls : Result(c)' = Result(c)
    BY <1>3 DEF Result, retryVars
  <2> QED BY <1>3, <2>1, SameRuns, SameResults
<1>4. ASSUME NEW a \in Attempts, Dial(a) \/ Lose(a) \/ Reset(a)
      PROVE  UNCHANGED <<RunsBar, ResultBar>>
  BY <1>3, <1>4 DEF Dial, Lose, Reset, S!Accept, serverVars
<1>5. ASSUME SP!ServerStep, UNCHANGED <<retryVars, clientVars>>
      PROVE  [Promise!Next]_(<<RunsBar, ResultBar>>)
  BY <1>5, ServerKeeps
<1>6. ASSUME NEW a \in Attempts, ReadHeader(a) \/ ReadBody(a) \/ Drop(a) \/ Serve(a)
      PROVE  [Promise!Next]_(<<RunsBar, ResultBar>>)
  BY <1>5, <1>6, SameServer DEF ReadHeader, ReadBody, Drop, Serve
<1>7. ASSUME NEW s \in Servers, Start(s) \/ Crash(s)
      PROVE  [Promise!Next]_(<<RunsBar, ResultBar>>)
  BY <1>5, <1>7, SameServer DEF Start, Crash
<1>8. CASE Tick
  <2>1. \A c \in Calls : Result(c)' = Result(c)
    BY <1>8 DEF Result, Tick, R!Tick, clientVars
  <2> QED BY <1>8, <2>1, SameRuns, SameResults DEF Tick, serverVars
<1>9. CASE UNCHANGED vars
  BY <1>3, <1>9 DEF vars, retryVars, serverVars, clientVars
<1> QED
  BY <1>1, <1>2, <1>4, <1>6, <1>7, <1>8, <1>9 DEF Next, Done

(***************************************************************************)
(* The system keeps the promise of AtLeastOnce: a call ends once, greeted  *)
(* only after a run of the handler and rejected only if its message is     *)
(* invalid; the handler runs at most MaxRetries times for it.              *)
(***************************************************************************)
THEOREM SystemKeepsPromise == Spec => KeepsPromise
<1>1. Init => Promise!Init
  BY InitKeeps
<1>2. IInv /\ [Next]_vars => [Promise!Next]_(Promise!vars)
  BY StepKeeps DEF Promise!vars, RunsBar, ResultBar
<1> QED BY <1>1, <1>2, Invariance, PTL DEF Spec, KeepsPromise, Promise!Spec
=============================================================================
