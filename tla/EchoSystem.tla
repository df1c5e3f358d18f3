---------------------------- MODULE EchoSystem ----------------------------
(***************************************************************************)
(* The example as README.md runs it: clients (Retry), a network, and the   *)
(* servers (EchoServer), with refused connections, lost requests and lost  *)
(* replies, and servers that are killed and started again while the        *)
(* clients back off.                                                       *)
(*                                                                         *)
(* Attempt k of call c is the request <<c, k>>.  A connection that is lost *)
(* does not stop the server: its handler runs on for an attempt the client *)
(* has given up, and may overlap the next one.                             *)
(***************************************************************************)
EXTENDS Integers, Sequences, FiniteSets

CONSTANTS
  Calls, Language, MaxRetries, InitialBackoff, Shl, MaxTime,  \* see Retry
  Servers, Impl, NoServer, MaxStarts,                         \* see EchoServer
  Errors,     \* what a broken connection may make of an attempt
  Payload,    \* [Calls -> Messages], the message each call sends
  MaxLosses   \* bound: connections lost, besides those of a killed server

Attempts == Calls \X (0..(MaxRetries - 1))

VARIABLES
  now, status, attempt, last, wake, begun,                \* of Retry
  port, proc, starts, stage, at, answer, log, served,     \* of EchoServer
  link,      \* [Attempts -> Links], the client's end of each attempt
  exit,      \* [Calls -> {"running", "success", "failure"}], the client process
  printed,   \* what the client process printed
  losses,    \* connections lost so far
  lastFault  \* (history) the last instant without a server, or of a loss

\* A refused dial: every client gets a transient error, in Python an OSError as well.
RefusedErrors(c) ==
  {[code |-> "unavailable", chain |-> IF Language[c] = "go" THEN {"op"} ELSE {}]}
    \cup IF Language[c] = "python" THEN {[code |-> "none", chain |-> {"op"}]} ELSE {}

\* What an attempt may return: that, what a broken connection is turned into, or the
\* one code these servers reject a message with.
AttemptErrors ==
  Errors \cup (UNION {RefusedErrors(c) : c \in Calls})
    \cup {[code |-> "invalid_argument", chain |-> {}]}

\* The clients call with a context that never ends (context.Background()).
R == INSTANCE Retry WITH
  Errors      <- AttemptErrors,
  Cancellable <- {},
  ctxDone     <- [c \in Calls |-> FALSE],
  late        <- [c \in Calls |-> 0]

S == INSTANCE EchoServer WITH
  Requests <- Attempts,
  Path     <- [a \in Attempts |-> "Echo"],
  Message  <- [a \in Attempts |-> Payload[a[1]]]

\* A client encodes the message it sends, so that it decodes.  A broken connection is
\* not taken for the answer of a server that rejects the message.
ASSUME SystemAssumption ==
  /\ Language \in [Calls -> R!Languages]
  /\ MaxRetries \in Nat \ {0} /\ InitialBackoff \in Nat \ {0} /\ MaxTime \in Nat
  /\ Shl \in [0..MaxRetries -> Nat] /\ Shl[0] = 1
  /\ \A k \in 0..(MaxRetries - 1) : Shl[k + 1] = 2 * Shl[k]
  /\ Impl \in [Servers -> {"go", "rust"}] /\ NoServer \notin Servers
  /\ MaxStarts \in Nat /\ MaxLosses \in Nat
  /\ Payload \in [Calls -> S!Messages \ {"garbled"}]
  /\ \A e \in Errors : e \in R!AllErrors /\ e.code # "invalid_argument"

retryVars == <<now, status, attempt, last, wake, begun>>
serverVars == <<port, proc, starts, stage, at, answer, log, served>>
clientVars == <<link, exit, printed>>
vars == <<retryVars, serverVars, clientVars, losses, lastFault>>

Links == {"none", "dialing", "refused", "open", "lost", "done"}

\* The attempt a call is in, or that it waits after.
Current(c) == <<c, attempt[c]>>

Connect(c, k) == link' = [link EXCEPT ![<<c, k>>] = "dialing"]

BrokenErrors(c) == Errors \cap R!ErrorsOf(Language[c])

\* The codes a server answers with, as the client sees them.
AnsweredError(a) == [code |-> answer[a].code, chain |-> {}]

Init ==
  /\ R!Init
  /\ S!Init
  /\ link = [a \in Attempts |-> "none"]
  /\ exit = [c \in Calls |-> "running"]
  /\ printed = [c \in Calls |-> S!NoBody]
  /\ losses = 0
  /\ lastFault = 0

-----------------------------------------------------------------------------
(* The clients. *)

Begin(c) ==
  /\ R!Begin(c)
  /\ Connect(c, 0)
  /\ UNCHANGED <<serverVars, exit, printed, losses>>

Resume(c) ==
  /\ R!Resume(c)
  /\ attempt[c] + 1 < MaxRetries => Connect(c, attempt[c] + 1)
  /\ attempt[c] + 1 >= MaxRetries => UNCHANGED link
  /\ UNCHANGED <<serverVars, exit, printed, losses>>

\* The attempt returns error e: the loop gives up or waits.
Return(c, e) == R!GiveUp(c, e) \/ R!Backoff(c, e)

\* The answer arrives.
Receive(c) ==
  LET a == Current(c) IN
  /\ status[c] = "call" /\ link[a] = "open" /\ stage[a] = "answered"
  /\ IF answer[a].code = "ok" THEN R!Succeed(c) ELSE Return(c, AnsweredError(a))
  /\ link' = [link EXCEPT ![a] = "done"]
  /\ UNCHANGED <<serverVars, exit, printed, losses>>

\* Mutant: an attempt that takes long is given up as a transient failure, while
\* its connection and its request live on.
BugBreakImpatient(c) ==
  /\ status[c] = "call"
  /\ \/ link[Current(c)] \in {"refused", "open"} /\ \E e \in RefusedErrors(c) : Return(c, e)
     \/ link[Current(c)] = "lost" /\ \E e \in BrokenErrors(c) : Return(c, e)
  /\ UNCHANGED <<serverVars, clientVars, losses>>

\* The transport reports that the attempt failed.
Break(c) ==
  /\ status[c] = "call"
  /\ \/ link[Current(c)] = "refused" /\ \E e \in RefusedErrors(c) : Return(c, e)
     \/ link[Current(c)] = "lost" /\ \E e \in BrokenErrors(c) : Return(c, e)
  /\ UNCHANGED <<serverVars, clientVars, losses>>

\* main after the call: print the message, or report the error and exit 1.
\* The Python client validates the response first.
Accepts(c, body) == Language[c] = "python" => body # S!NoBody

\* Mutant: main prints without a look at the error.
BugExitBlind(c) ==
  /\ exit[c] = "running" /\ status[c] \in R!Settled
  /\ exit' = [exit EXCEPT ![c] = "success"]
  /\ printed' = [printed EXCEPT ![c] = answer[Current(c)].body]
  /\ UNCHANGED <<retryVars, serverVars, link, losses>>

Exit(c) ==
  /\ exit[c] = "running" /\ status[c] \in R!Settled
  /\ LET body == answer[Current(c)].body IN
     IF status[c] = "ok" /\ Accepts(c, body)
     THEN /\ exit' = [exit EXCEPT ![c] = "success"]
          /\ printed' = [printed EXCEPT ![c] = body]
     ELSE /\ exit' = [exit EXCEPT ![c] = "failure"]
          /\ UNCHANGED printed
  /\ UNCHANGED <<retryVars, serverVars, link, losses>>

-----------------------------------------------------------------------------
(* The network. *)

Dial(a) ==
  /\ link[a] = "dialing"
  /\ IF port # NoServer
     THEN link' = [link EXCEPT ![a] = "open"] /\ S!Accept(a)
     ELSE link' = [link EXCEPT ![a] = "refused"] /\ UNCHANGED serverVars
  /\ UNCHANGED <<retryVars, exit, printed, losses>>

\* The clients send header and body at once.  Each arrives, even if the client has
\* lost its end of the connection meanwhile; or it was lost, and the server gives
\* up the connection.
ReadHeader(a) == S!ReadHeader(a) /\ UNCHANGED <<retryVars, clientVars, losses>>
ReadBody(a) == S!ReadBody(a) /\ UNCHANGED <<retryVars, clientVars, losses>>

Drop(a) ==
  /\ link[a] = "lost"
  /\ S!Abandon(a) \/ S!Expire(a)
  /\ UNCHANGED <<retryVars, clientVars, losses>>

\* The connection breaks: before the server has the request, while the server
\* works on it, or with the answer under way.
Lose(a) ==
  /\ link[a] \in {"dialing", "open"}
  /\ losses < MaxLosses
  /\ link' = [link EXCEPT ![a] = "lost"]
  /\ losses' = losses + 1
  /\ UNCHANGED <<retryVars, serverVars, exit, printed>>

\* The client notices that the process that had its request is gone.
Reset(a) ==
  /\ link[a] = "open" /\ stage[a] = "killed"
  /\ link' = [link EXCEPT ![a] = "lost"]
  /\ UNCHANGED <<retryVars, serverVars, exit, printed, losses>>

-----------------------------------------------------------------------------
(* The servers, and time. *)

Start(s) == S!Start(s) /\ UNCHANGED <<retryVars, clientVars, losses>>
Crash(s) == S!Crash(s) /\ UNCHANGED <<retryVars, clientVars, losses>>
Serve(a) == S!Serve(a) /\ UNCHANGED <<retryVars, clientVars, losses>>
Tick == R!Tick /\ UNCHANGED <<serverVars, clientVars, losses>>

TrackFaults ==
  lastFault' = IF port = NoServer \/ port' = NoServer \/ losses' # losses
               THEN now' ELSE lastFault

Done == (\A c \in Calls : exit[c] # "running") /\ UNCHANGED vars

Next ==
  \/ /\ \/ \E c \in Calls : Begin(c) \/ Resume(c) \/ Receive(c) \/ Break(c) \/ Exit(c)
        \/ \E a \in Attempts : Dial(a) \/ ReadHeader(a) \/ ReadBody(a) \/ Drop(a)
                               \/ Lose(a) \/ Reset(a) \/ Serve(a)
        \/ \E s \in Servers : Start(s) \/ Crash(s)
        \/ Tick
     /\ TrackFaults
  \/ Done

Spec == Init /\ [][Next]_vars

\* Timers fire, processes run, a dial is answered, a request arrives, the kernel of a killed
\* process resets its connections.  Nothing obliges a server to be up.
Fairness ==
  /\ WF_vars(Tick /\ TrackFaults)
  /\ \A c \in Calls :
       /\ WF_vars(Begin(c) /\ TrackFaults) /\ WF_vars(Resume(c) /\ TrackFaults)
       /\ WF_vars(Receive(c) /\ TrackFaults) /\ WF_vars(Break(c) /\ TrackFaults)
       /\ WF_vars(Exit(c) /\ TrackFaults)
  /\ \A a \in Attempts :
       /\ WF_vars(Dial(a) /\ TrackFaults) /\ WF_vars(Reset(a) /\ TrackFaults)
       /\ WF_vars(link[a] = "open" /\ (ReadHeader(a) \/ ReadBody(a)) /\ TrackFaults)
       /\ WF_vars(Serve(a) /\ TrackFaults)

FairSpec == Spec /\ Fairness
-----------------------------------------------------------------------------
TypeOK ==
  /\ R!TypeOK
  /\ S!TypeOK
  /\ link \in [Attempts -> Links]
  /\ exit \in [Calls -> {"running", "success", "failure"}]
  /\ printed \in [Calls -> S!Bodies]
  /\ losses \in 0..MaxLosses
  /\ lastFault \in 0..now

\* A client that succeeds prints the greeting of the message it sent, which the
\* handler computed for the attempt that succeeded and which was logged as ok,
\* whatever became of its other attempts and of the servers they went to.
SuccessWasServed ==
  \A c \in Calls : exit[c] = "success" =>
    /\ printed[c] = S!Hello(Payload[c])
    /\ Payload[c] = "Jane"
    /\ served[Current(c)] = 1 /\ log[Current(c)] = <<"ok">>

\* The handler runs for two attempts of a call only if the connection of the
\* earlier one was lost: a retry alone never repeats a request that was answered.
RepeatNeedsLoss ==
  \A c \in Calls : \A i, j \in 0..(MaxRetries - 1) :
    i < j /\ served[c, i] > 0 /\ served[c, j] > 0 => link[c, i] = "lost"

\* An answer of a server, greeting or rejection, is the last word on its call.
AnswerIsFinal ==
  \A a \in Attempts : link[a] = "done" =>
    /\ attempt[a[1]] = a[2]
    /\ status[a[1]] = (IF answer[a].code = "ok" THEN "ok" ELSE "error")

\* A client reports a transient error only if the fault outlived the schedule of
\* waits: if a server is up and no connection is lost from before the end of the
\* schedule (15 s with the code's constants), no call ends in a transient error.
OutlivesShortOutage ==
  \A c \in Calls : status[c] = "error" /\ R!IsRetryable(c, last[c]) =>
    lastFault >= begun[c] + R!Budget(MaxRetries - 1)

\* Every client process ends, whatever the servers do.
EveryClientExits == \A c \in Calls : <>(exit[c] # "running")

\* Requests a call made the handler run for, and what became of the call.
Runs(c) == Cardinality({k \in 0..(MaxRetries - 1) : served[c, k] > 0})

Result(c) ==
  CASE exit[c] = "success" -> "greeted"
    [] exit[c] = "failure" -> IF last[c].code = "invalid_argument"
                              THEN "rejected" ELSE "failed"
    [] exit[c] = "running" -> IF status[c] = "idle" THEN "none" ELSE "pending"

Promise == INSTANCE AtLeastOnce WITH
  ValidCalls <- {c \in Calls : Payload[c] = "Jane"},
  MaxRuns    <- MaxRetries,
  runs       <- [c \in Calls |-> Runs(c)],
  result     <- [c \in Calls |-> Result(c)]

\* The system keeps the promise of AtLeastOnce to its callers.
KeepsPromise == Promise!Spec
=============================================================================
