------------------------------- MODULE Retry -------------------------------
(***************************************************************************)
(* The retry loop around a unary RPC, written three times in this          *)
(* repository:                                                             *)
(*   go      go/echo/cmd/client/retry.go     retryUnary, waitBackoff       *)
(*   rust    rust/echo/client/src/retry.rs   with_retry                    *)
(*   python  python/echo/client/retry.py     intercept_unary_sync          *)
(* The control is the same in the three languages and is modelled once;    *)
(* which errors are transient differs and is modelled per language.  The   *)
(* unit of time is the unit of InitialBackoff, one second.  What happens   *)
(* to an attempt between its start and its answer is left open here (it    *)
(* may answer anything, at any time, or never); EchoSystem fills it in.    *)
(***************************************************************************)
EXTENDS Integers, FiniteSets

CONSTANTS
  Calls,           \* the calls in progress, each in a retry loop of its own
  Language,        \* [Calls -> Languages], the client that makes the call
  MaxRetries,      \* attempts per call, the first one included
  InitialBackoff,  \* the wait after the first attempt
  Shl,             \* Shl[k] is 1 << k, given as a function (2^k)
  Errors,          \* the errors an attempt may return
  Cancellable,     \* calls whose context may be cancelled or time out
  MaxTime          \* bound: idle time does not pass after this instant

Languages == {"go", "rust", "python"}

(***************************************************************************)
(* An error is what the three classifiers look at: the Connect code, or    *)
(* "none" when it is not a Connect error, and what its chain of wrapped    *)
(* errors contains: "ctx" (context.Canceled or DeadlineExceeded),          *)
(* "timeout" (a net.Error whose Timeout() is true, a TimeoutError), "op"   *)
(* (a *net.OpError, an OSError or ConnectionError).  The code "unknown"    *)
(* stands for every code that neither a classifier nor a server names.     *)
(***************************************************************************)
Codes == {"unavailable", "resource_exhausted", "invalid_argument", "unknown", "none"}
AllErrors == [code : Codes, chain : SUBSET {"ctx", "timeout", "op"}]
NoError == [code |-> "none", chain |-> {}]

ErrorsOf(lang) ==
  CASE lang = "go"     -> AllErrors
    [] lang = "rust"   -> {e \in AllErrors : e.code # "none" /\ e.chain = {}}
    [] lang = "python" -> {e \in AllErrors : IF e.code = "none"
                                             THEN "ctx" \notin e.chain
                                             ELSE e.chain = {}}

ASSUME RetryAssumption ==
  /\ Language \in [Calls -> Languages]
  /\ MaxRetries \in Nat \ {0}
  /\ InitialBackoff \in Nat \ {0}
  /\ Errors \subseteq AllErrors
  /\ Cancellable \subseteq {c \in Calls : Language[c] = "go"}
  /\ MaxTime \in Nat

ASSUME ShlAssumption ==
  /\ Shl \in [0..MaxRetries -> Nat]
  /\ Shl[0] = 1
  /\ \A k \in 0..(MaxRetries - 1) : Shl[k + 1] = 2 * Shl[k]

Transient == {"unavailable", "resource_exhausted"}
Transport == {"timeout", "op"}

GoRetryable(e) ==
  /\ "ctx" \notin e.chain
  /\ e.code \in Transient \/ e.chain \cap Transport # {}

\* Mutant: every Connect error is taken for transient.
BugRetriesAll(e) == e.code # "none"

RustRetryable(e) == e.code \in Transient

PythonRetryable(e) ==
  IF e.code # "none" THEN e.code \in Transient ELSE e.chain \cap Transport # {}

IsRetryable(c, e) ==
  \/ Language[c] = "go"     /\ GoRetryable(e)
  \/ Language[c] = "rust"   /\ RustRetryable(e)
  \/ Language[c] = "python" /\ PythonRetryable(e)

\* Mutants: a delay that does not grow; a delay kept in three bits, signed.
BugConstantDelay(k) == InitialBackoff
BugNarrowDelay(k) == ((InitialBackoff * Shl[k] + 4) % 8) - 4

Delay(k) == InitialBackoff * Shl[k]

-----------------------------------------------------------------------------
VARIABLES
  now,      \* the clock
  status,   \* where the call's loop is, see Statuses
  attempt,  \* the loop variable
  last,     \* the last error seen, the one reported
  wake,     \* when the backoff timer fires
  ctxDone,  \* the call's context is cancelled or past its deadline
  begun,    \* (history) when the first attempt started
  late      \* (history) attempts started with the context already done

vars == <<now, status, attempt, last, wake, ctxDone, begun, late>>

\* "tail" is the code after the loop (return last, expect(), raise).
Statuses == {"idle", "call", "wait", "ok", "error", "aborted", "tail"}
Settled == {"ok", "error", "aborted"}

Init ==
  /\ now = 0
  /\ status = [c \in Calls |-> "idle"]
  /\ attempt = [c \in Calls |-> 0]
  /\ last = [c \in Calls |-> NoError]
  /\ wake = [c \in Calls |-> 0]
  /\ ctxDone = [c \in Calls |-> FALSE]
  /\ begun = [c \in Calls |-> 0]
  /\ late = [c \in Calls |-> 0]

\* Starting an attempt, the first or a later one: next(ctx, req).
CountLate(c) == late' = [late EXCEPT ![c] = IF ctxDone[c] THEN @ + 1 ELSE @]

Begin(c) ==
  /\ status[c] = "idle"
  /\ status' = [status EXCEPT ![c] = "call"]
  /\ begun' = [begun EXCEPT ![c] = now]
  /\ CountLate(c)
  /\ UNCHANGED <<now, attempt, last, wake, ctxDone>>

Succeed(c) ==
  /\ status[c] = "call"
  /\ status' = [status EXCEPT ![c] = "ok"]
  /\ UNCHANGED <<now, attempt, last, wake, ctxDone, begun, late>>

\* Mutants: the bound is off by one, upwards and downwards.
BugOneTooMany(c) == attempt[c] = MaxRetries
BugOneTooFew(c) == attempt[c] = MaxRetries - 2

LastAttempt(c) == attempt[c] = MaxRetries - 1

\* The attempt failed and the loop returns the error.
GiveUp(c, e) ==
  /\ status[c] = "call"
  /\ ~IsRetryable(c, e) \/ LastAttempt(c)
  /\ status' = [status EXCEPT ![c] = "error"]
  /\ last' = [last EXCEPT ![c] = e]
  /\ UNCHANGED <<now, attempt, wake, ctxDone, begun, late>>

\* Mutant: the wait does not look at the context when it starts.
BugDeafBackoff(c, e) ==
  /\ status[c] = "call"
  /\ IsRetryable(c, e) /\ ~LastAttempt(c)
  /\ status' = [status EXCEPT ![c] = "wait"]
  /\ last' = [last EXCEPT ![c] = e]
  /\ wake' = [wake EXCEPT ![c] = now + Delay(attempt[c])]
  /\ UNCHANGED <<now, attempt, ctxDone, begun, late>>

\* The attempt failed and the loop waits.  The timer was started this instant,
\* so a context that is done already is the only branch the select can take.
Backoff(c, e) ==
  /\ status[c] = "call"
  /\ IsRetryable(c, e) /\ ~LastAttempt(c)
  /\ status' = [status EXCEPT ![c] = IF ctxDone[c] THEN "aborted" ELSE "wait"]
  /\ last' = [last EXCEPT ![c] = e]
  /\ wake' = [wake EXCEPT ![c] = now + Delay(attempt[c])]
  /\ UNCHANGED <<now, attempt, ctxDone, begun, late>>

\* Mutant: the select has lost its timer branch.
BugNoTimer(c) ==
  /\ status[c] = "wait" /\ ctxDone[c] /\ attempt[c] + 1 < MaxRetries
  /\ attempt' = [attempt EXCEPT ![c] = @ + 1]
  /\ status' = [status EXCEPT ![c] = "call"] /\ CountLate(c)
  /\ UNCHANGED <<now, last, wake, ctxDone, begun>>

\* The timer branch: also possible when the context is done as well.
Resume(c) ==
  /\ status[c] = "wait"
  /\ now >= wake[c]
  /\ attempt' = [attempt EXCEPT ![c] = @ + 1]
  /\ IF attempt[c] + 1 < MaxRetries
     THEN status' = [status EXCEPT ![c] = "call"] /\ CountLate(c)
     ELSE status' = [status EXCEPT ![c] = "tail"] /\ UNCHANGED late
  /\ UNCHANGED <<now, last, wake, ctxDone, begun>>

\* Mutant: an aborted wait reports the last error alone.
BugBareAbort(c) ==
  /\ status[c] = "wait" /\ ctxDone[c]
  /\ status' = [status EXCEPT ![c] = "error"]
  /\ UNCHANGED <<now, attempt, last, wake, ctxDone, begun, late>>

\* The ctx.Done() branch: errors.Join(last, errRetryAborted, ctx.Err()).
Abort(c) ==
  /\ status[c] = "wait"
  /\ ctxDone[c]
  /\ status' = [status EXCEPT ![c] = "aborted"]
  /\ UNCHANGED <<now, attempt, last, wake, ctxDone, begun, late>>

\* The caller cancels the context, or its deadline passes.
Cancel(c) ==
  /\ c \in Cancellable
  /\ ~ctxDone[c]
  /\ status[c] \notin Settled
  /\ ctxDone' = [ctxDone EXCEPT ![c] = TRUE]
  /\ UNCHANGED <<now, status, attempt, last, wake, begun, late>>

\* Time passes.  After MaxTime it passes only for a timer that is running.
Tick ==
  /\ now < MaxTime \/ \E c \in Calls : status[c] = "wait" /\ now < wake[c]
  /\ now' = now + 1
  /\ UNCHANGED <<status, attempt, last, wake, ctxDone, begun, late>>

Done ==
  /\ \A c \in Calls : status[c] \in Settled
  /\ UNCHANGED vars

Next ==
  \/ \E c \in Calls :
       \/ Begin(c) \/ Succeed(c) \/ Resume(c) \/ Abort(c) \/ Cancel(c)
       \/ \E e \in Errors \cap ErrorsOf(Language[c]) : GiveUp(c, e)
       \/ \E e \in Errors \cap ErrorsOf(Language[c]) : Backoff(c, e)
  \/ Tick
  \/ Done

Spec == Init /\ [][Next]_vars

\* What the client itself guarantees: its timers fire, its select returns.
\* Nothing is assumed of the answer to an attempt, or of the caller.
ClientFairness ==
  /\ WF_vars(Tick)
  /\ \A c \in Calls : WF_vars(Begin(c)) /\ WF_vars(Resume(c)) /\ WF_vars(Abort(c))

FairSpec == Spec /\ ClientFairness
-----------------------------------------------------------------------------
TypeOK ==
  /\ now \in Nat
  /\ status \in [Calls -> Statuses]
  /\ attempt \in [Calls -> 0..MaxRetries]
  /\ last \in [Calls -> AllErrors]
  /\ wake \in [Calls -> Nat]
  /\ ctxDone \in [Calls -> BOOLEAN]
  /\ begun \in [Calls -> Nat]
  /\ late \in [Calls -> Nat]

\* The loop never runs off its end: the code after it (Go's `return nil, last`,
\* Rust's `last.expect(..)` panic, Python's RuntimeError) is dead, because the
\* last attempt always returns from inside the loop.
TailUnreachable == \A c \in Calls : status[c] # "tail"

\* What the waits before attempt k add up to, 1 + 2 + .. + 2^(k-1) initial backoffs.
Budget(k) == InitialBackoff * (Shl[k] - 1)

\* Attempt k starts no sooner than the whole schedule of waits before it allows
\* (1s, 2s, 4s, 8s: the fifth attempt 15s after the first), whatever the
\* attempts themselves took and however the timers were delayed.
BackoffFloor ==
  \A c \in Calls :
    /\ status[c] = "call" => now >= begun[c] + Budget(attempt[c])
    /\ status[c] = "wait" => wake[c] >= begun[c] + Budget(attempt[c] + 1)

\* A transient error reaches the caller only when the loop has used every
\* attempt and waited the whole schedule, or when its context ended.
TransientMeansSpent ==
  \A c \in Calls :
    status[c] = "error" /\ IsRetryable(c, last[c]) =>
      /\ attempt[c] = MaxRetries - 1
      /\ now >= begun[c] + Budget(MaxRetries - 1)

\* However the select resolves the race between the timer and a context that
\* ends at the same moment, at most one attempt starts with the context done.
AbortsPromptly == \A c \in Calls : late[c] <= 1

\* The comment at go/echo/cmd/client/retry.go:76 says the rules on wrapped net
\* errors are for errors that are not Connect errors: a Connect error of a
\* permanent code is then never followed by a backoff.
OnlyNonConnectByTransport ==
  \A c \in Calls : status[c] = "wait" => last[c].code \in Transient \cup {"none"}

\* Every call settles, or is stuck in an attempt that never answers: there is no
\* deadline on an attempt, and nothing else in the loop can block for ever.
SettlesOrHangs ==
  \A c \in Calls : <>(status[c] \in Settled) \/ <>[](status[c] = "call")

\* The abstract call this loop implements.  A call in the tail has no image.
Tries(c) == IF status[c] = "idle" THEN 0 ELSE attempt[c] + 1

Outcome(c) ==
  CASE status[c] = "idle"               -> "none"
    [] status[c] \in {"call", "wait"}   -> "pending"
    [] status[c] \in {"ok", "aborted"}  -> status[c]
    [] status[c] = "error"              ->
         IF IsRetryable(c, last[c]) THEN "exhausted" ELSE "refused"
    [] status[c] = "tail"               -> "tail"

Call == INSTANCE UnaryCall WITH
  MaxTries <- MaxRetries,
  tries    <- [c \in Calls |-> Tries(c)],
  outcome  <- [c \in Calls |-> Outcome(c)]

\* The loop implements UnaryCall: one outcome per call, decided once, at most
\* MaxRetries tries, and "exhausted" only after the last of them.
ImplementsUnaryCall == Call!Spec
=============================================================================
