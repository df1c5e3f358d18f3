---------------------------- MODULE RetryProofs ----------------------------
(***************************************************************************)
(* Proofs about Retry, for any set of calls, any number of attempts, any   *)
(* initial backoff and any set of errors.  CallInv is what the properties  *)
(* need in order to be inductive: it bounds the loop variable in every     *)
(* state, keeps the arithmetic of the waits across the whole loop, and     *)
(* says that a call that is waiting has not yet started a late attempt.    *)
(***************************************************************************)
EXTENDS Retry, TLAPS

CallInv(c) ==
  /\ status[c] # "tail"
  /\ attempt[c] <= MaxRetries - 1
  /\ status[c] = "wait" => attempt[c] < MaxRetries - 1
  /\ status[c] = "idle" => attempt[c] = 0 /\ late[c] = 0
  /\ status[c] = "call" => now >= begun[c] + Budget(attempt[c])
  /\ status[c] = "wait" => wake[c] >= begun[c] + Budget(attempt[c] + 1)
  /\ status[c] = "error" /\ IsRetryable(c, last[c]) =>
       /\ attempt[c] = MaxRetries - 1
       /\ now >= begun[c] + Budget(MaxRetries - 1)
  /\ late[c] <= 1
  /\ ~ctxDone[c] => late[c] = 0
  /\ ctxDone[c] => c \in Cancellable
  /\ status[c] = "wait" => late[c] = 0

IInv == TypeOK /\ \A c \in Calls : CallInv(c)

(***************************************************************************)
(* The arithmetic of the schedule: the waits before attempt k + 1 are the  *)
(* waits before attempt k and the delay chosen after it.                   *)
(***************************************************************************)
LEMMA BudgetStep ==
  /\ \A k \in 0..MaxRetries : Shl[k] \in Nat /\ Budget(k) \in Int
  /\ \A k \in 0..(MaxRetries - 1) : Delay(k) \in Nat
  /\ Budget(0) = 0
  /\ \A k \in 0..(MaxRetries - 1) : Budget(k + 1) = Budget(k) + Delay(k)
<1>1. \A k \in 0..MaxRetries : Shl[k] \in Nat
  BY ShlAssumption
<1>2. \A k \in 0..MaxRetries : Budget(k) \in Int
  BY <1>1, RetryAssumption DEF Budget
<1>3. \A k \in 0..(MaxRetries - 1) : Delay(k) \in Nat
  <2> SUFFICES ASSUME NEW k \in 0..(MaxRetries - 1) PROVE Delay(k) \in Nat
    OBVIOUS
  <2>1. k \in 0..MaxRetries
    BY RetryAssumption
  <2>2. \A x, y \in Nat : x * y \in Nat
    OBVIOUS
  <2> QED BY <2>1, <2>2, <1>1, RetryAssumption DEF Delay
<1>4. Budget(0) = 0
  BY ShlAssumption, RetryAssumption DEF Budget
<1>5. \A k \in 0..(MaxRetries - 1) : Budget(k + 1) = Budget(k) + Delay(k)
  <2> SUFFICES ASSUME NEW k \in 0..(MaxRetries - 1)
               PROVE Budget(k + 1) = Budget(k) + Delay(k)
    OBVIOUS
  <2>1. Shl[k + 1] = 2 * Shl[k]
    BY ShlAssumption
  <2>2. \A x, y \in Int : x * (2 * y - 1) = x * (y - 1) + x * y
    OBVIOUS
  <2>3. Shl[k] \in Int /\ InitialBackoff \in Int
    BY <1>1, RetryAssumption
  <2> QED BY <2>1, <2>2, <2>3 DEF Budget, Delay
<1> QED BY <1>1, <1>2, <1>3, <1>4, <1>5

LEMMA InitIInv == Init => IInv
  BY BudgetStep, RetryAssumption
  DEF Init, IInv, TypeOK, CallInv, Statuses, NoError, AllErrors, Codes

(***************************************************************************)
(* One lemma per action: the step keeps the invariant.                     *)
(***************************************************************************)
LEMMA BeginIInv == ASSUME IInv, NEW c \in Calls, Begin(c) PROVE IInv'
<1>1. TypeOK'
  BY RetryAssumption DEF IInv, TypeOK, Begin, CountLate, Statuses
<1>2. ASSUME NEW d \in Calls PROVE CallInv(d)'
  BY <1>2, BudgetStep, RetryAssumption
  DEF IInv, TypeOK, CallInv, Begin, CountLate, IsRetryable, Budget
<1> QED BY <1>1, <1>2 DEF IInv

LEMMA SucceedIInv == ASSUME IInv, NEW c \in Calls, Succeed(c) PROVE IInv'
<1>1. TypeOK'
  BY BudgetStep, RetryAssumption DEF IInv, TypeOK, CallInv, Succeed, Statuses
<1>2. ASSUME NEW d \in Calls PROVE CallInv(d)'
  BY <1>2, BudgetStep, RetryAssumption
  DEF IInv, TypeOK, CallInv, Succeed, IsRetryable, Budget
<1> QED BY <1>1, <1>2 DEF IInv

LEMMA GiveUpIInv ==
  ASSUME IInv, NEW c \in Calls, NEW e \in Errors, GiveUp(c, e) PROVE IInv'
<1>1. TypeOK'
  BY RetryAssumption DEF IInv, TypeOK, GiveUp, Statuses
<1>2. ASSUME NEW d \in Calls PROVE CallInv(d)'
  <2>1. CASE d = c
    <3>1. IsRetryable(c, e) => /\ attempt[c] = MaxRetries - 1
                               /\ now >= begun[c] + Budget(MaxRetries - 1)
      BY DEF IInv, CallInv, GiveUp, LastAttempt
    <3> QED
      BY <2>1, <3>1, RetryAssumption DEF IInv, TypeOK, CallInv, GiveUp, Budget, IsRetryable
  <2>2. CASE d # c
    BY <2>2 DEF IInv, TypeOK, CallInv, GiveUp, Budget, IsRetryable
  <2> QED BY <2>1, <2>2
<1> QED BY <1>1, <1>2 DEF IInv

LEMMA BackoffIInv ==
  ASSUME IInv, NEW c \in Calls, NEW e \in Errors, Backoff(c, e) PROVE IInv'
<1>1. attempt[c] \in 0..(MaxRetries - 1) /\ attempt[c] < MaxRetries - 1
  BY RetryAssumption DEF IInv, TypeOK, CallInv, Backoff, LastAttempt
<1>2. Delay(attempt[c]) \in Nat
  BY <1>1, BudgetStep
<1>3. TypeOK'
  BY <1>2, RetryAssumption DEF IInv, TypeOK, Backoff, Statuses
<1>4. ASSUME NEW d \in Calls PROVE CallInv(d)'
  <2>1. CASE d = c
    <3>1. Budget(attempt[c] + 1) = Budget(attempt[c]) + Delay(attempt[c])
      BY <1>1, BudgetStep
    <3>2. now + Delay(attempt[c]) >= begun[c] + Budget(attempt[c] + 1)
      BY <1>1, <1>2, <3>1, BudgetStep, RetryAssumption DEF IInv, TypeOK, CallInv, Backoff
    <3> QED
      BY <2>1, <1>1, <3>2, RetryAssumption DEF IInv, TypeOK, CallInv, Backoff, Budget, IsRetryable
  <2>2. CASE d # c
    BY <2>2 DEF IInv, TypeOK, CallInv, Backoff, Budget, IsRetryable
  <2> QED BY <2>1, <2>2
<1> QED BY <1>3, <1>4 DEF IInv

LEMMA ResumeIInv == ASSUME IInv, NEW c \in Calls, Resume(c) PROVE IInv'
<1>1. attempt[c] \in 0..(MaxRetries - 1) /\ attempt[c] + 1 \in 0..(MaxRetries - 1)
  BY RetryAssumption DEF IInv, TypeOK, CallInv, Resume
<1>2. status' = [status EXCEPT ![c] = "call"] /\ CountLate(c)
  BY <1>1, RetryAssumption DEF Resume
<1>3. TypeOK'
  BY <1>1, <1>2, RetryAssumption DEF IInv, TypeOK, Resume, CountLate, Statuses
<1>4. ASSUME NEW d \in Calls PROVE CallInv(d)'
  <2>1. CASE d = c
    <3>1. now >= begun[c] + Budget(attempt[c] + 1)
      BY <1>1, BudgetStep DEF IInv, TypeOK, CallInv, Resume
    <3> QED
      BY <2>1, <1>1, <1>2, <3>1, RetryAssumption
      DEF IInv, TypeOK, CallInv, Resume, CountLate, Budget, IsRetryable
  <2>2. CASE d # c
    BY <2>2, <1>2 DEF IInv, TypeOK, CallInv, Resume, CountLate, Budget, IsRetryable
  <2> QED BY <2>1, <2>2
<1> QED BY <1>3, <1>4 DEF IInv

LEMMA AbortIInv == ASSUME IInv, NEW c \in Calls, Abort(c) PROVE IInv'
<1>1. TypeOK'
  BY BudgetStep, RetryAssumption DEF IInv, TypeOK, CallInv, Abort, Statuses
<1>2. ASSUME NEW d \in Calls PROVE CallInv(d)'
  BY <1>2, BudgetStep, RetryAssumption
  DEF IInv, TypeOK, CallInv, Abort, IsRetryable, Budget
<1> QED BY <1>1, <1>2 DEF IInv

LEMMA CancelIInv == ASSUME IInv, NEW c \in Calls, Cancel(c) PROVE IInv'
<1>1. TypeOK'
  BY BudgetStep, RetryAssumption DEF IInv, TypeOK, CallInv, Cancel, Statuses
<1>2. ASSUME NEW d \in Calls PROVE CallInv(d)'
  BY <1>2, BudgetStep, RetryAssumption
  DEF IInv, TypeOK, CallInv, Cancel, IsRetryable, Budget
<1> QED BY <1>1, <1>2 DEF IInv

LEMMA TickIInv == ASSUME IInv, Tick PROVE IInv'
<1>1. TypeOK'
  BY BudgetStep, RetryAssumption DEF IInv, TypeOK, CallInv, Tick, Statuses
<1>2. ASSUME NEW d \in Calls PROVE CallInv(d)'
  BY <1>2, BudgetStep, RetryAssumption
  DEF IInv, TypeOK, CallInv, Tick, IsRetryable, Budget
<1> QED BY <1>1, <1>2 DEF IInv

LEMMA NextIInv == IInv /\ [Next]_vars => IInv'
<1> SUFFICES ASSUME IInv, [Next]_vars PROVE IInv'
  OBVIOUS
<1>1. ASSUME NEW c \in Calls, Begin(c) PROVE IInv'
  BY <1>1, BeginIInv
<1>2. ASSUME NEW c \in Calls, Succeed(c) PROVE IInv'
  BY <1>2, SucceedIInv
<1>3. ASSUME NEW c \in Calls, NEW e \in Errors, GiveUp(c, e) PROVE IInv'
  BY <1>3, GiveUpIInv
<1>4. ASSUME NEW c \in Calls, NEW e \in Errors, Backoff(c, e) PROVE IInv'
  BY <1>4, BackoffIInv
<1>5. ASSUME NEW c \in Calls, Resume(c) PROVE IInv'
  BY <1>5, ResumeIInv
<1>6. ASSUME NEW c \in Calls, Abort(c) PROVE IInv'
  BY <1>6, AbortIInv
<1>7. ASSUME NEW c \in Calls, Cancel(c) PROVE IInv'
  BY <1>7, CancelIInv
<1>8. CASE Tick
  BY <1>8, TickIInv
<1>9. CASE UNCHANGED vars
  BY <1>9 DEF vars, IInv, TypeOK, CallInv, IsRetryable, Budget
<1> QED
  BY <1>1, <1>2, <1>3, <1>4, <1>5, <1>6, <1>7, <1>8, <1>9 DEF Next, Done

\* In every reachable state each call is where the loop's bound and its schedule put it.
THEOREM Invariance == Spec => []IInv
BY InitIInv, NextIInv, PTL DEF Spec

(***************************************************************************)
(* Every variable keeps its type.                                          *)
(***************************************************************************)
THEOREM TypeCorrect == Spec => []TypeOK
<1>1. IInv => TypeOK
  BY DEF IInv
<1> QED BY <1>1, Invariance, PTL

(***************************************************************************)
(* The code after the loop is unreachable: Rust's expect() never panics    *)
(* and Go never returns a nil error with a nil response.                   *)
(***************************************************************************)
THEOREM NeverInTail == Spec => []TailUnreachable
<1>1. IInv => TailUnreachable
  BY DEF IInv, CallInv, TailUnreachable
<1> QED BY <1>1, Invariance, PTL

(***************************************************************************)
(* No attempt starts before the schedule of waits allows it.               *)
(***************************************************************************)
THEOREM KeepsSchedule == Spec => []BackoffFloor
<1>1. IInv => BackoffFloor
  BY DEF IInv, CallInv, BackoffFloor
<1> QED BY <1>1, Invariance, PTL

(***************************************************************************)
(* A transient error is reported only after every attempt and every wait.  *)
(***************************************************************************)
THEOREM SpendsItsBudget == Spec => []TransientMeansSpent
<1>1. IInv => TransientMeansSpent
  BY DEF IInv, CallInv, TransientMeansSpent
<1> QED BY <1>1, Invariance, PTL

(***************************************************************************)
(* At most one attempt starts after the context is done.                   *)
(***************************************************************************)
THEOREM OneLateAttempt == Spec => []AbortsPromptly
<1>1. IInv => AbortsPromptly
  BY DEF IInv, CallInv, AbortsPromptly
<1> QED BY <1>1, Invariance, PTL

(***************************************************************************)
(* Refinement.  tries and outcome below are the images of the state under  *)
(* the mapping of Call; a step of the loop for call c leaves the images of *)
(* the other calls alone.                                                  *)
(***************************************************************************)
TriesBar == [c \in Calls |-> Tries(c)]
OutcomeBar == [c \in Calls |-> Outcome(c)]

LEMMA ImageOfCall ==
  ASSUME NEW c \in Calls
  PROVE  /\ status[c] = "idle" => Tries(c) = 0 /\ Outcome(c) = "none"
         /\ status[c] # "idle" => Tries(c) = attempt[c] + 1
         /\ status[c] \in {"call", "wait"} => Outcome(c) = "pending"
         /\ status[c] = "ok" => Outcome(c) = "ok"
         /\ status[c] = "aborted" => Outcome(c) = "aborted"
         /\ status[c] = "error" /\ IsRetryable(c, last[c]) => Outcome(c) = "exhausted"
         /\ status[c] = "error" /\ ~IsRetryable(c, last[c]) => Outcome(c) = "refused"
  BY DEF Tries, Outcome

LEMMA ImageOfNextCall ==
  ASSUME NEW c \in Calls
  PROVE  /\ status'[c] = "idle" => Tries(c)' = 0 /\ Outcome(c)' = "none"
         /\ status'[c] # "idle" => Tries(c)' = attempt'[c] + 1
         /\ status'[c] \in {"call", "wait"} => Outcome(c)' = "pending"
         /\ status'[c] = "ok" => Outcome(c)' = "ok"
         /\ status'[c] = "aborted" => Outcome(c)' = "aborted"
         /\ status'[c] = "error" /\ IsRetryable(c, last'[c]) => Outcome(c)' = "exhausted"
         /\ status'[c] = "error" /\ ~IsRetryable(c, last'[c]) => Outcome(c)' = "refused"
  BY DEF Tries, Outcome, IsRetryable

\* An image that changes at c only, or nowhere.
LEMMA ImageElsewhere ==
  ASSUME NEW c \in Calls,
         \A d \in Calls \ {c} : /\ status'[d] = status[d]
                                /\ attempt'[d] = attempt[d]
                                /\ last'[d] = last[d]
  PROVE  /\ TriesBar' = [TriesBar EXCEPT ![c] = Tries(c)']
         /\ OutcomeBar' = [OutcomeBar EXCEPT ![c] = Outcome(c)']
<1>1. ASSUME NEW d \in Calls \ {c}
      PROVE  Tries(d)' = Tries(d) /\ Outcome(d)' = Outcome(d)
  BY <1>1 DEF Tries, Outcome, IsRetryable
<1> QED BY <1>1 DEF TriesBar, OutcomeBar

LEMMA ImageUnchanged ==
  ASSUME UNCHANGED <<status, attempt, last>>
  PROVE  UNCHANGED <<TriesBar, OutcomeBar>>
  BY DEF TriesBar, OutcomeBar, Tries, Outcome, IsRetryable

LEMMA InitRefines == Init => Call!Init
  BY ImageOfCall DEF Init, Call!Init, Tries, Outcome

LEMMA TrySteps ==
  ASSUME IInv, IInv', NEW c \in Calls, Begin(c) \/ Resume(c)
  PROVE  Call!Try(c)
<1>1. /\ TriesBar' = [TriesBar EXCEPT ![c] = Tries(c)']
      /\ OutcomeBar' = [OutcomeBar EXCEPT ![c] = Outcome(c)']
  BY ImageElsewhere DEF IInv, TypeOK, Begin, Resume
<1>2. status'[c] = "call" /\ Tries(c)' = attempt'[c] + 1 /\ Outcome(c)' = "pending"
  BY ImageOfNextCall DEF IInv, TypeOK, CallInv, Begin, Resume
<1>3. Outcome(c) \in {"none", "pending"} /\ Tries(c) = attempt'[c]
  BY ImageOfCall DEF IInv, TypeOK, CallInv, Begin, Resume
<1>4. Tries(c) < MaxRetries
  BY <1>3, RetryAssumption DEF IInv, TypeOK, CallInv
<1> QED BY <1>1, <1>2, <1>3, <1>4 DEF Call!Try, TriesBar, OutcomeBar

LEMMA SettleSteps ==
  ASSUME IInv, IInv', NEW c \in Calls, status[c] \in {"call", "wait"},
         status'[c] \in Settled, attempt' = attempt,
         \A d \in Calls \ {c} : status'[d] = status[d] /\ last'[d] = last[d],
         status'[c] = "aborted" => attempt[c] < MaxRetries - 1 /\ c \in Cancellable
  PROVE  \E o \in {"ok", "refused", "exhausted", "aborted"} : Call!Settle(c, o)
<1> DEFINE o == Outcome(c)'
<1>1. o \in {"ok", "refused", "exhausted", "aborted"}
  BY ImageOfNextCall DEF Settled
<1>2. o = "exhausted" => Tries(c) = MaxRetries
  <2>1. o = "exhausted" => status'[c] = "error" /\ IsRetryable(c, last'[c])
    BY ImageOfNextCall DEF Settled
  <2>2. o = "exhausted" => attempt[c] = MaxRetries - 1
    BY <2>1 DEF IInv, CallInv, IsRetryable
  <2> QED BY <2>2, ImageOfCall, RetryAssumption DEF IInv, TypeOK
<1>3. o = "aborted" => c \in Cancellable /\ Tries(c) < MaxRetries
  <2>1. o = "aborted" => status'[c] = "aborted"
    BY ImageOfNextCall DEF Settled
  <2> QED BY <2>1, ImageOfCall, RetryAssumption DEF IInv, TypeOK
<1>4. Outcome(c) = "pending"
  BY ImageOfCall
<1>5. Tries(c)' = Tries(c)
  BY ImageOfCall, ImageOfNextCall DEF Settled
<1>6. /\ TriesBar' = [TriesBar EXCEPT ![c] = Tries(c)']
      /\ OutcomeBar' = [OutcomeBar EXCEPT ![c] = o]
  BY ImageElsewhere
<1>7. TriesBar' = TriesBar
  BY <1>5, <1>6 DEF TriesBar
<1>8. Call!Settle(c, o)
  BY <1>2, <1>3, <1>4, <1>6, <1>7 DEF Call!Settle, TriesBar, OutcomeBar
<1> QED BY <1>1, <1>8

LEMMA NextRefines ==
  ASSUME IInv, IInv', [Next]_vars
  PROVE  [Call!Next]_(<<TriesBar, OutcomeBar>>)
<1>1. ASSUME NEW c \in Calls, Begin(c) \/ Resume(c) PROVE Call!Next
  BY <1>1, TrySteps DEF Call!Next
<1>2. ASSUME NEW c \in Calls, Succeed(c) PROVE Call!Next
  BY <1>2, SettleSteps DEF Call!Next, Succeed, Settled, IInv, TypeOK
<1>3. ASSUME NEW c \in Calls, NEW e \in Errors, GiveUp(c, e) PROVE Call!Next
  BY <1>3, SettleSteps DEF Call!Next, GiveUp, Settled, IInv, TypeOK
<1>4. ASSUME NEW c \in Calls, Abort(c) PROVE Call!Next
  BY <1>4, SettleSteps DEF Call!Next, Abort, Settled, IInv, TypeOK, CallInv
<1>5. ASSUME NEW c \in Calls, NEW e \in Errors, Backoff(c, e)
      PROVE  [Call!Next]_(<<TriesBar, OutcomeBar>>)
  <2>1. CASE ctxDone[c]
    <3>1. attempt[c] < MaxRetries - 1
      BY <1>5, RetryAssumption DEF Backoff, LastAttempt, IInv, TypeOK, CallInv
    <3> QED
      BY <1>5, <2>1, <3>1, SettleSteps
      DEF Call!Next, Backoff, Settled, IInv, TypeOK, CallInv
  <2>2. CASE ~ctxDone[c]
    <3>1. status[c] = "call" /\ status'[c] = "wait" /\ attempt' = attempt
      BY <1>5, <2>2 DEF Backoff, IInv, TypeOK
    <3>2. Tries(c)' = Tries(c) /\ Outcome(c)' = Outcome(c)
      BY <3>1, ImageOfCall, ImageOfNextCall
    <3>3. /\ TriesBar' = [TriesBar EXCEPT ![c] = Tries(c)']
          /\ OutcomeBar' = [OutcomeBar EXCEPT ![c] = Outcome(c)']
      BY <1>5, ImageElsewhere DEF Backoff, IInv, TypeOK
    <3> QED BY <3>2, <3>3 DEF TriesBar, OutcomeBar
  <2> QED BY <2>1, <2>2
<1>6. ASSUME NEW c \in Calls, Cancel(c) PROVE UNCHANGED <<TriesBar, OutcomeBar>>
  BY <1>6, ImageUnchanged DEF Cancel
<1>7. CASE Tick
  BY <1>7, ImageUnchanged DEF Tick
<1>8. CASE UNCHANGED vars
  BY <1>8, ImageUnchanged DEF vars
<1> QED
  BY <1>1, <1>2, <1>3, <1>4, <1>5, <1>6, <1>7, <1>8 DEF Next, Done

(***************************************************************************)
(* The loop implements the abstract call, whatever the language: one       *)
(* outcome, never changed, after at most MaxRetries tries; "exhausted" only *)
(* after the last of them.                                                 *)
(***************************************************************************)
THEOREM LoopImplementsCall == Spec => ImplementsUnaryCall
<1>1. Init => Call!Init
  BY InitRefines
<1>2. IInv /\ IInv' /\ [Next]_vars => [Call!Next]_(Call!vars)
  BY NextRefines DEF Call!vars, TriesBar, OutcomeBar
<1> QED BY <1>1, <1>2, Invariance, PTL DEF Spec, ImplementsUnaryCall, Call!Spec
=============================================================================
