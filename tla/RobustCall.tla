----------------------------- MODULE RobustCall -----------------------------
(***************************************************************************)
(* One call of RobustProvider: try_operation_with_failover and what it     *)
(* runs, try_fallback_providers_from and try_provider_with_timeout, with   *)
(* the macro's unwrapping of the result.                                   *)
(*                                                                         *)
(* Each provider gets one deadline of CallTimeout that covers all of its   *)
(* attempts and the backoff sleeps between them.  A request and its answer *)
(* travel over a network that loses answers: a request whose answer did    *)
(* not arrive may have been executed by the node, or may be executed later.*)
(* A node may also answer with an error after it has executed the request. *)
(*                                                                         *)
(* Time is counted in ticks; the future of the call is cheap to poll, so   *)
(* only waiting takes time.                                                *)
(***************************************************************************)
EXTENDS RpcErrors

CONSTANTS NumFallbacks,     \* fallback_providers.len()
          MaxRetries,       \* max_retries: retries after the first attempt
          CallTimeout,      \* call_timeout, per provider
          MinDelay,         \* min_delay: the first backoff delay
          MaxDelay,         \* the cap of backon's ExponentialBuilder
          Replies,          \* the errors an attempt may be answered with
          OrBlockNotFound   \* whether the method is declared `; or BlockNotFound`

ASSUME RobustCallAssumption ==
    /\ NumFallbacks \in Nat /\ MaxRetries \in Nat
    /\ CallTimeout \in Nat /\ MinDelay \in Nat /\ MaxDelay \in Nat
    /\ Replies \subseteq RpcErrorValues
    /\ OrBlockNotFound \in BOOLEAN

VARIABLES pc,          \* "attempt": awaiting the node; "backoff": sleeping; "done"
          provider,    \* 0 is the primary, i is fallback_providers[i - 1]
          retries,     \* retries taken on this provider
          delay,       \* the backoff's current delay, 0 before the first retry
          wait,        \* what is left of the sleep
          spent,       \* time since this provider's timeout() was entered
          last_error,  \* the error of the last provider that failed
          result,      \* what the caller sees
          landed,      \* the node has executed the request of this attempt
          executed,    \* executions by all the nodes
          stray,       \* abandoned requests that may still be executed
          failures,    \* attempts that ended without a value (history)
          elapsed      \* time since the call began

control == <<pc, provider, retries, delay, wait, spent>>

ending == <<last_error, result>>

network == <<landed, executed, stray, failures>>

vars == <<control, ending, network, elapsed>>

Providers == 0..NumFallbacks

TypeOK ==
    /\ pc \in {"attempt", "backoff", "done"}
    /\ provider \in Providers
    /\ retries \in 0..MaxRetries
    /\ delay \in Nat /\ wait \in Nat /\ spent \in Nat /\ elapsed \in Nat
    /\ last_error \in FailoverErrors
    /\ result \in {"Pending", "Value", "Timeout", "BlockNotFound", "RpcError", "Closed"}
    /\ landed \in BOOLEAN
    /\ executed \in Nat /\ stray \in Nat /\ failures \in Nat

Init ==
    /\ pc = "attempt" /\ provider = 0
    /\ retries = 0 /\ delay = 0 /\ wait = 0 /\ spent = 0
    /\ last_error = Elapsed          \* not read before a provider has failed
    /\ result = "Pending"
    /\ landed = FALSE /\ executed = 0 /\ stray = 0 /\ failures = 0
    /\ elapsed = 0

-----------------------------------------------------------------------------
(* The nodes and the network.                                              *)

\* The node executes the request of the current attempt.
Land ==
    /\ pc = "attempt" /\ ~landed
    /\ landed' = TRUE
    /\ executed' = executed + 1
    /\ UNCHANGED <<control, ending, stray, failures, elapsed>>

\* A request nobody waits for any longer is executed all the same.
LandStray ==
    /\ stray > 0
    /\ stray' = stray - 1
    /\ executed' = executed + 1
    /\ UNCHANGED <<control, ending, landed, failures, elapsed>>

\* The attempt ends without the node's answer: the request may be on its way.
LoseAnswer ==
    /\ failures' = failures + 1
    /\ stray' = IF landed THEN stray ELSE stray + 1
    /\ landed' = FALSE
    /\ UNCHANGED executed

\* The attempt ends with an error and leaves no request behind, executed or not.
FailSettled ==
    /\ failures' = failures + 1
    /\ landed' = FALSE
    /\ UNCHANGED <<executed, stray>>

\* An error response proves nothing about the execution: the send_..._sync
\* methods may answer one for a transaction they have sent.  The other local
\* errors are an answer that cannot be read, or a request that was never sent.
\* After a transport error the request may still be on its way.
AttemptFails(e) ==
    /\ pc = "attempt"
    /\ \/ e.kind \in {"ErrorResp", "Other"} /\ FailSettled
       \/ e.kind = "Transport" /\ LoseAnswer

-----------------------------------------------------------------------------
(* The code.  (A definition named Mutant... is the one below it with a     *)
(* plausible mistake; it is not part of Spec.)                             *)

\* The delays of ExponentialBuilder: MinDelay, then twice the one before,
\* capped at MaxDelay; no jitter.
NextDelay ==
    IF retries = 0 THEN MinDelay
    ELSE IF 2 * delay > MaxDelay THEN MaxDelay ELSE 2 * delay

\* `; or BlockNotFound` turns Ok(None) into an error; otherwise it is a value.
Unwrap(answer) ==
    IF answer = "None" /\ OrBlockNotFound THEN "BlockNotFound" ELSE "Value"

\* Ok(value): the first answer ends the call, Ok(None) included.
Succeed ==
    /\ pc = "attempt" /\ landed
    /\ \E answer \in {"Some", "None"} : result' = Unwrap(answer)
    /\ pc' = "done"
    /\ UNCHANGED <<provider, retries, delay, wait, spent, last_error, network, elapsed>>

\* Mutants of Retry: one retry too many; the deadline starts anew with every
\* attempt; the sleep does not grow; Ok(None) is retried like an error.
MutantRetryOnceMore ==
    \E e \in Replies :
        /\ AttemptFails(e)
        /\ ShouldRetry(e) /\ retries <= MaxRetries
        /\ pc' = "backoff"
        /\ retries' = retries + 1
        /\ delay' = NextDelay /\ wait' = NextDelay
        /\ UNCHANGED <<provider, spent, ending, elapsed>>

MutantRetryAnew ==
    \E e \in Replies :
        /\ AttemptFails(e)
        /\ ShouldRetry(e) /\ retries < MaxRetries
        /\ pc' = "backoff" /\ spent' = 0
        /\ retries' = retries + 1
        /\ delay' = NextDelay /\ wait' = NextDelay
        /\ UNCHANGED <<provider, ending, elapsed>>

MutantRetryFlat ==
    \E e \in Replies :
        /\ AttemptFails(e)
        /\ ShouldRetry(e) /\ retries < MaxRetries
        /\ pc' = "backoff"
        /\ retries' = retries + 1
        /\ delay' = NextDelay /\ wait' = MinDelay
        /\ UNCHANGED <<provider, spent, ending, elapsed>>

MutantRetryNone ==
    /\ pc = "attempt" /\ landed /\ retries < MaxRetries
    /\ pc' = "backoff" /\ landed' = FALSE
    /\ retries' = retries + 1
    /\ delay' = NextDelay /\ wait' = NextDelay
    /\ UNCHANGED <<provider, spent, ending, executed, stray, failures, elapsed>>

\* The error is retryable and retries are left: sleep, then try again.
Retry ==
    \E e \in Replies :
        /\ AttemptFails(e)
        /\ ShouldRetry(e) /\ retries < MaxRetries
        /\ pc' = "backoff"
        /\ retries' = retries + 1
        /\ delay' = NextDelay /\ wait' = NextDelay
        /\ UNCHANGED <<provider, spent, ending, elapsed>>

\* Mutant of TryNextFallback: a fallback is skipped.
MutantSkipFallback(e) ==
    /\ provider + 2 <= NumFallbacks
    /\ provider' = provider + 2
    /\ pc' = "attempt" /\ retries' = 0 /\ delay' = 0 /\ wait' = 0 /\ spent' = 0
    /\ last_error' = e
    /\ UNCHANGED <<result, elapsed>>

\* The next fallback starts from the beginning, with a deadline of its own.
TryNextFallback(e) ==
    /\ provider < NumFallbacks
    /\ provider' = provider + 1
    /\ pc' = "attempt" /\ retries' = 0 /\ delay' = 0 /\ wait' = 0 /\ spent' = 0
    /\ last_error' = e
    /\ UNCHANGED <<result, elapsed>>

\* Mutant of Exhausted: the error of the provider before is returned.
MutantExhausted(e) ==
    /\ provider = NumFallbacks
    /\ pc' = "done"
    /\ last_error' = e
    /\ result' = ErrorFrom(last_error)
    /\ UNCHANGED <<provider, retries, delay, wait, spent, elapsed>>

\* "All providers exhausted": the last provider's error is returned.
Exhausted(e) ==
    /\ provider = NumFallbacks
    /\ pc' = "done"
    /\ last_error' = e
    /\ result' = ErrorFrom(e)
    /\ UNCHANGED <<provider, retries, delay, wait, spent, elapsed>>

ProviderFails(e) == TryNextFallback(e) \/ Exhausted(e)

\* The error is final for this provider: not retryable, or no retry is left.
GiveUp ==
    \E e \in Replies :
        /\ AttemptFails(e)
        /\ ~ShouldRetry(e) \/ retries = MaxRetries
        /\ ProviderFails(e)

\* Mutant of Wake: the backoff forgets how often it was asked.
MutantWake ==
    /\ pc = "backoff" /\ wait = 0
    /\ pc' = "attempt" /\ retries' = 0
    /\ UNCHANGED <<provider, delay, wait, spent, ending, network, elapsed>>

\* The sleep is over: the next attempt.
Wake ==
    /\ pc = "backoff" /\ wait = 0
    /\ pc' = "attempt"
    /\ UNCHANGED <<provider, retries, delay, wait, spent, ending, network, elapsed>>

\* timeout(call_timeout, ..) drops the attempt or the sleep it is in.
TimedOut ==
    /\ pc \in {"attempt", "backoff"} /\ spent = CallTimeout
    /\ IF pc = "attempt" THEN LoseAnswer ELSE UNCHANGED network
    /\ ProviderFails(Elapsed)

\* Time passes while the call waits; a timer that is due is served first.
Tick ==
    /\ pc \in {"attempt", "backoff"} /\ spent < CallTimeout
    /\ pc = "backoff" => wait > 0
    /\ spent' = spent + 1 /\ elapsed' = elapsed + 1
    /\ wait' = IF pc = "backoff" THEN wait - 1 ELSE wait
    /\ UNCHANGED <<pc, provider, retries, delay, ending, network>>

Next == Land \/ LandStray \/ Succeed \/ Retry \/ GiveUp \/ Wake \/ TimedOut \/ Tick

\* The runtime serves timers and polls woken futures; nodes owe nothing.
Fairness == WF_vars(Wake) /\ WF_vars(TimedOut) /\ WF_vars(Tick)

Spec == Init /\ [][Next]_vars /\ Fairness

-----------------------------------------------------------------------------
(* Properties.                                                             *)

\* Time is bounded, per provider and overall, however the nodes behave: no
\* sequence of attempts and sleeps escapes the provider's timeout, and the
\* call as a whole takes at most one call_timeout per provider.
DeadlineBound ==
    /\ spent <= CallTimeout
    /\ elapsed <= provider * CallTimeout + spent

\* Every execution but one is explained by an attempt that gave the caller no
\* value: it met an error, or its answer was unreadable, late or lost.  A value,
\* Ok(None) included, is never asked for a second time.
RepeatedForCause ==
    executed + stray <= failures + (IF landed THEN 1 ELSE 0)

\* The worst case of a call that is not idempotent (send_transaction): the
\* executions it causes, the ones still under way included.
ExecutionBudget ==
    executed + stray <= (NumFallbacks + 1) * (MaxRetries + 1)

\* The retries of one provider are spaced out exponentially: when the delay
\* has reached d, at least 2d - MinDelay of the deadline is slept or committed.
BackoffPaid == retries > 0 => spent + wait >= 2 * delay - MinDelay

\* BlockNotFound is the verdict of the provider asked last: it answered None,
\* or all of them failed and it was the last to say so.  A not-found error of
\* an earlier provider is never what the caller is told.
NotFoundIsLastVerdict ==
    result = "BlockNotFound" =>
        \/ OrBlockNotFound /\ landed
        \/ provider = NumFallbacks /\ ~landed /\ SaysNotFound(last_error)

\* What the invariants above rest on: how the attempt, the sleep, the answer
\* and the result go together, and how many attempts can have failed.
Attempts == provider * (MaxRetries + 1) + retries

CallShape ==
    /\ pc = "attempt" => wait = 0
    /\ pc = "backoff" => retries > 0 /\ ~landed
    /\ pc = "done" <=> result # "Pending"
    /\ pc # "done" => failures <= Attempts
    /\ pc = "done" => failures + (IF landed THEN 1 ELSE 0) <= Attempts + 1

\* How a call stands: an answer is one that landed and was not lost.
Verdict ==
    IF result = "Pending" THEN "pending" ELSE IF landed THEN "answered" ELSE "failed"

\* The future of a call only gets on: to a later provider, nearer to its deadline,
\* to a further retry, or from a sleep to the attempt after it.  With the bounds
\* of these it ends after so many steps, whatever the nodes do.
CallGetsOn ==
    [][control' # control =>
          \/ pc' = "done"
          \/ provider' > provider
          \/ provider' = provider /\ spent' > spent
          \/ provider' = provider /\ spent' = spent /\ retries' > retries
          \/ /\ provider' = provider /\ spent' = spent /\ retries' = retries
             /\ pc = "backoff" /\ pc' = "attempt"]_vars

Failover == INSTANCE FailoverCall WITH trying <- provider, verdict <- Verdict

\* A call does what FailoverCall promises: the providers in their order, the
\* next one only after the one before it failed, failure only after the last; and
\* it ends, for FailoverCall is fair.
ImplementsFailover == Failover!Spec

=============================================================================
