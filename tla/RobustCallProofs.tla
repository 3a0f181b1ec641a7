-------------------------- MODULE RobustCallProofs --------------------------
(***************************************************************************)
(* Proofs about RobustCall, for any number of fallbacks, retries, timeouts *)
(* and delays, and any set of errors.                                      *)
(***************************************************************************)
EXTENDS RobustCall, TLAPS

-----------------------------------------------------------------------------
(* The classification of errors.                                           *)

\* No error response is both "block not found" and "invalid log filter", so
\* that the two reasons not to retry never compete.
LEMMA ClassesAreDisjoint ==
    ASSUME NEW code \in Codes, NEW message \in Messages
    PROVE  ~(IsBlockNotFound(code, message) /\ IsInvalidLogFilter(code, message))
BY DEF IsBlockNotFound, IsInvalidLogFilter, GethBlockNotFound, GethInvalidLogFilter,
       BesuBlockNotFound, AnvilBlockNotFound, DEFAULT_ERROR_CODE,
       INVALID_PARAMS_ERROR_CODE, UNKNOWN_BLOCK_ERROR_CODE

\* What the caller is told of a failed provider: never Pending or Value, and
\* BlockNotFound only when the response said so.
LEMMA ErrorFromRange ==
    ASSUME NEW e
    PROVE  /\ ErrorFrom(e) \in {"Timeout", "BlockNotFound", "RpcError", "Closed"}
           /\ ErrorFrom(e) = "BlockNotFound" => SaysNotFound(e)
BY DEF ErrorFrom

\* The errors of an attempt are of three kinds, and Elapsed is none of them.
LEMMA ErrorKinds ==
    /\ \A e \in RpcErrorValues : e.kind \in {"ErrorResp", "Transport", "Other"}
    /\ RpcErrorValues \subseteq FailoverErrors
    /\ Elapsed \in FailoverErrors
    /\ ~SaysNotFound(Elapsed)
BY DEF RpcErrorValues, RpcErrorResponses, TransportErrors, OtherError, FailoverErrors,
       Elapsed, ClosedError, SaysNotFound

-----------------------------------------------------------------------------
(* Arithmetic the bounds need.                                             *)

\* The budget of one more provider.
LEMMA OneMore ==
    ASSUME NEW a \in Nat, NEW c \in Nat
    PROVE  (a + 1) * c = a * c + c
BY SMT

\* A product grows with its first factor.
LEMMA ProductMonotonic ==
    ASSUME NEW a \in Nat, NEW b \in Nat, NEW c \in Nat, a <= b
    PROVE  a * c <= b * c
<1>1. PICK d \in Nat : b = a + d
  <2>1. b - a \in Nat /\ b = a + (b - a)
    BY SMT
  <2> QED BY <2>1
<1>2. b * c = a * c + d * c
  BY <1>1, SMT
<1>3. d * c \in Nat /\ a * c \in Nat
  BY <1>1, SMT
<1> QED BY <1>2, <1>3, SMT

-----------------------------------------------------------------------------
(* The inductive invariant: the invariants of the run "call", but for      *)
(* ExecutionBudget, which follows, and CallShape, which they rest on.      *)

IInv ==
    /\ TypeOK
    /\ CallShape
    /\ DeadlineBound
    /\ RepeatedForCause
    /\ BackoffPaid
    /\ NotFoundIsLastVerdict

\* The initial states satisfy the inductive invariant.
LEMMA InitIInv == Init => IInv
<1> USE RobustCallAssumption
<1>1. Elapsed \in FailoverErrors
  BY ErrorKinds
<1>2. 0 * (MaxRetries + 1) + 0 = 0 /\ 0 * CallTimeout + 0 = 0
  BY SMT
<1> SUFFICES ASSUME Init PROVE IInv
  OBVIOUS
<1>3. TypeOK
  <2>1. provider \in 0..NumFallbacks /\ retries \in 0..MaxRetries
    BY DEF Init
  <2>2. landed \in BOOLEAN /\ last_error \in FailoverErrors
    BY <1>1 DEF Init
  <2> QED BY <2>1, <2>2 DEF Init, TypeOK, Providers
<1>4. CallShape
  <2>1. provider * (MaxRetries + 1) + retries = 0
    BY <1>2 DEF Init
  <2> QED BY <2>1 DEF Init, CallShape, Attempts
<1>5. DeadlineBound
  BY <1>2 DEF Init, DeadlineBound
<1>6. RepeatedForCause
  BY DEF Init, RepeatedForCause
<1>7. BackoffPaid /\ NotFoundIsLastVerdict
  BY DEF Init, BackoffPaid, NotFoundIsLastVerdict
<1> QED BY <1>3, <1>4, <1>5, <1>6, <1>7 DEF IInv

\* An answer that is lost is accounted for, whether or not it was executed.
LEMMA LoseAnswerEffect ==
    ASSUME TypeOK, RepeatedForCause, LoseAnswer
    PROVE  /\ ~landed' /\ landed' \in BOOLEAN
           /\ executed' = executed /\ stray' \in Nat
           /\ failures' = failures + 1
           /\ executed' + stray' <= failures'
<1>1. /\ ~landed' /\ landed' \in BOOLEAN
      /\ executed' = executed /\ failures' = failures + 1
      /\ executed \in Nat /\ stray \in Nat /\ failures \in Nat
  BY DEF TypeOK, LoseAnswer
<1>2. CASE landed
  <2>1. stray' = stray /\ executed + stray <= failures + 1
    BY <1>2 DEF RepeatedForCause, LoseAnswer
  <2> QED BY <1>1, <2>1
<1>3. CASE ~landed
  <2>1. stray' = stray + 1 /\ executed + stray <= failures + 0
    BY <1>3 DEF RepeatedForCause, LoseAnswer
  <2> QED BY <1>1, <2>1
<1> QED BY <1>2, <1>3

\* An attempt that fails leaves nothing landed, and is accounted for itself.
LEMMA AttemptFailsEffect ==
    ASSUME TypeOK, RepeatedForCause, NEW e, AttemptFails(e)
    PROVE  /\ pc = "attempt"
           /\ ~landed' /\ landed' \in BOOLEAN
           /\ executed' = executed /\ stray' \in Nat
           /\ failures' \in Nat /\ failures' <= failures + 1
           /\ executed' + stray' <= failures'
<1>1. pc = "attempt"
  BY DEF AttemptFails
<1>2. CASE FailSettled
  <2>1. executed \in Nat /\ stray \in Nat /\ failures \in Nat
    BY DEF TypeOK
  <2>2. /\ ~landed' /\ landed' \in BOOLEAN
        /\ executed' = executed /\ stray' = stray /\ failures' = failures + 1
    BY <1>2 DEF FailSettled
  <2>3. executed + stray <= failures + 1
    <3>1. CASE landed
      BY <3>1 DEF RepeatedForCause
    <3>2. CASE ~landed
      <4>1. executed + stray <= failures + 0
        BY <3>2 DEF RepeatedForCause
      <4> QED BY <2>1, <4>1
    <3> QED BY <3>1, <3>2
  <2> QED BY <1>1, <2>1, <2>2, <2>3
<1>3. CASE LoseAnswer
  <2>1. failures \in Nat
    BY DEF TypeOK
  <2> QED BY <1>1, <1>3, <2>1, LoseAnswerEffect
<1> QED BY <1>2, <1>3 DEF AttemptFails

\* Going on to the next fallback, or giving up after the last provider,
\* preserves the invariant once the attempt's answer is accounted for.
LEMMA ProviderFailsIInv ==
    ASSUME IInv, NEW e \in FailoverErrors, ProviderFails(e), pc # "done",
           ~landed', landed' \in BOOLEAN,
           executed' = executed, stray' \in Nat, failures' \in Nat,
           failures' <= Attempts + 1, executed' + stray' <= failures'
    PROVE  IInv'
<1> USE RobustCallAssumption
<1> DEFINE more == MaxRetries + 1
<1>0. /\ TypeOK /\ CallShape /\ DeadlineBound
      /\ provider * CallTimeout \in Nat /\ provider * more \in Nat
      /\ more \in Nat /\ provider \in Nat
  BY DEF IInv, TypeOK, Providers
<1>1. CASE TryNextFallback(e)
  <2>1. (provider + 1) * CallTimeout = provider * CallTimeout + CallTimeout
    BY <1>0, OneMore
  <2>2. (provider + 1) * more = provider * more + more
    BY <1>0, OneMore
  <2>3. TypeOK'
    BY <1>0, <1>1 DEF TypeOK, TryNextFallback, Providers
  <2>4. CallShape'
    <3>1. provider' * (MaxRetries + 1) = provider * more + more
      BY <1>1, <2>2 DEF TryNextFallback
    <3>2. failures' <= Attempts'
      BY <1>0, <1>1, <3>1 DEF TypeOK, TryNextFallback, Attempts
    <3> QED BY <1>0, <1>1, <3>2 DEF CallShape, TryNextFallback
  <2>5. DeadlineBound'
    BY <1>0, <1>1, <2>1 DEF TypeOK, DeadlineBound, TryNextFallback
  <2>6. BackoffPaid' /\ NotFoundIsLastVerdict'
    BY <1>0, <1>1 DEF TryNextFallback, BackoffPaid, NotFoundIsLastVerdict, CallShape
  <2> QED BY <2>3, <2>4, <2>5, <2>6 DEF IInv, RepeatedForCause
<1>2. CASE Exhausted(e)
  <2>1. /\ ErrorFrom(e) \in {"Timeout", "BlockNotFound", "RpcError", "Closed"}
        /\ ErrorFrom(e) = "BlockNotFound" => SaysNotFound(e)
    BY ErrorFromRange
  <2>2. TypeOK'
    BY <1>0, <1>2, <2>1 DEF TypeOK, Exhausted
  <2>3. CallShape'
    BY <1>0, <1>2, <2>1 DEF CallShape, Exhausted, Attempts
  <2>4. DeadlineBound'
    BY <1>0, <1>2 DEF DeadlineBound, Exhausted
  <2>5. BackoffPaid'
    BY <1>2 DEF IInv, BackoffPaid, Exhausted
  <2>6. NotFoundIsLastVerdict'
    BY <1>2, <2>1 DEF NotFoundIsLastVerdict, Exhausted, SaysNotFound
  <2> QED BY <2>2, <2>3, <2>4, <2>5, <2>6 DEF IInv, RepeatedForCause
<1> QED BY <1>1, <1>2 DEF ProviderFails

\* Every step preserves the inductive invariant.
LEMMA NextIInv == IInv /\ [Next]_vars => IInv'
<1> USE RobustCallAssumption
<1> SUFFICES ASSUME IInv, [Next]_vars PROVE IInv'
  OBVIOUS
<1>0. /\ TypeOK /\ CallShape /\ DeadlineBound
      /\ RepeatedForCause /\ BackoffPaid /\ NotFoundIsLastVerdict
  BY DEF IInv
<1> USE <1>0
<1>1. /\ provider * CallTimeout \in Nat
      /\ provider * (MaxRetries + 1) \in Nat /\ Attempts \in Nat
  BY DEF TypeOK, Providers, Attempts
<1>2. CASE Land
  <2>1. TypeOK' /\ DeadlineBound' /\ BackoffPaid'
    BY <1>2 DEF Land, control, ending, TypeOK, DeadlineBound, BackoffPaid
  <2>2. CallShape'
    BY <1>2 DEF Land, control, ending, CallShape, Attempts
  <2>3. RepeatedForCause'
    BY <1>2 DEF Land, TypeOK, RepeatedForCause
  <2>4. NotFoundIsLastVerdict'
    BY <1>2 DEF Land, control, ending, NotFoundIsLastVerdict, CallShape
  <2> QED BY <2>1, <2>2, <2>3, <2>4 DEF IInv
<1>3. CASE LandStray
  <2>1. TypeOK' /\ DeadlineBound' /\ BackoffPaid' /\ NotFoundIsLastVerdict'
    BY <1>3 DEF LandStray, control, ending, TypeOK, DeadlineBound, BackoffPaid,
       NotFoundIsLastVerdict
  <2>2. CallShape'
    BY <1>3 DEF LandStray, control, ending, CallShape, Attempts
  <2>3. RepeatedForCause'
    BY <1>3 DEF LandStray, TypeOK, RepeatedForCause
  <2> QED BY <2>1, <2>2, <2>3 DEF IInv
<1>4. CASE Succeed
  <2>1. result' \in {"Value", "BlockNotFound"}
        /\ (result' = "BlockNotFound" => OrBlockNotFound)
    BY <1>4 DEF Succeed, Unwrap
  <2>2. TypeOK' /\ DeadlineBound' /\ BackoffPaid'
    BY <1>4, <2>1 DEF Succeed, network, TypeOK, DeadlineBound, BackoffPaid
  <2>3. CallShape'
    BY <1>1, <1>4, <2>1 DEF Succeed, network, CallShape, Attempts, TypeOK
  <2>4. RepeatedForCause' /\ NotFoundIsLastVerdict'
    BY <1>4, <2>1 DEF Succeed, network, RepeatedForCause, NotFoundIsLastVerdict
  <2> QED BY <2>2, <2>3, <2>4 DEF IInv
<1>5. CASE Retry
  <2>1. PICK e \in Replies :
          /\ AttemptFails(e)
          /\ retries < MaxRetries
          /\ pc' = "backoff" /\ retries' = retries + 1
          /\ delay' = NextDelay /\ wait' = NextDelay
          /\ UNCHANGED <<provider, spent, ending, elapsed>>
    BY <1>5 DEF Retry
  <2>2. /\ pc = "attempt" /\ ~landed' /\ landed' \in BOOLEAN
        /\ executed' = executed /\ stray' \in Nat
        /\ failures' \in Nat /\ failures' <= failures + 1
        /\ executed' + stray' <= failures'
    BY <2>1, AttemptFailsEffect
  <2>3. NextDelay \in Nat
    BY DEF NextDelay, TypeOK
  <2>4. TypeOK'
    BY <2>1, <2>2, <2>3 DEF TypeOK, ending, Providers
  <2>5. CallShape'
    BY <1>1, <2>1, <2>2 DEF CallShape, TypeOK, Attempts, ending
  <2>6. DeadlineBound'
    BY <2>1 DEF DeadlineBound
  <2>7. RepeatedForCause'
    BY <2>2 DEF RepeatedForCause
  <2>8. BackoffPaid'
    <3>1. spent + NextDelay >= 2 * NextDelay - MinDelay
      BY <2>2 DEF NextDelay, BackoffPaid, CallShape, TypeOK
    <3> QED BY <2>1, <3>1 DEF BackoffPaid
  <2>9. NotFoundIsLastVerdict'
    BY <2>1, <2>2 DEF NotFoundIsLastVerdict, CallShape, ending
  <2> QED BY <2>4, <2>5, <2>6, <2>7, <2>8, <2>9 DEF IInv
<1>6. CASE GiveUp
  <2>1. PICK e \in Replies : AttemptFails(e) /\ ProviderFails(e)
    BY <1>6 DEF GiveUp
  <2>2. e \in FailoverErrors
    BY ErrorKinds
  <2>3. /\ pc = "attempt" /\ ~landed' /\ landed' \in BOOLEAN
        /\ executed' = executed /\ stray' \in Nat
        /\ failures' \in Nat /\ failures' <= failures + 1
        /\ executed' + stray' <= failures'
    BY <2>1, AttemptFailsEffect
  <2>4. failures' <= Attempts + 1
    BY <1>1, <2>3 DEF CallShape, TypeOK
  <2> QED BY <2>1, <2>2, <2>3, <2>4, ProviderFailsIInv
<1>7. CASE Wake
  <2>1. TypeOK' /\ DeadlineBound' /\ BackoffPaid' /\ RepeatedForCause'
    BY <1>7 DEF Wake, ending, network, TypeOK, DeadlineBound, BackoffPaid,
       RepeatedForCause
  <2>2. CallShape' /\ NotFoundIsLastVerdict'
    BY <1>7 DEF Wake, ending, network, CallShape, Attempts, NotFoundIsLastVerdict
  <2> QED BY <2>1, <2>2 DEF IInv
<1>8. CASE TimedOut
  <2>1. pc # "done" /\ ProviderFails(Elapsed) /\ Elapsed \in FailoverErrors
    BY <1>8, ErrorKinds DEF TimedOut
  <2>2. CASE pc = "attempt" /\ LoseAnswer
    <3>1. /\ ~landed' /\ landed' \in BOOLEAN
          /\ executed' = executed /\ stray' \in Nat
          /\ failures' = failures + 1 /\ executed' + stray' <= failures'
      BY <2>2, LoseAnswerEffect
    <3>2. failures' \in Nat /\ failures' <= Attempts + 1
      BY <1>1, <2>2, <3>1 DEF CallShape, TypeOK
    <3> QED BY <2>1, <3>1, <3>2, ProviderFailsIInv
  <2>3. CASE pc = "backoff" /\ UNCHANGED network
    <3>1. /\ ~landed' /\ landed' \in BOOLEAN
          /\ executed' = executed /\ stray' \in Nat /\ failures' = failures
      BY <2>3 DEF network, CallShape, TypeOK
    <3>2. executed' + stray' <= failures'
      BY <2>3 DEF network, CallShape, TypeOK, RepeatedForCause
    <3>3. failures' \in Nat /\ failures' <= Attempts + 1
      BY <1>1, <2>3, <3>1 DEF CallShape, TypeOK
    <3> QED BY <2>1, <3>1, <3>2, <3>3, ProviderFailsIInv
  <2> QED BY <1>8, <2>2, <2>3 DEF TimedOut
<1>9. CASE Tick
  <2>1. TypeOK'
    BY <1>9 DEF Tick, CallShape, TypeOK, ending, network
  <2>2. CallShape' /\ RepeatedForCause' /\ NotFoundIsLastVerdict'
    BY <1>9 DEF Tick, ending, network, CallShape, Attempts, RepeatedForCause,
       NotFoundIsLastVerdict
  <2>3. DeadlineBound'
    BY <1>1, <1>9 DEF Tick, DeadlineBound, TypeOK
  <2>4. BackoffPaid'
    BY <1>9 DEF Tick, BackoffPaid, TypeOK, CallShape
  <2> QED BY <2>1, <2>2, <2>3, <2>4 DEF IInv
<1>10. CASE UNCHANGED vars
  BY <1>10 DEF vars, control, ending, network, IInv, TypeOK, CallShape, Attempts,
     DeadlineBound, RepeatedForCause, BackoffPaid, NotFoundIsLastVerdict
<1> QED
  BY <1>2, <1>3, <1>4, <1>5, <1>6, <1>7, <1>8, <1>9, <1>10 DEF Next

\* The inductive invariant holds throughout.
THEOREM Invariance == Spec => []IInv
BY InitIInv, NextIInv, PTL DEF Spec

\* The properties the run "call" checks, for every value of the constants:
\* types, the deadline, the accounting of executions, the spacing of retries
\* and the origin of BlockNotFound.
THEOREM CallIsTyped == Spec => []TypeOK
BY Invariance, PTL DEF IInv

\* A call takes at most one call_timeout per provider.
THEOREM CallMeetsDeadline == Spec => []DeadlineBound
BY Invariance, PTL DEF IInv

\* Every execution but one is explained by an attempt that gave no value, for any
\* number of providers and retries and whatever the nodes execute before they fail.
THEOREM CallRepeatsForCause == Spec => []RepeatedForCause
BY Invariance, PTL DEF IInv

\* Retries of one provider are spaced out exponentially.
THEOREM CallPaysBackoff == Spec => []BackoffPaid
BY Invariance, PTL DEF IInv

\* BlockNotFound is the verdict of the provider asked last.
THEOREM CallReportsLastVerdict == Spec => []NotFoundIsLastVerdict
BY Invariance, PTL DEF IInv

\* The invariant bounds the executions by the attempts the code may make.
LEMMA BudgetFromInvariant == IInv => ExecutionBudget
<1> USE RobustCallAssumption
<1> SUFFICES ASSUME IInv PROVE ExecutionBudget
  OBVIOUS
<1> DEFINE more == MaxRetries + 1
           counted == failures + (IF landed THEN 1 ELSE 0)
<1>1. /\ provider \in 0..NumFallbacks /\ retries \in 0..MaxRetries
      /\ failures \in Nat /\ executed \in Nat /\ stray \in Nat /\ landed \in BOOLEAN
      /\ CallShape
  BY DEF IInv, TypeOK, Providers
<1>2. provider * more \in Nat /\ NumFallbacks * more \in Nat /\ counted \in Nat
  BY <1>1
<1>3. counted <= provider * more + retries + 1
  BY <1>1, <1>2 DEF CallShape, Attempts, IInv, TypeOK
<1>4. provider * more <= NumFallbacks * more
  BY <1>1, ProductMonotonic
<1>5. (NumFallbacks + 1) * more = NumFallbacks * more + more
  BY OneMore
<1>6. counted <= (NumFallbacks + 1) * more
  BY <1>1, <1>2, <1>3, <1>4, <1>5
<1>7. executed + stray <= counted
  BY DEF IInv, RepeatedForCause
<1> QED BY <1>1, <1>2, <1>5, <1>6, <1>7 DEF ExecutionBudget

\* A call that is not idempotent is executed at most once per attempt: no more
\* than (fallbacks + 1) * (max_retries + 1) times.
THEOREM CallMeetsBudget == Spec => []ExecutionBudget
BY Invariance, BudgetFromInvariant, PTL

-----------------------------------------------------------------------------
(* Action properties and refinement.                                       *)

\* No step of the future takes back what it has got through.
LEMMA NextGetsOn ==
    IInv /\ [Next]_vars =>
        (control' # control =>
          \/ pc' = "done"
          \/ provider' > provider
          \/ provider' = provider /\ spent' > spent
          \/ provider' = provider /\ spent' = spent /\ retries' > retries
          \/ /\ provider' = provider /\ spent' = spent /\ retries' = retries
             /\ pc = "backoff" /\ pc' = "attempt")
<1> SUFFICES ASSUME IInv, [Next]_vars, control' # control
             PROVE  \/ pc' = "done"
                    \/ provider' > provider
                    \/ provider' = provider /\ spent' > spent
                    \/ provider' = provider /\ spent' = spent /\ retries' > retries
                    \/ /\ provider' = provider /\ spent' = spent /\ retries' = retries
                       /\ pc = "backoff" /\ pc' = "attempt"
  OBVIOUS
<1>0. provider \in Nat /\ spent \in Nat /\ retries \in Nat
  BY RobustCallAssumption DEF IInv, TypeOK, Providers
<1>1. CASE Land \/ LandStray \/ UNCHANGED vars
  BY <1>1 DEF Land, LandStray, vars
<1>2. CASE Succeed
  BY <1>2 DEF Succeed
<1>3. CASE Retry
  <2>1. provider' = provider /\ spent' = spent /\ retries' = retries + 1
    BY <1>3 DEF Retry
  <2> QED BY <1>0, <2>1
<1>4. CASE GiveUp \/ TimedOut
  <2>1. PICK e : ProviderFails(e)
    BY <1>4 DEF GiveUp, TimedOut
  <2>2. provider' = provider + 1 \/ pc' = "done"
    BY <2>1 DEF ProviderFails, TryNextFallback, Exhausted
  <2> QED BY <1>0, <2>2
<1>5. CASE Wake
  BY <1>5 DEF Wake
<1>6. CASE Tick
  <2>1. provider' = provider /\ spent' = spent + 1
    BY <1>6 DEF Tick
  <2> QED BY <1>0, <2>1
<1> QED BY <1>1, <1>2, <1>3, <1>4, <1>5, <1>6 DEF Next

\* The future of a call gets on with every step, whatever the nodes answer and
\* when.
THEOREM CallOnlyGetsOn == Spec => CallGetsOn
BY Invariance, NextGetsOn, PTL DEF Spec, CallGetsOn

\* Every step of a call is a step of FailoverCall or leaves it alone.
LEMMA NextRefines == IInv /\ [Next]_vars => [Failover!Next]_(Failover!vars)
<1> USE DEF Failover!Next, Failover!vars, Failover!Answer, Failover!FailOver, Failover!GiveUp
<1> SUFFICES ASSUME IInv, [Next]_vars PROVE [Failover!Next]_(Failover!vars)
  OBVIOUS
<1>0. TypeOK /\ CallShape
  BY DEF IInv
<1>1. CASE Land \/ Retry \/ Wake \/ Tick
  <2>1. provider' = provider /\ result' = result /\ result = "Pending"
    BY <1>0, <1>1 DEF Land, Retry, Wake, Tick, AttemptFails, control, ending, CallShape
  <2> QED BY <2>1 DEF Verdict
<1>2. CASE LandStray \/ UNCHANGED vars
  BY <1>2 DEF LandStray, vars, control, ending, network, Verdict
<1>3. CASE Succeed
  BY <1>0, <1>3 DEF Succeed, Unwrap, network, Verdict, CallShape
<1>4. CASE GiveUp \/ TimedOut
  <2>1. PICK e : ProviderFails(e) /\ pc # "done"
    BY <1>4 DEF GiveUp, TimedOut, AttemptFails
  <2>2. ~landed'
    BY <1>0, <1>4, AttemptFailsEffect DEF GiveUp, TimedOut, LoseAnswer, CallShape, network, IInv
  <2>3. result = "Pending" /\ provider \in 0..NumFallbacks
    BY <1>0, <2>1 DEF CallShape, TypeOK, Providers
  <2>4. CASE TryNextFallback(e)
    <3>1. provider < NumFallbacks /\ provider' = provider + 1 /\ result' = "Pending"
      BY <2>3, <2>4 DEF TryNextFallback
    <3> QED BY <2>3, <3>1 DEF Verdict
  <2>5. CASE Exhausted(e)
    <3>1. provider = NumFallbacks /\ provider' = provider /\ result' # "Pending"
      BY <2>5, ErrorFromRange DEF Exhausted
    <3> QED BY <2>2, <2>3, <3>1 DEF Verdict
  <2> QED BY <2>1, <2>4, <2>5 DEF ProviderFails
<1> QED BY <1>1, <1>2, <1>3, <1>4 DEF Next

\* A call keeps the safety part of FailoverCall's promise: the providers in
\* their order, the first answer ends it, failure only after the last one.
THEOREM CallImplementsFailover ==
    Spec => Failover!Init /\ [][Failover!Next]_(Failover!vars)
<1>1. Init => Failover!Init
  BY DEF Init, Failover!Init, Verdict
<1> QED BY <1>1, Invariance, NextRefines, PTL DEF Spec

=============================================================================
