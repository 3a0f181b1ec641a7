---------------------- MODULE RobustSubscriptionProofs ----------------------
(***************************************************************************)
(* Proofs about RobustSubscription, for any number of fallbacks, timeouts, *)
(* interval and capacity, any mix of HTTP and WebSocket providers, and     *)
(* with or without cancellation.                                           *)
(***************************************************************************)
EXTENDS RobustSubscription, TLAPS

-----------------------------------------------------------------------------
(* The inductive invariant: the invariants of the run "subscription" and   *)
(* RecvShape, which they and the action properties rest on.                *)

IInv ==
    /\ TypeOK
    /\ IndexNamesBackend
    /\ ClockArmedOnFallback
    /\ RecvShape

\* A subscription that is not opened satisfies the inductive invariant.
LEMMA InitIInv == Init => IInv
<1> USE RobustSubscriptionAssumption
<1> SUFFICES ASSUME Init PROVE IInv
  OBVIOUS
<1>1. TypeOK
  <2>1. lag \in BOOLEAN /\ closed \in BOOLEAN
    BY DEF Init
  <2> QED BY <2>1 DEF Init, TypeOK, Providers, Resting, Ages, NoAttempt
<1>2. IndexNamesBackend /\ ClockArmedOnFallback
  BY DEF Init, IndexNamesBackend, ClockArmedOnFallback, IsOnFallback
<1>3. RecvShape
  BY DEF Init, RecvShape, IsOnFallback, Resting, Providers
<1> QED BY <1>1, <1>2, <1>3 DEF IInv

\* An age only grows, and never beyond the interval.
LEMMA OlderAges ==
    ASSUME NEW age \in Ages \cup {NoAttempt}
    PROVE  /\ Older(age) \in Ages \cup {NoAttempt}
           /\ age \in Ages => Older(age) \in Ages
           /\ age # NoAttempt <=> Older(age) # NoAttempt
BY RobustSubscriptionAssumption DEF Older, Ages, NoAttempt

\* Every step preserves the inductive invariant.
LEMMA NextIInv == IInv /\ [Next]_vars => IInv'
<1> USE RobustSubscriptionAssumption
<1> USE DEF IsOnFallback, Providers, Ages, NoAttempt
<1> SUFFICES ASSUME IInv, [Next]_vars PROVE IInv'
  OBVIOUS
<1>0. TypeOK /\ IndexNamesBackend /\ ClockArmedOnFallback /\ RecvShape
  BY DEF IInv
<1> USE <1>0
<1>1. CASE NodeChanges
  <2>1. PICK p \in Providers :
          serving' = IF p \in serving THEN serving \ {p} ELSE serving \cup {p}
    BY <1>1 DEF NodeChanges
  <2>2. serving' = serving \ {p} \/ serving' = serving \cup {p}
    BY <2>1
  <2>3. serving' \subseteq Providers
    BY <2>2 DEF TypeOK
  <2>4. UNCHANGED <<control, subscription, channel, history>>
    BY <1>1 DEF NodeChanges
  <2>5. TypeOK'
    BY <2>3, <2>4 DEF TypeOK, control, subscription, channel, history
  <2>6. IndexNamesBackend' /\ ClockArmedOnFallback' /\ RecvShape'
    BY <2>4 DEF IndexNamesBackend, ClockArmedOnFallback, RecvShape, Deadline, control,
       subscription, channel, history
  <2> QED BY <2>5, <2>6 DEF IInv
<1>2. CASE Arrive
  <2>1. /\ UNCHANGED <<control, subscription, closed, serving, history>>
        /\ lag' = lag \/ lag' = TRUE
    BY <1>2 DEF Arrive
  <2>2. pending' = pending \/ (pending < Capacity /\ pending' = pending + 1)
    BY <1>2 DEF Arrive
  <2>3. lag' \in BOOLEAN
    BY <2>1 DEF TypeOK
  <2>4. pending' \in 0..Capacity
    BY <2>2 DEF TypeOK
  <2>5. TypeOK'
    BY <2>1, <2>3, <2>4 DEF TypeOK, control, subscription, history
  <2>6. IndexNamesBackend' /\ ClockArmedOnFallback' /\ RecvShape'
    BY <2>1 DEF IndexNamesBackend, ClockArmedOnFallback, RecvShape, Deadline, control,
       subscription, history
  <2> QED BY <2>5, <2>6 DEF IInv
<1>3. CASE ChannelCloses
  <2> USE <1>3 DEF ChannelCloses, control, subscription, history
  <2>2. TypeOK'
    BY DEF TypeOK
  <2>3. IndexNamesBackend' /\ ClockArmedOnFallback' /\ RecvShape'
    BY DEF IndexNamesBackend, ClockArmedOnFallback, RecvShape, Deadline
  <2> QED BY <2>2, <2>3 DEF IInv
<1>4. CASE Subscribe
  <2> USE <1>4 DEF Subscribe, subscription, channel
  <2>2. TypeOK'
    BY DEF TypeOK, RecvShape, Resting, Subscribing, SwitchErrors
  <2>3. IndexNamesBackend' /\ ClockArmedOnFallback'
    BY DEF IndexNamesBackend, ClockArmedOnFallback
  <2>5. RecvShape'
    BY DEF RecvShape, TypeOK, ClockArmedOnFallback, Deadline, Resting, Subscribing, SwitchErrors
  <2> QED BY <2>2, <2>3, <2>5 DEF IInv
<1>5. CASE OpenSucceeds
  <2> USE <1>5 DEF OpenSucceeds, channel, history
  <2>2. TypeOK'
    BY DEF TypeOK, RecvShape, Resting, Subscribing, SwitchErrors
  <2>3. IndexNamesBackend'
    BY DEF IndexNamesBackend, RecvShape
  <2>4. ClockArmedOnFallback'
    BY DEF ClockArmedOnFallback, RecvShape, TypeOK
  <2>5. RecvShape'
    BY DEF RecvShape, TypeOK, ClockArmedOnFallback, Deadline, Resting, Subscribing, SwitchErrors
  <2> QED BY <2>2, <2>3, <2>4, <2>5 DEF IInv
<1>6. CASE OpenFails
  <2> USE <1>6 DEF OpenFails, OpenErrors, subscription, channel
  <2>2. TypeOK'
    BY DEF TypeOK, RecvShape, Resting, Subscribing, SwitchErrors
  <2>3. IndexNamesBackend' /\ ClockArmedOnFallback'
    BY DEF IndexNamesBackend, ClockArmedOnFallback
  <2>5. RecvShape'
    BY DEF RecvShape, TypeOK, ClockArmedOnFallback, Deadline, Resting, Subscribing, SwitchErrors
  <2> QED BY <2>2, <2>3, <2>5 DEF IInv
<1>7. CASE Recv
  <2> USE <1>7 DEF Recv, Await, subscription, channel, history
  <2>2. TypeOK'
    BY DEF TypeOK, RecvShape, Resting, Subscribing, SwitchErrors
  <2>3. IndexNamesBackend' /\ ClockArmedOnFallback'
    BY DEF IndexNamesBackend, ClockArmedOnFallback
  <2>5. RecvShape'
    BY DEF RecvShape, TypeOK, ClockArmedOnFallback, Deadline, Resting, Subscribing, SwitchErrors
  <2> QED BY <2>2, <2>3, <2>5 DEF IInv
<1>8. CASE ReceiveBlock
  <2> USE <1>8 DEF ReceiveBlock, Delivered, ReconnectIsDue, Return, subscription, history
  <2>2. TypeOK'
    BY DEF TypeOK, RecvShape, Resting, Subscribing, SwitchErrors
  <2>3. IndexNamesBackend' /\ ClockArmedOnFallback'
    BY DEF IndexNamesBackend, ClockArmedOnFallback
  <2>5. RecvShape'
    BY DEF RecvShape, TypeOK, ClockArmedOnFallback, Deadline, Resting, Subscribing, SwitchErrors
  <2> QED BY <2>2, <2>3, <2>5 DEF IInv
<1>9. CASE ReceiveLagged
  <2> USE <1>9 DEF ReceiveLagged, Return, subscription, history
  <2>1. lag' \in BOOLEAN /\ closed' \in BOOLEAN
    BY DEF TypeOK
  <2>2. TypeOK'
    BY <2>1 DEF TypeOK, RecvShape, Resting, Subscribing, SwitchErrors
  <2>3. IndexNamesBackend' /\ ClockArmedOnFallback'
    BY DEF IndexNamesBackend, ClockArmedOnFallback
  <2>5. RecvShape'
    BY DEF RecvShape, TypeOK, ClockArmedOnFallback, Deadline, Resting, Subscribing, SwitchErrors
  <2> QED BY <2>2, <2>3, <2>5 DEF IInv
<1>10. CASE FetchBlock
  <2> USE <1>10 DEF FetchBlock, Delivered, ReconnectIsDue, Return, subscription, channel, history
  <2>2. TypeOK'
    BY DEF TypeOK, RecvShape, Resting, Subscribing, SwitchErrors
  <2>3. IndexNamesBackend' /\ ClockArmedOnFallback'
    BY DEF IndexNamesBackend, ClockArmedOnFallback
  <2>5. RecvShape'
    BY DEF RecvShape, TypeOK, ClockArmedOnFallback, Deadline, Resting, Subscribing, SwitchErrors
  <2> QED BY <2>2, <2>3, <2>5 DEF IInv
<1>11. CASE FetchNotFound
  <2> USE <1>11 DEF FetchNotFound, Return, subscription, channel, history
  <2>2. TypeOK'
    BY DEF TypeOK, RecvShape, Resting, Subscribing, SwitchErrors
  <2>3. IndexNamesBackend' /\ ClockArmedOnFallback'
    BY DEF IndexNamesBackend, ClockArmedOnFallback
  <2>5. RecvShape'
    BY DEF RecvShape, TypeOK, ClockArmedOnFallback, Deadline, Resting, Subscribing, SwitchErrors
  <2> QED BY <2>2, <2>3, <2>5 DEF IInv
<1>12. CASE ReceiveTimeout
  <2> USE <1>12 DEF ReceiveTimeout, Switch, AskFallback, Return, channel
  <2>2. TypeOK'
    BY DEF TypeOK, RecvShape, Resting, Subscribing, SwitchErrors
  <2>3. IndexNamesBackend'
    BY DEF IndexNamesBackend, RecvShape
  <2>4. ClockArmedOnFallback'
    BY DEF ClockArmedOnFallback, RecvShape, TypeOK
  <2>5. RecvShape'
    BY DEF RecvShape, TypeOK, ClockArmedOnFallback, Deadline, Resting, Subscribing, SwitchErrors
  <2> QED BY <2>2, <2>3, <2>4, <2>5 DEF IInv
<1>13. CASE ReceiveClosed
  <2> USE <1>13 DEF ReceiveClosed, Switch, AskFallback, Return, channel
  <2>2. TypeOK'
    BY DEF TypeOK, RecvShape, Resting, Subscribing, SwitchErrors
  <2>3. IndexNamesBackend'
    BY DEF IndexNamesBackend, RecvShape
  <2>4. ClockArmedOnFallback'
    BY DEF ClockArmedOnFallback, RecvShape, TypeOK
  <2>5. RecvShape'
    BY DEF RecvShape, TypeOK, ClockArmedOnFallback, Deadline, Resting, Subscribing, SwitchErrors
  <2> QED BY <2>2, <2>3, <2>4, <2>5 DEF IInv
<1>14. CASE FetchFails
  <2> USE <1>14 DEF FetchFails, Switch, AskFallback, Return, channel
  <2>2. TypeOK'
    BY DEF TypeOK, RecvShape, Resting, Subscribing, SwitchErrors
  <2>3. IndexNamesBackend'
    BY DEF IndexNamesBackend, RecvShape
  <2>4. ClockArmedOnFallback'
    BY DEF ClockArmedOnFallback, RecvShape, TypeOK
  <2>5. RecvShape'
    BY DEF RecvShape, TypeOK, ClockArmedOnFallback, Deadline, Resting, Subscribing, SwitchErrors
  <2> QED BY <2>2, <2>3, <2>4, <2>5 DEF IInv
<1>15. CASE ReconnectSucceeds
  <2> USE <1>15 DEF ReconnectSucceeds, Connect, Await, Return, channel
  <2>1. lag' \in BOOLEAN /\ closed' \in BOOLEAN
    BY DEF TypeOK
  <2>2. TypeOK'
    BY <2>1 DEF TypeOK, RecvShape, Resting, Subscribing, SwitchErrors
  <2>3. IndexNamesBackend'
    BY DEF IndexNamesBackend, RecvShape
  <2>4. ClockArmedOnFallback'
    BY DEF ClockArmedOnFallback, RecvShape, TypeOK
  <2>5. RecvShape'
    BY DEF RecvShape, TypeOK, ClockArmedOnFallback, Deadline, Resting, Subscribing, SwitchErrors
  <2> QED BY <2>2, <2>3, <2>4, <2>5 DEF IInv
<1>16. CASE PeriodicFails
  <2> USE <1>16 DEF PeriodicFails, Return, channel, history
  <2>2. TypeOK'
    BY DEF TypeOK, RecvShape, Resting, Subscribing, SwitchErrors
  <2>3. IndexNamesBackend'
    BY DEF IndexNamesBackend, RecvShape
  <2>4. ClockArmedOnFallback'
    BY DEF ClockArmedOnFallback, RecvShape, TypeOK
  <2>5. RecvShape'
    BY DEF RecvShape, TypeOK, ClockArmedOnFallback, Deadline, Resting, Subscribing, SwitchErrors
  <2> QED BY <2>2, <2>3, <2>4, <2>5 DEF IInv
<1>17. CASE ForcedFails
  <2> USE <1>17 DEF ForcedFails, AskFallback, Return, channel
  <2>2. TypeOK'
    BY DEF TypeOK, RecvShape, Resting, Subscribing, SwitchErrors
  <2>3. IndexNamesBackend'
    BY DEF IndexNamesBackend, RecvShape
  <2>4. ClockArmedOnFallback'
    BY DEF ClockArmedOnFallback, RecvShape, TypeOK
  <2>5. RecvShape'
    BY DEF RecvShape, TypeOK, ClockArmedOnFallback, Deadline, Resting, Subscribing, SwitchErrors
  <2> QED BY <2>2, <2>3, <2>4, <2>5 DEF IInv
<1>18. CASE SearchSucceeds
  <2> USE <1>18 DEF SearchSucceeds, Connect, Await, channel, history
  <2>1. lag' \in BOOLEAN /\ closed' \in BOOLEAN
    BY DEF TypeOK
  <2>2. TypeOK'
    BY <2>1 DEF TypeOK, RecvShape, Resting, Subscribing, SwitchErrors
  <2>3. IndexNamesBackend'
    BY DEF IndexNamesBackend, RecvShape
  <2>4. ClockArmedOnFallback'
    BY DEF ClockArmedOnFallback, RecvShape, TypeOK
  <2>5. RecvShape'
    BY DEF RecvShape, TypeOK, ClockArmedOnFallback, Deadline, Resting, Subscribing, SwitchErrors
  <2> QED BY <2>2, <2>3, <2>4, <2>5 DEF IInv
<1>19. CASE SearchFails
  <2> USE <1>19 DEF SearchFails, AskFallback, Return, subscription, channel
  <2>2. TypeOK'
    BY DEF TypeOK, RecvShape, Resting, Subscribing, SwitchErrors
  <2>3. IndexNamesBackend' /\ ClockArmedOnFallback'
    BY DEF IndexNamesBackend, ClockArmedOnFallback
  <2>5. RecvShape'
    BY DEF RecvShape, TypeOK, ClockArmedOnFallback, Deadline, Resting, Subscribing, SwitchErrors
  <2> QED BY <2>2, <2>3, <2>5 DEF IInv
<1>20. CASE Cancel
  <2> USE <1>20 DEF Cancel, subscription, channel, history
  <2>2. TypeOK'
    BY DEF TypeOK, RecvShape, Resting, Subscribing, SwitchErrors
  <2>3. IndexNamesBackend' /\ ClockArmedOnFallback'
    BY DEF IndexNamesBackend, ClockArmedOnFallback
  <2>5. RecvShape'
    BY DEF RecvShape, TypeOK, ClockArmedOnFallback, Deadline, Resting, Subscribing, SwitchErrors
  <2> QED BY <2>2, <2>3, <2>5 DEF IInv
<1>21. CASE Tick
  <2> USE <1>21 DEF Tick, channel
  <2>1. /\ last' \in Ages \cup {NoAttempt} /\ tried' \in Ages
        /\ last # NoAttempt <=> last' # NoAttempt
    BY OlderAges DEF TypeOK
  <2>2. TypeOK'
    BY <2>1 DEF TypeOK
  <2>3. IndexNamesBackend' /\ ClockArmedOnFallback'
    BY <2>1 DEF IndexNamesBackend, ClockArmedOnFallback
  <2>5. /\ pc' \in Resting => timer' = 0
        /\ pc' \notin Resting => timer' <= Deadline'
    BY DEF RecvShape, TypeOK, Deadline
  <2>6. RecvShape'
    BY <2>1, <2>5 DEF RecvShape
  <2> QED BY <2>2, <2>3, <2>6 DEF IInv
<1>22. CASE UNCHANGED vars
  BY <1>22 DEF vars, control, subscription, channel, history, IInv, TypeOK,
     IndexNamesBackend, ClockArmedOnFallback, RecvShape, Deadline
<1> QED
  BY <1>1, <1>2, <1>3, <1>4, <1>5, <1>6, <1>7, <1>8, <1>9, <1>10, <1>11,
     <1>12, <1>13, <1>14, <1>15, <1>16, <1>17, <1>18, <1>19, <1>20, <1>21, <1>22
     DEF Next, Environment, Handle

\* The inductive invariant holds throughout.
THEOREM Invariance == Spec => []IInv
BY InitIInv, NextIInv, PTL DEF Spec

\* Types, for every value of the constants.
THEOREM SubscriptionIsTyped == Spec => []TypeOK
BY Invariance, PTL DEF IInv

\* The index and the backend agree on a fallback.
THEOREM IndexIsBackend == Spec => []IndexNamesBackend
BY Invariance, PTL DEF IInv

\* The reconnection clock runs on every fallback.
THEOREM ClockIsArmed == Spec => []ClockArmedOnFallback
BY Invariance, PTL DEF IInv

-----------------------------------------------------------------------------
(* Action properties, from the same invariant.                             *)

\* A step that moves the index to a fallback is the end of a search.
LEMMA NextFailsOverInOrder ==
    IInv /\ [Next]_vars =>
        ((index' # index /\ index' # 0) =>
            /\ index < index'
            /\ (index + 1)..(index' - 1) \subseteq refused
            /\ IsOnFallback => 0 \in refused)
<1> SUFFICES ASSUME IInv, [Next]_vars, index' # index, index' # 0
             PROVE  /\ index < index'
                    /\ (index + 1)..(index' - 1) \subseteq refused
                    /\ IsOnFallback => 0 \in refused
  OBVIOUS
<1>1. CASE SearchSucceeds
  BY <1>1 DEF SearchSucceeds, Connect, IInv, RecvShape
<1>2. CASE OpenSucceeds \/ ReconnectSucceeds
  BY <1>2 DEF OpenSucceeds, ReconnectSucceeds, Connect
<1>3. CASE Environment \/ Tick \/ Subscribe \/ Recv \/ Cancel \/ UNCHANGED vars
  BY <1>3 DEF Environment, NodeChanges, Arrive, ChannelCloses, Tick, Subscribe, Recv,
     Cancel, vars, subscription
<1>4. CASE \/ OpenFails \/ ReceiveBlock \/ ReceiveLagged \/ ReceiveTimeout
           \/ ReceiveClosed \/ FetchBlock \/ FetchNotFound \/ FetchFails
           \/ PeriodicFails \/ ForcedFails \/ SearchFails
  BY <1>4 DEF OpenFails, ReceiveBlock, ReceiveLagged, ReceiveTimeout, ReceiveClosed,
     FetchBlock, FetchNotFound, FetchFails, PeriodicFails, ForcedFails, SearchFails,
     subscription
<1> QED BY <1>1, <1>2, <1>3, <1>4 DEF Next, Handle

\* Failover skips no provider that has not refused in the same switch.
THEOREM FailsOverInOrder == Spec => FailoverInOrder
BY Invariance, NextFailsOverInOrder, PTL DEF Spec, FailoverInOrder

-----------------------------------------------------------------------------
(* The pace of the attempts to reconnect.                                  *)

\* The clock is never ahead of the last attempt that came to its end.
ClockBehindAttempt == last # NoAttempt => last <= tried

\* Ages keep their order.
LEMMA OlderMonotonic ==
    ASSUME NEW a \in Ages, NEW b \in Ages, a <= b
    PROVE  Older(a) <= Older(b)
BY RobustSubscriptionAssumption DEF Older, Ages

\* Before anything is opened the clock is not armed.
LEMMA InitClockBehindAttempt == Init => ClockBehindAttempt
BY DEF Init, ClockBehindAttempt

\* Every step keeps the clock behind the attempts: each one that ends is recorded,
\* and a clock that is armed by a switch starts at 0.
LEMMA NextClockBehindAttempt ==
    IInv /\ ClockBehindAttempt /\ [Next]_vars => ClockBehindAttempt'
<1> USE RobustSubscriptionAssumption DEF ClockBehindAttempt, NoAttempt, Ages
<1> SUFFICES ASSUME IInv, ClockBehindAttempt, [Next]_vars
             PROVE  ClockBehindAttempt'
  OBVIOUS
<1>0. TypeOK
  BY DEF IInv
<1>1. CASE \/ Environment \/ Subscribe \/ Recv \/ OpenFails \/ Cancel \/ UNCHANGED vars
           \/ ReceiveBlock \/ ReceiveLagged \/ FetchBlock \/ FetchNotFound
           \/ SearchSucceeds \/ SearchFails
  BY <1>1 DEF Environment, NodeChanges, Arrive, ChannelCloses, Subscribe, Recv, OpenFails,
     Cancel, ReceiveBlock, ReceiveLagged, FetchBlock, FetchNotFound, SearchSucceeds,
     SearchFails, vars, subscription, history
<1>2. CASE Tick
  <2>1. /\ last' = Older(last) /\ tried' = Older(tried)
        /\ last # NoAttempt <=> last' # NoAttempt
    BY <1>0, <1>2, OlderAges DEF Tick, TypeOK
  <2>2. last # NoAttempt => last \in Ages /\ tried \in Ages
    BY <1>0 DEF TypeOK
  <2> QED BY <2>1, <2>2, OlderMonotonic
<1>3. CASE OpenSucceeds \/ ReconnectSucceeds
  BY <1>3 DEF OpenSucceeds, ReconnectSucceeds
<1>4. CASE ReceiveTimeout \/ ReceiveClosed \/ FetchFails
  <2>1. PICK e : Switch(e)
    BY <1>4 DEF ReceiveTimeout, ReceiveClosed, FetchFails
  <2>2. tried' = tried /\ last' \in {last, IF last = NoAttempt THEN 0 ELSE last}
    BY <2>1 DEF Switch
  <2> QED BY <1>0, <2>2 DEF TypeOK
<1>5. CASE PeriodicFails \/ ForcedFails
  <2>1. last' = 0 /\ tried' = 0
    BY <1>5 DEF PeriodicFails, ForcedFails
  <2> QED BY <2>1
<1> QED BY <1>1, <1>2, <1>3, <1>4, <1>5 DEF Next, Handle

\* A periodic attempt begins only when the clock has run for an interval, and so
\* has the time since the last attempt has ended.
LEMMA NextKeepsInterval ==
    IInv /\ ClockBehindAttempt /\ [Next]_vars =>
        (PeriodicAttemptBegins => tried >= ReconnectInterval)
<1> USE RobustSubscriptionAssumption
<1> SUFFICES ASSUME IInv, ClockBehindAttempt, [Next]_vars, PeriodicAttemptBegins
             PROVE  tried >= ReconnectInterval
  OBVIOUS
<1>1. ReceiveBlock \/ FetchBlock
  BY DEF PeriodicAttemptBegins, Next, Environment, Handle, NodeChanges, Arrive,
     ChannelCloses, Tick, Subscribe, OpenSucceeds, OpenFails, Recv, Await, Return,
     ReceiveLagged, FetchNotFound, AskFallback, Switch, ReceiveTimeout, ReceiveClosed,
     FetchFails, ReconnectSucceeds, PeriodicFails, ForcedFails, SearchSucceeds,
     SearchFails, Cancel, vars, control
<1>2. ReconnectIsDue /\ pc \in {"waiting", "fetching"}
  BY <1>1 DEF PeriodicAttemptBegins, ReceiveBlock, FetchBlock, Delivered, Return
<1>3. last >= ReconnectInterval /\ last <= tried /\ last \in Ages /\ tried \in Ages
  BY <1>2 DEF ReconnectIsDue, ClockBehindAttempt, IInv, TypeOK
<1> QED BY <1>3 DEF Ages

\* The attempts to reconnect keep the interval, for any interval, timeouts and
\* fallbacks, with recv() dropped anywhere; a dropped attempt has no end to count from.
THEOREM AttemptsKeepTheInterval == Spec => AttemptsKeepInterval
<1>1. Spec => []ClockBehindAttempt
  BY InitClockBehindAttempt, NextClockBehindAttempt, Invariance, PTL DEF Spec
<1> QED BY <1>1, Invariance, NextKeepsInterval, PTL DEF Spec, AttemptsKeepInterval

-----------------------------------------------------------------------------
(* RobustSubscription does what SubscriptionFailover promises.             *)

\* The initial states map to its initial state.
LEMMA InitPromise == Init => Promise!Init
BY DEF Init, Promise!Init, Promise!Nobody, Asking

\* Asking the fallbacks from p on is AskOrFail(p).
LEMMA AskFallbackAsks ==
    ASSUME NEW p, NEW e \in SwitchErrors, AskFallback(p, e), pc # "idle", result = "None"
    PROVE  Promise!AskOrFail(p)
BY DEF AskFallback, Return, Promise!AskOrFail, Promise!Nobody, Asking, SwitchErrors

\* The beginning of a switch is Break.
LEMMA SwitchBreaks ==
    ASSUME NEW e \in SwitchErrors, Switch(e), UNCHANGED index, TypeOK,
           pc \in {"waiting", "fetching"}, result = "None"
    PROVE  Promise!Break
<1> USE DEF Promise!Nobody, IsOnFallback
<1>1. Asking = -1 /\ ~(pc = "idle" /\ result \in SwitchErrors)
  BY DEF Asking
<1>2. CASE IsOnFallback
  BY <1>1, <1>2, RobustSubscriptionAssumption
     DEF Switch, Promise!Break, Promise!AskOrFail, Asking
<1>3. CASE ~IsOnFallback
  <2>1. AskFallback(1, e)
    BY <1>3 DEF Switch
  <2>2. Promise!AskOrFail(1)
    BY <2>1, AskFallbackAsks
  <2> QED BY <1>1, <1>3, <2>2 DEF Promise!Break
<1> QED BY <1>2, <1>3

\* Every step maps to a step of it or to a stutter.
LEMMA NextPromise == IInv /\ [Next]_vars => [Promise!Next]_(Promise!vars)
<1> USE DEF Promise!Nobody, IsOnFallback
<1> SUFFICES ASSUME IInv, [Next]_vars PROVE [Promise!Next]_(Promise!vars)
  OBVIOUS
<1>0. TypeOK /\ RecvShape
  BY DEF IInv
<1>1. CASE Environment \/ Tick \/ UNCHANGED vars
  BY <1>1 DEF Environment, NodeChanges, Arrive, ChannelCloses, Tick, vars, control,
     subscription, Promise!vars, Asking
<1>2. CASE Subscribe \/ OpenSucceeds \/ OpenFails
  <2>1. /\ pc \in {"unopened", "opening"} /\ index = 0 /\ index' = 0
        /\ pc' \in {"unopened", "opening", "idle"}
    BY <1>0, <1>2 DEF Subscribe, OpenSucceeds, OpenFails, RecvShape, subscription
  <2>2. pc' = "idle" => result' = "None"
    BY <1>0, <1>2 DEF Subscribe, OpenSucceeds, OpenFails, RecvShape, Resting
  <2> QED BY <2>1, <2>2 DEF Promise!vars, Asking, SwitchErrors
<1>3. CASE Recv
  <2>1. /\ pc = "idle" /\ pc' = "waiting" /\ index' = index
    BY <1>3 DEF Recv, Await, subscription
  <2>2. CASE result \in SwitchErrors
    BY <2>1, <2>2 DEF Promise!Next, Promise!Resume, Asking
  <2>3. CASE result \notin SwitchErrors
    BY <2>1, <2>3 DEF Promise!vars, Asking
  <2> QED BY <2>2, <2>3
<1>4. CASE ReceiveBlock \/ ReceiveLagged \/ FetchBlock \/ FetchNotFound
  <2>1. /\ pc \in {"waiting", "fetching"} /\ index' = index
        /\ pc' \in {"idle", "fetching", "periodic"}
        /\ pc' = "idle" => result' \in {"Block", "Lagged", "BlockNotFound"}
    BY <1>4 DEF ReceiveBlock, ReceiveLagged, FetchBlock, FetchNotFound, Delivered,
       Return, subscription
  <2> QED BY <2>1 DEF Promise!vars, Asking, SwitchErrors
<1>5. CASE ReceiveTimeout \/ ReceiveClosed \/ FetchFails
  <2>1. /\ pc \in {"waiting", "fetching"} /\ UNCHANGED index /\ result = "None"
        /\ \E e \in SwitchErrors : Switch(e)
    BY <1>0, <1>5 DEF ReceiveTimeout, ReceiveClosed, FetchFails, SwitchErrors,
       RecvShape, Resting
  <2> QED BY <1>0, <2>1, SwitchBreaks DEF Promise!Next
<1>6. CASE ReconnectSucceeds
  <2>1. index # 0 /\ result = "None" /\ index' = 0
    BY <1>0, <1>6 DEF ReconnectSucceeds, RecvShape, Resting, Connect
  <2>2. CASE pc = "periodic"
    <3>1. pc' = "idle" /\ result' = "Block"
      BY <1>6, <2>2 DEF ReconnectSucceeds, Return
    <3> QED BY <2>1, <2>2, <3>1 DEF Promise!Next, Promise!GoHome, Asking, SwitchErrors
  <2>3. CASE pc = "forced"
    <3>1. pc' = "waiting"
      BY <1>6, <2>3 DEF ReconnectSucceeds, Await
    <3> QED BY <2>1, <2>3, <3>1 DEF Promise!Next, Promise!Accept, Asking, SwitchErrors
  <2> QED BY <1>6, <2>2, <2>3 DEF ReconnectSucceeds
<1>7. CASE PeriodicFails
  BY <1>7 DEF PeriodicFails, Return, Promise!vars, Asking, SwitchErrors
<1>8. CASE ForcedFails
  <2>1. /\ pc = "forced" /\ index' = index /\ cause \in SwitchErrors /\ result = "None"
        /\ AskFallback(index + 1, cause)
    BY <1>0, <1>8 DEF ForcedFails, RecvShape, Resting
  <2>2. Promise!AskOrFail(index + 1)
    BY <2>1, AskFallbackAsks
  <2> QED BY <2>1, <2>2 DEF Promise!Next, Promise!Refuse, Promise!Behind, Asking
<1>9. CASE SearchSucceeds
  <2>1. /\ pc = "searching" /\ pc' = "waiting" /\ index' = next /\ next # -1
        /\ result = "None"
    BY <1>0, <1>9 DEF SearchSucceeds, Connect, Await, TypeOK, Providers, RecvShape, Resting
  <2> QED BY <2>1 DEF Promise!Next, Promise!Accept, Asking, SwitchErrors
<1>10. CASE SearchFails
  <2>1. /\ pc = "searching" /\ index' = index /\ cause \in SwitchErrors
        /\ result = "None" /\ next # -1 /\ next # 0
        /\ AskFallback(next + 1, cause)
    BY <1>0, <1>10 DEF SearchFails, RecvShape, Resting, TypeOK, Providers, subscription
  <2>2. Promise!AskOrFail(next + 1)
    BY <2>1, AskFallbackAsks
  <2> QED BY <2>1, <2>2 DEF Promise!Next, Promise!Refuse, Promise!Behind, Asking
<1>11. CASE Cancel
  <2>1. /\ pc \notin Resting /\ index' = index
        /\ pc' \in {"unopened", "idle"} /\ result' = "None"
    BY <1>11 DEF Cancel, subscription, Resting
  <2> QED BY <2>1 DEF Promise!Next, Promise!Abandon, Promise!vars, Asking, Resting, SwitchErrors
<1> QED BY <1>1, <1>2, <1>3, <1>4, <1>5, <1>6, <1>7, <1>8, <1>9, <1>10, <1>11
        DEF Next, Handle

\* Who is asked, in which order, and who wins is as SubscriptionFailover says,
\* for any number of fallbacks and with calls dropped anywhere.
THEOREM SubscriptionKeepsPromise == Spec => ImplementsPromise
BY InitPromise, Invariance, NextPromise, PTL DEF Spec, ImplementsPromise, Promise!Spec

-----------------------------------------------------------------------------
(* The channel of the backend.                                             *)

\* Only a broadcast channel lags, and one that lags is full: whoever was told of
\* a loss has Capacity items to go on with, and a lag does not outlive the
\* backend it happened at.
LagMeansFull == lag => pending = Capacity /\ backend \notin HttpProviders

\* The channel is fresh until the subscription is opened, and lags only when it
\* is full and no poller's.
ChannelShape ==
    /\ LagMeansFull
    /\ ~IsOpen => pending = 0 /\ ~lag /\ ~closed

\* Every step preserves ChannelShape.
LEMMA NextChannelShape == IInv /\ ChannelShape /\ [Next]_vars => ChannelShape'
<1> USE DEF ChannelShape, LagMeansFull, IsOpen
<1> SUFFICES ASSUME IInv, ChannelShape, [Next]_vars PROVE ChannelShape'
  OBVIOUS
<1>0. TypeOK
  BY DEF IInv
<1>1. CASE NodeChanges \/ Tick \/ Subscribe \/ Recv \/ Cancel \/ UNCHANGED vars
  BY <1>1 DEF NodeChanges, Tick, Subscribe, Recv, Await, Cancel, Resting, vars, control,
     subscription, channel
<1>2. CASE Arrive
  BY <1>0, <1>2, RobustSubscriptionAssumption DEF Arrive, TypeOK, control, subscription
<1>3. CASE ChannelCloses
  BY <1>3 DEF ChannelCloses, control, subscription
<1>4. CASE OpenSucceeds \/ OpenFails
  BY <1>4 DEF OpenSucceeds, OpenFails, channel
<1>5. CASE ReceiveBlock
  BY <1>5 DEF ReceiveBlock, Delivered, Return
<1>6. CASE ReceiveLagged
  BY <1>6 DEF ReceiveLagged, Return
<1>7. CASE FetchBlock \/ FetchNotFound
  BY <1>7 DEF FetchBlock, FetchNotFound, Delivered, Return, subscription, channel
<1>8. CASE ReceiveTimeout \/ ReceiveClosed \/ FetchFails
  BY <1>8 DEF ReceiveTimeout, ReceiveClosed, FetchFails, Switch, AskFallback, Return,
     channel
<1>9. CASE ReconnectSucceeds \/ SearchSucceeds
  BY <1>9 DEF ReconnectSucceeds, SearchSucceeds, Connect, Await, Return
<1>10. CASE PeriodicFails \/ ForcedFails \/ SearchFails
  BY <1>10 DEF PeriodicFails, ForcedFails, SearchFails, AskFallback, Return,
     subscription, channel
<1> QED BY <1>1, <1>2, <1>3, <1>4, <1>5, <1>6, <1>7, <1>8, <1>9, <1>10
        DEF Next, Environment, Handle

\* ChannelShape holds throughout.
LEMMA ChannelInvariance == Spec => []ChannelShape
<1>1. Init => ChannelShape
  BY DEF Init, ChannelShape, LagMeansFull
<1> QED BY <1>1, Invariance, NextChannelShape, PTL DEF Spec

\* A lag is told of by a full broadcast channel only, whatever backends follow
\* each other.
THEOREM LagMeansFullChannel == Spec => []LagMeansFull
BY ChannelInvariance, PTL DEF ChannelShape

\* Every step is one of the channel, or leaves it as it is.
LEMMA NextUsesChannel ==
    IInv /\ ChannelShape /\ [Next]_vars => [Channel!Next]_(Channel!vars)
<1> USE DEF Channel!Next, Channel!vars
<1> SUFFICES ASSUME IInv, ChannelShape, [Next]_vars PROVE [Channel!Next]_(Channel!vars)
  OBVIOUS
<1>1. CASE NodeChanges \/ Tick \/ Subscribe \/ Recv \/ Cancel \/ UNCHANGED vars
  BY <1>1 DEF NodeChanges, Tick, Subscribe, Recv, Cancel, vars, control, subscription,
     channel
<1>2. CASE Arrive
  BY <1>2 DEF Arrive, subscription, Channel!Arrive, Channel!Overwrite
<1>3. CASE ChannelCloses
  BY <1>3 DEF ChannelCloses, subscription, Channel!Close
<1>4. CASE OpenSucceeds
  BY <1>4 DEF OpenSucceeds, channel, ChannelShape, IsOpen, Channel!Replace
<1>5. CASE ReceiveBlock
  BY <1>5 DEF ReceiveBlock, subscription, Channel!Take
<1>6. CASE ReceiveLagged
  BY <1>6 DEF ReceiveLagged, subscription, Channel!Tell
<1>7. CASE \/ OpenFails \/ FetchBlock \/ FetchNotFound \/ ReceiveTimeout \/ ReceiveClosed
           \/ FetchFails \/ PeriodicFails \/ ForcedFails \/ SearchFails
  BY <1>7 DEF OpenFails, FetchBlock, FetchNotFound, ReceiveTimeout, ReceiveClosed,
     FetchFails, PeriodicFails, ForcedFails, SearchFails, subscription, channel
<1>8. CASE ReconnectSucceeds \/ SearchSucceeds
  BY <1>8 DEF ReconnectSucceeds, SearchSucceeds, Connect, Channel!Replace
<1> QED BY <1>1, <1>2, <1>3, <1>4, <1>5, <1>6, <1>7, <1>8 DEF Next, Environment, Handle

\* The subscription does with its backends' channels what BackendChannel
\* describes, with any mix of pollers and broadcast channels.
THEOREM SubscriptionUsesChannel == Spec => UsesChannel
<1>1. Init => Channel!Init
  BY DEF Init, Channel!Init
<1> QED BY <1>1, Invariance, ChannelInvariance, NextUsesChannel, PTL
        DEF Spec, UsesChannel, Channel!Spec

-----------------------------------------------------------------------------
(* recv() gets on.                                                         *)

\* A step inside a call gets on, but for a forced attempt that succeeds.
LEMMA NextGetsOn ==
    IInv /\ [Next]_vars =>
        (pc \notin Resting /\ pc' \notin Resting /\ control' # control =>
            GetsOn \/ (pc = "forced" /\ Accepts(0) /\ index' = 0))
<1> USE DEF GetsOn, Stage, Resting
<1> SUFFICES ASSUME IInv, [Next]_vars,
                    pc \notin Resting, pc' \notin Resting, control' # control
             PROVE  GetsOn \/ (pc = "forced" /\ Accepts(0) /\ index' = 0)
  OBVIOUS
<1>0. /\ TypeOK /\ RecvShape
      /\ index \in Int /\ next \in Int /\ timer \in Int
  BY DEF IInv, TypeOK, Providers
<1>1. CASE Environment \/ UNCHANGED vars
  BY <1>1 DEF Environment, NodeChanges, Arrive, ChannelCloses, vars
<1>2. CASE Subscribe \/ Recv \/ OpenSucceeds \/ Cancel
  BY <1>2 DEF Subscribe, Recv, OpenSucceeds, Cancel
<1>3. CASE Tick
  BY <1>0, <1>3 DEF Tick
<1>4. CASE OpenFails
  <2>1. pc = "opening" /\ pc' = "opening" /\ index' = index /\ next' = next + 1
    BY <1>4 DEF OpenFails, subscription
  <2> QED BY <1>0, <2>1
<1>5. CASE ReceiveBlock
  <2>1. pc = "waiting" /\ pc' \in {"fetching", "periodic"} /\ index' = index
    BY <1>5 DEF ReceiveBlock, Delivered, Return, subscription
  <2> QED BY <2>1
<1>12. CASE FetchBlock
  <2>1. pc = "fetching" /\ pc' = "periodic" /\ index' = index
    BY <1>12 DEF FetchBlock, Delivered, Return, subscription
  <2> QED BY <2>1
<1>6. CASE ReceiveLagged \/ FetchNotFound \/ PeriodicFails
  BY <1>6 DEF ReceiveLagged, FetchNotFound, PeriodicFails, Return
<1>7. CASE ReceiveTimeout \/ ReceiveClosed \/ FetchFails
  <2>1. pc \in {"waiting", "fetching"} /\ index' = index
    BY <1>7 DEF ReceiveTimeout, ReceiveClosed, FetchFails
  <2>2. pc' \in {"forced", "searching"}
    BY <1>7 DEF ReceiveTimeout, ReceiveClosed, FetchFails, Switch, AskFallback, Return
  <2> QED BY <2>1, <2>2
<1>8. CASE ReconnectSucceeds
  BY <1>8 DEF ReconnectSucceeds, Connect, Return
<1>9. CASE ForcedFails
  <2>1. pc = "forced" /\ index' = index /\ pc' = "searching"
    BY <1>9 DEF ForcedFails, AskFallback, Return
  <2> QED BY <2>1
<1>10. CASE SearchSucceeds
  <2>1. index < next /\ index' = next
    BY <1>0, <1>10 DEF SearchSucceeds, Connect, RecvShape
  <2> QED BY <2>1
<1>11. CASE SearchFails
  <2>1. /\ pc = "searching" /\ index' = index /\ pc' = "searching"
        /\ next' = next + 1
    BY <1>11 DEF SearchFails, AskFallback, Return, subscription
  <2> QED BY <1>0, <2>1
<1> QED BY <1>1, <1>2, <1>3, <1>4, <1>5, <1>6, <1>7, <1>8, <1>9, <1>10, <1>11, <1>12
        DEF Next, Handle

\* Whatever the environment does, a call of recv() or subscribe_blocks gets on
\* towards its end, or goes around by way of the primary.
THEOREM RecvOnlyGetsOn == Spec => RecvGetsOn
BY Invariance, NextGetsOn, PTL DEF Spec, RecvGetsOn

=============================================================================
