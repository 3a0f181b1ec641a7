------------------------- MODULE RobustSubscription -------------------------
(***************************************************************************)
(* A RobustSubscription, from the subscribe_blocks that opens it through   *)
(* the loop of its recv(): receiving from the current backend, failing over*)
(* when nothing or an error arrives, asking the primary again while on a   *)
(* fallback.                                                               *)
(*                                                                         *)
(* One attempt to subscribe at one provider is try_provider_with_timeout,  *)
(* which RobustCall models in full; here it takes at most CallTimeout and  *)
(* succeeds or fails.  Providers come and go: `serving` is the set of those*)
(* that would accept a subscription now.  Whether a provider that accepted *)
(* one then sends blocks is another matter (`Emitters`).                   *)
(*                                                                         *)
(* Time is counted in ticks.  Ages are exact up to ReconnectInterval, the  *)
(* only value they are compared with, and stay there.                      *)
(***************************************************************************)
EXTENDS Integers

CONSTANTS NumFallbacks,         \* fallback_providers.len()
          SubscriptionTimeout,  \* subscription_timeout
          CallTimeout,          \* call_timeout
          ReconnectInterval,    \* reconnect_interval
          Capacity,             \* subscription_buffer_capacity
          HttpProviders,        \* the providers without a pubsub frontend
          AllowHttp,            \* allow_http_subscriptions
          Emitters,             \* the providers that produce blocks
          Cancellable           \* the application may drop a recv() in progress

ASSUME RobustSubscriptionAssumption ==
    /\ NumFallbacks \in Nat
    /\ SubscriptionTimeout \in Nat /\ CallTimeout \in Nat
    /\ ReconnectInterval \in Nat
    /\ Capacity \in Nat \ {0}       \* both kinds of channel panic on 0
    /\ AllowHttp \in BOOLEAN /\ Cancellable \in BOOLEAN

\* 0 is the primary, i is fallback_providers[i - 1].
Providers == 0..NumFallbacks

NoAttempt == -1

Ages == 0..ReconnectInterval

\* The errors that make recv() switch provider.
SwitchErrors == {"Timeout", "Closed", "RpcError"}

VARIABLES
    pc,       \* where recv() is; "idle": no recv() in progress
              \* "unopened", "opening": before and during subscribe_blocks
    next,     \* the provider subscribe_blocks or switch_to_fallback is asking
    cause,    \* the error being handled by switch_to_fallback
    timer,    \* time since the await recv() is in was entered
    result,   \* what the last call returned; "None" while it runs
    backend,  \* the provider `backend` is connected to
    index,    \* current_fallback_index as a provider: 0 is None, i is Some(i - 1)
    last,     \* last_reconnect_attempt: NoAttempt, or the age of the instant
    pending,  \* items in the backend's channel
    lag,      \* the channel has overwritten items (WebSocket only)
    closed,   \* the channel's sender is gone
    serving,  \* the providers that accept subscriptions
    \* history
    tried,    \* age of the end of the last attempt to reconnect, dropped ones aside
    refused   \* the providers asked in vain since this search began

control == <<pc, next, cause, timer, result>>
subscription == <<backend, index, last>>
channel == <<pending, lag, closed>>
history == <<tried, refused>>

vars == <<control, subscription, channel, serving, history>>

Subscribing == {"opening", "periodic", "forced", "searching"}

\* No call of the library is in progress.
Resting == {"unopened", "idle"}

TypeOK ==
    /\ pc \in Resting \cup {"waiting", "fetching"} \cup Subscribing
    /\ next \in Providers
    /\ cause \in SwitchErrors \cup {"None"}
    /\ timer \in Nat
    /\ result \in SwitchErrors \cup {"None", "Block", "Lagged", "BlockNotFound"}
    /\ backend \in Providers /\ index \in Providers
    /\ last \in Ages \cup {NoAttempt}
    /\ pending \in 0..Capacity /\ lag \in BOOLEAN /\ closed \in BOOLEAN
    /\ serving \subseteq Providers
    /\ tried \in Ages /\ refused \subseteq Providers

Init ==
    /\ pc = "unopened" /\ next = 0 /\ cause = "None" /\ timer = 0 /\ result = "None"
    /\ backend = 0 /\ index = 0 /\ last = NoAttempt
    /\ pending = 0 /\ lag = FALSE /\ closed = FALSE
    /\ serving \in SUBSET Providers
    /\ tried = ReconnectInterval /\ refused = {}

IsOnFallback == index # 0

\* An HTTP provider accepts only when polling is allowed.
Accepts(p) == p \in serving /\ (p \in HttpProviders => AllowHttp)

-----------------------------------------------------------------------------
(* The providers, the channel and the clock.  (A definition named Mutant...*)
(* is the one below it with a plausible mistake; it is not part of Spec.)  *)

NodeChanges ==
    /\ \E p \in Providers :
          serving' = IF p \in serving THEN serving \ {p} ELSE serving \cup {p}
    /\ UNCHANGED <<control, subscription, channel, history>>

IsOpen == pc \notin {"unopened", "opening"}

\* A block (its header, or its hash over HTTP) enters the channel.  A full
\* broadcast channel overwrites its oldest item; the poller waits for room.
Arrive ==
    /\ backend \in Emitters /\ ~closed /\ IsOpen
    /\ \/ pending < Capacity /\ pending' = pending + 1 /\ UNCHANGED lag
       \/ pending = Capacity /\ backend \notin HttpProviders
          /\ lag' = TRUE /\ UNCHANGED pending
    /\ UNCHANGED <<control, subscription, closed, serving, history>>

\* The connection's service, or the poller's task, ends.
ChannelCloses ==
    /\ IsOpen /\ ~closed
    /\ closed' = TRUE
    /\ UNCHANGED <<control, subscription, pending, lag, serving, history>>

Older(age) == IF age \in 0..(ReconnectInterval - 1) THEN age + 1 ELSE age

Deadline ==
    IF pc \in Subscribing THEN CallTimeout ELSE SubscriptionTimeout

\* Time passes, but not beyond the deadline of the await recv() is in.
Tick ==
    /\ pc \notin Resting => timer < Deadline
    /\ timer' = IF pc \in Resting THEN timer ELSE timer + 1
    /\ last' = Older(last) /\ tried' = Older(tried)
    /\ UNCHANGED <<pc, next, cause, result, backend, index, channel, serving, refused>>

-----------------------------------------------------------------------------
(* subscribe_blocks.                                                       *)

OpenErrors == {"Timeout", "RpcError", "BlockNotFound"}

\* try_operation_with_failover: the primary first, then each fallback.
Subscribe ==
    /\ pc = "unopened"
    /\ pc' = "opening" /\ next' = 0 /\ timer' = 0 /\ result' = "None"
    /\ refused' = {}
    /\ UNCHANGED <<cause, subscription, channel, serving, tried>>

\* RobustSubscription::new, on whichever provider accepted: neither an index
\* nor a reconnection attempt is recorded.
OpenSucceeds ==
    /\ pc = "opening" /\ Accepts(next)
    /\ pc' = "idle" /\ next' = 0 /\ timer' = 0
    /\ backend' = next /\ index' = 0 /\ last' = NoAttempt
    /\ UNCHANGED <<cause, result, channel, serving, history>>

OpenFails ==
    /\ pc = "opening" /\ ~Accepts(next)
    /\ refused' = refused \cup {next}
    /\ timer' = 0
    /\ \/ next < NumFallbacks /\ next' = next + 1 /\ UNCHANGED <<pc, result>>
       \/ /\ next = NumFallbacks /\ next' = 0
          /\ pc' = "unopened"
          /\ result' \in OpenErrors
    /\ UNCHANGED <<cause, subscription, channel, serving, tried>>

-----------------------------------------------------------------------------
(* recv().                                                                 *)

\* The loop of recv() goes around: await the backend, for at most
\* SubscriptionTimeout.
Await ==
    /\ pc' = "waiting" /\ timer' = 0 /\ next' = 0 /\ cause' = "None"

Return(r) ==
    /\ pc' = "idle" /\ timer' = 0 /\ next' = 0 /\ cause' = "None"
    /\ result' = r

Recv ==
    /\ pc = "idle"
    /\ Await /\ result' = "None"
    /\ UNCHANGED <<subscription, channel, serving, history>>

\* Mutant of Connect: the new backend is not stored.
MutantConnect(p) ==
    /\ backend' = backend /\ index' = p
    /\ pending' = 0 /\ lag' = FALSE /\ closed' = FALSE

\* `self.backend = backend`: the channel of the old backend is dropped with
\* whatever is in it.
Connect(p) ==
    /\ backend' = p /\ index' = p
    /\ pending' = 0 /\ lag' = FALSE /\ closed' = FALSE

\* try_reconnect_to_primary(false): on a fallback, once the interval is over.
ReconnectIsDue == IsOnFallback /\ last # NoAttempt /\ last >= ReconnectInterval

\* recv() has a header.
Delivered ==
    \/ /\ ReconnectIsDue
       /\ pc' = "periodic" /\ timer' = 0
       /\ UNCHANGED <<next, cause, result>>
    \/ /\ ~ReconnectIsDue
       /\ Return("Block")

\* A header over WebSocket; over HTTP a hash, whose block is fetched first.
ReceiveBlock ==
    /\ pc = "waiting" /\ pending > 0 /\ ~lag
    /\ pending' = pending - 1
    /\ \/ /\ backend \in HttpProviders
          /\ pc' = "fetching" /\ timer' = 0
          /\ UNCHANGED <<next, cause, result>>
       \/ /\ backend \notin HttpProviders
          /\ Delivered
    /\ UNCHANGED <<subscription, lag, closed, serving, history>>

\* The consumer is told; no failover.
ReceiveLagged ==
    /\ pc = "waiting" /\ lag
    /\ lag' = FALSE
    /\ Return("Lagged")
    /\ UNCHANGED <<subscription, pending, closed, serving, history>>

\* get_block_by_hash answers.
FetchBlock ==
    /\ pc = "fetching"
    /\ Delivered
    /\ UNCHANGED <<subscription, channel, serving, history>>

\* get_block_by_hash has no block for the hash: returned without failover.
FetchNotFound ==
    /\ pc = "fetching"
    /\ Return("BlockNotFound")
    /\ UNCHANGED <<subscription, channel, serving, history>>

\* Mutants of AskFallback: one fallback too many is asked; after the last
\* fallback the search starts over; whatever was wrong, the end is Closed.
MutantAskBeyond(p, e) ==
    IF p <= NumFallbacks + 1
    THEN pc' = "searching" /\ next' = p /\ cause' = e /\ timer' = 0 /\ UNCHANGED result
    ELSE Return(e)

MutantAskAround(p, e) ==
    /\ pc' = "searching" /\ cause' = e /\ timer' = 0 /\ UNCHANGED result
    /\ next' = IF p <= NumFallbacks THEN p ELSE 1

MutantAskClosed(p, e) ==
    IF p <= NumFallbacks
    THEN pc' = "searching" /\ next' = p /\ cause' = e /\ timer' = 0 /\ UNCHANGED result
    ELSE Return("Closed")

\* `Err(last_error.into())` once there is no fallback left to ask.
AskFallback(p, e) ==
    IF p <= NumFallbacks
    THEN pc' = "searching" /\ next' = p /\ cause' = e /\ timer' = 0 /\ UNCHANGED result
    ELSE Return(e)

\* Mutants of Switch: the clock is not armed; the primary is not asked first.
MutantSwitchUnarmed(e) ==
    \/ /\ IsOnFallback
       /\ pc' = "forced" /\ cause' = e /\ timer' = 0
       /\ refused' = {}
       /\ UNCHANGED <<next, result, last, tried>>
    \/ /\ ~IsOnFallback
       /\ refused' = {}
       /\ AskFallback(index + 1, e)
       /\ UNCHANGED <<last, tried>>

MutantSwitchPastPrimary(e) ==
    /\ last' = IF last = NoAttempt THEN 0 ELSE last
    /\ refused' = {}
    /\ AskFallback(index + 1, e)
    /\ UNCHANGED tried

\* switch_to_fallback.  On a fallback the primary is asked first; otherwise
\* the clock is armed and the search starts behind the current provider.
Switch(e) ==
    \/ /\ IsOnFallback
       /\ pc' = "forced" /\ cause' = e /\ timer' = 0
       /\ refused' = {}
       /\ UNCHANGED <<next, result, last, tried>>
    \/ /\ ~IsOnFallback
       /\ last' = IF last = NoAttempt THEN 0 ELSE last
       /\ refused' = {}
       /\ AskFallback(index + 1, e)
       /\ UNCHANGED tried

\* Nothing arrived for SubscriptionTimeout.
ReceiveTimeout ==
    /\ pc = "waiting" /\ timer = SubscriptionTimeout
    /\ pending = 0 /\ ~lag /\ ~closed
    /\ Switch("Timeout")
    /\ UNCHANGED <<backend, index, channel, serving>>

\* What was in the channel when it closed is received first.
ReceiveClosed ==
    /\ pc = "waiting" /\ closed /\ pending = 0 /\ ~lag
    /\ Switch("Closed")
    /\ UNCHANGED <<backend, index, channel, serving>>

\* get_block_by_hash fails, or does not answer within SubscriptionTimeout.
FetchFails ==
    /\ pc = "fetching"
    /\ \E e \in {"Timeout", "RpcError"} : Switch(e)
    /\ UNCHANGED <<backend, index, channel, serving>>

\* Reconnected to the primary: a periodic attempt still has its header to
\* return, a forced one goes back to receiving.
ReconnectSucceeds ==
    /\ pc \in {"periodic", "forced"} /\ Accepts(0)
    /\ Connect(0) /\ last' = NoAttempt
    /\ tried' = 0 /\ refused' = {}
    /\ \/ pc = "periodic" /\ Return("Block")
       \/ pc = "forced" /\ Await /\ UNCHANGED result
    /\ UNCHANGED serving

\* Mutant of PeriodicFails: the failed attempt is not recorded.
MutantPeriodicFails ==
    /\ pc = "periodic" /\ ~Accepts(0)
    /\ tried' = 0
    /\ Return("Block")
    /\ UNCHANGED <<subscription, channel, serving, refused>>

PeriodicFails ==
    /\ pc = "periodic" /\ ~Accepts(0)
    /\ last' = 0 /\ tried' = 0
    /\ Return("Block")
    /\ UNCHANGED <<backend, index, channel, serving, refused>>

\* The primary is down: search from the fallback after the current one.
ForcedFails ==
    /\ pc = "forced" /\ ~Accepts(0)
    /\ last' = 0 /\ tried' = 0 /\ refused' = refused \cup {0}
    /\ AskFallback(index + 1, cause)
    /\ UNCHANGED <<backend, index, channel, serving>>

SearchSucceeds ==
    /\ pc = "searching" /\ Accepts(next)
    /\ Connect(next)
    /\ Await
    /\ UNCHANGED <<result, last, serving, history>>

SearchFails ==
    /\ pc = "searching" /\ ~Accepts(next)
    /\ refused' = refused \cup {next}
    /\ AskFallback(next + 1, cause)
    /\ UNCHANGED <<subscription, channel, serving, tried>>

\* The application drops the future it awaits (a timeout or select! around
\* it): what was being done is abandoned, the subscription stays as it is.
Cancel ==
    /\ Cancellable /\ pc \notin Resting
    /\ pc' = IF pc = "opening" THEN "unopened" ELSE "idle"
    /\ timer' = 0 /\ next' = 0 /\ cause' = "None" /\ result' = "None"
    /\ UNCHANGED <<subscription, channel, serving, history>>

-----------------------------------------------------------------------------
Environment == NodeChanges \/ Arrive \/ ChannelCloses

\* What the future of subscribe_blocks or recv() does when it is polled.
Handle ==
    \/ OpenSucceeds \/ OpenFails
    \/ ReceiveBlock \/ ReceiveLagged \/ ReceiveTimeout \/ ReceiveClosed
    \/ FetchBlock \/ FetchNotFound \/ FetchFails
    \/ ReconnectSucceeds \/ PeriodicFails \/ ForcedFails
    \/ SearchSucceeds \/ SearchFails

Next == Environment \/ Tick \/ Subscribe \/ Recv \/ Handle \/ Cancel

\* Time passes, the executor polls recv() when it can go on, the consumer
\* keeps calling it and a provider with blocks to send sends them.
Fairness == WF_vars(Tick) /\ WF_vars(Handle) /\ WF_vars(Recv) /\ WF_vars(Arrive)

Spec == Init /\ [][Next]_vars

FairSpec == Spec /\ Fairness

-----------------------------------------------------------------------------
(* Properties.                                                             *)

\* While current_fallback_index names a fallback, that fallback is where the
\* blocks come from.  The two are set one after the other with no await between
\* them: they differ only if one of the assignments is forgotten.
IndexNamesBackend == IsOnFallback => backend = index

\* On a fallback the reconnection clock is always running.  Were it not,
\* try_reconnect_to_primary(false) would never ask the primary again.
ClockArmedOnFallback == IsOnFallback => last # NoAttempt

\* How recv()'s position, the index, the clock and the search go together.
RecvShape ==
    /\ pc \in {"unopened", "opening"} => ~IsOnFallback /\ last = NoAttempt
    /\ pc = "opening" => next \in Providers /\ 0..(next - 1) \subseteq refused
    /\ pc \in {"periodic", "forced"} => IsOnFallback
    /\ pc = "searching" =>
          /\ index < next /\ next <= NumFallbacks
          /\ last # NoAttempt
          /\ (index + 1)..(next - 1) \subseteq refused
          /\ IsOnFallback => 0 \in refused
    /\ pc \in {"forced", "searching"} => cause \in SwitchErrors
    /\ pc \in {"opening", "waiting", "fetching"} \cup Resting => cause = "None"
    /\ pc \in Resting => timer = 0
    /\ pc \notin Resting => result = "None"
    /\ pc \notin Resting => timer <= Deadline

\* A provider is skipped only when it refused, in this very switch: the index
\* moves up past refusing fallbacks, and on a fallback only after the primary
\* refused as well.
FailoverInOrder ==
    [][(index' # index /\ index' # 0) =>
          /\ index < index'
          /\ (index + 1)..(index' - 1) \subseteq refused
          /\ IsOnFallback => 0 \in refused]_vars

PeriodicAttemptBegins == pc # "periodic" /\ pc' = "periodic"

\* "Every reconnect_interval": a periodic attempt to reconnect begins an interval
\* or more after the last attempt has ended, whether that was periodic or forced,
\* failed or not, and however failovers came between.  Only attempts that are
\* awaited to their end count: one that is dropped midway is not recorded, and
\* the next block may start another at once.
AttemptsKeepInterval == [][PeriodicAttemptBegins => tried >= ReconnectInterval]_vars

Asking == CASE pc = "forced"    -> 0
            [] pc = "searching" -> next
            [] OTHER            -> -1

Promise == INSTANCE SubscriptionFailover WITH
    at <- index, asking <- Asking, failed <- pc = "idle" /\ result \in SwitchErrors

\* Receiving, failing over, returning and dropping calls do what
\* SubscriptionFailover promises: who is asked, in which order, and who wins.
ImplementsPromise == Promise!Spec

Channel == INSTANCE BackendChannel WITH bounded <- backend \in HttpProviders

\* What the subscription assumes of the channel of its backend, and what it does
\* with it, is BackendChannel; a change of backend changes all of it at once.
\* Nothing in the code could change one part of the channel alone, so this is
\* proved, for HttpPolling to build on, and not run.
UsesChannel == Channel!Spec

\* How far recv(), or subscribe_blocks, has got with the provider it is on.
Stage == CASE pc = "opening"                -> 0
           [] pc = "waiting"                -> 1
           [] pc = "fetching"               -> 2
           [] pc \in {"periodic", "forced"} -> 3
           [] OTHER                         -> 4

GetsOn ==
    \/ index' > index
    \/ index' = index /\ Stage' > Stage
    \/ index' = index /\ Stage' = Stage /\ next' > next
    \/ index' = index /\ Stage' = Stage /\ next' = next /\ timer' > timer

\* A recv() in progress only gets on: to a later provider, further with this one,
\* to the next one asked, or nearer to a deadline.  All of these are bounded, so
\* it comes to an end, unless it goes around by way of a primary that accepts a
\* subscription it then does not serve.
RecvGetsOn ==
    [][pc \notin Resting /\ pc' \notin Resting /\ control' # control =>
          GetsOn \/ (pc = "forced" /\ Accepts(0) /\ index' = 0)]_vars

\* From some time on the application awaits every call to its end.
CancelsNoMore == <>[][~Cancel]_vars

\* Once the primary accepts subscriptions for good, a subscription on a fallback
\* goes back to it, whatever was cancelled before, provided recv() does not go
\* on forever returning Lagged or BlockNotFound: those two keep the subscription
\* where it is and never ask the primary.
ReturnsToPrimary ==
    (/\ <>[]Accepts(0) /\ CancelsNoMore
     /\ <>[](result \notin {"Lagged", "BlockNotFound"}))
        => [](IsOnFallback => <>~IsOnFallback)

\* recv() returns, with a block or an error, unless the primary keeps
\* accepting subscriptions (see HealthyFallbackIsReached).
RecvReturns ==
    <>[]~Accepts(0) /\ CancelsNoMore => [](pc = "waiting" => <>(pc = "idle"))

-----------------------------------------------------------------------------
(* What the documentation says.                                            *)

\* is_on_fallback: "Returns true if currently using a fallback provider".
FallbackIsNoticed == IsOpen /\ backend # 0 => IsOnFallback

\* "Eventually receive blocks from a working fallback": when every provider
\* accepts subscriptions and keeps them open, but only the last fallback still
\* produces blocks, recv() gets to it.
HealthyFallbackIsReached ==
    <>[](serving = Providers /\ ~closed) => [](pc = "waiting" => <>(pc = "idle"))

\* "Subscription types that automatically reconnect on failure": with the
\* primary accepting subscriptions again, a closed channel is replaced.
ClosedIsRepaired == <>[]Accepts(0) => [](closed => <>~closed)

=============================================================================
