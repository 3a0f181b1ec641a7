# A TLA+ verification of Robust-Provider

Robust-Provider wraps Ethereum JSON-RPC providers (alloy's `RootProvider`) with
retries, timeouts, failover from a primary to an ordered list of fallbacks, and
block subscriptions that move between providers and return to the primary.

This directory holds TLA+ modules of its core, TLC configurations that check
them on small instances, and theorems proved with TLAPS for every instance.
Paths and line numbers refer to the repository's source under `src/`; the crate
is `src/src/`.

- [Inventory](#inventory): the system's parts
- [Modules](#modules): which module stands for which code
- [Runs](#runs): what TLC checks, on which bounds
- [Fairness](#fairness)
- [Proofs](#proofs): what holds for all values of the constants
- [Disagreements found](#disagreements-found)
- [Not modelled](#not-modelled)
- [Plan](#plan)

## Inventory

### Error classification — `robust_provider/errors.rs`

Stateless. `RpcError`s of alloy, tokio's `Elapsed` and `Closed` become a
`FailoverError` (inside) and an `Error` (for the caller). A node's error response
is classified by code and message (geth, besu and anvil patterns) as block not
found, invalid log filter, or anything else; the first two are final, the rest
is retried. *Correct if* a final error is never retried unless alloy itself marks
it retryable, and if the caller sees `BlockNotFound` exactly for not-found verdicts.

### A call with retry, timeout and failover — `robust_provider/provider.rs`

- **State**: the position in the provider list, the backoff iterator (retries,
  current delay), the deadline of the `tokio::time::timeout`, `last_error`.
  Nothing survives the call.
- **Operations**: `try_operation_with_failover` (primary, then
  `try_fallback_providers_from(0)`), each provider through
  `try_provider_with_timeout`: one timeout around an exponential backoff that
  retries what `.when` accepts.
- **Interactions**: `robust_rpc!` methods call it and unwrap an `Option` when
  declared `; or BlockNotFound`; `subscribe_blocks` runs it on the operation
  "subscribe"; `recv()` uses it through `get_block_by_hash`, and
  `try_provider_with_timeout` for each reconnection or failover.
- **Hard**: a deadline that falls into an attempt or into a sleep; answers that
  get lost after the node executed the request (`send_transaction` is retried
  as well); which error survives when several providers fail.
- **Correct if** it always ends, within one timeout per provider; providers are
  tried in order; the first answer wins; the executions it causes are bounded, and
  all but one explained by attempts that gave no value; backoff is slept.

### Block subscription — `robust_provider/subscription.rs`, `provider.rs:460`

- **State**: `backend` (a WebSocket broadcast receiver or an mpsc receiver of
  hashes), `current_fallback_index`, `last_reconnect_attempt`; the position of
  the `recv()` future in its loop.
- **Operations**: `subscribe_blocks` / `RobustSubscription::new`, `recv`,
  `try_reconnect_to_primary`, `switch_to_fallback`, dropping any future in the
  middle; `is_empty` only reads.
- **Interactions**: the backend's channel is filled by alloy's pubsub service or
  by the polling task; every attempt to connect is a call with retries.
- **Hard**: three fields that change at different awaits; time (subscription
  timeout, reconnect interval) against events; providers that accept a
  subscription but are silent; a future dropped halfway; the return to the
  primary that depends on a block arriving.
- **Correct if** index, backend and clock agree; failover skips nobody; a primary
  that is well again is eventually used again, and not asked more often than
  configured. Some of what the documentation adds does not hold, see
  [Disagreements found](#disagreements-found).

### HTTP polling backend — `robust_provider/subscription.rs:50`

- **State**: the task spawned by `From<PollerBuilder>` (awaiting the stream or
  in the `for` loop over a batch), a bounded mpsc channel, its receiver.
- **Hard**: back-pressure in the middle of a batch; the stream or the receiver
  ending at any moment.
- **Correct if** nothing is lost, duplicated or reordered while the receiver is
  held, and the task ends once the receiver is gone.

### Subscription stream — `robust_provider/subscription.rs:327`

- **State**: one future, of a `recv()` in progress or not yet started, which
  owns the subscription.
- **Operations**: `into_stream`, `poll_next`, dropping `next()` (which drops a
  borrow and leaves the future).
- **Hard**: the future is suspended at any await while its timeouts run on; it is
  re-armed before the result is looked at, so a stream that has said `None` is
  a stream that goes on.
- **Correct if** it loses no block that `recv()` has taken without an error or a
  change of provider, ends only when the channel is gone, and makes progress
  however `next()` is dropped.

### RPC method wrappers and fee estimation — `macros/rpc.rs`, `provider.rs:76`

- **State**: none here. But filters live at one node, hand out their logs once,
  and every call starts at the primary; `estimate_eip1559_fees_with` combines
  the answers of two calls.
- **Hard**: failover between two calls, or in the second; lost answers of calls
  that change the node; an answer of the wrong node ("filter not found", `false`).
- **Correct if** a filter is called missing only when its node is, logs get lost
  only with an answer, filters are left behind only for such a reason, and an
  estimate mixes two nodes only after a failure.

### Builder and provider conversion — `builder.rs`, `provider_conversion.rs`

- **State**: the options, the primary, a list of futures that connect the
  fallbacks and have not been polled.
- **Operations**: `new`, `fragile`, `fallback`, the setters, `build`;
  `into_root_provider` (dials a WebSocket URL, makes a client for an HTTP one, or
  hands over a provider that has a connection),
  `into_robust_provider`.
- **Hard**: `build` awaits the connections one after the other, without a
  timeout, and the first refusal fails it.
- **Correct if** nobody is dialled before `build` and out of turn, the provider
  built is the one configured, and `build` ends unless a node is silent.

Tracing macros, re-exports (`macros/tracing.rs`, `lib.rs`, `mod.rs`) have
neither state nor behaviour.

## Modules

| Module | Stands for |
| --- | --- |
| `RpcErrors` | errors, their classification and conversions; no variables |
| `FailoverCall` | abstract: what a call promises |
| `FailoverCalls` | abstract: what a sequence of calls promises; extends `FailoverCall` |
| `RobustCall` | one call, its attempts, backoff, deadline, and the network |
| `SubscriptionFailover` | abstract: what a subscription promises of its provider |
| `BackendChannel` | abstract: the channel between a backend and a subscription |
| `RobustSubscription` | `subscribe_blocks`, `recv()` and what it calls |
| `BlockFeed` | which blocks a subscription hands out; extends `RobustSubscription` |
| `SubscriptionStream` | the stream over it; extends `BlockFeed` |
| `HttpPolling` | the polling task, its channel and its receiver |
| `RobustSession` | a sequence of calls: filters, fee estimates |
| `Builder` | `RobustProviderBuilder` and the conversions |
| `MC…` | values of the constants for TLC |
| `MCFailoverClock` | `RobustSubscription` with the age of the last failover |
| `…Proofs` | theorems about the module they extend |

`RobustCall` extends `RpcErrors` and implements `FailoverCall` (`Failover ==
INSTANCE FailoverCall WITH trying <- provider, verdict <- Verdict`).
`RobustSubscription` implements `SubscriptionFailover` (`Promise`).
`BackendChannel` is where the subscription and the poller meet: `HttpPolling`
implements it, and so does what `RobustSubscription` does with its channel
(`Channel` in both), so what the subscription assumes of an HTTP backend is what
the poller provides. `FailoverCalls` is where a single call and a session meet:
`RobustSession` implements it (`Calls`), so the reduced calls of a session do what
`RobustCall` is shown to do.

A definition named `Mutant…` is the definition below it with a plausible coding
mistake. No specification uses it; put in the place of the original it must
break the property that `PROJECT.json` pairs it with, which shows that the
property depends on the code.

### `RpcErrors`

Codes are the constants of `errors.rs`. Messages are classes, one per set of
literals that the code's patterns treat alike (`geth_missing`: the `matches!`
list of geth; `geth_tracer`: the `starts_with("block") && ends_with("not found")`
pattern; and so on), so a pattern becomes membership in a set of classes.
`marked` is alloy's `is_retry_err()`. `ShouldRetry` is the `.when` closure with
its arms in their order, `ErrorFrom` is `impl From<FailoverError> for Error`.

### `RobustCall`

`provider`, `retries`, `delay`, `wait` and `spent` are the position in the
provider list, the backoff iterator, the rest of a sleep and the age of the
timeout. `Retry` is an attempt answered by a retryable error followed by the
backoff's decision to sleep; `GiveUp` and `TimedOut` return an error to the loop
over the providers, which goes to the next one (`TryNextFallback`) or returns
(`Exhausted`); `Succeed` returns `Ok` and unwraps it.

The network is explicit: `Land` is the node's execution of the request, which
may or may not precede the loss of its answer; `stray` counts abandoned requests
that may still be executed (`LandStray`). No error proves anything about the
execution: the `send_…_sync` methods may answer with an error for a transaction
they have sent, an unreadable answer comes from a node that may have executed the
request, and a local error may come before it is sent. After an error response or a
local error nothing is under way any more (`FailSettled`); after a transport error
the request may be (`LoseAnswer`).

External behaviour assumed: backon's `ExponentialBuilder` starts at `min_delay`,
doubles, is capped (60 s by default, `MaxDelay` here) and has no jitter as
configured; `tokio::time::timeout` polls the inner future before its deadline,
so an answer that is there at the deadline still wins (`Succeed` and `TimedOut`
are both enabled then, since the answer may arrive just before or after).

### `RobustSubscription`

`pc` is the await that `recv()` is in:

| `pc` | Code |
| --- | --- |
| `unopened`, `opening` | before and in `subscribe_blocks`, asking provider `next` |
| `idle` | no call in progress |
| `waiting` | `timeout(subscription_timeout, receiver.recv())` |
| `fetching` | `timeout(subscription_timeout, get_block_by_hash(hash))`, HTTP only |
| `periodic`, `forced` | in `try_reconnect_to_primary(false)` / `(true)` |
| `searching` | in the loop of `switch_to_fallback`, asking provider `next` |

`index` is `current_fallback_index` (0 for `None`, `i` for `Some(i - 1)`),
`backend` the provider the backend is connected to, `last` the age of
`last_reconnect_attempt` (`NoAttempt` for `None`). The channel is a count with
flags `lag` (broadcast overwrote items) and `closed`. One attempt at a provider
is `try_provider_with_timeout`, reduced to "accepts or not, within
`CallTimeout`"; `RobustCall` has its detail. The environment lets providers
start and stop accepting subscriptions (`NodeChanges`), send blocks (`Arrive`)
and close channels (`ChannelCloses`) at any moment. `Cancel` drops the future
of a call at any await (a `select!` or `timeout` around it).

Two history variables serve the properties: `tried` (age of the end of the last
attempt to reconnect that was not dropped) and `refused` (who refused in the current
search). `MCFailoverClock` adds a third, `away` (age of the last failover off the
primary), for the one run that asks for it.

`SubscriptionFailover` has only the provider the subscription is on, the one it is
asking, and whether the consumer has been told that all refused. Under the mapping,
`at` is `index`, `asking` the provider asked in a forced attempt or a search
(`Asking`), `failed` an error returned after a failed search; receiving, fetching and
periodic attempts that fail are stutters. `BackendChannel` has the number of items in
the channel, whether the receiver missed some, and whether the sender is gone; a
change of backend is its `Replace`, which changes all of these at once.

### `BlockFeed`

`RobustSubscription` counts the items of the channel; here `queue` holds them, as
numbers of blocks, and each action of `RobustSubscription` is joined by what it
does to them. `Join` is a new connection, which announces what its provider mines
from then on. Over HTTP an item is a hash, and `FetchElsewhere`, `FetchAnswered`,
`FetchMisses` and `FetchStumbles` are the steps of `get_block_by_hash`, which
asks the primary first (`asked`), whoever announced the hash. A provider whose `head`
is behind answers `None`, which ends the call, or an error response that says the same,
which sends the call on to the next provider (`FetchElsewhere`). `PollLost` is the poll
of `HttpPolling` whose answer is lost: what it would have announced never enters the
channel and is in `skipped`. `got` is the last block handed out and `since`
why the next one may not be its successor: the consumer was told of a loss
(`Lagged`, an error), dropped a `recv()` that held a block, or the provider
changed. Blocks are numbered along one chain, without reorganisations.

### `SubscriptionStream`

`consumer` says whether the application holds the subscription or a stream,
`attended` whether `next()` is being awaited. `recv()`'s steps (`FeedHandle`) are
taken while it is polled (`Proceed`); `DropNext` leaves them where they are, and
time goes on, even past their deadlines (`TickSuspended`). Awaiting `next()`
afterwards (`AwaitNext`) resumes the same `recv()`.

### `RobustSession`

Calls are reduced to attempts at a provider that fail, are executed, or are
executed and their answers lost; `RetryOrNext` and `NextProvider` are the retries
and the loop over the fallbacks. Nodes keep filters: `site[f]` is where a filter
is, `unread[f]` the logs it would hand out next, and a node may forget them
(`Forgets`). Ids are taken as unique over the nodes, as they are with nodes that draw
them at random; with nodes that count, another node could answer with the logs of a
filter of its own. `Begin` is the start of a call, at the primary. "filter not found" is
an error that `is_invalid_log_filter` makes final, so the next provider is asked
(`FilterNotFound`). `GotHistory` ends an estimate or goes on to the second call.
Under the
mapping to `FailoverCalls`, a node's `None` for the latest block is an answer to the
call, although the estimate that asked becomes an error (`NoBaseFee`).
The history variables `delivered`, `lossy`, `orphans` and `failing` record what
the application got, and why it did not get the rest.

### `Builder`

`chain` is the primary and the fallbacks, each a provider (`Given`) or a
well-formed URL (`Urls`); `WsUrls` are the URLs that are dialled, an HTTP client
connecting only when there is a request, and `endpoint` how the node behind one of
them treats a dial.
`Fallback` pushes a future that nobody has polled; `Dial` polls the next one,
`Connects` and `Refused` end it. The setters are one action over `Options`; values
are `default`, `zero` (what `fragile` sets) and `set`. `BuildDefault` is
`into_robust_provider` of anything but a `RobustProvider`, `IntoRobust` of one.

### `HttpPolling`

`Poll`, `Send`, `SendFails`, `BatchSent` and `StreamEnds` are the task's loop
(`while let Some(hashes)`, `sender.send`, its error, the end of the `for`, the
end of the stream), `Recv` and `DropReceiver` the subscription's side. A poll
whose answer gets lost (`PollLost`) loses the hashes before the stream yields
them: alloy logs the error and goes on, and the node's filter has moved on. The
properties are therefore about what the stream yielded (`reported`).

## Runs

`tlc -config X.cfg M` in this directory. Deadlock is checked for the
subscriptions, streams and sessions, and not for a call, a poller or a builder,
which come to an end.

| Run | Module, cfg | Shows |
| --- | --- | --- |
| `call` | `MCRobustCall`, `Call.cfg` | time, executions, backoff and verdict of a call are bounded and accounted for; each step gets on, and it ends; it implements `FailoverCall` |
| `subscription` | `MCRobustSubscription`, `Subscription.cfg` | index, backend, clock and search stay consistent, with `recv()` dropped at any await; `SubscriptionFailover` is implemented; attempts at the primary keep the interval; the return to it; `recv()` gets on and returns |
| `stream` | `MCSubscriptionStream`, `Stream.cfg` | blocks in sequence, through `recv()` and through a stream; a stream loses none unnoticed, ends only when closed, and goes on |
| `polling` | `HttpPolling`, `Polling.cfg` | nothing is lost, duplicated or reordered between stream and subscription; `BackendChannel` is implemented; all is delivered |
| `builder` | `MCBuilder`, `Builder.cfg` | providers dialled in turn; what is built is what was configured; `build` ends |
| `session` | `RobustSession`, `Session.cfg` | logs, filters and fee estimates over failovers and lost answers; `FailoverCalls` is implemented |
| `sub_starts_on_fallback` | `MCRobustSubscription`, `SubStartsOnFallback.cfg` | *violated*: a subscription opened on a fallback does not notice |
| `sub_stale_clock` | `MCFailoverClock`, `SubStaleClock.cfg` | *violated*: the first reconnection attempt may come at once |
| `sub_ping_pong` | `MCRobustSubscription`, `SubPingPong.cfg` | *violated*: a healthy second fallback is never reached |
| `sub_closed` | `MCRobustSubscription`, `SubClosed.cfg` | *violated*: a closed primary is never reopened |
| `poller_leak` | `HttpPolling`, `PollerLeak.cfg` | *violated*: a poller outlives its receiver |
| `feed_lagging_primary` | `MCSubscriptionStream`, `FeedLaggingPrimary.cfg` | *violated*: a block that its announcer has is `BlockNotFound` |

### Properties, and the mistakes they would catch

Of a call:

- `DeadlineBound`: no path of attempts and sleeps escapes a provider's timeout,
  so a call is over after one `call_timeout` per provider.
- `RepeatedForCause`, `ExecutionBudget`: every execution but one is explained by
  an attempt that gave no value (an error, an answer that was late, lost or
  unreadable), and there are at most `(fallbacks + 1) * (max_retries + 1)`. An error
  is no proof that nothing was executed, so a transaction may well be sent twice.
- `BackoffPaid`: delay `d` is only reached after sleeping what leads up to it.
- `NotFoundIsLastVerdict`: an earlier provider's not-found is not reported.
- `ImplementsFailover`: order, first answer wins, and an end (`FailoverCall` is fair).
- `CallGetsOn`: no step takes back what the call has got through (provider, time
  spent, retries), all of which are bounded: why it ends.

Of a subscription:

- `IndexNamesBackend`: on a fallback the blocks come from the one that the index
  names. The two fields are set without an await between them, so this is about a
  forgotten assignment.
- `ClockArmedOnFallback`: the clock runs on every fallback, although it is set before
  and after awaits at which `recv()` may be dropped.
- `FailoverInOrder`: a fallback is skipped only if it refused in the same search.
- `AttemptsKeepInterval`: a periodic attempt begins an interval or more after the
  last attempt has ended, forced ones included, whatever sequence of failovers and
  reconnections came before. An attempt that is dropped midway does not count, since
  the code does not record it (see [below](#disagreements-found)); the attempts of a
  stream are never dropped, as they stay in its future when `next()` is.
- `ImplementsPromise`: the primary is asked first, then the fallbacks behind the
  present one, one at a time and each once; nothing else moves a subscription.
- `ReturnsToPrimary`: with the primary accepting for good, every fallback
  episode ends. `Lagged` and `BlockNotFound` return without an attempt, hence
  the premise that `recv()` does not return these for ever, and the one that
  it is not dropped for ever (`CancelsNoMore`).
- `RecvGetsOn`: no step of a `recv()` takes back what it has got through, but the
  one that disagreement 3 below is about: a forced attempt at the primary succeeds.
- `RecvReturns`: with the primary down for good, each `recv()` returns, once they
  are no longer dropped.

Of blocks and streams:

- `InSequence`: on one connection blocks ascend and each comes at most once. Over a
  WebSocket a gap means that the consumer was told, or dropped a `recv()` that held a
  block. Over HTTP blocks of lost polls may be missing besides, and only those; nobody
  is told. `builder.rs:186-189` warns that intermediate blocks may not be observed.
- `StreamKeepsBlock`: a stream does not lose the block it has taken with its `next()`:
  it yields the block, or an error in its place, or has changed provider.
- `EndsOnlyWhenClosed`: `None` means a closed channel and no taker among the
  fallbacks.
- `StreamGoesOn`: an application that drops every `next()` still gets something.

Of sessions and builders:

- `LogsAccounted`: no log twice; logs get lost only with an answer.
- `NotFoundForCause`: "filter not found" only if the filter's own node failed in
  this call, or has dropped the filter.
- `NoFilterLeftBehind`: a filter stays behind only when the answer that named it
  was lost, or another node answered `uninstall_filter` with `false`.
- `FeesFromOneProvider`: an estimate mixes two providers only after a failure.
- `ImplementsCalls`: each call starts at the primary whoever answered the last one,
  and fails, "filter not found" included, only after all providers.
- `DialledInTurn`, `BuiltAsConfigured`, `BuildEnds`.

Of the poller: `NothingLostInChannel`, `AllDelivered`; `DeliveredInOrder`: whatever
polls get lost, no hash is received twice or after that of a later block;
`ProvidesChannel`: the channel never exceeds its bound and never lags.

### Bounds

- **Call**: two fallbacks (the first, a middle and the last provider differ in
  the code), three retries, so the delays are 1, 2, 3 and the third is capped;
  a timeout of six ticks, less than what three sleeps and slow answers can need,
  so that it strikes in attempts and in sleeps, and enough for all retries to
  be used up. Seven errors, one per way the code treats an error (`MCReplies`),
  including one marked retryable that says "not found". Everything that happens
  in a call is bounded by the timeouts, so the state space needs no other bound.
- **Subscription**: two fallbacks, so that the search can skip, pass and exhaust;
  an HTTP fallback between two WebSocket providers, so that both kinds of
  backend and the fetch occur. Ages stop at `ReconnectInterval`, the only value
  they are compared with, so no bound on time is needed. The interval (3) is
  longer than a subscription timeout or an attempt (2), so it can end in each of
  them. Safety and liveness are checked together, with `recv()` dropped at will.
- **Stream**: a WebSocket primary and one HTTP fallback, so that every way to
  take, fetch and lose a block and every change of provider occurs; three blocks
  at each (one handed out, one overwritten or lost with its poll, one after it;
  `Capacity` 1), which is also enough to be ahead of and behind each other.
  `MaxHeight` bounds what a provider mines, not how often things happen.
- **Session**: three nodes (the first, a middle and the last), one retry, two
  filters and one log for each: two filters may be at different nodes, and one
  is left behind while the other is used. The numbers of calls, failures and
  restarts are not bounded. An execution happens while the attempt is awaited
  or not at all; executions that come later are in `RobustCall`.
- **Builder**: a provider, two WebSocket URLs and an HTTP one in any order and number up to three, so
  that a refusal can come first, between or last; three options, the two of
  `fragile` and another.
- **Poller**: a channel of 2 and 5 blocks: a batch may exceed the channel, and
  be preceded by a full one. `MaxBlocks` bounds what the node mines.

## Fairness

- `RobustCall`: weak fairness of `Wake`, `TimedOut` and `Tick`: the runtime
  serves timers and polls woken futures. None for `Land`, `Succeed`, `Retry`
  or `GiveUp`: nodes owe nothing.
- `RobustSubscription`: weak fairness of `Tick` (time), `Handle` (the executor
  polls the future when it can go on), `Recv` (the consumer calls `recv()`
  again), `Arrive` (a provider with blocks keeps sending them, where
  `Emitters` says so). None for `NodeChanges` and `ChannelCloses`.
- `SubscriptionStream`: weak fairness of `Tick` and `AwaitNext` (the application
  awaits `next()` again and again), strong fairness of `Proceed` in a stream:
  each await of `next()` polls the future at least once before it is dropped, so
  a step that is possible time and again when it is awaited is taken. Nothing is
  assumed of an application that calls `recv()` itself.
- `Builder`: weak fairness of `Work` (the executor polls `build`); none for the
  nodes, which may be silent, or for the application. `RobustSession` has none.
- `HttpPolling`: weak fairness of the task's steps and of `Recv`; none for the
  node, for the end of the stream, or for dropping the receiver.

## Proofs

`tlapm M.tla` proves each of the six proof modules from nothing in seconds. They
assume what the modules' named `ASSUME`s say (natural numbers, a channel
capacity that is not 0, blocks produced by providers) and nothing else; TLC
evaluates those in the runs.

**`RobustCallProofs`**. The inductive invariant joins `TypeOK`, `DeadlineBound`,
`RepeatedForCause`, `BackoffPaid` and `NotFoundIsLastVerdict` with
`CallShape`: which of `wait`, `landed`, `retries` go with which `pc`, and that at
most `provider * (MaxRetries + 1) + retries` attempts gave no value before
the current one. The latter makes the budget inductive: `ExecutionBudget`
follows from it, from `RepeatedForCause` and from monotonicity of the
product (`ProductMonotonic`). Proved: `CallIsTyped`, `CallMeetsDeadline`,
`CallRepeatsForCause`, `CallMeetsBudget`, `CallPaysBackoff`,
`CallReportsLastVerdict`, and `CallImplementsFailover`, that initial states and steps map to initial states
and steps of `FailoverCall`. `CallOnlyGetsOn` is the safety half of its liveness: each
step of the future raises (provider, time spent, retries, awake) lexicographically.

**`RobustSubscriptionProofs`**. The inductive invariant joins `TypeOK`,
`IndexNamesBackend` and `ClockArmedOnFallback` with `RecvShape`: which provider
may be asked where, and that everything between `index` and `next` has refused (so
that the search arrives in order). Proved: `SubscriptionIsTyped`, `IndexIsBackend`,
`ClockIsArmed`, the action properties `FailsOverInOrder` and `AttemptsKeepTheInterval`
(from the invariant that the clock is never ahead of the end of the last attempt,
`ClockBehindAttempt`), and `SubscriptionKeepsPromise`, the refinement of
`SubscriptionFailover`: one lemma for each kind of step that is not a stutter
(`AskFallbackAsks`, `SwitchBreaks`), then one case per action (`NextPromise`). The
channel needs an invariant of its own, `ChannelShape`: it is untouched until the
subscription is open, so that the first backend is a `Replace` like any other, and it
lags only when it is full and no poller's (`LagMeansFull`). `LagMeansFullChannel` and
`SubscriptionUsesChannel` follow; the latter, that the subscription treats its channel
as `BackendChannel` allows, has no run: no edit of the code could break it, since a new
receiver replaces the old one whole. It is there for what it shares with the poller,
whose half (`ProvidesChannel`) the run `polling` checks. `RecvOnlyGetsOn` is the safety half of `RecvReturns`: a
step inside a call raises (index, stage, provider asked, time awaited)
lexicographically, where `RecvShape` says that a search only goes up from `index`.

**`HttpPollingProofs`**. `NothingLostInChannel` is inductive together with
`OneBatchAtATime` (a poll replaces `batch`, which must be empty); `PollingIsTyped`,
`PollingLosesNothing` and `PollingIsBackPressured` follow. For
`PollingDeliversInOrder` a further invariant, `Order`, says that what was reported is
ascending and below what is still to be reported, and that what was received is a
beginning of it, which `NothingLostInChannel` gives through lemmas about concatenation
(`AscendingConcat`, `ConcatBegins`). `PollingProvidesChannel` is the refinement of
`BackendChannel`.

**`SubscriptionStreamProofs`**. The control of `recv()` keeps the inductive
invariant of `RobustSubscriptionProofs`, because every step of the feed is one of
`RobustSubscription` or leaves its variables alone. Three parts join it:
`Queued` (the channel holds blocks in ascending order up to the last announced, and
what lies between them was skipped), `Holding` (at which `pc` a block is in hand, and
that what lies between it and the channel was skipped) and `Succession` (the same of the
block handed out last, unless the channel lags or the consumer knows of a gap); over a
WebSocket nothing is skipped. A step then falls under one of four
lemmas: a provider takes over (`JoinKeeps`), `recv()` fails over or fails
(`StumbleKeeps`), it has a block (`HandOutKeeps`), nothing of the feed moves
(`FeedStaysPut`). Proved: `StreamIsTyped`, and the action properties
`StreamIsInSequence`, `StreamDropsNoBlock` and `StreamEndsForCause`. A stream is not a
`RobustSubscription` step by step: a suspended `recv()` ages beyond its deadline
(`TickSuspended`), which `Spec` does not allow. That this does no harm is proved too:
`StreamStepsRecv` reduces each step to one of `recv()` or one that leaves its control
alone, and with it the guarantees of a subscription carry over to `StreamSpec`
(`StreamKeepsPromise`, `StreamUsesChannel`, `StreamFailsOverInOrder`,
`StreamKeepsInterval`, `StreamKeepsIndexAndClock`, `StreamOnlyGetsOn`).

**`RobustSessionProofs`**. The inductive invariant joins `TypeOK`, `LogsAccounted`
and `NoFilterLeftBehind` with `ReplyFits` (which replies go with which call) and
`CallShape` (everybody before the provider being asked has failed, if it matters to
the answer). Proved: `SessionIsTyped`, `SessionAccountsForLogs`,
`SessionLeavesNoFilter`, the action properties `SessionMissesForCause` and
`SessionMixesFeesForCause`, and `SessionImplementsCalls`, the refinement of
`FailoverCalls`: a call begins (`BeginCalls`), fails at a provider
(`NextProviderFails`), is answered (`EndAnswers`), or is followed by the second one of an
estimate; retries and everything at the nodes are stutters.

**`BuilderProofs`**. The run's properties are inductive once it is known that
nothing is connected while the builder is being configured; `PrefixGrows` says that
what has been connected stays a prefix of the chain. Proved: `BuilderIsTyped`,
`BuilderDialsInTurn` and `BuilderBuildsAsConfigured`.

*Only model-checked*: liveness (`ReturnsToPrimary`, `RecvReturns`,
`AllDelivered`, `StreamGoesOn`, `BuildEnds`) and the fairness part of
`ImplementsFailover`, because liveness under fairness is beyond the prover. What
the ends of a call and of `recv()` rest on besides fairness, that no step takes
anything back, is proved.

## Disagreements found

Each is a run whose property quotes what the repository says, and which TLC
refutes.

1. **A subscription opened on a fallback does not know it** (`subscription.rs:93`,
   `sub_starts_on_fallback`). `subscribe_blocks` may connect to a fallback, but
   the subscription starts with `current_fallback_index: None`. It then never
   asks the primary again, and a failover starts with the first fallback.
2. **A stale clock** (`subscription.rs:256`, `sub_stale_clock`). The clock armed
   by a switch that found no fallback is never cleared off the fallbacks; after
   a much later failover the first block triggers a reconnection attempt at once.
3. **Ping-pong** (`subscription.rs:252`, `sub_ping_pong`). A silent primary that
   accepts subscriptions resets the index each time the first fallback times
   out; later fallbacks are never asked.
4. **A closed primary stays closed** (`subscription.rs:252`, `sub_closed`). Off
   the fallbacks, `switch_to_fallback` never asks the primary; with no fallback
   accepting, every later `recv()` returns `Closed`.
5. **A poller outlives its receiver** (`subscription.rs:63`, `poller_leak`). The
   `break` leaves the `for` loop only.
6. **A lagging primary hides a block** (`subscription.rs:141`,
   `feed_lagging_primary`). A hash announced by an HTTP fallback is fetched from
   the primary first; its `None` ends the call with `BlockNotFound`, although the
   fallback has the block, and the block is skipped.

Four more have no run; the first two show in the model.

- **Not all providers are asked** (`subscription.rs:305`). The doc of `recv()`
  (`subscription.rs:118`) says "If all providers have been exhausted and failed, returns
  the last attempt's error", and the log beside the return counts all providers. On a
  fallback, `recv()` asks the primary and the fallbacks behind the current one, off the
  fallbacks only the fallbacks, and then returns the error that started the failover
  (`cause`). A fallback before the current one may be accepting at that time. The
  model claims what the code does: `ImplementsPromise`, where `failed` comes after those
  who are asked.
- **A dropped attempt is not counted** (`subscription.rs:246`).
  `last_reconnect_attempt` is set when an attempt has failed. A `recv()` dropped in the
  middle of a periodic attempt leaves the old time, and the next block starts another at
  once, against "Every `reconnect_interval`" (`subscription.rs:108`) and
  `builder.rs:135-136`. `AttemptsKeepInterval` therefore counts from attempts that came
  to their end.
- The doc of `try_operation_with_failover` (`provider.rs:538-540`) says that the whole
  operation stays below `call_timeout`; each provider has its own (`DeadlineBound`
  states, and `CallMeetsDeadline` proves, the bound that holds).
- The repository's README lists `RobustProvider` among the types with
  `IntoRootProvider`; there is no such implementation.

## Not modelled

- The text of error messages, the bytes of requests and answers, and the methods'
  argument types: no property depends on them.
- alloy's pubsub service and poller beyond what the channel shows of them.
- The arithmetic of a fee estimate (alloy's `Eip1559Estimator`), reorganisations
  of the chain.
- Tracing, re-exports: no state.
- Features off: without `http-subscription` the code is `RobustSubscription` with
  `HttpProviders` empty or `AllowHttp` false.
- `subscription_buffer_capacity` 0, which panics in both kinds of channel, is
  excluded by an assumption on the constants.

## Plan

Done, in this order: `RpcErrors`, `FailoverCall`, `RobustCall` and its proofs;
`RobustSubscription` and its proofs; `HttpPolling` and its proofs;
`SubscriptionFailover` and its refinement, proved; `BlockFeed`;
`SubscriptionStream`; `RobustSession`; `Builder`; the proofs of these four;
`BackendChannel` and `FailoverCalls` with their refinements, proved; progress of calls
and of `recv()`; the subscription's guarantees carried over to the stream.

Next: `Pollers`, the tasks left behind by failovers away from HTTP providers,
composing `HttpPolling` per backend.
