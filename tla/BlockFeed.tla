------------------------------ MODULE BlockFeed ------------------------------
(***************************************************************************)
(* Which blocks a RobustSubscription hands out.  RobustSubscription counts *)
(* the items in the backend's channel; here they are blocks, known by their*)
(* numbers on one chain without reorganisations.  Every provider has its   *)
(* own head, and announces what is mined after one has subscribed.  Over   *)
(* HTTP only a hash is announced; the block is fetched with                *)
(* get_block_by_hash, a call that starts with the primary whichever        *)
(* provider announced the hash.  The hashes of a poll whose answer is lost *)
(* (see HttpPolling) never enter the channel; nobody is told.              *)
(***************************************************************************)
EXTENDS RobustSubscription, Sequences

CONSTANT MaxHeight      \* bound: blocks mined, for each provider

ASSUME BlockFeedAssumption ==
    /\ MaxHeight \in [0..NumFallbacks -> Nat]
    /\ Emitters \subseteq 0..NumFallbacks

VARIABLES
    head,       \* the latest block of each provider
    queue,      \* the blocks in the backend's channel
    announced,  \* the latest block the backend announced
    item,       \* the block recv() has taken from the channel; 0 is none
    asked,      \* the provider that get_block_by_hash is asking; 0 when it is not
    \* history
    skipped,    \* the blocks whose hashes a lost poll took, on this connection
    got,        \* the last block recv() returned
    since       \* why the next one may not be its successor

feed == <<head, queue, announced, item, asked, skipped, got, since>>

feedVars == <<vars, feed>>

Blocks == UNION {0..MaxHeight[p] : p \in Providers}

FeedTypeOK ==
    /\ head \in [Providers -> Blocks] /\ announced \in Blocks
    /\ queue \in Seq(Blocks) /\ Len(queue) = pending
    /\ item \in Blocks /\ got \in Blocks /\ asked \in Providers
    /\ skipped \subseteq Blocks
    /\ since \in {"nothing", "told", "dropped", "moved"}

FeedInit ==
    /\ Init
    /\ head = [p \in Providers |-> 0] /\ queue = <<>> /\ announced = 0
    /\ item = 0 /\ asked = 0 /\ skipped = {} /\ got = 0 /\ since = "moved"

-----------------------------------------------------------------------------
(* The providers and the channel.                                          *)

Mine(p) ==
    /\ head[p] < MaxHeight[p] /\ head' = [head EXCEPT ![p] = @ + 1]
    /\ UNCHANGED <<vars, queue, announced, item, asked, skipped, got, since>>

\* The next block, or its hash, enters the channel, in place of the oldest if a
\* broadcast channel is full.
Announce ==
    /\ Arrive
    /\ announced < head[backend] /\ announced' = announced + 1
    /\ queue' = Append(IF pending = Capacity THEN Tail(queue) ELSE queue, announced')
    /\ UNCHANGED <<head, item, asked, skipped, got, since>>

\* The answer to a poll is lost: the node's filter has moved on past its hashes.
PollLost ==
    /\ IsOpen /\ ~closed
    /\ backend \in HttpProviders \cap Emitters
    /\ announced < head[backend] /\ announced' = announced + 1
    /\ skipped' = skipped \cup {announced'}
    /\ UNCHANGED <<vars, head, queue, item, asked, got, since>>

-----------------------------------------------------------------------------
(* subscribe_blocks and recv().                                            *)

\* The first block after this one may be a later one.
Because(reason) == since' = IF since = "moved" THEN since ELSE reason

\* On a new connection p announces what comes after its present head.
Join(p) ==
    /\ queue' = <<>> /\ announced' = head[p]
    /\ skipped' = {} /\ item' = 0 /\ since' = "moved"
    /\ UNCHANGED <<head, asked>>

\* `return Ok(header)`, unless the primary is asked first.
HandOut(block) ==
    /\ IF pc' = "idle"
       THEN got' = block /\ item' = 0 /\ since' = "nothing"
       ELSE item' = block /\ UNCHANGED <<got, since>>
    /\ UNCHANGED <<head, announced, skipped>>

FeedOpens == OpenSucceeds /\ Join(next) /\ UNCHANGED got

TakeBlock ==
    /\ ReceiveBlock
    /\ queue' = Tail(queue) /\ asked' = 0
    /\ HandOut(Head(queue))

\* Mutant of TellLagged: Lagged is logged and recv() goes on receiving.
MutantTellLagged ==
    /\ pc = "waiting" /\ lag /\ lag' = FALSE
    /\ UNCHANGED <<control, subscription, pending, closed, serving, history, feed>>

TellLagged ==
    /\ ReceiveLagged /\ Because("told")
    /\ UNCHANGED <<head, queue, announced, item, asked, skipped, got>>

\* Mutant of FetchElsewhere: one fallback too many is asked.
MutantFetchElsewhere ==
    /\ pc = "fetching" /\ asked <= NumFallbacks
    /\ asked \notin serving \/ item > head[asked]
    /\ asked' = asked + 1
    /\ UNCHANGED <<vars, head, queue, announced, item, skipped, got, since>>

\* get_block_by_hash goes on to the next provider: this one is down, or answers
\* with one of the error responses that say it does not have the block.
FetchElsewhere ==
    /\ pc = "fetching" /\ asked < NumFallbacks
    /\ asked \notin serving \/ item > head[asked]
    /\ asked' = asked + 1
    /\ UNCHANGED <<vars, head, queue, announced, item, skipped, got, since>>

FetchAnswered ==
    /\ FetchBlock
    /\ asked \in serving /\ item <= head[asked]
    /\ HandOut(item) /\ asked' = 0
    /\ UNCHANGED queue

\* The provider that answers does not have the block: Ok(None), from whichever,
\* or an error response that says so, from the last.
FetchMisses ==
    /\ FetchNotFound
    /\ asked \in serving /\ item > head[asked]
    /\ item' = 0 /\ asked' = 0 /\ Because("told")
    /\ UNCHANGED <<head, queue, announced, skipped, got>>

\* recv() fails over; if nobody is left, it returns the error.
Stumble ==
    /\ IF pc' = "idle" THEN item' = 0 /\ Because("told") ELSE UNCHANGED <<item, since>>
    /\ asked' = 0
    /\ UNCHANGED <<head, queue, announced, skipped, got>>

FetchStumbles ==
    /\ FetchFails
    /\ timer = SubscriptionTimeout \/ (asked = NumFallbacks /\ asked \notin serving)
    /\ Stumble

FeedStumbles ==
    \/ (ReceiveTimeout \/ ReceiveClosed \/ ForcedFails \/ SearchFails) /\ Stumble
    \/ FetchStumbles

\* A periodic attempt has a block to hand out, whatever comes of it.
FeedReturns ==
    /\ ReconnectSucceeds /\ Join(0)
    /\ got' = IF pc = "periodic" THEN item ELSE got

FeedStays == PeriodicFails /\ HandOut(item) /\ UNCHANGED <<queue, asked>>

FeedMoves == SearchSucceeds /\ Join(next) /\ UNCHANGED got

\* The block recv() holds goes with its future.
FeedCancel ==
    /\ Cancel
    /\ item' = 0 /\ asked' = 0
    /\ IF item # 0 THEN Because("dropped") ELSE UNCHANGED since
    /\ UNCHANGED <<head, queue, announced, skipped, got>>

-----------------------------------------------------------------------------
FeedEnvironment ==
    \/ (\E p \in Emitters : Mine(p))
    \/ Announce \/ PollLost
    \/ (NodeChanges \/ ChannelCloses) /\ UNCHANGED feed

FeedHandle ==
    \/ FeedOpens \/ (OpenFails /\ UNCHANGED feed)
    \/ TakeBlock \/ TellLagged
    \/ FetchElsewhere \/ FetchAnswered \/ FetchMisses
    \/ FeedStumbles \/ FeedReturns \/ FeedStays \/ FeedMoves

FeedNext ==
    \/ FeedEnvironment \/ FeedHandle \/ FeedCancel
    \/ (Tick \/ Subscribe \/ Recv) /\ UNCHANGED feed

FeedSpec == FeedInit /\ [][FeedNext]_feedVars

-----------------------------------------------------------------------------
(* Properties.                                                             *)

HandsOut == pc # "idle" /\ pc' = "idle" /\ result' = "Block"

\* On one connection the blocks the consumer sees ascend, each at most once.  Over a
\* WebSocket the next is the successor of the last; over HTTP only blocks of lost
\* polls may be missing between them, and nobody is told of those.  It may be any
\* later one if the consumer was told of a loss or dropped the recv() that held a
\* block.  Only a change of provider may go back to a block already seen.
InSequence ==
    [][HandsOut =>
          LET block == IF item = 0 THEN Head(queue) ELSE item IN
          /\ since # "moved" => block > got
          /\ since = "nothing" => (got + 1)..(block - 1) \subseteq skipped
          /\ since = "nothing" /\ backend \notin HttpProviders => block = got + 1
      ]_feedVars

-----------------------------------------------------------------------------
(* What the documentation says.                                            *)

\* get_block_by_hash: "BlockNotFound - if the block is not available": recv()
\* says so only when no provider that can be asked has the block.
NotFoundMeansUnavailable ==
    [][pc = "fetching" /\ pc' = "idle" /\ result' = "BlockNotFound" =>
          \A p \in serving : head[p] < item]_feedVars

=============================================================================
