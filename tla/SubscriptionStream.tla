------------------------- MODULE SubscriptionStream -------------------------
(***************************************************************************)
(* A RobustSubscription turned into a RobustSubscriptionStream: the stream *)
(* owns the future of one recv().  Awaiting next() polls that future;      *)
(* dropping next() leaves it where it is, suspended, until next() is       *)
(* awaited again.  Time goes on meanwhile, and the timeouts of recv() with *)
(* it.  When recv() returns, the future is replaced by that of another     *)
(* recv(), which starts when it is first polled.                           *)
(***************************************************************************)
EXTENDS BlockFeed

VARIABLES consumer,     \* "recv": the application calls recv(); "stream"
          attended      \* next() is being awaited

streamVars == <<feedVars, consumer, attended>>

StreamTypeOK ==
    /\ TypeOK /\ FeedTypeOK
    /\ consumer \in {"recv", "stream"} /\ attended \in BOOLEAN
    /\ attended => consumer = "stream" /\ pc # "idle"

StreamInit == FeedInit /\ consumer = "recv" /\ attended = FALSE

\* into_stream consumes the subscription, so no recv() is in progress.
IntoStream ==
    /\ consumer = "recv" /\ pc = "idle"
    /\ consumer' = "stream"
    /\ UNCHANGED <<feedVars, attended>>

\* next() is awaited: poll_next goes on with the future it finds.
AwaitNext ==
    /\ consumer = "stream" /\ ~attended /\ attended' = TRUE
    /\ (Recv /\ UNCHANGED feed) \/ (pc # "idle" /\ UNCHANGED feedVars)
    /\ UNCHANGED consumer

\* Mutant of DropNext: the future of recv() is dropped with next().
MutantDropNext ==
    /\ attended /\ attended' = FALSE
    /\ FeedCancel
    /\ UNCHANGED consumer

\* next() is dropped, as by select! or a timeout around it.
DropNext ==
    /\ attended /\ attended' = FALSE
    /\ UNCHANGED <<feedVars, consumer>>

\* recv() goes on while it is polled.  When it is ready, poll_next yields its
\* result and sets the future of the next recv().
Proceed ==
    /\ consumer = "recv" \/ attended
    /\ FeedHandle
    /\ attended' = (attended /\ pc' # "idle")
    /\ UNCHANGED consumer

\* Time does not wait for a suspended future to notice its deadline.
TickSuspended ==
    /\ consumer = "stream" /\ ~attended /\ pc # "idle" /\ timer = Deadline
    /\ last' = Older(last) /\ tried' = Older(tried)
    /\ <<last, tried>>' # <<last, tried>>
    /\ UNCHANGED <<control, backend, index, channel, serving, refused, feed, consumer, attended>>

\* What remains of a subscription that is not a stream.
Direct ==
    /\ consumer = "recv"
    /\ FeedCancel \/ ((Subscribe \/ Recv) /\ UNCHANGED feed)
    /\ UNCHANGED <<consumer, attended>>

StreamNext ==
    \/ (FeedEnvironment /\ UNCHANGED <<consumer, attended>>)
    \/ (Tick /\ UNCHANGED <<feed, consumer, attended>>)
    \/ TickSuspended
    \/ IntoStream \/ AwaitNext \/ DropNext \/ Proceed \/ Direct

\* Every await of next() polls the future at least once, so that a future that
\* could go on time and again when it was polled does (strong fairness).
StreamFairness ==
    /\ WF_streamVars(Tick /\ UNCHANGED <<feed, consumer, attended>>)
    /\ WF_streamVars(AwaitNext)
    /\ SF_streamVars(consumer = "stream" /\ Proceed)

StreamSpec == StreamInit /\ [][StreamNext]_streamVars

FairStreamSpec == StreamSpec /\ StreamFairness

-----------------------------------------------------------------------------
(* Properties.                                                             *)

\* What poll_next makes of the result of recv().
Yields(r) ==
    IF r = "Block" THEN "Some(Ok)" ELSE IF r = "Closed" THEN "None" ELSE "Some(Err)"

\* Whatever is done with next(), the stream does not lose the block it has taken
\* from the channel unnoticed: the block is yielded, or an error is yielded in its
\* place, or the provider changes.
StreamKeepsBlock ==
    [][consumer = "stream" /\ item # 0 /\ item' = 0 =>
          \/ Yields(result') = "Some(Ok)" /\ got' = item
          \/ Yields(result') # "None" /\ pc' = "idle" /\ result' # "None"
          \/ since' = "moved"]_streamVars

\* The stream says None only when its channel is gone and nobody took over.
EndsOnlyWhenClosed ==
    [][attended /\ ~attended' /\ pc' = "idle" /\ Yields(result') = "None"
          => closed' /\ (index + 1)..NumFallbacks \subseteq refused']_streamVars

\* A suspended stream makes its way: even if each next() is dropped, the stream
\* yields something in the end (a recv() dropped each time would not), unless
\* the primary keeps accepting subscriptions.
StreamGoesOn ==
    <>[]~Accepts(0) => [](attended => <>(pc = "idle" /\ result # "None"))

=============================================================================
