------------------------ MODULE SubscriptionFailover ------------------------
(***************************************************************************)
(* What a RobustSubscription promises of the provider it is on.  When the  *)
(* provider it is on fails it, the others are asked one at a time: away    *)
(* from the primary (0) the primary comes first, then the fallbacks behind *)
(* the present one, in the order they were added.  The first to accept is  *)
(* the provider it is on; when all have refused, the consumer is told and  *)
(* the subscription stays where it was.  Besides, it may go home to the    *)
(* primary at any time.  Nothing else moves it.                            *)
(***************************************************************************)
EXTENDS Integers

CONSTANT NumFallbacks

VARIABLES at,       \* the provider the subscription is on
          asking,   \* the provider being asked, or Nobody
          failed    \* the consumer has been told that all refused

vars == <<at, asking, failed>>

Nobody == -1

Init == at = 0 /\ asking = Nobody /\ failed = FALSE

\* Behind p, when the subscription is on q: the primary is asked before all
\* fallbacks, so behind it comes the one after q.
Behind(p, q) == IF p = 0 THEN q + 1 ELSE p + 1

AskOrFail(p) ==
    IF p <= NumFallbacks
    THEN asking' = p /\ failed' = FALSE
    ELSE asking' = Nobody /\ failed' = TRUE

Break ==
    /\ asking = Nobody /\ ~failed
    /\ AskOrFail(IF at # 0 THEN 0 ELSE 1)
    /\ UNCHANGED at

Refuse ==
    /\ asking # Nobody
    /\ AskOrFail(Behind(asking, at))
    /\ UNCHANGED at

Accept ==
    /\ asking # Nobody
    /\ at' = asking /\ asking' = Nobody
    /\ UNCHANGED failed

GoHome ==
    /\ asking = Nobody /\ at # 0
    /\ at' = 0
    /\ UNCHANGED <<asking, failed>>

\* The consumer asks for the next block after it was told of a failure.
Resume ==
    /\ failed /\ failed' = FALSE
    /\ UNCHANGED <<at, asking>>

\* The consumer loses its patience.
Abandon ==
    /\ asking # Nobody /\ asking' = Nobody
    /\ UNCHANGED <<at, failed>>

Next == Break \/ Refuse \/ Accept \/ GoHome \/ Resume \/ Abandon

Spec == Init /\ [][Next]_vars

=============================================================================
