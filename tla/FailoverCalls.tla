---------------------------- MODULE FailoverCalls ----------------------------
(***************************************************************************)
(* Calls of RobustProvider one after the other, each of them a FailoverCall*)
(* of its own: whoever answered the last call, the next one starts at the  *)
(* primary.  An operation that makes two calls (estimate_eip1559_fees_with)*)
(* may start the second when the first is answered, and has no second if   *)
(* the first fails.                                                        *)
(***************************************************************************)
EXTENDS FailoverCall

VARIABLE left     \* the calls this operation may still start

callsVars == <<vars, left>>

CallsInit == trying = 0 /\ verdict = "idle" /\ left = 0

Call ==
    /\ verdict # "pending"
    /\ verdict' = "pending" /\ trying' = 0
    /\ left' \in {0, 1}

\* The first call is answered, and the second starts.
Chain ==
    /\ verdict = "pending" /\ left = 1
    /\ trying' = 0 /\ left' = 0
    /\ UNCHANGED verdict

CallsNext ==
    \/ Call \/ Chain
    \/ FailOver /\ UNCHANGED left
    \/ (Answer \/ GiveUp) /\ left' = 0

CallsSpec == CallsInit /\ [][CallsNext]_callsVars

=============================================================================
