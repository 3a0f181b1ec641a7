--------------------------- MODULE MCFailoverClock ---------------------------
(***************************************************************************)
(* RobustSubscription with a history variable: how long ago the            *)
(* subscription last left the primary for a fallback.                      *)
(***************************************************************************)
EXTENDS MCRobustSubscription

VARIABLE away   \* age of the last switch_to_fallback that went off the primary

LeavesPrimary == ~IsOnFallback /\ pc \in {"waiting", "fetching"} /\ pc' = "searching"

AwayNext ==
    \/ Tick /\ away' = Older(away)
    \/ /\ Environment \/ Subscribe \/ Recv \/ Handle \/ Cancel
       /\ away' = IF LeavesPrimary THEN 0 ELSE away

AwaySpec == Init /\ away = 0 /\ [][AwayNext]_<<vars, away>>

\* "After a failover, the subscription will periodically attempt to reconnect
\* to the primary provider at this interval": the first attempt comes an
\* interval after the switch that brought the subscription to a fallback began.
FirstAttemptAfterInterval ==
    [][PeriodicAttemptBegins => away >= ReconnectInterval]_<<vars, away>>

=============================================================================
