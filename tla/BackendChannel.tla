--------------------------- MODULE BackendChannel ---------------------------
(***************************************************************************)
(* The channel between a backend and the RobustSubscription that receives  *)
(* from it, as both sides see it: how many items are in it, whether the    *)
(* receiver has missed some, and whether the sender is gone.  A broadcast  *)
(* channel (WebSocket) that is full overwrites its oldest item; the bounded*)
(* one of a poller (HTTP) makes its sender wait.  RobustSubscription       *)
(* assumes this of every backend, and HttpPolling provides it.             *)
(***************************************************************************)
EXTENDS Integers

CONSTANT Capacity

VARIABLES bounded,   \* a poller's channel; otherwise a broadcast channel
          pending,   \* the items in it
          lag,       \* the receiver has missed some and was not told
          closed     \* the sender is gone

vars == <<bounded, pending, lag, closed>>

Init ==
    /\ bounded \in BOOLEAN
    /\ pending = 0 /\ lag = FALSE /\ closed = FALSE

Arrive ==
    /\ ~closed /\ pending < Capacity
    /\ pending' = pending + 1
    /\ UNCHANGED <<bounded, lag, closed>>

Overwrite ==
    /\ ~closed /\ pending = Capacity /\ ~bounded
    /\ lag' = TRUE
    /\ UNCHANGED <<bounded, pending, closed>>

\* Items are taken also from a channel whose sender is gone, but not before a
\* receiver that has missed some is told.
Take ==
    /\ pending > 0 /\ ~lag
    /\ pending' = pending - 1
    /\ UNCHANGED <<bounded, lag, closed>>

Tell ==
    /\ lag /\ lag' = FALSE
    /\ UNCHANGED <<bounded, pending, closed>>

Close ==
    /\ ~closed /\ closed' = TRUE
    /\ UNCHANGED <<bounded, pending, lag>>

\* The receiver is dropped, and perhaps another backend's takes its place.
Replace ==
    /\ bounded' \in BOOLEAN
    /\ pending' = 0 /\ lag' = FALSE /\ closed' = FALSE

Next == Arrive \/ Overwrite \/ Take \/ Tell \/ Close \/ Replace

Spec == Init /\ [][Next]_vars

=============================================================================
