---------------------------- MODULE HttpPolling ----------------------------
(***************************************************************************)
(* The HTTP polling backend: the task that From<PollerBuilder> spawns, the *)
(* bounded channel it feeds and the receiver that RobustSubscription holds.*)
(* The task polls a block filter of the node and sends the hashes it gets, *)
(* one by one; when the channel is full it waits, and does not poll.       *)
(***************************************************************************)
EXTENDS Integers, Sequences

CONSTANTS Capacity,   \* channel_size of the poller
          MaxBlocks   \* bound: the blocks mined in a run

ASSUME HttpPollingAssumption ==
    Capacity \in Nat \ {0} /\ MaxBlocks \in Nat

Hashes == 1..MaxBlocks

VARIABLES task,       \* "polling": awaiting the stream; "sending": in the for loop
          batch,      \* what the for loop has still to send
          queue,      \* the channel
          receiver,   \* "held" by the subscription, or "dropped"
          delivered,  \* what the subscription has received
          mined,      \* blocks mined so far
          fresh,      \* the hashes the node's filter will report next
          reported    \* history: the hashes the stream has yielded

vars == <<task, batch, queue, receiver, delivered, mined, fresh, reported>>

TypeOK ==
    /\ task \in {"polling", "sending", "ended"}
    /\ batch \in Seq(Hashes) /\ queue \in Seq(Hashes)
    /\ Len(queue) <= Capacity
    /\ receiver \in {"held", "dropped"}
    /\ delivered \in Seq(Hashes)
    /\ mined \in 0..MaxBlocks
    /\ fresh \in Seq(Hashes) /\ reported \in Seq(Hashes)

Init ==
    /\ task = "polling" /\ batch = <<>> /\ queue = <<>>
    /\ receiver = "held" /\ delivered = <<>>
    /\ mined = 0 /\ fresh = <<>> /\ reported = <<>>

-----------------------------------------------------------------------------
(* The node and alloy's poller.                                            *)

Mine ==
    /\ mined < MaxBlocks
    /\ mined' = mined + 1
    /\ fresh' = Append(fresh, mined + 1)
    /\ UNCHANGED <<task, batch, queue, receiver, delivered, reported>>

\* A poll whose answer does not arrive: alloy's stream logs the error and
\* polls on, but the node's filter has moved on.
PollLost ==
    /\ task = "polling" /\ fresh # <<>>
    /\ fresh' = <<>>
    /\ UNCHANGED <<task, batch, queue, receiver, delivered, mined, reported>>

-----------------------------------------------------------------------------
(* The task.  (A definition named Mutant... is the one below it with a     *)
(* plausible mistake; it is not part of Spec.)                             *)

\* Mutant of Poll: the node reports the same hashes again.
MutantPoll ==
    /\ task = "polling"
    /\ task' = "sending"
    /\ batch' = fresh /\ UNCHANGED fresh
    /\ reported' = reported \o fresh
    /\ UNCHANGED <<queue, receiver, delivered, mined>>

\* `while let Some(hashes) = stream.next().await`; the batch may be empty.
Poll ==
    /\ task = "polling"
    /\ task' = "sending"
    /\ batch' = fresh /\ fresh' = <<>>
    /\ reported' = reported \o fresh
    /\ UNCHANGED <<queue, receiver, delivered, mined>>

\* Mutant of StreamEnds: the task can be ended in the middle of a batch.
MutantStreamEnds ==
    /\ task # "ended"
    /\ task' = "ended"
    /\ UNCHANGED <<batch, queue, receiver, delivered, mined, fresh, reported>>

\* The stream yields None: the task ends and drops its sender.
StreamEnds ==
    /\ task = "polling"
    /\ task' = "ended"
    /\ UNCHANGED <<batch, queue, receiver, delivered, mined, fresh, reported>>

\* Mutants of Send: the channel is not bounded; a full channel drops the hash.
MutantSendUnbounded ==
    /\ task = "sending" /\ batch # <<>> /\ receiver = "held"
    /\ queue' = Append(queue, Head(batch))
    /\ batch' = Tail(batch)
    /\ UNCHANGED <<task, receiver, delivered, mined, fresh, reported>>

MutantSendDrops ==
    /\ task = "sending" /\ batch # <<>> /\ receiver = "held"
    /\ queue' = IF Len(queue) < Capacity THEN Append(queue, Head(batch)) ELSE queue
    /\ batch' = Tail(batch)
    /\ UNCHANGED <<task, receiver, delivered, mined, fresh, reported>>

Send ==
    /\ task = "sending" /\ batch # <<>>
    /\ receiver = "held" /\ Len(queue) < Capacity
    /\ queue' = Append(queue, Head(batch))
    /\ batch' = Tail(batch)
    /\ UNCHANGED <<task, receiver, delivered, mined, fresh, reported>>

\* "Receiver dropped, stop polling": the `break` leaves the for loop, and the
\* while loop goes around.
SendFails ==
    /\ task = "sending" /\ batch # <<>> /\ receiver = "dropped"
    /\ task' = "polling" /\ batch' = <<>>
    /\ UNCHANGED <<queue, receiver, delivered, mined, fresh, reported>>

BatchSent ==
    /\ task = "sending" /\ batch = <<>>
    /\ task' = "polling"
    /\ UNCHANGED <<batch, queue, receiver, delivered, mined, fresh, reported>>

-----------------------------------------------------------------------------
(* The subscription.                                                       *)

Recv ==
    /\ receiver = "held" /\ queue # <<>>
    /\ delivered' = Append(delivered, Head(queue))
    /\ queue' = Tail(queue)
    /\ UNCHANGED <<task, batch, receiver, mined, fresh, reported>>

\* The subscription is dropped, or its backend is replaced by another one: on
\* a closed channel, on a timeout or when the primary is back.
DropReceiver ==
    /\ receiver = "held"
    /\ receiver' = "dropped" /\ queue' = <<>>
    /\ UNCHANGED <<task, batch, delivered, mined, fresh, reported>>

Next ==
    \/ Mine \/ PollLost
    \/ Poll \/ StreamEnds \/ Send \/ SendFails \/ BatchSent
    \/ Recv \/ DropReceiver

\* The runtime polls the task, alloy's stream keeps yielding, and a consumer
\* that holds the receiver keeps receiving.
Fairness ==
    /\ WF_vars(Poll) /\ WF_vars(Send) /\ WF_vars(SendFails) /\ WF_vars(BatchSent)
    /\ WF_vars(Recv)

Spec == Init /\ [][Next]_vars /\ Fairness

-----------------------------------------------------------------------------
(* Properties.                                                             *)

\* While the subscription holds the receiver, every hash the stream yielded is
\* in exactly one place, in order: a slow consumer and a full channel delay
\* hashes but lose, duplicate or reorder none.
NothingLostInChannel ==
    receiver = "held" => delivered \o queue \o batch = reported

\* From the node to the subscription: no block's hash is received twice or after
\* that of a later block, also when polls get lost in between.
DeliveredInOrder ==
    \A i, j \in 1..Len(delivered) : i < j => delivered[i] < delivered[j]

Channel == INSTANCE BackendChannel WITH
    bounded <- TRUE, pending <- Len(queue), lag <- FALSE,
    closed <- task = "ended" /\ receiver = "held"

\* The poller provides the channel that RobustSubscription assumes: it never lags,
\* and it closes with the task.
ProvidesChannel == Channel!Spec

\* The node is not polled while hashes wait for room: at most one batch is
\* outside the channel.
OneBatchAtATime == task # "sending" => batch = <<>>

\* Every hash the stream yielded reaches the subscription, unless it lets go of
\* the receiver, also when the stream ends right after.
AllDelivered ==
    \A n \in 1..MaxBlocks :
        Len(reported) >= n ~> (Len(delivered) >= n \/ receiver = "dropped")

\* "Receiver dropped, stop polling": once a hash cannot be sent because the
\* receiver is gone, the task comes to its end.
PollerStops ==
    (task = "sending" /\ batch # <<>> /\ receiver = "dropped") ~> task = "ended"

=============================================================================
