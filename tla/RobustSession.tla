---------------------------- MODULE RobustSession ----------------------------
(***************************************************************************)
(* What an application goes through that makes one call after the other.   *)
(* Every method of robust_rpc! starts at the primary, whoever answered the *)
(* last one, while some methods depend on state that only one node has: a  *)
(* filter lives at the node that created it, and so do the logs it has     *)
(* collected, which eth_getFilterChanges hands out once.  And              *)
(* estimate_eip1559_fees_with takes its numbers from two calls.            *)
(*                                                                         *)
(* One call is RobustCall, reduced to attempts that are answered, fail, or *)
(* are executed with their answers lost; its deadline may end the attempts *)
(* at a provider at any failure.  A request is executed while it is awaited*)
(* or not at all (RobustCall also has those that are executed later).      *)
(* No two nodes give filters the same id, as nodes that draw them at random*)
(* do not: one that does not have a filter answers "filter not found".     *)
(***************************************************************************)
EXTENDS Integers

CONSTANTS NumFallbacks, MaxRetries,
          MaxFilters,   \* bound: filters the nodes create
          MaxLogs       \* bound: logs for each of them

ASSUME RobustSessionAssumption ==
    /\ NumFallbacks \in Nat /\ MaxRetries \in Nat
    /\ MaxFilters \in Nat /\ MaxLogs \in Nat

VARIABLES
    up,         \* the providers that can be reached
    site,       \* where each filter is: a provider, Unborn or Removed
    unread,     \* the logs a filter has collected since it was last asked
    op,         \* the method being called; "none" between calls
    asked,      \* the provider the call has got to
    tries,      \* retries used there
    reply,      \* what the node made of the present attempt; NoReply before
    handle,     \* the filter the application works with; 0 is none
    result,     \* what the last call returned
    rewards,    \* estimate_eip1559_fees_with: who the fee history came from
    \* history
    logs,       \* per filter, the logs it has collected in all
    delivered,  \* per filter, the logs the application received
    lossy,      \* filters some of whose logs were in a lost answer
    orphans,    \* filters whose creation, or whose end, the application missed
    failing     \* the providers that failed in this call, or this estimate

node == <<up, site, unread, logs>>
call == <<op, asked, tries, reply, result>>
account == <<delivered, lossy, orphans>>

vars == <<node, call, handle, rewards, account, failing>>

Providers == 0..NumFallbacks

Filters == 1..MaxFilters

Unborn == -1
Removed == -2

NoReply == [kind |-> "none"]

Nobody == -1

\* The methods, and what estimate_eip1559_fees_with calls.
FilterOps == {"new_filter", "get_filter_changes"}
UninstallOps == {"uninstall_filter"}
FeeOps == {"get_fee_history", "get_block_by_number"}

Init ==
    /\ up \in SUBSET Providers
    /\ site = [f \in Filters |-> Unborn] /\ unread = [f \in Filters |-> 0]
    /\ op = "none" /\ asked = 0 /\ tries = 0 /\ reply = NoReply /\ result = "none"
    /\ handle = 0 /\ rewards = Nobody
    /\ logs = [f \in Filters |-> 0] /\ delivered = [f \in Filters |-> 0]
    /\ lossy = {} /\ orphans = {} /\ failing = {}

-----------------------------------------------------------------------------
(* The nodes.                                                              *)

NodeChanges ==
    /\ \E p \in Providers : up' = IF p \in up THEN up \ {p} ELSE up \cup {p}
    /\ UNCHANGED <<site, unread, logs, call, handle, rewards, account, failing>>

\* A restart, or the time a node keeps an idle filter, ends its filters.
Forgets ==
    /\ \E p \in Providers :
          /\ \E f \in Filters : site[f] = p
          /\ site' = [f \in Filters |-> IF site[f] = p THEN Removed ELSE site[f]]
    /\ UNCHANGED <<up, unread, logs, call, handle, rewards, account, failing>>

LogMatches ==
    /\ \E f \in Filters :
          /\ site[f] \in Providers /\ logs[f] < MaxLogs
          /\ unread' = [unread EXCEPT ![f] = @ + 1]
          /\ logs' = [logs EXCEPT ![f] = @ + 1]
    /\ UNCHANGED <<up, site, call, handle, rewards, account, failing>>

\* The node executes the request of the present attempt.
Creates ==
    /\ op = "new_filter"
    /\ \E f \in Filters :
          /\ site[f] = Unborn /\ \A g \in 1..(f - 1) : site[g] # Unborn
          /\ site' = [site EXCEPT ![f] = asked]
          /\ reply' = [kind |-> "filter", filter |-> f]
    /\ UNCHANGED unread

HandsOutLogs ==
    /\ op = "get_filter_changes"
    /\ IF site[handle] = asked
       THEN /\ reply' = [kind |-> "logs", count |-> unread[handle]]
            /\ unread' = [unread EXCEPT ![handle] = 0]
       ELSE /\ reply' = [kind |-> "unknown"]
            /\ UNCHANGED unread
    /\ UNCHANGED site

Removes ==
    /\ op = "uninstall_filter"
    /\ reply' = [kind |-> "removed", found |-> site[handle] = asked]
    /\ site' = IF site[handle] = asked THEN [site EXCEPT ![handle] = Removed] ELSE site
    /\ UNCHANGED unread

\* The base fee of the latest block may be missing from the fee history, and a
\* node that is not synced has no block.
TellsFees ==
    /\ op \in FeeOps
    /\ \/ reply' = [kind |-> "fees"]
       \/ reply' = [kind |-> "nothing"]
    /\ UNCHANGED <<site, unread>>

Execute ==
    /\ op # "none" /\ reply = NoReply /\ asked \in up
    /\ Creates \/ HandsOutLogs \/ Removes \/ TellsFees
    /\ UNCHANGED <<up, logs, op, asked, tries, result, handle, rewards, account, failing>>

-----------------------------------------------------------------------------
(* The calls.                                                              *)

\* Mutant of Begin: the providers take turns.
MutantBegin(method) ==
    /\ op' = method /\ tries' = 0 /\ reply' = NoReply
    /\ asked' = IF asked < NumFallbacks THEN asked + 1 ELSE 0

\* try_operation_with_failover, from the primary on.
Begin(method) ==
    /\ op' = method /\ asked' = 0 /\ tries' = 0 /\ reply' = NoReply

End(r) == op' = "none" /\ tries' = 0 /\ reply' = NoReply /\ result' = r /\ asked' = asked

\* A method of robust_rpc! is called.
CallMethod ==
    /\ op = "none"
    /\ \E method \in FilterOps \cup UninstallOps :
          /\ (handle = 0) <=> (method = "new_filter")
          /\ method = "new_filter" => \E f \in Filters : site[f] = Unborn
          /\ Begin(method)
    /\ failing' = {} /\ result' = "none"
    /\ UNCHANGED <<node, handle, rewards, account>>

EstimateFees ==
    /\ op = "none"
    /\ Begin("get_fee_history")
    /\ failing' = {} /\ result' = "none" /\ rewards' = Nobody
    /\ UNCHANGED <<node, handle, account>>

\* The attempts at a provider have failed: on to the next, or an error.
NextProvider(error) ==
    IF asked < NumFallbacks
    THEN asked' = asked + 1 /\ tries' = 0 /\ reply' = NoReply /\ UNCHANGED <<op, result>>
    ELSE End(error)

\* Mutant of RetryOrNext: one retry too many.
MutantRetryOrNext ==
    \/ /\ tries <= MaxRetries
       /\ tries' = tries + 1 /\ reply' = NoReply
       /\ UNCHANGED <<op, asked, result>>
    \/ NextProvider("Failed")

RetryOrNext ==
    \/ /\ tries < MaxRetries
       /\ tries' = tries + 1 /\ reply' = NoReply
       /\ UNCHANGED <<op, asked, result>>
    \/ NextProvider("Failed")

\* The attempt ends before the node has seen it.
Unreachable ==
    /\ op # "none" /\ reply = NoReply /\ asked \notin up
    /\ failing' = failing \cup {asked}
    /\ RetryOrNext
    /\ UNCHANGED <<node, handle, rewards, account>>

\* The node did what it was asked to, and nobody hears of it.
LoseAnswer ==
    /\ reply # NoReply
    /\ failing' = failing \cup {asked}
    /\ RetryOrNext
    /\ orphans' = IF reply.kind = "filter" THEN orphans \cup {reply.filter} ELSE orphans
    /\ lossy' = IF reply.kind = "logs" /\ reply.count > 0 THEN lossy \cup {handle} ELSE lossy
    /\ UNCHANGED <<node, handle, rewards, delivered>>

\* Mutant of FilterNotFound: the verdict of one node is taken for that of all.
MutantFilterNotFound ==
    /\ reply.kind = "unknown"
    /\ End("NotFound")
    /\ UNCHANGED <<node, handle, rewards, account, failing>>

\* "filter not found" is final for a provider (is_invalid_log_filter), and the
\* next one is asked at once.
FilterNotFound ==
    /\ reply.kind = "unknown"
    /\ NextProvider("NotFound")
    /\ UNCHANGED <<node, handle, rewards, account, failing>>

\* Mutant of Created: the filter is created once more, at the next provider.
MutantCreated ==
    /\ reply.kind = "filter"
    /\ IF asked < NumFallbacks /\ \E f \in Filters : site[f] = Unborn
       THEN NextProvider("Failed") /\ UNCHANGED handle
       ELSE End("Ok") /\ handle' = reply.filter
    /\ UNCHANGED <<node, rewards, account, failing>>

Created ==
    /\ reply.kind = "filter"
    /\ End("Ok") /\ handle' = reply.filter
    /\ UNCHANGED <<node, rewards, account, failing>>

\* Mutant of Changed: only the primary's answer is taken.
MutantChanged ==
    /\ reply.kind = "logs"
    /\ End(IF asked = 0 THEN "Ok" ELSE "Failed")
    /\ delivered' = IF asked = 0 THEN [delivered EXCEPT ![handle] = @ + reply.count]
                    ELSE delivered
    /\ UNCHANGED <<node, handle, rewards, lossy, orphans, failing>>

Changed ==
    /\ reply.kind = "logs"
    /\ End("Ok")
    /\ delivered' = [delivered EXCEPT ![handle] = @ + reply.count]
    /\ UNCHANGED <<node, handle, rewards, lossy, orphans, failing>>

\* Ok(false), from a node that has no such filter, is an answer as good as any.
Uninstalled ==
    /\ reply.kind = "removed"
    /\ End("Ok") /\ handle' = 0
    /\ orphans' = IF reply.found THEN orphans ELSE orphans \cup {handle}
    /\ UNCHANGED <<node, rewards, delivered, lossy, failing>>

\* The fee history tells the base fee, or the latest block is asked for it.
GotHistory ==
    /\ op = "get_fee_history" /\ reply # NoReply
    /\ rewards' = asked
    /\ \/ reply.kind = "fees" /\ End("Ok")
       \/ reply.kind = "nothing" /\ Begin("get_block_by_number") /\ UNCHANGED result
    /\ UNCHANGED <<node, handle, account, failing>>

\* No block, or a block without a base fee, is an answer, and the estimate an
\* error (NullResp, UnsupportedFeature).
GotBlock ==
    /\ op = "get_block_by_number" /\ reply # NoReply
    /\ End(IF reply.kind = "fees" THEN "Ok" ELSE "NoBaseFee")
    /\ UNCHANGED <<node, handle, rewards, account, failing>>

-----------------------------------------------------------------------------
Answered == FilterNotFound \/ Created \/ Changed \/ Uninstalled \/ GotHistory \/ GotBlock

Next ==
    \/ NodeChanges \/ Forgets \/ LogMatches
    \/ CallMethod \/ EstimateFees
    \/ Execute \/ Unreachable \/ LoseAnswer \/ Answered

Spec == Init /\ [][Next]_vars

-----------------------------------------------------------------------------
(* Properties.                                                             *)

TypeOK ==
    /\ up \subseteq Providers
    /\ site \in [Filters -> Providers \cup {Unborn, Removed}]
    /\ unread \in [Filters -> 0..MaxLogs] /\ logs \in [Filters -> 0..MaxLogs]
    /\ op \in FilterOps \cup UninstallOps \cup FeeOps \cup {"none"}
    /\ asked \in Providers /\ tries \in 0..MaxRetries
    /\ handle \in Filters \cup {0} /\ rewards \in Providers \cup {Nobody}
    /\ delivered \in [Filters -> Nat]
    /\ lossy \subseteq Filters /\ orphans \subseteq Filters /\ failing \subseteq Providers

\* The logs of a present filter in the answer on its way.
InFlight(f) == IF reply.kind = "logs" /\ f = handle THEN reply.count ELSE 0

\* No log is delivered twice, and with no answer lost each is delivered, on its
\* way, or still unread (perhaps for good, when its filter has ended): however
\* calls fail over and come back, only a retried get_filter_changes loses any.
LogsAccounted ==
    \A f \in Filters :
        /\ delivered[f] + InFlight(f) + unread[f] <= logs[f]
        /\ f \notin lossy => delivered[f] + InFlight(f) + unread[f] = logs[f]

\* The application is told that its filter is not found only when the node that
\* has it, if there is one, failed in this very call.
NotFoundForCause ==
    [][op = "get_filter_changes" /\ op' = "none" /\ result' = "NotFound"
          => site[handle] \in failing \cup {Removed}]_vars

\* A filter stays behind at a node only because the answer that named it was
\* lost, or because uninstall_filter was answered, with false, by another node.
NoFilterLeftBehind ==
    \A f \in Filters :
        site[f] \in Providers =>
            f \in orphans \cup {handle} \/ reply = [kind |-> "filter", filter |-> f]

\* Rewards and base fee of an estimate come from two providers only if one of
\* them, or one before them, failed during the estimate.
FeesFromOneProvider ==
    [][op = "get_block_by_number" /\ op' = "none" /\ result' = "Ok"
          => asked = rewards \/ failing # {}]_vars

Verdict ==
    CASE op # "none"                      -> "pending"
      [] op = "none" /\ result = "none"   -> "idle"
      [] op = "none" /\ result \in {"Ok", "NoBaseFee"} -> "answered"
      [] OTHER                            -> "failed"

Calls == INSTANCE FailoverCalls WITH
    trying <- asked, verdict <- Verdict, left <- IF op = "get_fee_history" THEN 1 ELSE 0

\* A session is a sequence of calls that each do what FailoverCall promises, the
\* two of an estimate included: whatever filters and fees an earlier call left
\* where, each starts at the primary and fails only when all providers have.
ImplementsCalls == Calls!CallsSpec

=============================================================================
