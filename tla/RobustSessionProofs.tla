------------------------- MODULE RobustSessionProofs -------------------------
(***************************************************************************)
(* Proofs about RobustSession, for any number of fallbacks, retries,       *)
(* filters and logs.  The run "session" checks the same properties on a    *)
(* small instance.                                                         *)
(***************************************************************************)
EXTENDS RobustSession, TLAPS

(* What a node may have answered, by the method it was asked. *)
ReplyFits ==
    /\ op = "none" => reply = NoReply
    /\ op = "new_filter" =>
          \/ reply = NoReply
          \/ \E f \in Filters : reply = [kind |-> "filter", filter |-> f] /\ site[f] # Unborn
    /\ op = "get_filter_changes" =>
          \/ reply = NoReply
          \/ reply = [kind |-> "unknown"] /\ site[handle] # asked
          \/ \E n \in 0..MaxLogs : reply = [kind |-> "logs", count |-> n]
    /\ op = "uninstall_filter" =>
          \/ reply = NoReply
          \/ \E b \in BOOLEAN : /\ reply = [kind |-> "removed", found |-> b]
                                /\ b => site[handle] \notin Providers
    /\ op \in FeeOps => reply \in {NoReply, [kind |-> "fees"], [kind |-> "nothing"]}

(* Which filter a method is about; that the filter exists; who of the      *)
(* providers asked before did not have it; and, for the fees, that nobody  *)
(* but the primary is asked before a failure.                              *)
CallShape ==
    /\ op \in {"get_filter_changes", "uninstall_filter"} => handle \in Filters
    /\ op = "new_filter" => handle = 0
    /\ handle \in Filters => site[handle] # Unborn
    /\ op = "get_filter_changes" =>
          \A q \in Providers : q < asked /\ site[handle] = q => q \in failing
    /\ op \in FeeOps /\ failing = {} => asked = 0
    /\ op = "get_block_by_number" /\ failing = {} => rewards = 0

(* The inductive invariant: the properties of the run "session", with the   *)
(* two parts that explain them.                                            *)
IInv == TypeOK /\ ReplyFits /\ CallShape /\ LogsAccounted /\ NoFilterLeftBehind

(* Before the first call. *)
LEMMA InitIInv == Init => IInv
BY RobustSessionAssumption
   DEF Init, IInv, TypeOK, ReplyFits, CallShape, LogsAccounted, NoFilterLeftBehind,
       InFlight, NoReply, Providers, Filters, FilterOps, UninstallOps, FeeOps, Unborn,
       Removed, Nobody

(* How many logs an answer carries. *)
LEMMA InFlightIs ==
    ASSUME IInv, NEW f \in Filters
    PROVE  /\ InFlight(f) \in Nat
           /\ op # "get_filter_changes" => InFlight(f) = 0
           /\ InFlight(f) # 0 => reply.kind = "logs" /\ f = handle /\ reply.count = InFlight(f)
BY DEF IInv, TypeOK, ReplyFits, InFlight, NoReply, FilterOps, UninstallOps, FeeOps

(* Nothing is on its way once the call is over, and nothing changes unless  *)
(* the reply or the handle does.                                           *)
LEMMA InFlightEnds == reply' = NoReply => \A f \in Filters : InFlight(f)' = 0
BY DEF InFlight, NoReply

LEMMA InFlightStays ==
    reply' = reply /\ handle' = handle => \A f \in Filters : InFlight(f)' = InFlight(f)
BY DEF InFlight

(* Reachability is in no other part of the invariant. *)
LEMMA NodeChangesKeeps == IInv /\ NodeChanges => IInv'
<1> SUFFICES ASSUME IInv, NodeChanges PROVE IInv'
  OBVIOUS
<1> USE DEF IInv
<1>1. TypeOK'
  BY RobustSessionAssumption
     DEF NodeChanges, call, account, TypeOK, Providers, FilterOps, UninstallOps, FeeOps,
         Removed
<1>2. ReplyFits'
  BY DEF NodeChanges, call, account, TypeOK, ReplyFits, CallShape, Filters, Providers,
         FilterOps, UninstallOps, FeeOps, Unborn, Removed, Nobody, NoReply
<1>3. CallShape'
  BY RobustSessionAssumption
     DEF NodeChanges, call, account, TypeOK, ReplyFits, CallShape, Filters, Providers,
         FilterOps, UninstallOps, FeeOps, Unborn, Removed, Nobody, NoReply
<1>4. LogsAccounted'
  BY DEF NodeChanges, call, account, TypeOK, LogsAccounted, InFlight, NoReply, ReplyFits,
         CallShape
<1>5. NoFilterLeftBehind'
  BY DEF NodeChanges, call, account, TypeOK, ReplyFits, CallShape, NoFilterLeftBehind,
         Filters, Providers, FilterOps, UninstallOps, FeeOps, Unborn, Removed, Nobody,
         NoReply
<1> QED BY <1>1, <1>2, <1>3, <1>4, <1>5

(* A filter that is forgotten is at no node. *)
LEMMA ForgetsKeeps == IInv /\ Forgets => IInv'
<1> SUFFICES ASSUME IInv, Forgets PROVE IInv'
  OBVIOUS
<1> USE DEF IInv
<1>1. TypeOK'
  BY RobustSessionAssumption
     DEF Forgets, call, account, TypeOK, Providers, FilterOps, UninstallOps, FeeOps,
         Removed
<1>2. ReplyFits'
  BY DEF Forgets, call, account, TypeOK, ReplyFits, CallShape, Filters, Providers,
         FilterOps, UninstallOps, FeeOps, Unborn, Removed, Nobody, NoReply
<1>3. CallShape'
  BY RobustSessionAssumption
     DEF Forgets, call, account, TypeOK, ReplyFits, CallShape, Filters, Providers,
         FilterOps, UninstallOps, FeeOps, Unborn, Removed, Nobody, NoReply
<1>4. LogsAccounted'
  BY DEF Forgets, call, account, TypeOK, LogsAccounted, InFlight, NoReply, ReplyFits,
         CallShape
<1>5. NoFilterLeftBehind'
  BY DEF Forgets, call, account, TypeOK, ReplyFits, CallShape, NoFilterLeftBehind,
         Filters, Providers, FilterOps, UninstallOps, FeeOps, Unborn, Removed, Nobody,
         NoReply
<1> QED BY <1>1, <1>2, <1>3, <1>4, <1>5

(* A log is collected and unread. *)
LEMMA LogMatchesKeeps == IInv /\ LogMatches => IInv'
<1> SUFFICES ASSUME IInv, LogMatches PROVE IInv'
  OBVIOUS
<1> USE DEF IInv
<1>1. TypeOK'
  <2>1. PICK f \in Filters : /\ logs[f] < MaxLogs
                             /\ unread' = [unread EXCEPT ![f] = @ + 1]
                             /\ logs' = [logs EXCEPT ![f] = @ + 1]
    BY DEF LogMatches
  <2>2. delivered[f] + InFlight(f) + unread[f] <= logs[f] /\ InFlight(f) \in Nat
    BY InFlightIs DEF LogsAccounted
  <2>3. unread[f] + 1 \in 0..MaxLogs /\ logs[f] + 1 \in 0..MaxLogs
    BY <2>1, <2>2, RobustSessionAssumption DEF TypeOK
  <2> QED BY <2>1, <2>3 DEF LogMatches, call, account, TypeOK
<1>2. ReplyFits'
  BY DEF LogMatches, call, account, TypeOK, ReplyFits, CallShape, Filters, Providers,
         FilterOps, UninstallOps, FeeOps, Unborn, Removed, Nobody, NoReply
<1>3. CallShape'
  BY RobustSessionAssumption
     DEF LogMatches, call, account, TypeOK, ReplyFits, CallShape, Filters, Providers,
         FilterOps, UninstallOps, FeeOps, Unborn, Removed, Nobody, NoReply
<1>4. LogsAccounted'
  <2>1. PICK f \in Filters : /\ unread' = [unread EXCEPT ![f] = @ + 1]
                             /\ logs' = [logs EXCEPT ![f] = @ + 1]
    BY DEF LogMatches
  <2>2. UNCHANGED <<reply, handle, delivered, lossy>>
    BY DEF LogMatches, call, account
  <2>3. ASSUME NEW g \in Filters
        PROVE  /\ InFlight(g) \in Nat /\ InFlight(g)' = InFlight(g)
               /\ delivered[g] \in Nat /\ unread[g] \in Nat /\ logs[g] \in Nat
    BY <2>2, InFlightIs, InFlightStays DEF TypeOK
  <2> QED BY <2>1, <2>2, <2>3 DEF LogsAccounted, TypeOK
<1>5. NoFilterLeftBehind'
  BY DEF LogMatches, call, account, TypeOK, ReplyFits, CallShape, NoFilterLeftBehind,
         Filters, Providers, FilterOps, UninstallOps, FeeOps, Unborn, Removed, Nobody,
         NoReply
<1> QED BY <1>1, <1>2, <1>3, <1>4, <1>5

(* A call starts with nobody asked. *)
LEMMA CallMethodKeeps == IInv /\ CallMethod => IInv'
<1> SUFFICES ASSUME IInv, CallMethod PROVE IInv'
  OBVIOUS
<1> USE DEF IInv
<1>1. TypeOK'
  BY RobustSessionAssumption
     DEF CallMethod, Begin, node, account, TypeOK, Providers, FilterOps, UninstallOps,
         FeeOps, Removed
<1>2. ReplyFits'
  BY DEF CallMethod, Begin, node, account, TypeOK, ReplyFits, CallShape, Filters,
         Providers, FilterOps, UninstallOps, FeeOps, Unborn, Removed, Nobody, NoReply
<1>3. CallShape'
  BY RobustSessionAssumption
     DEF CallMethod, Begin, node, account, TypeOK, ReplyFits, CallShape, Filters,
         Providers, FilterOps, UninstallOps, FeeOps, Unborn, Removed, Nobody, NoReply
<1>4. LogsAccounted'
  BY DEF CallMethod, Begin, node, account, TypeOK, LogsAccounted, InFlight, NoReply,
         ReplyFits, CallShape
<1>5. NoFilterLeftBehind'
  BY DEF CallMethod, Begin, node, account, TypeOK, ReplyFits, CallShape,
         NoFilterLeftBehind, Filters, Providers, FilterOps, UninstallOps, FeeOps, Unborn,
         Removed, Nobody, NoReply
<1> QED BY <1>1, <1>2, <1>3, <1>4, <1>5

(* So does an estimate. *)
LEMMA EstimateFeesKeeps == IInv /\ EstimateFees => IInv'
<1> SUFFICES ASSUME IInv, EstimateFees PROVE IInv'
  OBVIOUS
<1> USE DEF IInv
<1>1. TypeOK'
  BY RobustSessionAssumption
     DEF EstimateFees, Begin, node, account, TypeOK, Providers, FilterOps, UninstallOps,
         FeeOps, Removed
<1>2. ReplyFits'
  BY DEF EstimateFees, Begin, node, account, TypeOK, ReplyFits, CallShape, Filters,
         Providers, FilterOps, UninstallOps, FeeOps, Unborn, Removed, Nobody, NoReply
<1>3. CallShape'
  BY RobustSessionAssumption
     DEF EstimateFees, Begin, node, account, TypeOK, ReplyFits, CallShape, Filters,
         Providers, FilterOps, UninstallOps, FeeOps, Unborn, Removed, Nobody, NoReply
<1>4. LogsAccounted'
  BY DEF EstimateFees, Begin, node, account, TypeOK, LogsAccounted, InFlight, NoReply,
         ReplyFits, CallShape
<1>5. NoFilterLeftBehind'
  BY DEF EstimateFees, Begin, node, account, TypeOK, ReplyFits, CallShape,
         NoFilterLeftBehind, Filters, Providers, FilterOps, UninstallOps, FeeOps, Unborn,
         Removed, Nobody, NoReply
<1> QED BY <1>1, <1>2, <1>3, <1>4, <1>5

(* A filter is born and named in the answer. *)
LEMMA CreatesKeeps == IInv /\ Execute /\ Creates => IInv'
<1> SUFFICES ASSUME IInv, Execute /\ Creates PROVE IInv'
  OBVIOUS
<1> USE DEF IInv
<1>1. TypeOK'
  BY RobustSessionAssumption
     DEF Execute, account, Creates, TypeOK, Providers, FilterOps, UninstallOps, FeeOps,
         Removed
<1>2. ReplyFits'
  BY DEF Execute, account, Creates, TypeOK, ReplyFits, CallShape, Filters, Providers,
         FilterOps, UninstallOps, FeeOps, Unborn, Removed, Nobody, NoReply
<1>3. CallShape'
  BY RobustSessionAssumption
     DEF Execute, account, Creates, TypeOK, ReplyFits, CallShape, Filters, Providers,
         FilterOps, UninstallOps, FeeOps, Unborn, Removed, Nobody, NoReply
<1>4. LogsAccounted'
  BY DEF Execute, account, Creates, TypeOK, LogsAccounted, InFlight, NoReply, ReplyFits,
         CallShape
<1>5. NoFilterLeftBehind'
  BY DEF Execute, account, Creates, TypeOK, ReplyFits, CallShape, NoFilterLeftBehind,
         Filters, Providers, FilterOps, UninstallOps, FeeOps, Unborn, Removed, Nobody,
         NoReply
<1> QED BY <1>1, <1>2, <1>3, <1>4, <1>5

(* Logs move from the filter into the answer. *)
LEMMA HandsOutLogsKeeps == IInv /\ Execute /\ HandsOutLogs => IInv'
<1> SUFFICES ASSUME IInv, Execute /\ HandsOutLogs PROVE IInv'
  OBVIOUS
<1> USE DEF IInv
<1>1. TypeOK'
  BY RobustSessionAssumption
     DEF Execute, account, HandsOutLogs, TypeOK, Providers, FilterOps, UninstallOps,
         FeeOps, Removed, ReplyFits
<1>2. ReplyFits'
  BY DEF Execute, account, HandsOutLogs, TypeOK, ReplyFits, CallShape, Filters, Providers,
         FilterOps, UninstallOps, FeeOps, Unborn, Removed, Nobody, NoReply
<1>3. CallShape'
  BY RobustSessionAssumption
     DEF Execute, account, HandsOutLogs, TypeOK, ReplyFits, CallShape, Filters, Providers,
         FilterOps, UninstallOps, FeeOps, Unborn, Removed, Nobody, NoReply
<1>4. LogsAccounted'
  BY DEF Execute, account, HandsOutLogs, TypeOK, LogsAccounted, InFlight, NoReply,
         ReplyFits, CallShape
<1>5. NoFilterLeftBehind'
  BY DEF Execute, account, HandsOutLogs, TypeOK, ReplyFits, CallShape, NoFilterLeftBehind,
         Filters, Providers, FilterOps, UninstallOps, FeeOps, Unborn, Removed, Nobody,
         NoReply
<1> QED BY <1>1, <1>2, <1>3, <1>4, <1>5

(* An answer of TRUE means that the filter is gone. *)
LEMMA RemovesKeeps == IInv /\ Execute /\ Removes => IInv'
<1> SUFFICES ASSUME IInv, Execute /\ Removes PROVE IInv'
  OBVIOUS
<1> USE DEF IInv
<1>1. TypeOK'
  BY RobustSessionAssumption
     DEF Execute, account, Removes, TypeOK, Providers, FilterOps, UninstallOps, FeeOps,
         Removed
<1>2. ReplyFits'
  <2>1. op = "uninstall_filter" /\ UNCHANGED op /\ UNCHANGED handle /\ handle \in Filters
    BY DEF Removes, Execute, CallShape
  <2>2. CASE site[handle] = asked
    <3>1. reply' = [kind |-> "removed", found |-> TRUE] /\ site' = [site EXCEPT ![handle] = Removed]
      BY <2>2 DEF Removes
    <3>2. site'[handle'] = Removed
      BY <2>1, <3>1 DEF TypeOK
    <3>3. Removed \notin Providers
      BY RobustSessionAssumption DEF Removed, Providers
    <3> QED BY <2>1, <3>1, <3>2, <3>3 DEF ReplyFits, FeeOps
  <2>3. CASE site[handle] # asked
    <3>1. reply' = [kind |-> "removed", found |-> FALSE]
      BY <2>3 DEF Removes
    <3> QED BY <2>1, <3>1 DEF ReplyFits, FeeOps
  <2> QED BY <2>2, <2>3
<1>3. CallShape'
  BY RobustSessionAssumption
     DEF Execute, account, Removes, TypeOK, ReplyFits, CallShape, Filters, Providers,
         FilterOps, UninstallOps, FeeOps, Unborn, Removed, Nobody, NoReply
<1>4. LogsAccounted'
  BY DEF Execute, account, Removes, TypeOK, LogsAccounted, InFlight, NoReply, ReplyFits,
         CallShape
<1>5. NoFilterLeftBehind'
  BY DEF Execute, account, Removes, TypeOK, ReplyFits, CallShape, NoFilterLeftBehind,
         Filters, Providers, FilterOps, UninstallOps, FeeOps, Unborn, Removed, Nobody,
         NoReply
<1> QED BY <1>1, <1>2, <1>3, <1>4, <1>5

(* Fees concern no filter. *)
LEMMA TellsFeesKeeps == IInv /\ Execute /\ TellsFees => IInv'
<1> SUFFICES ASSUME IInv, Execute /\ TellsFees PROVE IInv'
  OBVIOUS
<1> USE DEF IInv
<1>1. TypeOK'
  BY RobustSessionAssumption
     DEF Execute, account, TellsFees, TypeOK, Providers, FilterOps, UninstallOps, FeeOps,
         Removed
<1>2. ReplyFits'
  BY DEF Execute, account, TellsFees, TypeOK, ReplyFits, CallShape, Filters, Providers,
         FilterOps, UninstallOps, FeeOps, Unborn, Removed, Nobody, NoReply
<1>3. CallShape'
  BY RobustSessionAssumption
     DEF Execute, account, TellsFees, TypeOK, ReplyFits, CallShape, Filters, Providers,
         FilterOps, UninstallOps, FeeOps, Unborn, Removed, Nobody, NoReply
<1>4. LogsAccounted'
  BY DEF Execute, account, TellsFees, TypeOK, LogsAccounted, InFlight, NoReply, ReplyFits,
         CallShape
<1>5. NoFilterLeftBehind'
  BY DEF Execute, account, TellsFees, TypeOK, ReplyFits, CallShape, NoFilterLeftBehind,
         Filters, Providers, FilterOps, UninstallOps, FeeOps, Unborn, Removed, Nobody,
         NoReply
<1> QED BY <1>1, <1>2, <1>3, <1>4, <1>5

(* An attempt that did not reach the node joins `failing`. *)
LEMMA UnreachableKeeps == IInv /\ Unreachable => IInv'
<1> SUFFICES ASSUME IInv, Unreachable PROVE IInv'
  OBVIOUS
<1> USE DEF IInv
<1>1. TypeOK'
  BY RobustSessionAssumption
     DEF Unreachable, RetryOrNext, NextProvider, End, node, account, TypeOK, Providers,
         FilterOps, UninstallOps, FeeOps, Removed
<1>2. ReplyFits'
  BY DEF Unreachable, RetryOrNext, NextProvider, End, node, account, TypeOK, ReplyFits,
         CallShape, Filters, Providers, FilterOps, UninstallOps, FeeOps, Unborn, Removed,
         Nobody, NoReply
<1>3. CallShape'
  BY RobustSessionAssumption
     DEF Unreachable, RetryOrNext, NextProvider, End, node, account, TypeOK, ReplyFits,
         CallShape, Filters, Providers, FilterOps, UninstallOps, FeeOps, Unborn, Removed,
         Nobody, NoReply
<1>4. LogsAccounted'
  BY DEF Unreachable, RetryOrNext, NextProvider, End, node, account, TypeOK, LogsAccounted,
         InFlight, NoReply, ReplyFits, CallShape
<1>5. NoFilterLeftBehind'
  BY DEF Unreachable, RetryOrNext, NextProvider, End, node, account, TypeOK, ReplyFits,
         CallShape, NoFilterLeftBehind, Filters, Providers, FilterOps, UninstallOps,
         FeeOps, Unborn, Removed, Nobody, NoReply
<1> QED BY <1>1, <1>2, <1>3, <1>4, <1>5

(* What was in a lost answer is put down to it. *)
LEMMA LoseAnswerKeeps == IInv /\ LoseAnswer => IInv'
<1> SUFFICES ASSUME IInv, LoseAnswer PROVE IInv'
  OBVIOUS
<1> USE DEF IInv
<1>1. TypeOK'
  <2>1. reply.kind = "filter" => reply.filter \in Filters
    BY DEF TypeOK, ReplyFits, NoReply, FilterOps, UninstallOps, FeeOps
  <2>2. reply.kind = "logs" => handle \in Filters
    BY DEF TypeOK, ReplyFits, CallShape, NoReply, FilterOps, UninstallOps, FeeOps
  <2>3. orphans' \subseteq Filters /\ lossy' \subseteq Filters
    BY <2>1, <2>2 DEF LoseAnswer, TypeOK
  <2>4. /\ RetryOrNext /\ failing' = failing \cup {asked}
        /\ UNCHANGED <<node, handle, rewards, delivered>>
    BY DEF LoseAnswer
  <2> QED BY <2>3, <2>4, RobustSessionAssumption
          DEF RetryOrNext, NextProvider, End, node, TypeOK, Providers
<1>2. ReplyFits'
  BY DEF LoseAnswer, RetryOrNext, NextProvider, End, node, TypeOK, ReplyFits, CallShape,
         Filters, Providers, FilterOps, UninstallOps, FeeOps, Unborn, Removed, Nobody,
         NoReply
<1>3. CallShape'
  BY RobustSessionAssumption
     DEF LoseAnswer, RetryOrNext, NextProvider, End, node, TypeOK, ReplyFits, CallShape,
         Filters, Providers, FilterOps, UninstallOps, FeeOps, Unborn, Removed, Nobody,
         NoReply
<1>4. LogsAccounted'
  <2>1. reply' = NoReply /\ UNCHANGED <<unread, logs, delivered>>
    BY DEF LoseAnswer, RetryOrNext, NextProvider, End, node
  <2>2. ASSUME NEW f \in Filters, f \notin lossy' PROVE f \notin lossy /\ InFlight(f) = 0
    <3>1. f \notin lossy
      BY <2>2 DEF LoseAnswer
    <3>2. ASSUME InFlight(f) # 0 PROVE FALSE
      <4>1. reply.kind = "logs" /\ f = handle /\ reply.count > 0
        BY <3>2, InFlightIs
      <4> QED BY <4>1, <2>2 DEF LoseAnswer
    <3> QED BY <3>1, <3>2
  <2>3. ASSUME NEW f \in Filters
        PROVE  /\ InFlight(f) \in Nat /\ InFlight(f)' = 0
               /\ delivered[f] \in Nat /\ unread[f] \in Nat /\ logs[f] \in Nat
    BY <2>1, InFlightIs, InFlightEnds DEF TypeOK
  <2> QED BY <2>1, <2>2, <2>3 DEF LogsAccounted
<1>5. NoFilterLeftBehind'
  BY DEF LoseAnswer, RetryOrNext, NextProvider, End, node, TypeOK, ReplyFits, CallShape,
         NoFilterLeftBehind, Filters, Providers, FilterOps, UninstallOps, FeeOps, Unborn,
         Removed, Nobody, NoReply
<1> QED BY <1>1, <1>2, <1>3, <1>4, <1>5

(* A provider is passed over that has not the filter. *)
LEMMA FilterNotFoundKeeps == IInv /\ FilterNotFound => IInv'
<1> SUFFICES ASSUME IInv, FilterNotFound PROVE IInv'
  OBVIOUS
<1> USE DEF IInv
<1>1. TypeOK'
  BY RobustSessionAssumption
     DEF FilterNotFound, NextProvider, End, node, account, TypeOK, Providers, FilterOps,
         UninstallOps, FeeOps, Removed
<1>2. ReplyFits'
  BY DEF FilterNotFound, NextProvider, End, node, account, TypeOK, ReplyFits, CallShape,
         Filters, Providers, FilterOps, UninstallOps, FeeOps, Unborn, Removed, Nobody,
         NoReply
<1>3. CallShape'
  BY RobustSessionAssumption
     DEF FilterNotFound, NextProvider, End, node, account, TypeOK, ReplyFits, CallShape,
         Filters, Providers, FilterOps, UninstallOps, FeeOps, Unborn, Removed, Nobody,
         NoReply
<1>4. LogsAccounted'
  BY DEF FilterNotFound, NextProvider, End, node, account, TypeOK, LogsAccounted, InFlight,
         NoReply, ReplyFits, CallShape
<1>5. NoFilterLeftBehind'
  BY DEF FilterNotFound, NextProvider, End, node, account, TypeOK, ReplyFits, CallShape,
         NoFilterLeftBehind, Filters, Providers, FilterOps, UninstallOps, FeeOps, Unborn,
         Removed, Nobody, NoReply
<1> QED BY <1>1, <1>2, <1>3, <1>4, <1>5

(* The filter named in the answer becomes the handle. *)
LEMMA CreatedKeeps == IInv /\ Created => IInv'
<1> SUFFICES ASSUME IInv, Created PROVE IInv'
  OBVIOUS
<1> USE DEF IInv
<1>1. TypeOK'
  BY RobustSessionAssumption
     DEF Created, End, node, account, TypeOK, Providers, FilterOps, UninstallOps, FeeOps,
         Removed, ReplyFits, NoReply
<1>2. ReplyFits'
  BY DEF Created, End, node, account, TypeOK, ReplyFits, CallShape, Filters, Providers,
         FilterOps, UninstallOps, FeeOps, Unborn, Removed, Nobody, NoReply
<1>3. CallShape'
  <2>1. \E f \in Filters : reply.filter = f /\ site[f] # Unborn
    BY DEF Created, TypeOK, ReplyFits, NoReply, FilterOps, UninstallOps, FeeOps
  <2>2. handle' = reply.filter
    BY DEF Created
  <2>3. op' = "none" /\ UNCHANGED <<site, failing>>
    BY DEF Created, End, node, account
  <2> QED BY <2>1, <2>2, <2>3 DEF CallShape, FeeOps
<1>4. LogsAccounted'
  BY DEF Created, End, node, account, TypeOK, LogsAccounted, InFlight, NoReply, ReplyFits,
         CallShape
<1>5. NoFilterLeftBehind'
  BY DEF Created, End, node, account, TypeOK, ReplyFits, CallShape, NoFilterLeftBehind,
         Filters, Providers, FilterOps, UninstallOps, FeeOps, Unborn, Removed, Nobody,
         NoReply
<1> QED BY <1>1, <1>2, <1>3, <1>4, <1>5

(* Logs move from the answer to the application. *)
LEMMA ChangedKeeps == IInv /\ Changed => IInv'
<1> SUFFICES ASSUME IInv, Changed PROVE IInv'
  OBVIOUS
<1> USE DEF IInv
<1>1. TypeOK'
  <2>1. InFlight(handle) = reply.count /\ handle \in Filters
    BY DEF Changed, TypeOK, ReplyFits, CallShape, InFlight, NoReply, FilterOps,
           UninstallOps, FeeOps
  <2>2. delivered' = [delivered EXCEPT ![handle] = @ + InFlight(handle)]
    BY <2>1 DEF Changed
  <2>3. delivered' \in [Filters -> Nat]
    BY <2>1, <2>2, InFlightIs DEF TypeOK
  <2>4. End("Ok") /\ UNCHANGED <<node, handle, rewards, lossy, orphans, failing>>
    BY DEF Changed
  <2> QED BY <2>3, <2>4, RobustSessionAssumption DEF End, node, TypeOK
<1>2. ReplyFits'
  BY DEF Changed, End, node, TypeOK, ReplyFits, CallShape, Filters, Providers, FilterOps,
         UninstallOps, FeeOps, Unborn, Removed, Nobody, NoReply
<1>3. CallShape'
  BY RobustSessionAssumption
     DEF Changed, End, node, TypeOK, ReplyFits, CallShape, Filters, Providers, FilterOps,
         UninstallOps, FeeOps, Unborn, Removed, Nobody, NoReply
<1>4. LogsAccounted'
  <2>1. InFlight(handle) = reply.count /\ handle \in Filters
    BY DEF Changed, TypeOK, ReplyFits, CallShape, InFlight, NoReply, FilterOps,
           UninstallOps, FeeOps
  <2>2. delivered' = [delivered EXCEPT ![handle] = @ + InFlight(handle)]
    BY <2>1 DEF Changed
  <2>3. reply' = NoReply /\ UNCHANGED <<unread, logs, lossy>>
    BY DEF Changed, End, node
  <2>4. ASSUME NEW f \in Filters
        PROVE  /\ InFlight(f) \in Nat /\ InFlight(f)' = 0 /\ (f # handle => InFlight(f) = 0)
               /\ delivered[f] \in Nat /\ unread[f] \in Nat /\ logs[f] \in Nat
    BY <2>3, InFlightIs, InFlightEnds DEF TypeOK
  <2> QED BY <2>1, <2>2, <2>3, <2>4 DEF LogsAccounted, TypeOK
<1>5. NoFilterLeftBehind'
  BY DEF Changed, End, node, TypeOK, ReplyFits, CallShape, NoFilterLeftBehind, Filters,
         Providers, FilterOps, UninstallOps, FeeOps, Unborn, Removed, Nobody, NoReply
<1> QED BY <1>1, <1>2, <1>3, <1>4, <1>5

(* The handle is given up. *)
LEMMA UninstalledKeeps == IInv /\ Uninstalled => IInv'
<1> SUFFICES ASSUME IInv, Uninstalled PROVE IInv'
  OBVIOUS
<1> USE DEF IInv
<1>1. TypeOK'
  <2>1. handle \in Filters
    BY DEF Uninstalled, TypeOK, ReplyFits, CallShape, NoReply, FilterOps, UninstallOps,
           FeeOps
  <2>2. handle' = 0 /\ orphans' \subseteq Filters
    BY <2>1 DEF Uninstalled, TypeOK
  <2>3. End("Ok") /\ UNCHANGED <<node, rewards, delivered, lossy, failing>>
    BY DEF Uninstalled
  <2> QED BY <2>2, <2>3, RobustSessionAssumption DEF End, node, TypeOK
<1>2. ReplyFits'
  BY DEF Uninstalled, End, node, TypeOK, ReplyFits, CallShape, Filters, Providers,
         FilterOps, UninstallOps, FeeOps, Unborn, Removed, Nobody, NoReply
<1>3. CallShape'
  BY RobustSessionAssumption
     DEF Uninstalled, End, node, TypeOK, ReplyFits, CallShape, Filters, Providers,
         FilterOps, UninstallOps, FeeOps, Unborn, Removed, Nobody, NoReply
<1>4. LogsAccounted'
  BY DEF Uninstalled, End, node, TypeOK, LogsAccounted, InFlight, NoReply, ReplyFits,
         CallShape
<1>5. NoFilterLeftBehind'
  BY DEF Uninstalled, End, node, TypeOK, ReplyFits, CallShape, NoFilterLeftBehind,
         Filters, Providers, FilterOps, UninstallOps, FeeOps, Unborn, Removed, Nobody,
         NoReply
<1> QED BY <1>1, <1>2, <1>3, <1>4, <1>5

(* The second call of an estimate starts at the primary. *)
LEMMA GotHistoryKeeps == IInv /\ GotHistory => IInv'
<1> SUFFICES ASSUME IInv, GotHistory PROVE IInv'
  OBVIOUS
<1> USE DEF IInv
<1>1. TypeOK'
  BY RobustSessionAssumption
     DEF GotHistory, Begin, End, node, account, TypeOK, Providers, FilterOps,
         UninstallOps, FeeOps, Removed
<1>2. ReplyFits'
  BY DEF GotHistory, Begin, End, node, account, TypeOK, ReplyFits, CallShape, Filters,
         Providers, FilterOps, UninstallOps, FeeOps, Unborn, Removed, Nobody, NoReply
<1>3. CallShape'
  BY RobustSessionAssumption
     DEF GotHistory, Begin, End, node, account, TypeOK, ReplyFits, CallShape, Filters,
         Providers, FilterOps, UninstallOps, FeeOps, Unborn, Removed, Nobody, NoReply
<1>4. LogsAccounted'
  BY DEF GotHistory, Begin, End, node, account, TypeOK, LogsAccounted, InFlight, NoReply,
         ReplyFits, CallShape
<1>5. NoFilterLeftBehind'
  BY DEF GotHistory, Begin, End, node, account, TypeOK, ReplyFits, CallShape,
         NoFilterLeftBehind, Filters, Providers, FilterOps, UninstallOps, FeeOps, Unborn,
         Removed, Nobody, NoReply
<1> QED BY <1>1, <1>2, <1>3, <1>4, <1>5

(* The end of an estimate. *)
LEMMA GotBlockKeeps == IInv /\ GotBlock => IInv'
<1> SUFFICES ASSUME IInv, GotBlock PROVE IInv'
  OBVIOUS
<1> USE DEF IInv
<1>1. TypeOK'
  BY RobustSessionAssumption
     DEF GotBlock, End, node, account, TypeOK, Providers, FilterOps, UninstallOps, FeeOps,
         Removed
<1>2. ReplyFits'
  BY DEF GotBlock, End, node, account, TypeOK, ReplyFits, CallShape, Filters, Providers,
         FilterOps, UninstallOps, FeeOps, Unborn, Removed, Nobody, NoReply
<1>3. CallShape'
  BY RobustSessionAssumption
     DEF GotBlock, End, node, account, TypeOK, ReplyFits, CallShape, Filters, Providers,
         FilterOps, UninstallOps, FeeOps, Unborn, Removed, Nobody, NoReply
<1>4. LogsAccounted'
  <2>1. op # "get_filter_changes" /\ reply' = NoReply
        /\ UNCHANGED <<unread, logs, delivered, lossy>>
    BY DEF GotBlock, End, node, account
  <2> QED BY <2>1, InFlightIs, InFlightEnds DEF LogsAccounted
<1>5. NoFilterLeftBehind'
  BY DEF GotBlock, End, node, account, TypeOK, ReplyFits, CallShape, NoFilterLeftBehind,
         Filters, Providers, FilterOps, UninstallOps, FeeOps, Unborn, Removed, Nobody,
         NoReply
<1> QED BY <1>1, <1>2, <1>3, <1>4, <1>5

(* Every step keeps the invariant. *)
LEMMA NextIInv == IInv /\ [Next]_vars => IInv'
<1> SUFFICES ASSUME IInv, [Next]_vars PROVE IInv'
  OBVIOUS
<1>1. CASE UNCHANGED vars
  BY <1>1 DEF IInv, TypeOK, ReplyFits, CallShape, LogsAccounted, InFlight, NoFilterLeftBehind, vars,
              node, call, account
<1>2. CASE Execute
  BY <1>2, CreatesKeeps, HandsOutLogsKeeps, RemovesKeeps, TellsFeesKeeps DEF Execute
<1>3. CASE Next /\ ~Execute
  BY <1>3, NodeChangesKeeps, ForgetsKeeps, LogMatchesKeeps, CallMethodKeeps, EstimateFeesKeeps,
     UnreachableKeeps, LoseAnswerKeeps, FilterNotFoundKeeps, CreatedKeeps, ChangedKeeps,
     UninstalledKeeps, GotHistoryKeeps, GotBlockKeeps
     DEF Next, Answered
<1> QED BY <1>1, <1>2, <1>3

(* The invariant holds throughout. *)
LEMMA Invariance == Spec => []IInv
<1>1. Init => IInv
  BY InitIInv
<1>2. IInv /\ [Next]_vars => IInv'
  BY NextIInv
<1> QED BY <1>1, <1>2, PTL DEF Spec

(* Type correctness of a session. *)
THEOREM SessionIsTyped == Spec => []TypeOK
<1>1. IInv => TypeOK
  BY DEF IInv
<1> QED BY <1>1, Invariance, PTL

(* No log is delivered twice, and logs get lost only with an answer. *)
THEOREM SessionAccountsForLogs == Spec => []LogsAccounted
<1>1. IInv => LogsAccounted
  BY DEF IInv
<1> QED BY <1>1, Invariance, PTL

(* Filters stay behind only when an answer was lost or another node's. *)
THEOREM SessionLeavesNoFilter == Spec => []NoFilterLeftBehind
<1>1. IInv => NoFilterLeftBehind
  BY DEF IInv
<1> QED BY <1>1, Invariance, PTL

(* "filter not found" is said only when the filter's node failed in this   *)
(* call, or has dropped it.                                                *)
THEOREM SessionMissesForCause == Spec => NotFoundForCause
<1> DEFINE Told == op = "get_filter_changes" /\ op' = "none" /\ result' = "NotFound"
<1>1. IInv /\ [Next]_vars => [Told => site[handle] \in failing \cup {Removed}]_vars
  <2> SUFFICES ASSUME IInv, Next, Told PROVE site[handle] \in failing \cup {Removed}
    BY DEF vars
  <2>1. FilterNotFound /\ asked = NumFallbacks
    <3>1. op # "none" /\ op' = "none" /\ op \notin FeeOps
          /\ op # "new_filter" /\ op # "uninstall_filter" /\ result' = "NotFound"
      BY DEF Told, FeeOps
    <3>2. ~(NodeChanges \/ Forgets \/ LogMatches \/ CallMethod \/ EstimateFees \/ Execute)
      BY <3>1 DEF NodeChanges, Forgets, LogMatches, CallMethod, EstimateFees, Execute, call
    <3>3. ~RetryOrNext
      BY <3>1 DEF RetryOrNext, NextProvider, End
    <3>4. ~(Unreachable \/ LoseAnswer)
      BY <3>3 DEF Unreachable, LoseAnswer
    <3>5. ~End("Ok")
      BY <3>1 DEF End
    <3>6. ~(Created \/ Changed \/ Uninstalled)
      BY <3>5 DEF Created, Changed, Uninstalled
    <3>7. ~(GotHistory \/ GotBlock)
      BY <3>1 DEF GotHistory, GotBlock, FeeOps
    <3>8. FilterNotFound
      BY <3>2, <3>4, <3>6, <3>7 DEF Next, Answered
    <3>9. NextProvider("NotFound")
      BY <3>8 DEF FilterNotFound
    <3> QED BY <3>1, <3>8, <3>9, RobustSessionAssumption
            DEF NextProvider, IInv, TypeOK, Providers
  <2>2. site[handle] # asked /\ handle \in Filters /\ site[handle] # Unborn
    BY <2>1 DEF Told, FilterNotFound, IInv, ReplyFits, CallShape, NoReply
  <2>3. site[handle] \in Providers => site[handle] \in failing
    BY <2>1, <2>2, RobustSessionAssumption DEF Told, IInv, TypeOK, CallShape, Providers
  <2> QED BY <2>2, <2>3 DEF IInv, TypeOK
<1> QED BY <1>1, Invariance, PTL DEF Spec, NotFoundForCause

(* An estimate mixes two providers only after a failure. *)
THEOREM SessionMixesFeesForCause == Spec => FeesFromOneProvider
<1> DEFINE Estimated == op = "get_block_by_number" /\ op' = "none" /\ result' = "Ok"
<1>1. IInv /\ [Next]_vars => [Estimated => asked = rewards \/ failing # {}]_vars
  BY DEF IInv, CallShape, FeeOps, vars, node, call, account
<1> QED BY <1>1, Invariance, PTL DEF Spec, FeesFromOneProvider

-----------------------------------------------------------------------------
(* A session is a sequence of calls as FailoverCalls describes them.       *)

(* Nobody has called yet. *)
LEMMA InitCalls == Init => Calls!CallsInit
BY DEF Init, Calls!CallsInit, Verdict

(* Failing over, or giving up after the last provider. *)
LEMMA NextProviderFails ==
    ASSUME IInv, NEW error \in {"Failed", "NotFound"}, op # "none", NextProvider(error)
    PROVE  [Calls!CallsNext]_(Calls!callsVars)
<1> USE DEF Calls!CallsNext, Calls!FailOver, Calls!GiveUp
<1>1. asked \in 0..NumFallbacks /\ NumFallbacks \in Nat
  BY RobustSessionAssumption DEF IInv, TypeOK, Providers
<1>2. Verdict = "pending"
  BY DEF Verdict
<1>3. CASE asked < NumFallbacks
  <2>1. asked' = asked + 1 /\ op' = op
    BY <1>3 DEF NextProvider
  <2>2. Verdict' = "pending"
    BY <2>1 DEF Verdict
  <2> QED BY <1>2, <1>3, <2>1, <2>2
<1>4. CASE asked = NumFallbacks
  <2>1. asked' = asked /\ op' = "none" /\ result' = error
    BY <1>1, <1>4 DEF NextProvider, End
  <2>2. Verdict' = "failed"
    BY <2>1 DEF Verdict
  <2> QED BY <1>2, <1>4, <2>1, <2>2
<1> QED BY <1>1, <1>3, <1>4

(* A call ends with an answer. *)
LEMMA EndAnswers ==
    ASSUME NEW r \in {"Ok", "NoBaseFee"}, op # "none", End(r)
    PROVE  Calls!CallsNext
<1>1. Verdict = "pending" /\ Verdict' = "answered" /\ asked' = asked /\ op' = "none"
  BY DEF Verdict, End
<1> QED BY <1>1 DEF Calls!CallsNext, Calls!Answer

(* A call begins. *)
LEMMA BeginCalls ==
    ASSUME NEW method \in FilterOps \cup UninstallOps \cup {"get_fee_history"}, op = "none", Begin(method)
    PROVE  Calls!CallsNext
<1>1. /\ Verdict # "pending" /\ Verdict' = "pending" /\ asked' = 0 /\ op' = method
      /\ op' # "none"
  BY DEF Verdict, Begin, FilterOps, UninstallOps
<1> QED BY <1>1 DEF Calls!CallsNext, Calls!Call

(* Every step of a session maps to a step of FailoverCalls or to a stutter. *)
LEMMA NextCalls == IInv /\ [Next]_vars => [Calls!CallsNext]_(Calls!callsVars)
<1> SUFFICES ASSUME IInv, [Next]_vars PROVE [Calls!CallsNext]_(Calls!callsVars)
  OBVIOUS
<1>0. op = "none" => reply = NoReply
  BY DEF IInv, ReplyFits
<1>1. CASE NodeChanges \/ Forgets \/ LogMatches \/ Execute \/ UNCHANGED vars
  <2>1. UNCHANGED <<op, asked, result>>
    BY <1>1 DEF NodeChanges, Forgets, LogMatches, Execute, vars, call
  <2> QED BY <2>1 DEF Calls!callsVars, Calls!vars, Verdict
<1>2. CASE CallMethod \/ EstimateFees
  BY <1>2, BeginCalls DEF CallMethod, EstimateFees
<1>3. CASE Unreachable \/ LoseAnswer
  <2>1. op # "none" /\ RetryOrNext
    BY <1>0, <1>3 DEF Unreachable, LoseAnswer
  <2>2. CASE UNCHANGED <<op, asked, result>>
    BY <2>2 DEF Calls!callsVars, Calls!vars, Verdict
  <2> QED BY <2>1, <2>2, NextProviderFails DEF RetryOrNext
<1>4. CASE FilterNotFound
  <2>1. op # "none"
    BY <1>0, <1>4 DEF FilterNotFound, NoReply
  <2> QED BY <1>4, <2>1, NextProviderFails DEF FilterNotFound
<1>5. CASE Created \/ Changed \/ Uninstalled
  <2>1. op # "none"
    BY <1>0, <1>5 DEF Created, Changed, Uninstalled, NoReply
  <2> QED BY <1>5, <2>1, EndAnswers DEF Created, Changed, Uninstalled
<1>6. CASE GotHistory
  <2>1. op = "get_fee_history"
    BY <1>6 DEF GotHistory
  <2>2. CASE End("Ok")
    BY <2>1, <2>2, EndAnswers
  <2>3. CASE Begin("get_block_by_number")
    <3>1. Verdict = "pending" /\ Verdict' = "pending" /\ asked' = 0
      BY <2>1, <2>3 DEF Verdict, Begin
    <3>2. op' = "get_block_by_number"
      BY <2>3 DEF Begin
    <3> QED BY <2>1, <3>1, <3>2 DEF Calls!CallsNext, Calls!Chain
  <2> QED BY <1>6, <2>2, <2>3 DEF GotHistory
<1>7. CASE GotBlock
  <2>1. op # "none" /\ \E r \in {"Ok", "NoBaseFee"} : End(r)
    BY <1>7 DEF GotBlock
  <2> QED BY <2>1, EndAnswers
<1> QED BY <1>1, <1>2, <1>3, <1>4, <1>5, <1>6, <1>7 DEF Next, Answered

(* Each call of a session does what FailoverCall promises of one, whatever *)
(* the calls before it did and left behind at the nodes.                   *)
THEOREM SessionImplementsCalls == Spec => ImplementsCalls
BY InitCalls, Invariance, NextCalls, PTL DEF Spec, ImplementsCalls, Calls!CallsSpec

=============================================================================
