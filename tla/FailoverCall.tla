---------------------------- MODULE FailoverCall ----------------------------
(***************************************************************************)
(* What RobustProvider promises of one call: the primary (0) and then the  *)
(* fallbacks (1 .. NumFallbacks, in the order they were added) are tried   *)
(* one at a time, the next one only after the one before it has failed;    *)
(* the first answer ends the call, and the call fails only when every      *)
(* provider has failed, with the verdict of the last one.                  *)
(***************************************************************************)
EXTENDS Integers

CONSTANT NumFallbacks

VARIABLES trying,    \* the provider being tried
          verdict    \* "pending", "answered" or "failed"

vars == <<trying, verdict>>

Init == trying = 0 /\ verdict = "pending"

Answer == verdict = "pending" /\ verdict' = "answered" /\ UNCHANGED trying

FailOver ==
    /\ verdict = "pending" /\ trying < NumFallbacks
    /\ trying' = trying + 1
    /\ UNCHANGED verdict

GiveUp ==
    /\ verdict = "pending" /\ trying = NumFallbacks
    /\ verdict' = "failed"
    /\ UNCHANGED trying

Next == Answer \/ FailOver \/ GiveUp

Spec == Init /\ [][Next]_vars /\ WF_vars(Next)

=============================================================================
