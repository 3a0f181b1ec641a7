---------------------------- MODULE MCRobustCall ----------------------------
(***************************************************************************)
(* A small instance of RobustCall: one error for every way the code treats *)
(* errors, and delays whose third value meets the cap.                     *)
(***************************************************************************)
EXTENDS RobustCall

NodeSays(code, message, marked) ==
    [kind |-> "ErrorResp", code |-> code, message |-> message, marked |-> marked]

MCReplies ==
    { NodeSays(OTHER_ERROR_CODE, "other", FALSE),                  \* retried
      NodeSays(DEFAULT_ERROR_CODE, "geth_missing", FALSE),         \* final
      NodeSays(DEFAULT_ERROR_CODE, "geth_tracer", TRUE),           \* retried, not found
      NodeSays(INVALID_PARAMS_ERROR_CODE, "filter_range", FALSE),  \* final
      [kind |-> "Transport", code |-> 0, message |-> "other", marked |-> TRUE],
      [kind |-> "Transport", code |-> 0, message |-> "other", marked |-> FALSE],
      OtherError }

=============================================================================
