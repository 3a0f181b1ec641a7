----------------------------- MODULE RpcErrors -----------------------------
(***************************************************************************)
(* The error values of src/src/robust_provider/errors.rs and the decisions *)
(* taken on them: which ones are retried on the same provider, and what    *)
(* the caller finally sees.                                                *)
(*                                                                         *)
(* An error response of a node is a code and a message.  Messages are      *)
(* represented by the classes the code's string patterns tell apart.       *)
(***************************************************************************)
EXTENDS Integers

DEFAULT_ERROR_CODE == -32000

INVALID_PARAMS_ERROR_CODE == -32602

UNKNOWN_BLOCK_ERROR_CODE == -39001

\* Every other code, such as -32603 (internal error), behaves alike.
OTHER_ERROR_CODE == -32603

Codes == {DEFAULT_ERROR_CODE, INVALID_PARAMS_ERROR_CODE,
          UNKNOWN_BLOCK_ERROR_CODE, OTHER_ERROR_CODE}

\* geth_missing : a literal of geth's list ("header not found", ...)
\* geth_tracer  : starts with "block" and ends with "not found"
\* filter_range : "invalid block range params" and the three next to it
\* filter_limit : "unknown block", "exceed max topics", "filter not found", ...
\* besu_unknown : "Unknown block"
\* anvil_range  : contains "BlockOutOfRangeError"
Messages == {"geth_missing", "geth_tracer", "filter_range", "filter_limit",
             "besu_unknown", "anvil_range", "other"}

\* What an attempt on one provider can end with: RpcError::ErrorResp,
\* RpcError::Transport, the remaining RpcErrors ("Other": an answer that
\* cannot be decoded), or tokio's Elapsed.  "marked" is alloy's is_retry_err().
RpcErrorResponses ==
    [kind : {"ErrorResp"}, code : Codes, message : Messages, marked : BOOLEAN]

TransportErrors ==
    [kind : {"Transport"}, code : {0}, message : {"other"}, marked : BOOLEAN]

OtherError == [kind |-> "Other", code |-> 0, message |-> "other", marked |-> FALSE]

Elapsed == [kind |-> "Timeout", code |-> 0, message |-> "other", marked |-> FALSE]

ClosedError == [kind |-> "Closed", code |-> 0, message |-> "other", marked |-> FALSE]

RpcErrorValues == RpcErrorResponses \cup TransportErrors \cup {OtherError}

FailoverErrors == RpcErrorValues \cup {Elapsed, ClosedError}

GethBlockNotFound(code, message) ==
    code = DEFAULT_ERROR_CODE /\ message \in {"geth_missing", "geth_tracer"}

GethInvalidLogFilter(code, message) ==
    \/ /\ code \in {DEFAULT_ERROR_CODE, INVALID_PARAMS_ERROR_CODE}
       /\ message = "filter_range"
    \/ code = DEFAULT_ERROR_CODE /\ message = "filter_limit"

BesuBlockNotFound(code, message) ==
    code = UNKNOWN_BLOCK_ERROR_CODE /\ message = "besu_unknown"

AnvilBlockNotFound(code, message) ==
    code = INVALID_PARAMS_ERROR_CODE /\ message = "anvil_range"

IsBlockNotFound(code, message) ==
    \/ GethBlockNotFound(code, message)
    \/ BesuBlockNotFound(code, message)
    \/ AnvilBlockNotFound(code, message)

IsInvalidLogFilter(code, message) == GethInvalidLogFilter(code, message)

IsRetryable(code, message) ==
    ~(IsBlockNotFound(code, message) \/ IsInvalidLogFilter(code, message))

\* The closure given to `.when`.  The arm order matters: a response that alloy
\* marks as retryable is retried whatever its code and message say.
ShouldRetry(e) ==
    \/ e.kind = "ErrorResp" /\ (e.marked \/ IsRetryable(e.code, e.message))
    \/ e.kind = "Transport" /\ e.marked
    \/ e.kind = "Other"

SaysNotFound(e) == e.kind = "ErrorResp" /\ IsBlockNotFound(e.code, e.message)

\* impl From<FailoverError> for Error: what the caller sees.
ErrorFrom(e) ==
    CASE e.kind = "Closed"  -> "Closed"
      [] e.kind = "Timeout" -> "Timeout"
      [] SaysNotFound(e)    -> "BlockNotFound"
      [] OTHER              -> "RpcError"

=============================================================================
