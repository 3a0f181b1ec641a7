------------------------------ MODULE MCBuilder ------------------------------
(***************************************************************************)
(* A small instance of Builder: one provider, two WebSocket URLs and an    *)
(* HTTP one, two fallbacks, the options of fragile() and one more.         *)
(***************************************************************************)
EXTENDS Builder

CONSTANTS fill, http, ws1, ws2

MCGiven == {fill}

MCUrls == {http, ws1, ws2}

MCWsUrls == {ws1, ws2}

MCOptions == {"max_retries", "min_delay", "call_timeout"}

=============================================================================
