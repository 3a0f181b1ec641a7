------------------------ MODULE MCSubscriptionStream ------------------------
(***************************************************************************)
(* A small instance of SubscriptionStream: a WebSocket primary and an HTTP *)
(* fallback that both produce blocks, enough of them for the channel to lag*)
(* and for a lost poll to leave a gap.                                     *)
(***************************************************************************)
EXTENDS SubscriptionStream

EveryProvider == Providers

HttpFallback == {1}

MCMaxHeight == [p \in Providers |-> 3]

=============================================================================
