------------------------ MODULE MCRobustSubscription ------------------------
(***************************************************************************)
(* Small instances of RobustSubscription: which providers speak HTTP, and  *)
(* which produce blocks.                                                   *)
(***************************************************************************)
EXTENDS RobustSubscription

EveryProvider == Providers

NoProvider == {}

\* A mixed chain: WebSocket primary, HTTP fallback, WebSocket fallback.
HttpFallback == {1}

\* The primary and the first fallback accept subscriptions but stay silent.
LastFallback == {NumFallbacks}

=============================================================================
