------------------------------- MODULE Builder -------------------------------
(***************************************************************************)
(* RobustProviderBuilder: the application names a primary, adds fallbacks  *)
(* and sets options in any order; build() then connects the providers one  *)
(* after the other, the primary first, and fails with the first refusal.   *)
(* What is given is either a provider, which holds its connection already, *)
(* or a well-formed URL; into_root_provider treats them alike.  A WebSocket*)
(* URL is dialled, and the dial may be refused; an HTTP one is not, its    *)
(* connections being made for the requests.                                *)
(*                                                                         *)
(* The future of a fallback is created by fallback(), but nothing runs     *)
(* until build() awaits it.  build() has no timeout: an endpoint that does *)
(* not answer holds it up, and all that an application can do is to drop   *)
(* it.                                                                     *)
(***************************************************************************)
EXTENDS Integers, Sequences

CONSTANTS Given,        \* the providers the application has
          Urls,         \* the connection strings it has
          WsUrls,       \* those that are dialled
          Options,      \* the settings of the builder
          MaxFallbacks  \* bound: fallbacks added

ASSUME BuilderAssumption ==
    /\ MaxFallbacks \in Nat
    /\ {"max_retries", "min_delay"} \subseteq Options
    /\ Given \cap Urls = {} /\ WsUrls \subseteq Urls

VARIABLES
    phase,      \* of the builder
    chain,      \* primary_provider, then fallback_providers: a Given or a Url each
    config,     \* the options
    endpoint,   \* how the node behind each WebSocket URL treats a dial: up, down or silent
    connected,  \* build: the RootProviders it has
    provider,   \* the RobustProvider built, or NoProvider
    converted,  \* it has been passed through into_robust_provider
    dialled     \* history: the futures of into_root_provider polled so far

vars == <<phase, chain, config, endpoint, connected, provider, converted, dialled>>

Sources == Given \cup Urls

Values == {"default", "zero", "set"}

Configs == [Options -> Values]

NoProvider == [primary |-> "none", fallbacks |-> <<>>, config |-> "none"]

\* RobustProviderBuilder::new and ::fragile.
Defaults == [o \in Options |-> "default"]

Fragile == [Defaults EXCEPT !["max_retries"] = "zero", !["min_delay"] = "zero"]

Init ==
    /\ phase = "configuring"
    /\ \E s \in Sources : chain = <<s>>
    /\ config \in {Defaults, Fragile}
    /\ endpoint \in [WsUrls -> {"up", "down", "silent"}]
    /\ connected = <<>> /\ provider = NoProvider /\ converted = FALSE /\ dialled = <<>>

\* Nodes come and go.
EndpointChanges ==
    /\ \E u \in WsUrls, how \in {"up", "down", "silent"} :
          endpoint[u] # how /\ endpoint' = [endpoint EXCEPT ![u] = how]
    /\ UNCHANGED <<phase, chain, config, connected, provider, converted, dialled>>

\* Mutant of Fallback: the provider is connected in the background at once.
MutantFallback ==
    /\ phase = "configuring" /\ Len(chain) <= MaxFallbacks
    /\ \E s \in Sources : chain' = Append(chain, s) /\ dialled' = Append(dialled, s)
    /\ UNCHANGED <<phase, config, endpoint, connected, provider, converted>>

\* fallback(): a lazy future is pushed.
Fallback ==
    /\ phase = "configuring" /\ Len(chain) <= MaxFallbacks
    /\ \E s \in Sources : chain' = Append(chain, s)
    /\ UNCHANGED <<phase, config, endpoint, connected, provider, converted, dialled>>

\* The setters, one for each option.
Set ==
    /\ phase = "configuring"
    /\ \E o \in Options : config' = [config EXCEPT ![o] = "set"]
    /\ UNCHANGED <<phase, chain, endpoint, connected, provider, converted, dialled>>

-----------------------------------------------------------------------------
(* build().                                                                *)

Build ==
    /\ phase = "configuring" /\ phase' = "building"
    /\ UNCHANGED <<chain, config, endpoint, connected, provider, converted, dialled>>

\* The provider whose turn it is.
Current == chain[Len(connected) + 1]

Dialling == phase = "building" /\ Len(dialled) > Len(connected)

\* The next future is awaited.
Dial ==
    /\ phase = "building" /\ ~Dialling /\ Len(connected) < Len(chain)
    /\ dialled' = Append(dialled, Current)
    /\ UNCHANGED <<phase, chain, config, endpoint, connected, provider, converted>>

\* Ok(self), Ok(self.root().to_owned()), or the dial succeeds.
Connects ==
    /\ Dialling
    /\ Current \in WsUrls => endpoint[Current] = "up"
    /\ connected' = Append(connected, Current)
    /\ UNCHANGED <<phase, chain, config, endpoint, provider, converted, dialled>>

\* Mutants of Refused: the connections made so far stay open; the same provider
\* is dialled again.
MutantRefusedKeeps ==
    /\ Dialling /\ Current \in WsUrls /\ endpoint[Current] = "down"
    /\ phase' = "failed"
    /\ UNCHANGED <<chain, config, endpoint, connected, provider, converted, dialled>>

MutantRefusedAgain ==
    /\ Dialling /\ Current \in WsUrls /\ endpoint[Current] = "down"
    /\ dialled' = connected
    /\ UNCHANGED <<phase, chain, config, endpoint, connected, provider, converted>>

\* `?`: the first refusal fails the build, and what is connected is dropped.
Refused ==
    /\ Dialling /\ Current \in WsUrls /\ endpoint[Current] = "down"
    /\ phase' = "failed" /\ connected' = <<>>
    /\ UNCHANGED <<chain, config, endpoint, provider, converted, dialled>>

\* Mutant of Finish: the fallbacks come out last in, first out.
MutantFinish ==
    /\ phase = "building" /\ Len(connected) = Len(chain)
    /\ phase' = "built"
    /\ LET fallbacks == Tail(connected) IN
       provider' = [primary |-> Head(connected), config |-> config,
                    fallbacks |-> [i \in DOMAIN fallbacks |-> fallbacks[Len(fallbacks) + 1 - i]]]
    /\ UNCHANGED <<chain, config, endpoint, connected, converted, dialled>>

Finish ==
    /\ phase = "building" /\ Len(connected) = Len(chain)
    /\ phase' = "built"
    /\ provider' = [primary |-> Head(connected), fallbacks |-> Tail(connected),
                    config |-> config]
    /\ UNCHANGED <<chain, config, endpoint, connected, converted, dialled>>

\* The application drops the future of build().
Abandon ==
    /\ phase = "building"
    /\ phase' = "abandoned" /\ connected' = <<>>
    /\ UNCHANGED <<chain, config, endpoint, provider, converted, dialled>>

\* into_robust_provider of anything that is a Source: new(self).build().
BuildDefault == chain \in {<<s>> : s \in Sources} /\ config = Defaults /\ Build

\* into_robust_provider of a RobustProvider: Ok(self).
IntoRobust ==
    /\ phase = "built" /\ ~converted /\ converted' = TRUE
    /\ UNCHANGED <<phase, chain, config, endpoint, connected, provider, dialled>>

-----------------------------------------------------------------------------
Work == Dial \/ Connects \/ Refused \/ Finish

Next == EndpointChanges \/ Fallback \/ Set \/ Build \/ BuildDefault \/ Work \/ Abandon \/ IntoRobust

\* The executor polls build() when it can go on.
Spec == Init /\ [][Next]_vars /\ WF_vars(Work)

-----------------------------------------------------------------------------
(* Properties.                                                             *)

TypeOK ==
    /\ phase \in {"configuring", "building", "built", "failed", "abandoned"}
    /\ chain \in Seq(Sources) /\ Len(chain) \in 1..(MaxFallbacks + 1)
    /\ config \in Configs
    /\ endpoint \in [WsUrls -> {"up", "down", "silent"}]
    /\ connected \in Seq(Sources) /\ Len(connected) <= Len(chain)
    /\ dialled \in Seq(Sources)
    /\ converted \in BOOLEAN
    /\ phase \in {"failed", "abandoned"} => connected = <<>>

PrefixOfChain(s) == Len(s) <= Len(chain) /\ \A i \in 1..Len(s) : s[i] = chain[i]

\* Providers are connected in turn: no endpoint hears of the application before
\* build() runs and all providers before it are connected, and none after a
\* refusal.  A refusing provider is thus the last one dialled.
DialledInTurn ==
    /\ PrefixOfChain(dialled) /\ PrefixOfChain(connected)
    /\ phase = "configuring" => dialled = <<>>
    /\ phase = "building" => Len(dialled) \in {Len(connected), Len(connected) + 1}

\* What is built is what was asked for: everyone who was added, in that order,
\* with the options set last; and into_robust_provider does not change it.
BuiltAsConfigured ==
    phase = "built" =>
        /\ provider = [primary |-> chain[1], fallbacks |-> Tail(chain), config |-> config]
        /\ dialled = chain

\* With no endpoint silent for ever, build() ends.
BuildEnds ==
    (\A u \in WsUrls : <>[](endpoint[u] # "silent"))
        => (phase = "building" ~> phase # "building")

=============================================================================
