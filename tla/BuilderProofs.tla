---------------------------- MODULE BuilderProofs ----------------------------
(***************************************************************************)
(* Proofs about Builder, for any providers, connection strings, options    *)
(* and number of fallbacks.  The run "builder" checks the same properties  *)
(* on a small instance.                                                    *)
(***************************************************************************)
EXTENDS Builder, TLAPS

(* The inductive invariant: the properties of the run, and that nothing is *)
(* connected before build() runs.                                          *)
IInv ==
    /\ TypeOK /\ DialledInTurn /\ BuiltAsConfigured
    /\ phase = "configuring" => connected = <<>>

(* A prefix stays one when the next provider is added to it, and when the  *)
(* chain grows.                                                            *)
LEMMA PrefixGrows ==
    ASSUME TypeOK, NEW s \in Seq(Sources), PrefixOfChain(s), Len(s) < Len(chain)
    PROVE  LET t == Append(s, chain[Len(s) + 1]) IN
           t \in Seq(Sources) /\ PrefixOfChain(t) /\ Len(t) = Len(s) + 1
BY DEF TypeOK, PrefixOfChain

(* A prefix as long as the chain is the chain. *)
LEMMA FullPrefix ==
    ASSUME TypeOK, NEW s \in Seq(Sources), PrefixOfChain(s), Len(s) = Len(chain)
    PROVE  s = chain
BY DEF TypeOK, PrefixOfChain

(* The defaults are options, whichever the options are. *)
LEMMA DefaultsAreConfigs == Defaults \in Configs /\ Fragile \in Configs
BY BuilderAssumption DEF Defaults, Fragile, Configs, Values

(* A new builder. *)
LEMMA InitIInv == Init => IInv
<1> SUFFICES ASSUME Init PROVE IInv
  OBVIOUS
<1>1. PICK s \in Sources : chain = <<s>>
  BY DEF Init
<1>2. TypeOK
  <2>1. chain \in Seq(Sources) /\ Len(chain) \in 1..(MaxFallbacks + 1)
    BY <1>1, BuilderAssumption
  <2>2. config \in Configs
    BY DefaultsAreConfigs DEF Init
  <2>3. connected \in Seq(Sources) /\ Len(connected) = 0 /\ dialled \in Seq(Sources)
    BY DEF Init
  <2>4. /\ phase = "configuring" /\ converted \in BOOLEAN
        /\ endpoint \in [WsUrls -> {"up", "down", "silent"}]
    BY DEF Init
  <2> QED BY <2>1, <2>2, <2>3, <2>4 DEF TypeOK
<1> QED BY <1>1, <1>2 DEF Init, IInv, DialledInTurn, PrefixOfChain, BuiltAsConfigured

(* Every step keeps the invariant. *)
LEMMA NextIInv == IInv /\ [Next]_vars => IInv'
<1> SUFFICES ASSUME IInv, [Next]_vars PROVE IInv'
  OBVIOUS
<1> USE DEF IInv
<1>1. CASE UNCHANGED vars
  BY <1>1 DEF vars, TypeOK, DialledInTurn, PrefixOfChain, BuiltAsConfigured
<1>2. CASE EndpointChanges
  BY <1>2 DEF EndpointChanges, TypeOK, DialledInTurn, PrefixOfChain, BuiltAsConfigured
<1>3. CASE Fallback
  <2>1. PICK s \in Sources : chain' = Append(chain, s)
    BY <1>3 DEF Fallback
  <2>2. TypeOK'
    BY <1>3, <2>1, BuilderAssumption DEF Fallback, TypeOK
  <2>3. connected = <<>> /\ dialled = <<>>
    BY <1>3 DEF Fallback, DialledInTurn, TypeOK
  <2> QED BY <1>3, <2>2, <2>3
          DEF Fallback, TypeOK, DialledInTurn, PrefixOfChain, BuiltAsConfigured
<1>4. CASE Set
  <2>1. config' \in Configs
    BY <1>4 DEF Set, TypeOK, Configs, Values
  <2> QED BY <1>4, <2>1
          DEF Set, TypeOK, DialledInTurn, PrefixOfChain, BuiltAsConfigured
<1>5. CASE Build \/ BuildDefault
  BY <1>5 DEF Build, BuildDefault, TypeOK, DialledInTurn, PrefixOfChain, BuiltAsConfigured
<1>6. CASE Dial
  <2>1. Len(dialled) = Len(connected) /\ Len(dialled) < Len(chain) /\ PrefixOfChain(dialled)
    BY <1>6 DEF Dial, Dialling, DialledInTurn, TypeOK
  <2>2. dialled' = Append(dialled, chain[Len(dialled) + 1])
    BY <1>6, <2>1 DEF Dial, Current
  <2>3. /\ dialled' \in Seq(Sources) /\ Len(dialled') = Len(dialled) + 1
        /\ PrefixOfChain(dialled')
    BY <2>1, <2>2, PrefixGrows DEF TypeOK
  <2> QED BY <1>6, <2>1, <2>3
          DEF Dial, TypeOK, DialledInTurn, PrefixOfChain, BuiltAsConfigured
<1>7. CASE Connects
  <2>1. /\ Len(dialled) = Len(connected) + 1 /\ Len(connected) < Len(chain)
        /\ PrefixOfChain(connected)
    BY <1>7 DEF Connects, Dialling, DialledInTurn, PrefixOfChain, TypeOK
  <2>2. connected' = Append(connected, chain[Len(connected) + 1])
    BY <1>7 DEF Connects, Current
  <2>3. /\ connected' \in Seq(Sources) /\ Len(connected') = Len(connected) + 1
        /\ PrefixOfChain(connected')
    BY <2>1, <2>2, PrefixGrows DEF TypeOK
  <2> QED BY <1>7, <2>1, <2>3
          DEF Connects, Dialling, TypeOK, DialledInTurn, PrefixOfChain, BuiltAsConfigured
<1>8. CASE Refused \/ Abandon
  <2>1. /\ phase' \in {"failed", "abandoned"} /\ connected' = <<>>
        /\ UNCHANGED <<chain, config, endpoint, provider, converted, dialled>>
    BY <1>8 DEF Refused, Abandon
  <2>2. TypeOK'
    BY <2>1 DEF TypeOK
  <2>3. PrefixOfChain(dialled)' /\ PrefixOfChain(connected)'
    BY <2>1 DEF TypeOK, DialledInTurn, PrefixOfChain
  <2> QED BY <2>1, <2>2, <2>3 DEF DialledInTurn, BuiltAsConfigured
<1>9. CASE Finish
  <2>1. connected = chain
    BY <1>9, FullPrefix DEF Finish, DialledInTurn, TypeOK
  <2>2. Len(dialled) = Len(chain) /\ PrefixOfChain(dialled)
    BY <1>9 DEF Finish, DialledInTurn, PrefixOfChain, TypeOK
  <2>3. dialled = chain
    BY <2>2, FullPrefix DEF TypeOK
  <2>4. provider' = [primary |-> chain[1], fallbacks |-> Tail(chain), config |-> config]
    BY <1>9, <2>1 DEF Finish, TypeOK
  <2> QED BY <1>9, <2>3, <2>4
          DEF Finish, TypeOK, DialledInTurn, PrefixOfChain, BuiltAsConfigured
<1>10. CASE IntoRobust
  BY <1>10 DEF IntoRobust, TypeOK, DialledInTurn, PrefixOfChain, BuiltAsConfigured
<1> QED BY <1>1, <1>2, <1>3, <1>4, <1>5, <1>6, <1>7, <1>8, <1>9, <1>10 DEF Next, Work

(* The invariant holds throughout. *)
LEMMA Invariance == Spec => []IInv
<1>1. Init => IInv
  BY InitIInv
<1>2. IInv /\ [Next]_vars => IInv'
  BY NextIInv
<1> QED BY <1>1, <1>2, PTL DEF Spec

(* Type correctness of a builder. *)
THEOREM BuilderIsTyped == Spec => []TypeOK
<1>1. IInv => TypeOK
  BY DEF IInv
<1> QED BY <1>1, Invariance, PTL

(* No endpoint is dialled before build(), out of turn, or after a refusal. *)
THEOREM BuilderDialsInTurn == Spec => []DialledInTurn
<1>1. IInv => DialledInTurn
  BY DEF IInv
<1> QED BY <1>1, Invariance, PTL

(* The provider built is the one configured. *)
THEOREM BuilderBuildsAsConfigured == Spec => []BuiltAsConfigured
<1>1. IInv => BuiltAsConfigured
  BY DEF IInv
<1> QED BY <1>1, Invariance, PTL

=============================================================================
