---------------------- MODULE SubscriptionStreamProofs ----------------------
(***************************************************************************)
(* Proofs about SubscriptionStream and the BlockFeed it composes, for any  *)
(* number of fallbacks and blocks, any capacity, timeouts and interval, any*)
(* mix of HTTP and WebSocket providers, and recv() and next() dropped      *)
(* anywhere.  The control of recv() keeps the inductive invariant of       *)
(* RobustSubscriptionProofs; this module adds what the channel, the block  *)
(* in hand and the last block handed out have to do with each other.       *)
(***************************************************************************)
EXTENDS SubscriptionStream, RobustSubscriptionProofs

(* Block b was announced, and before all those of q.                       *)
Before(b, q, top) == b <= top /\ \A i \in 1..Len(q) : b < q[i]

(* Every block after b, up to top, is in q or among those gone.            *)
Covered(b, q, top, gone) ==
    \A c \in Nat : b < c /\ c <= top => c \in gone \/ \E i \in 1..Len(q) : q[i] = c

(* The blocks of q ascend, and go on to top without a gap but for those    *)
(* gone.                                                                   *)
Rises(q, top, gone) ==
    /\ \A i \in 1..Len(q) : 0 < q[i] /\ q[i] <= top
    /\ \A i, j \in 1..Len(q) : i < j => q[i] < q[j]
    /\ \A i \in 1..Len(q) : Covered(q[i], q, top, gone)

(* The channel holds blocks in the order they were announced in, and only  *)
(* a poll skips some.                                                      *)
Queued ==
    /\ Rises(queue, announced, skipped)
    /\ backend \notin HttpProviders => skipped = {}

(* Where recv() holds a block, and that what was announced after it is in  *)
(* the channel or was skipped, unless the channel has overwritten some.    *)
Holding ==
    /\ pc \in {"fetching", "periodic"} => item # 0
    /\ pc \in {"unopened", "opening", "idle", "waiting"} => item = 0
    /\ pc \in {"unopened", "opening"} => pending = 0
    /\ item # 0 =>
          /\ Before(item, queue, announced)
          /\ lag \/ Covered(item, queue, announced, skipped)
    /\ cause = "Closed" => closed /\ item = 0

(* What is in hand, or else was handed out last, comes before what is in   *)
(* the channel, and whatever lies between was skipped, unless the channel  *)
(* lags or the consumer knows of a gap.                                    *)
Succession ==
    LET seen == IF item # 0 THEN item ELSE got IN
    /\ since # "moved" =>
          /\ Before(seen, queue, announced)
          /\ item # 0 => item > got
    /\ since = "nothing" =>
          /\ lag \/ Covered(seen, queue, announced, skipped)
          /\ item # 0 => (got + 1)..(item - 1) \subseteq skipped

FeedInv == IInv /\ FeedTypeOK /\ Queued /\ Holding /\ Succession

(* Blocks are numbers, and whatever precedes a block is a block. *)
LEMMA BlocksAreNumbers ==
    /\ Blocks \subseteq Nat /\ 0 \in Blocks
    /\ \A b \in Blocks, n \in Nat : n <= b => n \in Blocks
    /\ \A p \in Providers, n \in Nat : n <= MaxHeight[p] => n \in Blocks
<1>1. \A p \in Providers : MaxHeight[p] \in Nat
  BY BlockFeedAssumption DEF Providers
<1>2. 0 \in Providers
  BY RobustSubscriptionAssumption DEF Providers
<1> QED BY <1>1, <1>2 DEF Blocks

(* What a queue holds are blocks, hence numbers.                           *)
LEMMA QueuedAreNumbers ==
    ASSUME NEW s \in Seq(Blocks)
    PROVE  \A i \in 1..Len(s) : s[i] \in Blocks /\ s[i] \in Nat
<1>1. \A i \in 1..Len(s) : s[i] \in Blocks
  OBVIOUS
<1> QED BY <1>1, BlocksAreNumbers

(* What an announcement does to what is queued and to what it covers.      *)
LEMMA RunGrows ==
    ASSUME NEW s \in Seq(Blocks), NEW n \in Nat, n + 1 \in Blocks, NEW gone,
           Rises(s, n, gone), NEW t, t = Append(s, n + 1)
    PROVE  /\ t \in Seq(Blocks) /\ Len(t) = Len(s) + 1
           /\ Rises(t, n + 1, gone)
           /\ \A b \in Nat : Before(b, s, n) => Before(b, t, n + 1)
           /\ \A b \in Nat : Covered(b, s, n, gone) => Covered(b, t, n + 1, gone)
<1>1. /\ t \in Seq(Blocks) /\ Len(t) = Len(s) + 1
      /\ \A i \in 1..Len(s) : t[i] = s[i]
      /\ t[Len(s) + 1] = n + 1
      /\ \A i \in 1..Len(t) : i \in 1..Len(s) \/ i = Len(s) + 1
  OBVIOUS
<1>2. \A i \in 1..Len(s) : s[i] \in Nat
  BY QueuedAreNumbers
<1>3. ASSUME NEW b \in Nat, Before(b, s, n) PROVE Before(b, t, n + 1)
  BY <1>1, <1>2, <1>3 DEF Before
<1>4. ASSUME NEW b \in Nat, Covered(b, s, n, gone) PROVE Covered(b, t, n + 1, gone)
  <2>1. SUFFICES ASSUME NEW c \in Nat, b < c, c <= n + 1
                 PROVE  c \in gone \/ \E i \in 1..Len(t) : t[i] = c
    BY DEF Covered
  <2>2. CASE c = n + 1
    BY <1>1, <2>2
  <2>3. CASE c <= n
    <3>1. c \in gone \/ \E i \in 1..Len(s) : s[i] = c
      BY <1>4, <2>1, <2>3 DEF Covered
    <3>2. \A i \in 1..Len(s) : i \in 1..Len(t) /\ t[i] = s[i]
      BY <1>1
    <3> QED BY <3>1, <3>2
  <2> QED BY <2>1, <2>2, <2>3
<1>5. Rises(t, n + 1, gone)
  <2>1. \A i \in 1..Len(t) : 0 < t[i] /\ t[i] <= n + 1
    BY <1>1, <1>2 DEF Rises
  <2>2. ASSUME NEW i \in 1..Len(t), NEW j \in 1..Len(t), i < j PROVE t[i] < t[j]
    <3>1. i \in 1..Len(s)
      BY <1>1, <2>2
    <3>2. CASE j \in 1..Len(s)
      BY <1>1, <2>2, <3>1, <3>2 DEF Rises
    <3>3. CASE j = Len(s) + 1
      BY <1>1, <1>2, <3>1, <3>3 DEF Rises
    <3> QED BY <1>1, <3>2, <3>3
  <2>3. ASSUME NEW i \in 1..Len(t) PROVE Covered(t[i], t, n + 1, gone)
    <3>1. CASE i \in 1..Len(s)
      BY <1>1, <1>2, <1>4, <3>1 DEF Rises
    <3>2. CASE i = Len(s) + 1
      BY <1>1, <3>2 DEF Covered
    <3> QED BY <1>1, <3>1, <3>2
  <2> QED BY <2>1, <2>2, <2>3 DEF Rises
<1> QED BY <1>1, <1>3, <1>4, <1>5

(* What the oldest block leaves behind, when it is taken or overwritten.   *)
LEMMA RunShrinks ==
    ASSUME NEW s \in Seq(Blocks), s # <<>>, NEW n \in Nat, NEW gone, Rises(s, n, gone)
    PROVE  /\ Tail(s) \in Seq(Blocks) /\ Len(Tail(s)) = Len(s) - 1
           /\ Head(s) \in Blocks \ {0}
           /\ Before(Head(s), Tail(s), n) /\ Covered(Head(s), Tail(s), n, gone)
           /\ Rises(Tail(s), n, gone)
           /\ \A b \in Nat : Before(b, s, n) => b < Head(s) /\ Before(b, Tail(s), n)
<1>1. /\ Tail(s) \in Seq(Blocks) /\ Len(Tail(s)) = Len(s) - 1
      /\ \A i \in 1..Len(Tail(s)) : i + 1 \in 1..Len(s) /\ Tail(s)[i] = s[i + 1]
      /\ \A i \in 1..Len(s) : i # 1 => i - 1 \in 1..Len(Tail(s)) /\ Tail(s)[i - 1] = s[i]
      /\ Head(s) = s[1] /\ 1 \in 1..Len(s)
  OBVIOUS
<1>2. \A i \in 1..Len(s) : s[i] \in Blocks /\ s[i] \in Nat
  BY QueuedAreNumbers
<1>3. Head(s) \in Blocks \ {0} /\ Before(Head(s), Tail(s), n)
  BY <1>1, <1>2 DEF Rises, Before
<1>4. ASSUME NEW k \in 1..Len(s) PROVE Covered(s[k], Tail(s), n, gone)
  <2>1. SUFFICES ASSUME NEW c \in Nat, s[k] < c, c <= n
                 PROVE  c \in gone \/ \E i \in 1..Len(Tail(s)) : Tail(s)[i] = c
    BY DEF Covered
  <2>2. c \in gone \/ \E i \in 1..Len(s) : s[i] = c
    BY <2>1 DEF Rises, Covered
  <2>3. ASSUME NEW i \in 1..Len(s), s[i] = c
        PROVE  \E m \in 1..Len(Tail(s)) : Tail(s)[m] = c
    <3>1. i # 1
      BY <1>1, <1>2, <2>1, <2>3 DEF Rises
    <3>2. i - 1 \in 1..Len(Tail(s)) /\ Tail(s)[i - 1] = c
      BY <1>1, <2>3, <3>1
    <3> QED BY <3>2
  <2> QED BY <2>2, <2>3
<1>5. Rises(Tail(s), n, gone)
  <2>1. \A i \in 1..Len(Tail(s)) : 0 < Tail(s)[i] /\ Tail(s)[i] <= n
    BY <1>1 DEF Rises
  <2>2. \A i, j \in 1..Len(Tail(s)) : i < j => Tail(s)[i] < Tail(s)[j]
    BY <1>1 DEF Rises
  <2>3. \A i \in 1..Len(Tail(s)) : Covered(Tail(s)[i], Tail(s), n, gone)
    BY <1>1, <1>4
  <2> QED BY <2>1, <2>2, <2>3 DEF Rises
<1>6. \A b \in Nat : Before(b, s, n) => b < Head(s) /\ Before(b, Tail(s), n)
  BY <1>1, <1>2 DEF Before
<1> QED BY <1>1, <1>3, <1>4, <1>5, <1>6

(* What lies between a block and the oldest one queued is gone.            *)
LEMMA GapIsGone ==
    ASSUME NEW s \in Seq(Blocks), s # <<>>, NEW n \in Nat, NEW gone, Rises(s, n, gone),
           NEW b \in Nat, Covered(b, s, n, gone)
    PROVE  (b + 1)..(Head(s) - 1) \subseteq gone
<1>1. Head(s) = s[1] /\ 1 \in 1..Len(s)
  OBVIOUS
<1>2. \A i \in 1..Len(s) : s[i] \in Nat
  BY QueuedAreNumbers
<1>3. \A i \in 1..Len(s) : i # 1 => s[1] < s[i]
  BY <1>1 DEF Rises
<1>4. Head(s) \in Nat /\ Head(s) <= n
  BY <1>1, <1>2 DEF Rises
<1>5. ASSUME NEW c \in (b + 1)..(Head(s) - 1) PROVE c \in gone
  <2>1. c \in Nat /\ b < c /\ c <= n /\ c < Head(s)
    BY <1>4
  <2>2. c \in gone \/ \E i \in 1..Len(s) : s[i] = c
    BY <2>1 DEF Covered
  <2>3. ASSUME NEW i \in 1..Len(s), s[i] = c PROVE FALSE
    BY <1>1, <1>2, <1>3, <2>1, <2>3
  <2> QED BY <2>2, <2>3
<1> QED BY <1>5

(* What a lost poll does: the next block is among those gone.              *)
LEMMA RunSkips ==
    ASSUME NEW s \in Seq(Blocks), NEW n \in Nat, NEW gone, Rises(s, n, gone)
    PROVE  /\ Rises(s, n + 1, gone \cup {n + 1})
           /\ \A b \in Nat : Before(b, s, n) => Before(b, s, n + 1)
           /\ \A b \in Nat :
                 Covered(b, s, n, gone) => Covered(b, s, n + 1, gone \cup {n + 1})
<1>1. \A i \in 1..Len(s) : s[i] \in Nat
  BY QueuedAreNumbers
<1>2. \A b \in Nat : Before(b, s, n) => Before(b, s, n + 1)
  BY DEF Before
<1>3. ASSUME NEW b \in Nat, Covered(b, s, n, gone)
      PROVE  Covered(b, s, n + 1, gone \cup {n + 1})
  <2>1. \A c \in Nat : c <= n + 1 => c <= n \/ c = n + 1
    OBVIOUS
  <2> QED BY <1>3, <2>1 DEF Covered
<1>4. Rises(s, n + 1, gone \cup {n + 1})
  <2>1. \A i \in 1..Len(s) : 0 < s[i] /\ s[i] <= n + 1
    BY <1>1 DEF Rises
  <2>2. \A i \in 1..Len(s) : Covered(s[i], s, n + 1, gone \cup {n + 1})
    BY <1>1, <1>3 DEF Rises
  <2> QED BY <2>1, <2>2 DEF Rises
<1> QED BY <1>2, <1>3, <1>4

(* What comes before a block comes before whatever that block precedes.    *)
LEMMA EarlierIsBefore ==
    ASSUME NEW s \in Seq(Blocks), NEW n \in Nat, NEW a \in Nat, NEW b \in Nat,
           a <= b, Before(b, s, n)
    PROVE  Before(a, s, n)
<1>1. \A i \in 1..Len(s) : s[i] \in Nat
  BY QueuedAreNumbers
<1> QED BY <1>1 DEF Before

(* Nothing is announced, taken or returned before subscribe_blocks. *)
LEMMA InitFeedInv == FeedInit => FeedInv
<1> SUFFICES ASSUME FeedInit PROVE FeedInv
  OBVIOUS
<1>1. IInv
  BY InitIInv DEF FeedInit
<1>2. FeedTypeOK
  BY BlocksAreNumbers, RobustSubscriptionAssumption DEF FeedInit, FeedTypeOK, Init, Providers
<1>3. Queued /\ Holding /\ Succession
  BY DEF FeedInit, Init, Queued, Rises, Holding, Succession
<1> QED BY <1>1, <1>2, <1>3 DEF FeedInv

(* A provider took over: its channel is empty. *)
LEMMA JoinKeeps ==
    ASSUME FeedInv, IInv', NEW p \in Providers, Join(p), got' \in {got, item},
           pending' = 0, pc' \in {"idle", "waiting"}, cause' = "None"
    PROVE  FeedInv'
<1> USE DEF FeedInv, Join
<1>1. head[p] \in Blocks /\ head[p] \in Nat
  BY BlocksAreNumbers DEF FeedTypeOK
<1>2. FeedTypeOK'
  BY BlocksAreNumbers, <1>1 DEF FeedTypeOK
<1>3. Queued' /\ Holding' /\ Succession'
  BY <1>1 DEF Queued, Rises, Holding, Succession
<1> QED BY <1>2, <1>3

(* recv() goes on, or goes on to fail, with the same channel. *)
LEMMA StumbleKeeps ==
    ASSUME FeedInv, IInv', Stumble, UNCHANGED <<channel, backend>>,
           pc' \in {"idle", "forced", "searching"}, cause' = "Closed" => closed /\ item = 0
    PROVE  FeedInv'
<1> USE DEF FeedInv, Stumble, channel, Because
<1>1. /\ got \in Nat /\ item \in Nat /\ announced \in Nat /\ queue \in Seq(Blocks)
      /\ 0 \in Blocks /\ 0 \in Providers
  BY BlocksAreNumbers, RobustSubscriptionAssumption DEF FeedTypeOK, Providers
<1>2. FeedTypeOK'
  BY <1>1 DEF FeedTypeOK
<1>3. Queued' /\ Holding'
  BY DEF Queued, Holding
<1>4. since # "moved" => Before(got, queue, announced)
  BY <1>1, EarlierIsBefore DEF Succession
<1>5. Succession'
  BY <1>1, <1>4 DEF Succession, Holding, FeedTypeOK
<1> QED BY <1>2, <1>3, <1>5

(* recv() has a block, the last one that left the channel, and hands it out*)
(* or asks the primary first.                                              *)
LEMMA HandOutKeeps ==
    ASSUME FeedInv, IInv', NEW block \in Blocks \ {0}, HandOut(block),
           queue' \in Seq(Blocks), Len(queue') = pending', pending' \in Nat,
           Rises(queue', announced, skipped), Before(block, queue', announced),
           lag \/ Covered(block, queue', announced, skipped),
           UNCHANGED <<lag, closed, backend>>, cause' = "None", asked' \in Providers,
           pc' \in {"idle", "fetching", "periodic"},
           since # "moved" => block > got,
           since = "nothing" => (got + 1)..(block - 1) \subseteq skipped
    PROVE  FeedInv'
<1> USE DEF FeedInv, HandOut
<1>1. /\ got \in Nat /\ item \in Nat /\ announced \in Nat
      /\ block \in Nat /\ 0 \in Blocks
  BY BlocksAreNumbers, RobustSubscriptionAssumption DEF FeedTypeOK, IInv, TypeOK
<1>2. FeedTypeOK'
  BY <1>1 DEF FeedTypeOK
<1>3. Queued'
  BY <1>1 DEF Queued
<1>4. Holding'
  BY <1>1 DEF Holding
<1>5. Succession'
  BY <1>1 DEF Succession
<1> QED BY <1>2, <1>3, <1>4, <1>5

(* Nothing moves but the control: the feed and the channel stay, and where *)
(* a block is held does not change.                                        *)
LEMMA FeedStaysPut ==
    ASSUME FeedInv, IInv', UNCHANGED feed, UNCHANGED <<pending, lag>>,
           pc' = pc \/ (pc = "unopened" /\ pc' = "opening") \/
              (pc = "opening" /\ pc' = "unopened") \/ (pc = "idle" /\ pc' = "waiting"),
           UNCHANGED backend, cause' \in {cause, "None"}, closed => closed'
    PROVE  FeedInv'
<1> USE DEF FeedInv, feed
<1>1. FeedTypeOK' /\ Queued'
  BY DEF FeedTypeOK, Queued
<1>2. Holding' /\ Succession'
  BY DEF Holding, Succession
<1> QED BY <1>1, <1>2

(* Every step of a subscription keeps the invariant. *)
LEMMA NextFeedInv == FeedInv /\ [FeedNext]_feedVars => FeedInv'
<1> SUFFICES ASSUME FeedInv, [FeedNext]_feedVars PROVE FeedInv'
  OBVIOUS
<1>0. IInv /\ FeedTypeOK /\ Queued /\ Holding /\ Succession
  BY DEF FeedInv
<1>t. TypeOK /\ RecvShape
  BY <1>0 DEF IInv
<1>n. /\ got \in Nat /\ item \in Nat /\ announced \in Nat /\ pending \in Nat
      /\ queue \in Seq(Blocks) /\ 0 \in Blocks /\ 0 \in Providers
  BY <1>0, <1>t, BlocksAreNumbers, RobustSubscriptionAssumption
     DEF FeedTypeOK, TypeOK, Providers
<1>h. announced < head[backend] => announced + 1 \in Blocks
  <2>1. head[backend] \in Blocks /\ head[backend] \in Nat
    BY <1>0, <1>t, BlocksAreNumbers DEF FeedTypeOK, TypeOK
  <2>2. announced < head[backend] => announced + 1 \in Nat /\ announced + 1 <= head[backend]
    BY <1>n, <2>1
  <2> QED BY <2>1, <2>2, BlocksAreNumbers
<1>i. IInv'
  <2>1. [Next]_vars
    BY DEF FeedNext, FeedEnvironment, FeedHandle, Next, Environment, Handle, feedVars, Mine,
       Announce, PollLost, FeedOpens, TakeBlock, TellLagged, FetchElsewhere, FetchAnswered, FetchMisses,
       FeedStumbles, FetchStumbles, FeedReturns, FeedStays, FeedMoves, FeedCancel
  <2> QED BY <1>0, <2>1, NextIInv
<1>1. CASE \E p \in Emitters : Mine(p)
  <2>1. PICK p \in Emitters : Mine(p)
    BY <1>1
  <2>2. p \in Providers
    BY BlockFeedAssumption DEF Providers
  <2>3. head' \in [Providers -> Blocks]
    <3>1. head[p] \in Nat /\ MaxHeight[p] \in Nat
      BY <1>0, <2>2, BlocksAreNumbers, BlockFeedAssumption DEF FeedTypeOK, Providers
    <3>2. head[p] + 1 \in Blocks
      BY <2>1, <2>2, <3>1, BlocksAreNumbers DEF Mine
    <3> QED BY <1>0, <2>1, <3>2 DEF Mine, FeedTypeOK
  <2>4. UNCHANGED <<vars, queue, announced, item, asked, skipped, got, since>>
    BY <2>1 DEF Mine
  <2>5. FeedTypeOK' /\ Queued'
    BY <1>0, <2>3, <2>4 DEF FeedTypeOK, Queued, vars, channel, subscription
  <2>6. Holding' /\ Succession'
    BY <1>0, <2>4 DEF Holding, Succession, vars, channel, control
  <2> QED BY <1>i, <2>5, <2>6 DEF FeedInv
<1>2. CASE Announce
  <2> DEFINE rest == IF pending = Capacity THEN Tail(queue) ELSE queue
  <2>1. UNCHANGED <<control, subscription, closed, head, item, asked, skipped, got, since>>
    BY <1>2 DEF Announce, Arrive
  <2>2. announced' = announced + 1 /\ announced + 1 \in Blocks
    BY <1>2, <1>h DEF Announce
  <2>3. /\ rest \in Seq(Blocks) /\ Len(rest) + 1 = pending'
        /\ Rises(rest, announced, skipped)
        /\ \A b \in Nat : Before(b, queue, announced) => Before(b, rest, announced)
        /\ lag' \/ (~lag /\ rest = queue)
    <3>1. CASE pending = Capacity
      <4>1. queue # <<>> /\ pending' = pending /\ lag' = TRUE
        BY <1>0, <1>2, <3>1, RobustSubscriptionAssumption DEF Announce, Arrive, FeedTypeOK
      <4> QED BY <1>0, <1>n, <3>1, <4>1, RunShrinks DEF FeedTypeOK, Queued
    <3>2. CASE pending # Capacity
      <4>1. pending' = pending + 1 /\ lag' = lag
        BY <1>2, <3>2 DEF Announce, Arrive
      <4> QED BY <1>0, <1>n, <1>t, <3>2, <4>1 DEF FeedTypeOK, Queued, TypeOK
    <3> QED BY <3>1, <3>2
  <2>4. queue' = Append(rest, announced + 1)
    BY <1>2, <2>2 DEF Announce
  <2> HIDE DEF rest
  <2>5. /\ queue' \in Seq(Blocks) /\ Len(queue') = pending'
        /\ Rises(queue', announced', skipped)
        /\ \A b \in Nat : Before(b, queue, announced) => Before(b, queue', announced')
        /\ \A b \in Nat : Covered(b, rest, announced, skipped) =>
                             Covered(b, queue', announced', skipped)
    BY <1>n, <2>2, <2>3, <2>4, RunGrows
  <2>6. \A b \in Nat : lag \/ Covered(b, queue, announced, skipped) =>
                          lag' \/ Covered(b, queue', announced', skipped)
    BY <2>3, <2>5
  <2>7. FeedTypeOK' /\ Queued'
    BY <1>0, <2>1, <2>2, <2>5 DEF FeedTypeOK, Queued, subscription
  <2>8. pc \notin {"unopened", "opening"}
    BY <1>2 DEF Announce, Arrive, IsOpen
  <2>9. Holding'
    BY <1>0, <1>n, <2>1, <2>5, <2>6, <2>8 DEF Holding, control
  <2>10. Succession'
    BY <1>0, <1>n, <2>1, <2>5, <2>6 DEF Succession
  <2> QED BY <1>i, <2>7, <2>9, <2>10 DEF FeedInv
<1>18. CASE PollLost
  <2>1. /\ UNCHANGED <<vars, head, queue, item, asked, got, since>>
        /\ backend \in HttpProviders
    BY <1>18 DEF PollLost
  <2>2. /\ announced' = announced + 1 /\ announced + 1 \in Blocks
        /\ skipped' = skipped \cup {announced + 1}
    BY <1>18, <1>h DEF PollLost
  <2>3. queue \in Seq(Blocks) /\ Rises(queue, announced, skipped)
    BY <1>0 DEF FeedTypeOK, Queued
  <2>4. /\ Rises(queue, announced', skipped')
        /\ \A b \in Nat : Before(b, queue, announced) => Before(b, queue, announced')
        /\ \A b \in Nat : Covered(b, queue, announced, skipped) =>
                             Covered(b, queue, announced', skipped')
    BY <1>n, <2>2, <2>3, RunSkips
  <2>5. FeedTypeOK' /\ Queued'
    BY <1>0, <2>1, <2>2, <2>4 DEF FeedTypeOK, Queued, vars, channel, subscription
  <2>6. Holding'
    BY <1>0, <1>n, <2>1, <2>4 DEF Holding, vars, channel, control
  <2>7. Succession'
    BY <1>0, <1>n, <2>1, <2>2, <2>4 DEF Succession, vars, channel
  <2> QED BY <1>i, <2>5, <2>6, <2>7 DEF FeedInv
<1>3. CASE (NodeChanges \/ ChannelCloses) /\ UNCHANGED feed
  BY <1>3, <1>i, FeedStaysPut DEF NodeChanges, ChannelCloses, control, channel, subscription
<1>4. CASE (Tick \/ Subscribe \/ Recv) /\ UNCHANGED feed
  BY <1>4, <1>i, FeedStaysPut DEF Tick, Subscribe, Recv, Await, channel, subscription
<1>5. CASE OpenFails /\ UNCHANGED feed
  BY <1>5, <1>i, FeedStaysPut DEF OpenFails, channel, subscription
<1>6. CASE FeedOpens
  <2>1. next \in Providers /\ pending' = 0 /\ pc' = "idle" /\ cause' = "None"
    BY <1>0, <1>6, <1>t DEF FeedOpens, OpenSucceeds, TypeOK, Holding, RecvShape, channel
  <2> QED BY <1>6, <1>i, <2>1, JoinKeeps DEF FeedOpens
<1>7. CASE TakeBlock
  <2>1. queue # <<>> /\ queue \in Seq(Blocks) /\ Len(queue) = pending
    BY <1>0, <1>7, <1>n DEF TakeBlock, ReceiveBlock, FeedTypeOK
  <2>2. /\ queue' = Tail(queue) /\ pending' = pending - 1 /\ ~lag /\ asked' = 0
        /\ UNCHANGED <<lag, closed, backend>> /\ HandOut(Head(queue))
        /\ pc = "waiting"
    BY <1>7 DEF TakeBlock, ReceiveBlock, HandOut, subscription
  <2>3. /\ Tail(queue) \in Seq(Blocks) /\ Len(Tail(queue)) = pending - 1
        /\ Head(queue) \in Blocks \ {0} /\ Before(Head(queue), Tail(queue), announced)
        /\ Covered(Head(queue), Tail(queue), announced, skipped)
        /\ Rises(Tail(queue), announced, skipped)
        /\ \A b \in Nat : Before(b, queue, announced) => b < Head(queue)
    BY <1>0, <1>n, <2>1, RunShrinks DEF Queued
  <2>4. pc' \in {"idle", "fetching", "periodic"} /\ cause' = "None"
    BY <1>7, <1>t DEF TakeBlock, ReceiveBlock, Delivered, Return, RecvShape
  <2>5. /\ since # "moved" => got < Head(queue)
        /\ since = "nothing" => Covered(got, queue, announced, skipped)
    BY <1>0, <1>n, <2>2, <2>3 DEF Holding, Succession
  <2>6. since = "nothing" => (got + 1)..(Head(queue) - 1) \subseteq skipped
    BY <1>0, <1>n, <2>1, <2>5, GapIsGone DEF Queued
  <2>7. pending' \in Nat
    BY <2>1, <2>2, <2>3
  <2> QED BY <1>i, <1>n, <2>2, <2>3, <2>4, <2>5, <2>6, <2>7, HandOutKeeps
<1>8. CASE TellLagged
  <2> USE <1>8 DEF TellLagged, ReceiveLagged, Because, Return, subscription
  <2>1. FeedTypeOK' /\ Queued'
    BY <1>0 DEF FeedTypeOK, Queued
  <2>2. item = 0
    BY <1>0 DEF Holding
  <2>3. Holding'
    BY <1>0, <2>2 DEF Holding
  <2>4. Succession'
    BY <1>0, <1>n, <2>2 DEF Succession, FeedTypeOK
  <2> QED BY <1>i, <2>1, <2>3, <2>4 DEF FeedInv
<1>9. CASE FetchElsewhere
  <2> USE <1>9 DEF FetchElsewhere
  <2>1. asked' \in Providers
    BY <1>0, RobustSubscriptionAssumption DEF FeedTypeOK, Providers
  <2>2. FeedTypeOK' /\ Queued'
    BY <1>0, <2>1 DEF FeedTypeOK, Queued, vars, channel, subscription
  <2>3. Holding' /\ Succession'
    BY <1>0 DEF Holding, Succession, vars, channel, control
  <2> QED BY <1>i, <2>2, <2>3 DEF FeedInv
<1>10. CASE FetchAnswered
  <2>1. /\ HandOut(item) /\ pc = "fetching" /\ pc' \in {"idle", "periodic"} /\ cause' = "None"
        /\ UNCHANGED <<queue, announced, pending, lag, closed, backend>>
    BY <1>10, <1>t DEF FetchAnswered, FetchBlock, Delivered, Return, RecvShape,
       HandOut, channel, subscription
  <2>2. /\ item \in Blocks \ {0} /\ asked' \in Providers
        /\ Before(item, queue, announced)
        /\ lag \/ Covered(item, queue, announced, skipped)
        /\ since # "moved" => item > got
        /\ since = "nothing" => (got + 1)..(item - 1) \subseteq skipped
    BY <1>0, <1>10, <2>1, RobustSubscriptionAssumption
       DEF Holding, Succession, FeedTypeOK, FetchAnswered, Providers
  <2>3. queue \in Seq(Blocks) /\ Len(queue) = pending /\ Rises(queue, announced, skipped)
    BY <1>0 DEF FeedTypeOK, Queued
  <2> QED BY <1>i, <1>n, <2>1, <2>2, <2>3, HandOutKeeps
<1>11. CASE FeedStays
  <2>1. /\ HandOut(item) /\ pc = "periodic" /\ pc' = "idle" /\ cause' = "None"
        /\ UNCHANGED <<queue, announced, asked, pending, lag, closed, backend>>
    BY <1>11 DEF FeedStays, PeriodicFails, Return, HandOut, channel, subscription
  <2>2. /\ item \in Blocks \ {0} /\ asked' \in Providers
        /\ Before(item, queue, announced)
        /\ lag \/ Covered(item, queue, announced, skipped)
        /\ since # "moved" => item > got
        /\ since = "nothing" => (got + 1)..(item - 1) \subseteq skipped
    BY <1>0, <2>1 DEF Holding, Succession, FeedTypeOK
  <2>3. queue \in Seq(Blocks) /\ Len(queue) = pending /\ Rises(queue, announced, skipped)
    BY <1>0 DEF FeedTypeOK, Queued
  <2> QED BY <1>i, <1>n, <2>1, <2>2, <2>3, HandOutKeeps
<1>12. CASE FetchMisses
  <2>1. /\ Stumble /\ UNCHANGED <<channel, backend>>
        /\ pc' = "idle" /\ cause' = "None"
    BY <1>12 DEF FetchMisses, FetchNotFound, Return, Stumble, subscription
  <2> QED BY <1>i, <2>1, StumbleKeeps
<1>13. CASE FeedStumbles
  <2>1. Stumble
    BY <1>13 DEF FeedStumbles, FetchStumbles
  <2>2. CASE ReceiveTimeout \/ ReceiveClosed \/ FetchFails
    <3>1. PICK e \in {"Timeout", "Closed", "RpcError"} :
            /\ Switch(e) /\ UNCHANGED <<channel, backend>>
            /\ e = "Closed" => closed /\ item = 0
      BY <1>0, <2>2 DEF Holding, ReceiveTimeout, ReceiveClosed, FetchFails
    <3> QED BY <1>i, <2>1, <3>1, StumbleKeeps DEF Switch, AskFallback, Return
  <2>3. CASE ForcedFails
    BY <1>0, <1>i, <2>1, <2>3, StumbleKeeps DEF ForcedFails, AskFallback, Return, Holding
  <2>4. CASE SearchFails
    BY <1>0, <1>i, <2>1, <2>4, StumbleKeeps
       DEF SearchFails, AskFallback, Return, Holding, subscription
  <2> QED BY <1>13, <2>2, <2>3, <2>4 DEF FeedStumbles, FetchStumbles
<1>14. CASE FeedReturns
  <2>1. /\ Join(0) /\ got' \in {got, item} /\ pending' = 0
        /\ pc' \in {"idle", "waiting"} /\ cause' = "None"
    BY <1>14 DEF FeedReturns, ReconnectSucceeds, Connect, Return, Await
  <2> QED BY <1>i, <1>n, <2>1, JoinKeeps
<1>15. CASE FeedMoves
  <2>1. /\ next \in Providers /\ Join(next) /\ got' \in {got, item} /\ pending' = 0
        /\ pc' \in {"idle", "waiting"} /\ cause' = "None"
    BY <1>15, <1>t DEF FeedMoves, SearchSucceeds, Connect, Await, TypeOK
  <2> QED BY <1>i, <2>1, JoinKeeps
<1>16. CASE FeedCancel
  <2> USE <1>16 DEF FeedCancel, Cancel, Because, channel, subscription
  <2>1. FeedTypeOK' /\ Queued'
    BY <1>0, <1>n DEF FeedTypeOK, Queued
  <2>2. Holding'
    BY <1>0 DEF Holding
  <2>3. since # "moved" => Before(got, queue, announced)
    BY <1>0, <1>n, EarlierIsBefore DEF Succession
  <2>4. Succession'
    BY <1>0, <1>n, <2>3 DEF Succession, FeedTypeOK
  <2> QED BY <1>i, <2>1, <2>2, <2>4 DEF FeedInv
<1>17. CASE UNCHANGED feedVars
  BY <1>17, <1>i, FeedStaysPut DEF feedVars, vars, control, channel, subscription
<1> QED
  BY <1>1, <1>2, <1>3, <1>4, <1>5, <1>6, <1>7, <1>8, <1>9, <1>10, <1>11, <1>12,
     <1>13, <1>14, <1>15, <1>16, <1>17, <1>18 DEF FeedNext, FeedEnvironment, FeedHandle

-----------------------------------------------------------------------------
(* The stream: next() is awaited only while a recv() is in progress, and a *)
(* suspended recv() ages, which the control's invariant does not notice.   *)

StreamInv ==
    /\ FeedInv
    /\ consumer \in {"recv", "stream"} /\ attended \in BOOLEAN
    /\ attended => consumer = "stream" /\ pc # "idle"

(* A suspended recv() that is overdue keeps the invariant. *)
LEMMA SuspensionKeeps == FeedInv /\ TickSuspended => FeedInv'
<1> SUFFICES ASSUME FeedInv, TickSuspended PROVE FeedInv'
  OBVIOUS
<1> USE DEF TickSuspended
<1>1. TypeOK /\ IndexNamesBackend /\ ClockArmedOnFallback /\ RecvShape
  BY DEF FeedInv, IInv
<1>2. /\ UNCHANGED <<pc, next, cause, timer, result, backend, index, serving, refused>>
      /\ UNCHANGED channel /\ UNCHANGED feed
  BY DEF control
<1>3. /\ last' \in Ages \cup {NoAttempt} /\ tried' \in Ages
      /\ last # NoAttempt <=> last' # NoAttempt
  <2>1. last' = Older(last) /\ tried' = Older(tried)
    OBVIOUS
  <2> HIDE DEF TickSuspended
  <2> QED BY <1>1, <2>1, OlderAges DEF TypeOK
<1> HIDE DEF TickSuspended
<1>5. TypeOK'
  BY <1>1, <1>2, <1>3 DEF TypeOK, channel
<1>6. IndexNamesBackend' /\ ClockArmedOnFallback'
  BY <1>1, <1>2, <1>3 DEF IndexNamesBackend, ClockArmedOnFallback, IsOnFallback
<1>7. RecvShape'
  BY <1>1, <1>2, <1>3 DEF RecvShape, Deadline, IsOnFallback
<1> QED BY <1>2, <1>5, <1>6, <1>7, FeedStaysPut DEF IInv, channel

(* A step of the stream is one of the subscription, or a suspended recv()  *)
(* ages.                                                                   *)
LEMMA StreamStepsFeed == [StreamNext]_streamVars => [FeedNext]_feedVars \/ TickSuspended
BY DEF StreamNext, streamVars, FeedNext, IntoStream, AwaitNext, DropNext, Proceed, Direct

(* Every step of the stream keeps the invariant. *)
LEMMA NextStreamInv == StreamInv /\ [StreamNext]_streamVars => StreamInv'
<1> SUFFICES ASSUME StreamInv, [StreamNext]_streamVars PROVE StreamInv'
  OBVIOUS
<1> USE DEF StreamInv
<1>1. FeedInv'
  BY StreamStepsFeed, NextFeedInv, SuspensionKeeps
<1>2. CASE FeedEnvironment /\ UNCHANGED <<consumer, attended>>
  <2>1. UNCHANGED control
    BY <1>2 DEF FeedEnvironment, Mine, Announce, PollLost, Arrive, NodeChanges,
       ChannelCloses, vars
  <2> QED BY <1>1, <1>2, <2>1 DEF control
<1>3. CASE Tick /\ UNCHANGED <<feed, consumer, attended>>
  BY <1>1, <1>3 DEF Tick
<1>4. CASE TickSuspended
  BY <1>1, <1>4 DEF TickSuspended, control
<1>8. CASE IntoStream
  <2>1. attended' = attended /\ consumer' = "stream" /\ ~attended
    BY <1>8 DEF IntoStream
  <2> QED BY <1>1, <2>1
<1>9. CASE DropNext
  <2>1. attended' = FALSE /\ consumer' = consumer
    BY <1>9 DEF DropNext
  <2> QED BY <1>1, <2>1
<1>10. CASE UNCHANGED streamVars
  BY <1>1, <1>10 DEF streamVars, feedVars, vars, control
<1>5. CASE AwaitNext
  BY <1>1, <1>5 DEF AwaitNext, Recv, Await, feedVars, vars, control
<1>6. CASE Proceed
  <2>1. attended' = (attended /\ pc' # "idle") /\ consumer' = consumer
    BY <1>6 DEF Proceed
  <2>2. attended' \in BOOLEAN /\ (attended' => consumer' = "stream" /\ pc' # "idle")
    BY <2>1
  <2> QED BY <1>1, <2>1, <2>2
<1>7. CASE Direct
  BY <1>1, <1>7 DEF Direct
<1> QED BY <1>2, <1>3, <1>4, <1>5, <1>6, <1>7, <1>8, <1>9, <1>10 DEF StreamNext

(* The inductive invariant holds throughout. *)
THEOREM StreamInvariance == StreamSpec => []StreamInv
<1>1. StreamInit => StreamInv
  BY InitFeedInv DEF StreamInit, StreamInv
<1> QED BY <1>1, NextStreamInv, PTL DEF StreamSpec

(* Type correctness of a stream, its feed and the subscription under it. *)
THEOREM StreamIsTyped == StreamSpec => []StreamTypeOK
<1>1. StreamInv => StreamTypeOK
  BY DEF StreamInv, FeedInv, IInv, StreamTypeOK
<1> QED BY <1>1, StreamInvariance, PTL

-----------------------------------------------------------------------------
(* Action properties, from the same invariant.                             *)

(* A block is handed out when it arrives, when it has been fetched, or     *)
(* after a periodic attempt, and by no other step.                         *)
LEMMA HandingOut ==
    ASSUME IInv, [Next]_vars, HandsOut
    PROVE  ReceiveBlock \/ pc \in {"fetching", "periodic"}
<1> USE DEF HandsOut
<1>0. TypeOK /\ RecvShape
  BY DEF IInv
<1>1. CASE ReceiveBlock \/ FetchBlock \/ PeriodicFails
  BY <1>1 DEF FetchBlock, PeriodicFails
<1>2. CASE ReconnectSucceeds
  BY <1>2 DEF ReconnectSucceeds, Await
<1>3. CASE OpenSucceeds \/ OpenFails
  BY <1>0, <1>3 DEF OpenSucceeds, OpenFails, RecvShape, Resting
<1>4. CASE ReceiveLagged \/ FetchNotFound
  BY <1>4 DEF ReceiveLagged, FetchNotFound, Return
<1>5. CASE ReceiveTimeout \/ ReceiveClosed \/ FetchFails
  BY <1>5 DEF ReceiveTimeout, ReceiveClosed, FetchFails, Switch, AskFallback, Return
<1>6. CASE ForcedFails \/ SearchFails
  BY <1>0, <1>6 DEF ForcedFails, SearchFails, AskFallback, Return, RecvShape, SwitchErrors
<1>7. CASE SearchSucceeds
  BY <1>7 DEF SearchSucceeds, Await
<1>8. CASE NodeChanges \/ Arrive \/ ChannelCloses \/ UNCHANGED vars
  BY <1>8 DEF NodeChanges, Arrive, ChannelCloses, vars, control
<1>9. CASE Tick \/ Subscribe \/ Recv \/ Cancel
  BY <1>9 DEF Tick, Subscribe, Recv, Await, Cancel
<1> QED BY <1>1, <1>2, <1>3, <1>4, <1>5, <1>6, <1>7, <1>8, <1>9 DEF Next, Environment, Handle

(* A step of the feed is one of RobustSubscription. *)
LEMMA FeedStepsRecv == [FeedNext]_feedVars => [Next]_vars
BY DEF FeedNext, FeedEnvironment, FeedHandle, Next, Environment, Handle, feedVars, Mine,
   Announce, PollLost, FeedOpens, TakeBlock, TellLagged, FetchElsewhere, FetchAnswered, FetchMisses,
   FeedStumbles, FetchStumbles, FeedReturns, FeedStays, FeedMoves, FeedCancel

(* On one connection the blocks ascend, and a gap is one of lost polls or  *)
(* follows a loss the consumer knows of: for any mix of WebSocket and HTTP *)
(* providers, and polls lost anywhere.                                     *)
THEOREM StreamIsInSequence == StreamSpec => InSequence
<1>1. ASSUME StreamInv, [StreamNext]_streamVars, HandsOut
      PROVE  LET block == IF item = 0 THEN Head(queue) ELSE item IN
             /\ since # "moved" => block > got
             /\ since = "nothing" => (got + 1)..(block - 1) \subseteq skipped
             /\ since = "nothing" /\ backend \notin HttpProviders => block = got + 1
  <2> DEFINE block == IF item = 0 THEN Head(queue) ELSE item
  <2>0. IInv /\ FeedTypeOK /\ Queued /\ Holding /\ Succession
    BY <1>1 DEF StreamInv, FeedInv
  <2>1. [Next]_vars
    BY <1>1, StreamStepsFeed, FeedStepsRecv DEF TickSuspended, control, HandsOut
  <2>2. got \in Nat /\ item \in Nat /\ announced \in Nat /\ queue \in Seq(Blocks)
    BY <2>0, BlocksAreNumbers DEF FeedTypeOK
  <2>3. /\ block \in Nat
        /\ since # "moved" => block > got
        /\ since = "nothing" => (got + 1)..(block - 1) \subseteq skipped
    <3>1. CASE item # 0
      BY <2>0, <2>2, <3>1 DEF Succession
    <3>2. CASE item = 0
      <4>1. ReceiveBlock
        BY <1>1, <2>0, <2>1, <3>2, HandingOut DEF Holding
      <4>2. queue # <<>> /\ ~lag
        BY <2>0, <2>2, <4>1 DEF ReceiveBlock, FeedTypeOK
      <4>3. /\ Head(queue) \in Nat
            /\ \A b \in Nat : Before(b, queue, announced) => b < Head(queue)
        BY <2>0, <2>2, <4>2, RunShrinks, BlocksAreNumbers DEF Queued
      <4>4. /\ since # "moved" => Before(got, queue, announced)
            /\ since = "nothing" => Covered(got, queue, announced, skipped)
        BY <2>0, <3>2, <4>2 DEF Succession
      <4>5. since = "nothing" => (got + 1)..(Head(queue) - 1) \subseteq skipped
        BY <2>0, <2>2, <4>2, <4>4, GapIsGone DEF Queued
      <4> QED BY <2>2, <3>2, <4>3, <4>4, <4>5
    <3> QED BY <3>1, <3>2
  <2> HIDE DEF block
  <2>4. ASSUME since = "nothing", backend \notin HttpProviders PROVE block = got + 1
    <3>1. (got + 1)..(block - 1) = {} /\ block > got
      BY <2>0, <2>3, <2>4 DEF Queued
    <3> QED BY <2>2, <2>3, <3>1
  <2> QED BY <2>3, <2>4 DEF block
<1> QED BY <1>1, StreamInvariance, PTL DEF StreamSpec, InSequence

(* The stream drops no block unnoticed: what recv() holds is yielded, or an*)
(* error is, or the provider changes.                                      *)
THEOREM StreamDropsNoBlock == StreamSpec => StreamKeepsBlock
<1>1. ASSUME StreamInv, [StreamNext]_streamVars, consumer = "stream", item # 0, item' = 0
      PROVE  \/ Yields(result') = "Some(Ok)" /\ got' = item
             \/ Yields(result') # "None" /\ pc' = "idle" /\ result' # "None"
             \/ since' = "moved"
  <2>0. IInv /\ TypeOK /\ RecvShape /\ Holding
    BY <1>1 DEF StreamInv, FeedInv, IInv
  <2>1. FeedHandle
    <3>1. ~Direct /\ ~IntoStream
      BY <1>1 DEF Direct, IntoStream
    <3>2. item' = item \/ FeedHandle
      BY <1>1, <3>1 DEF StreamNext, FeedEnvironment, Mine, Announce, PollLost,
         TickSuspended, AwaitNext, DropNext, Proceed, streamVars, feedVars, feed
    <3> QED BY <1>1, <3>2
  <2>2. CASE FeedOpens \/ FeedReturns \/ FeedMoves
    BY <2>2 DEF FeedOpens, FeedReturns, FeedMoves, Join
  <2>3. CASE TakeBlock \/ (OpenFails /\ UNCHANGED feed)
    BY <1>1, <2>0, <2>3 DEF TakeBlock, ReceiveBlock, Holding, feed
  <2>4. CASE TellLagged \/ FetchElsewhere
    BY <1>1, <2>4 DEF TellLagged, FetchElsewhere
  <2>5. CASE FetchAnswered \/ FeedStays
    <3>1. got' = item /\ pc' = "idle"
      BY <1>1, <2>5 DEF FetchAnswered, FeedStays, HandOut
    <3>2. result' = "Block"
      BY <2>5, <3>1 DEF FetchAnswered, FeedStays, FetchBlock, PeriodicFails, Delivered, Return
    <3> QED BY <3>1, <3>2 DEF Yields
  <2>6. CASE FetchMisses
    BY <2>6 DEF FetchMisses, FetchNotFound, Return, Yields
  <2>7. CASE FeedStumbles
    <3>1. pc' = "idle"
      BY <1>1, <2>7 DEF FeedStumbles, FetchStumbles, Stumble
    <3>2. result' \in {"Timeout", "RpcError"}
      <4>1. CASE ReceiveTimeout \/ ReceiveClosed
        BY <1>1, <2>0, <4>1 DEF ReceiveTimeout, ReceiveClosed, Holding
      <4>2. CASE FetchFails
        BY <3>1, <4>2 DEF FetchFails, Switch, AskFallback, Return
      <4>3. CASE ForcedFails \/ SearchFails
        <5>1. cause \in {"Timeout", "RpcError"}
          BY <1>1, <2>0, <4>3
             DEF ForcedFails, SearchFails, RecvShape, Holding, SwitchErrors
        <5> QED BY <3>1, <4>3, <5>1 DEF ForcedFails, SearchFails, AskFallback, Return
      <4> QED BY <2>7, <4>1, <4>2, <4>3 DEF FeedStumbles, FetchStumbles
    <3> QED BY <3>1, <3>2 DEF Yields
  <2> QED BY <2>1, <2>2, <2>3, <2>4, <2>5, <2>6, <2>7 DEF FeedHandle
<1> QED BY <1>1, StreamInvariance, PTL DEF StreamSpec, StreamKeepsBlock

(* The stream ends only when its channel is gone and nobody took over. *)
THEOREM StreamEndsForCause == StreamSpec => EndsOnlyWhenClosed
<1>1. ASSUME StreamInv, [StreamNext]_streamVars, attended, ~attended', pc' = "idle",
             Yields(result') = "None"
      PROVE  closed' /\ (index + 1)..NumFallbacks \subseteq refused'
  <2>0. IInv /\ TypeOK /\ RecvShape /\ Holding /\ pc # "idle"
    BY <1>1 DEF StreamInv, FeedInv, IInv
  <2>1. FeedHandle /\ result' = "Closed"
    <3>1. ~Direct /\ ~IntoStream /\ ~AwaitNext
      BY <1>1 DEF Direct, IntoStream, AwaitNext, StreamInv
    <3>2. ~DropNext
      BY <1>1, <2>0 DEF DropNext, feedVars, vars, control
    <3>3. FeedHandle
      BY <1>1, <3>1, <3>2 DEF StreamNext, Proceed, TickSuspended, streamVars
    <3>4. result' = "Closed"
      BY <1>1 DEF Yields
    <3> QED BY <3>3, <3>4
  <2>2. ReceiveClosed \/ ForcedFails \/ SearchFails
    <3>1. [Next]_vars
      BY <2>1, FeedStepsRecv DEF FeedNext
    <3>2. ~FetchElsewhere
      BY <1>1, <2>0 DEF FetchElsewhere, vars, control
    <3>3. ~FeedOpens /\ ~OpenFails
      BY <1>1, <2>0, <2>1 DEF FeedOpens, OpenSucceeds, OpenFails, RecvShape, Resting
    <3>4. ~TakeBlock /\ ~FetchAnswered /\ ~FeedStays /\ ~FeedReturns
      BY <1>1, <2>0, <2>1 DEF TakeBlock, FetchAnswered, FeedStays, FeedReturns, ReceiveBlock,
         FetchBlock, PeriodicFails, ReconnectSucceeds, Delivered, Return, Await
    <3>5. ~TellLagged /\ ~FetchMisses /\ ~FeedMoves
      BY <1>1, <2>1 DEF TellLagged, FetchMisses, FeedMoves, ReceiveLagged, FetchNotFound,
         SearchSucceeds, Return, Await
    <3>6. ~ReceiveTimeout /\ ~FetchStumbles
      BY <1>1, <2>1 DEF ReceiveTimeout, FetchStumbles, FetchFails, Switch, AskFallback, Return
    <3> QED BY <2>1, <3>2, <3>3, <3>4, <3>5, <3>6 DEF FeedHandle, FeedStumbles
  <2>3. index \in Nat /\ NumFallbacks \in Nat /\ next \in Nat
    BY <2>0, RobustSubscriptionAssumption DEF TypeOK, Providers
  <2>4. CASE ReceiveClosed
    BY <1>1, <2>0, <2>3, <2>4 DEF ReceiveClosed, Switch, AskFallback, Return, channel
  <2>5. CASE ForcedFails
    <3>1. index + 1 > NumFallbacks /\ cause = "Closed"
      BY <1>1, <2>1, <2>3, <2>5 DEF ForcedFails, AskFallback, Return
    <3>2. closed'
      BY <2>0, <2>5, <3>1 DEF ForcedFails, Holding, channel
    <3> QED BY <2>3, <3>1, <3>2
  <2>6. CASE SearchFails
    <3>1. next + 1 > NumFallbacks /\ cause = "Closed" /\ refused' = refused \cup {next}
      BY <1>1, <2>1, <2>3, <2>6 DEF SearchFails, AskFallback, Return
    <3>2. closed'
      BY <2>0, <2>6, <3>1 DEF SearchFails, Holding, channel
    <3>3. (index + 1)..(next - 1) \subseteq refused /\ next <= NumFallbacks
      BY <2>0, <2>6 DEF SearchFails, RecvShape
    <3> QED BY <2>3, <3>1, <3>2, <3>3
  <2> QED BY <2>2, <2>4, <2>5, <2>6
<1> QED BY <1>1, StreamInvariance, PTL DEF StreamSpec, EndsOnlyWhenClosed

-----------------------------------------------------------------------------
(* What RobustSubscription promises holds of a stream as well: a recv()    *)
(* that is suspended ages, and does nothing else.                          *)

(* A step of the stream is one of recv(), or leaves it where it is.        *)
LEMMA StreamStepsRecv ==
    [StreamNext]_streamVars =>
        \/ [Next]_vars
        \/ UNCHANGED <<control, backend, index, channel, serving, refused>>
<1>1. [FeedNext]_feedVars => [Next]_vars
  BY FeedStepsRecv
<1>2. TickSuspended => UNCHANGED <<control, backend, index, channel, serving, refused>>
  BY DEF TickSuspended
<1> QED BY <1>1, <1>2, StreamStepsFeed

(* A stream starts as a subscription does. *)
LEMMA StreamStartsRecv == StreamInit => Init
BY DEF StreamInit, FeedInit

(* The control's invariant is part of the stream's. *)
LEMMA StreamInvariantOfRecv == StreamInv => IInv
BY DEF StreamInv, FeedInv

(* The index names the backend and the clock runs on every fallback, however *)
(* long next() is not awaited.                                             *)
THEOREM StreamKeepsIndexAndClock ==
    StreamSpec => [](IndexNamesBackend /\ ClockArmedOnFallback)
<1>1. StreamInv => IndexNamesBackend /\ ClockArmedOnFallback
  BY StreamInvariantOfRecv DEF IInv
<1> QED BY <1>1, StreamInvariance, PTL

(* Failover in a stream skips no provider that has not refused.            *)
THEOREM StreamFailsOverInOrder == StreamSpec => FailoverInOrder
<1>1. StreamInv /\ [StreamNext]_streamVars =>
        ((index' # index /\ index' # 0) =>
            /\ index < index'
            /\ (index + 1)..(index' - 1) \subseteq refused
            /\ IsOnFallback => 0 \in refused)
  BY StreamInvariantOfRecv, StreamStepsRecv, NextFailsOverInOrder
<1> QED BY <1>1, StreamInvariance, PTL DEF StreamSpec, FailoverInOrder

(* The attempts of a stream to reconnect keep the interval however next()  *)
(* is awaited and dropped, and however long an attempt is suspended.       *)
THEOREM StreamKeepsInterval == StreamSpec => AttemptsKeepInterval
<1>1. StreamInit => ClockBehindAttempt
  BY StreamStartsRecv, InitClockBehindAttempt
<1>2. ASSUME StreamInv, ClockBehindAttempt, [StreamNext]_streamVars
      PROVE  ClockBehindAttempt' /\ (PeriodicAttemptBegins => tried >= ReconnectInterval)
  <2>1. CASE [Next]_vars
    BY <1>2, <2>1, StreamInvariantOfRecv, NextClockBehindAttempt, NextKeepsInterval
  <2>2. CASE TickSuspended
    <3>1. pc' = pc /\ last' = Older(last) /\ tried' = Older(tried)
      BY <2>2 DEF TickSuspended, control
    <3>2. last \in Ages \cup {NoAttempt} /\ tried \in Ages
      BY <1>2, StreamInvariantOfRecv DEF IInv, TypeOK
    <3>3. last' # NoAttempt => last \in Ages /\ last # NoAttempt
      BY <3>1, <3>2, OlderAges
    <3>4. ClockBehindAttempt'
      BY <1>2, <3>1, <3>2, <3>3, OlderMonotonic DEF ClockBehindAttempt
    <3> QED BY <3>1, <3>4 DEF PeriodicAttemptBegins
  <2> QED BY <1>2, <2>1, <2>2, StreamStepsFeed, FeedStepsRecv
<1>3. StreamSpec => []ClockBehindAttempt
  BY <1>1, <1>2, StreamInvariance, PTL DEF StreamSpec
<1> QED BY <1>2, <1>3, StreamInvariance, PTL DEF StreamSpec, AttemptsKeepInterval

(* A stream does with its backends' channels what BackendChannel describes. *)
THEOREM StreamUsesChannel == StreamSpec => UsesChannel
<1>1. StreamInit => ChannelShape /\ Channel!Init
  BY StreamStartsRecv DEF Init, ChannelShape, LagMeansFull, Channel!Init
<1>2. ASSUME StreamInv, ChannelShape, [StreamNext]_streamVars
      PROVE  ChannelShape' /\ [Channel!Next]_(Channel!vars)
  <2>1. CASE [Next]_vars
    BY <1>2, <2>1, StreamInvariantOfRecv, NextChannelShape, NextUsesChannel
  <2>2. CASE UNCHANGED <<control, backend, index, channel, serving, refused>>
    BY <1>2, <2>2 DEF control, channel, ChannelShape, LagMeansFull, IsOpen, Channel!vars
  <2> QED BY <1>2, <2>1, <2>2, StreamStepsRecv
<1> QED BY <1>1, <1>2, StreamInvariance, PTL
        DEF StreamSpec, UsesChannel, Channel!Spec

(* The future a stream owns gets on, however often next() is dropped.      *)
THEOREM StreamOnlyGetsOn == StreamSpec => RecvGetsOn
<1>1. ASSUME StreamInv, [StreamNext]_streamVars
      PROVE  pc \notin Resting /\ pc' \notin Resting /\ control' # control =>
                GetsOn \/ (pc = "forced" /\ Accepts(0) /\ index' = 0)
  <2>1. CASE [Next]_vars
    BY <1>1, <2>1, StreamInvariantOfRecv, NextGetsOn
  <2> QED BY <1>1, <2>1, StreamStepsRecv
<1> QED BY <1>1, StreamInvariance, PTL DEF StreamSpec, RecvGetsOn

(* Who is asked, in which order, and who wins is as SubscriptionFailover   *)
(* says also of a stream, with next() dropped and awaited again anywhere.  *)
THEOREM StreamKeepsPromise == StreamSpec => ImplementsPromise
<1>1. StreamInit => Promise!Init
  BY StreamStartsRecv, InitPromise
<1>2. ASSUME StreamInv, [StreamNext]_streamVars PROVE [Promise!Next]_(Promise!vars)
  <2>1. CASE [Next]_vars
    BY <1>2, <2>1, StreamInvariantOfRecv, NextPromise
  <2>2. CASE UNCHANGED <<control, backend, index, channel, serving, refused>>
    BY <2>2 DEF control, Promise!vars, Asking
  <2> QED BY <1>2, <2>1, <2>2, StreamStepsRecv
<1> QED BY <1>1, <1>2, StreamInvariance, PTL
        DEF StreamSpec, ImplementsPromise, Promise!Spec

=============================================================================
