-------------------------- MODULE HttpPollingProofs --------------------------
(***************************************************************************)
(* Proofs about HttpPolling, for every capacity and number of blocks.      *)
(***************************************************************************)
EXTENDS HttpPolling, TLAPS

\* Moving the first element of one sequence to the end of the one before it
\* leaves their concatenation as it is.
LEMMA MoveHead ==
    ASSUME NEW s \in Seq(Hashes), NEW t \in Seq(Hashes), t # <<>>
    PROVE  /\ Append(s, Head(t)) \o Tail(t) = s \o t
           /\ Append(s, Head(t)) \in Seq(Hashes) /\ Tail(t) \in Seq(Hashes)
           /\ Len(Append(s, Head(t))) = Len(s) + 1
<1>1. t = <<Head(t)>> \o Tail(t) /\ Tail(t) \in Seq(Hashes) /\ Head(t) \in Hashes
  OBVIOUS
<1>2. Append(s, Head(t)) = s \o <<Head(t)>>
  BY <1>1
<1>3. (s \o <<Head(t)>>) \o Tail(t) = s \o (<<Head(t)>> \o Tail(t))
  BY <1>1
<1> QED BY <1>1, <1>2, <1>3

\* The same behind a third sequence.
LEMMA MoveHeadBehind ==
    ASSUME NEW r \in Seq(Hashes), NEW s \in Seq(Hashes), NEW t \in Seq(Hashes),
           t # <<>>
    PROVE  (r \o Append(s, Head(t))) \o Tail(t) = (r \o s) \o t
<1>1. Append(s, Head(t)) \in Seq(Hashes) /\ Tail(t) \in Seq(Hashes)
  BY MoveHead
<1>2. Append(s, Head(t)) \o Tail(t) = s \o t
  BY MoveHead
<1>3. (r \o Append(s, Head(t))) \o Tail(t) = r \o (Append(s, Head(t)) \o Tail(t))
  <2> DEFINE a == Append(s, Head(t))
             b == Tail(t)
  <2>1. a \in Seq(Hashes) /\ b \in Seq(Hashes)
    BY <1>1
  <2> HIDE DEF a, b
  <2>2. (r \o a) \o b = r \o (a \o b)
    BY <2>1
  <2> QED BY <2>2 DEF a, b
<1>4. (r \o s) \o t = r \o (s \o t)
  OBVIOUS
<1> QED BY <1>2, <1>3, <1>4

\* The inductive invariant: the properties of the run "polling", joined by
\* OneBatchAtATime, without which a poll could overwrite hashes not yet sent.
IInv == TypeOK /\ OneBatchAtATime /\ NothingLostInChannel

\* An idle task over an empty channel satisfies the invariant.
LEMMA InitIInv == Init => IInv
<1> SUFFICES ASSUME Init PROVE IInv
  OBVIOUS
<1>1. TypeOK
  BY HttpPollingAssumption DEF Init, TypeOK
<1>2. OneBatchAtATime
  BY DEF Init, OneBatchAtATime
<1>3. NothingLostInChannel
  BY DEF Init, NothingLostInChannel
<1> QED BY <1>1, <1>2, <1>3 DEF IInv

\* Every step preserves the invariant.
LEMMA NextIInv == IInv /\ [Next]_vars => IInv'
<1> USE HttpPollingAssumption
<1> SUFFICES ASSUME IInv, [Next]_vars PROVE IInv'
  OBVIOUS
<1>0. TypeOK /\ OneBatchAtATime /\ NothingLostInChannel
  BY DEF IInv
<1>1. CASE Mine
  <2>1. mined + 1 \in Hashes /\ mined' \in 0..MaxBlocks
    BY <1>0, <1>1 DEF Mine, TypeOK, Hashes
  <2>2. fresh' \in Seq(Hashes)
    BY <1>0, <1>1, <2>1 DEF Mine, TypeOK
  <2> QED BY <1>0, <1>1, <2>1, <2>2 DEF Mine, TypeOK, IInv, OneBatchAtATime,
             NothingLostInChannel
<1>2. CASE PollLost
  BY <1>0, <1>2 DEF PollLost, TypeOK, IInv, OneBatchAtATime, NothingLostInChannel
<1>3. CASE Poll
  <2>1. TypeOK'
    BY <1>0, <1>3 DEF Poll, TypeOK
  <2>2. OneBatchAtATime'
    BY <1>3 DEF Poll, OneBatchAtATime
  <2>3. ASSUME receiver = "held" PROVE (delivered \o queue) \o fresh = reported \o fresh
    <3>1. batch = <<>> /\ (delivered \o queue) \o batch = reported
      BY <1>0, <1>3, <2>3 DEF Poll, OneBatchAtATime, NothingLostInChannel
    <3>2. delivered \o queue \in Seq(Hashes)
      BY <1>0 DEF TypeOK
    <3>3. delivered \o queue = reported
      BY <3>1, <3>2
    <3> QED BY <3>3
  <2> QED BY <1>3, <2>1, <2>2, <2>3 DEF Poll, IInv, NothingLostInChannel
<1>4. CASE StreamEnds
  BY <1>0, <1>4 DEF StreamEnds, TypeOK, IInv, OneBatchAtATime, NothingLostInChannel
<1>5. CASE Send
  <2>1. /\ Append(queue, Head(batch)) \o Tail(batch) = queue \o batch
        /\ queue' \in Seq(Hashes) /\ batch' \in Seq(Hashes)
        /\ Len(queue') = Len(queue) + 1
    <3>1. queue \in Seq(Hashes) /\ batch \in Seq(Hashes) /\ batch # <<>>
      BY <1>0, <1>5 DEF Send, TypeOK
    <3>2. /\ Append(queue, Head(batch)) \o Tail(batch) = queue \o batch
          /\ Append(queue, Head(batch)) \in Seq(Hashes) /\ Tail(batch) \in Seq(Hashes)
          /\ Len(Append(queue, Head(batch))) = Len(queue) + 1
      BY <3>1, MoveHead
    <3> QED BY <1>5, <3>2 DEF Send
  <2>2. Len(queue') <= Capacity
    BY <1>0, <1>5, <2>1 DEF Send, TypeOK
  <2>3. TypeOK'
    BY <1>0, <1>5, <2>1, <2>2 DEF Send, TypeOK
  <2>4. (delivered \o queue') \o batch' = (delivered \o queue) \o batch
    <3>1. /\ delivered \in Seq(Hashes) /\ queue \in Seq(Hashes)
          /\ batch \in Seq(Hashes) /\ batch # <<>>
      BY <1>0, <1>5 DEF TypeOK, Send
    <3>2. (delivered \o Append(queue, Head(batch))) \o Tail(batch)
             = (delivered \o queue) \o batch
      BY <3>1, MoveHeadBehind
    <3> QED BY <1>5, <3>2 DEF Send
  <2> QED BY <1>0, <1>5, <2>3, <2>4 DEF Send, IInv, OneBatchAtATime, NothingLostInChannel
<1>6. CASE SendFails
  BY <1>0, <1>6 DEF SendFails, TypeOK, IInv, OneBatchAtATime, NothingLostInChannel
<1>7. CASE BatchSent
  BY <1>0, <1>7 DEF BatchSent, TypeOK, IInv, OneBatchAtATime, NothingLostInChannel
<1>8. CASE Recv
  <2>0. delivered \in Seq(Hashes) /\ queue \in Seq(Hashes) /\ queue # <<>>
    BY <1>0, <1>8 DEF Recv, TypeOK
  <2>1. /\ Append(delivered, Head(queue)) \o Tail(queue) = delivered \o queue
        /\ Append(delivered, Head(queue)) \in Seq(Hashes) /\ Tail(queue) \in Seq(Hashes)
    BY <2>0, MoveHead
  <2>2. Len(Tail(queue)) <= Len(queue)
    BY <2>0
  <2>3. TypeOK'
    BY <1>0, <1>8, <2>1, <2>2 DEF Recv, TypeOK
  <2> QED BY <1>0, <1>8, <2>1, <2>3 DEF Recv, IInv, OneBatchAtATime, NothingLostInChannel
<1>9. CASE DropReceiver
  BY <1>0, <1>9 DEF DropReceiver, TypeOK, IInv, OneBatchAtATime, NothingLostInChannel
<1>10. CASE UNCHANGED vars
  BY <1>0, <1>10 DEF vars, TypeOK, IInv, OneBatchAtATime, NothingLostInChannel
<1> QED
  BY <1>1, <1>2, <1>3, <1>4, <1>5, <1>6, <1>7, <1>8, <1>9, <1>10 DEF Next

\* The invariant holds throughout.
THEOREM Invariance == Spec => []IInv
BY InitIInv, NextIInv, PTL DEF Spec

\* Type correctness: the channel never holds more than its capacity.
THEOREM PollingIsTyped == Spec => []TypeOK
BY Invariance, PTL DEF IInv

\* Whatever the capacity and the pace of the consumer, the channel and the task
\* lose, duplicate and reorder nothing while the receiver is held.
THEOREM PollingLosesNothing == Spec => []NothingLostInChannel
BY Invariance, PTL DEF IInv

\* The node is not polled while hashes wait for room in the channel.
THEOREM PollingIsBackPressured == Spec => []OneBatchAtATime
BY Invariance, PTL DEF IInv

-----------------------------------------------------------------------------
(* Order, from the node to the subscription.                               *)

Ascending(s) == \A i, j \in 1..Len(s) : i < j => s[i] < s[j]

\* Numbers that were reported are below those that will be, all of them ascend,
\* and what was delivered is where reporting began, also when the receiver is
\* gone and reporting goes on.
Order ==
    /\ Ascending(reported) /\ Ascending(fresh)
    /\ \A i \in 1..Len(fresh) : fresh[i] <= mined
    /\ \A i \in 1..Len(reported) : reported[i] <= mined
    /\ \A i \in 1..Len(reported), j \in 1..Len(fresh) : reported[i] < fresh[j]
    /\ Len(delivered) <= Len(reported)
    /\ \A i \in 1..Len(delivered) : delivered[i] = reported[i]

\* Two ascending sequences, one below the other, make one.
LEMMA AscendingConcat ==
    ASSUME NEW s \in Seq(Hashes), NEW t \in Seq(Hashes), Ascending(s), Ascending(t),
           \A i \in 1..Len(s), j \in 1..Len(t) : s[i] < t[j]
    PROVE  Ascending(s \o t)
<1> DEFINE u == s \o t
<1>1. /\ Len(u) = Len(s) + Len(t)
      /\ \A i \in 1..Len(s) : u[i] = s[i]
      /\ \A i \in (Len(s) + 1)..Len(u) : u[i] = t[i - Len(s)]
  OBVIOUS
<1> SUFFICES ASSUME NEW i \in 1..Len(u), NEW j \in 1..Len(u), i < j PROVE u[i] < u[j]
  BY DEF Ascending
<1>2. Len(s) \in Nat /\ Len(t) \in Nat
  OBVIOUS
<1> HIDE DEF u
<1>3. CASE j <= Len(s)
  <2>1. u[i] = s[i] /\ u[j] = s[j] /\ i \in 1..Len(s) /\ j \in 1..Len(s)
    BY <1>1, <1>2, <1>3
  <2> QED BY <2>1 DEF Ascending
<1>4. CASE i > Len(s)
  <2>1. /\ u[i] = t[i - Len(s)] /\ u[j] = t[j - Len(s)]
        /\ i - Len(s) \in 1..Len(t) /\ j - Len(s) \in 1..Len(t)
    BY <1>1, <1>2, <1>4
  <2> QED BY <1>2, <2>1 DEF Ascending
<1>5. CASE i <= Len(s) /\ j > Len(s)
  <2>1. /\ u[i] = s[i] /\ u[j] = t[j - Len(s)]
        /\ i \in 1..Len(s) /\ j - Len(s) \in 1..Len(t)
    BY <1>1, <1>2, <1>5
  <2> QED BY <2>1
<1> QED BY <1>2, <1>3, <1>4, <1>5

\* A concatenation begins with its first part.
LEMMA ConcatBeginsWith ==
    ASSUME NEW s \in Seq(Hashes), NEW t \in Seq(Hashes)
    PROVE  /\ s \o t \in Seq(Hashes) /\ Len(s \o t) = Len(s) + Len(t)
           /\ Len(s) <= Len(s \o t)
           /\ \A i \in 1..Len(s) : i \in 1..Len(s \o t) /\ (s \o t)[i] = s[i]
<1>1. s \o t \in Seq(Hashes) /\ Len(s \o t) = Len(s) + Len(t)
  OBVIOUS
<1>2. Len(s) \in Nat /\ Len(t) \in Nat
  OBVIOUS
<1>3. \A i \in 1..Len(s) : (s \o t)[i] = s[i]
  OBVIOUS
<1> QED BY <1>1, <1>2, <1>3

\* So does a concatenation of three.
LEMMA ConcatBegins ==
    ASSUME NEW r \in Seq(Hashes), NEW s \in Seq(Hashes), NEW t \in Seq(Hashes),
           NEW u \in Seq(Hashes), (r \o s) \o t = u
    PROVE  Len(r) <= Len(u) /\ \A i \in 1..Len(r) : r[i] = u[i]
<1> DEFINE v == r \o s
<1>1. /\ v \in Seq(Hashes) /\ Len(r) <= Len(v) /\ Len(v) \in Nat /\ Len(r) \in Nat
      /\ \A i \in 1..Len(r) : i \in 1..Len(v) /\ v[i] = r[i]
  BY ConcatBeginsWith
<1> HIDE DEF v
<1>2. /\ Len(v) <= Len(v \o t) /\ Len(v \o t) \in Nat
      /\ \A i \in 1..Len(v) : (v \o t)[i] = v[i]
  BY <1>1, ConcatBeginsWith
<1>3. v \o t = u
  BY DEF v
<1> QED BY <1>1, <1>2, <1>3

\* Every step keeps the order.
LEMMA NextOrder == IInv /\ IInv' /\ Order /\ [Next]_vars => Order'
<1> SUFFICES ASSUME IInv, IInv', Order, [Next]_vars PROVE Order'
  OBVIOUS
<1>0. TypeOK /\ NothingLostInChannel /\ TypeOK' /\ NothingLostInChannel'
  BY DEF IInv
<1>n. mined \in Nat
  BY <1>0, HttpPollingAssumption DEF TypeOK
<1> USE DEF Order
<1>1. CASE Mine
  <2>1. /\ UNCHANGED <<reported, delivered>> /\ mined' = mined + 1
        /\ fresh \in Seq(Hashes) /\ fresh' = Append(fresh, mined + 1)
    BY <1>0, <1>1 DEF Mine, TypeOK
  <2>2. /\ Len(fresh') = Len(fresh) + 1 /\ fresh'[Len(fresh) + 1] = mined + 1
        /\ \A i \in 1..Len(fresh) : fresh'[i] = fresh[i]
    BY <2>1
  <2>3. /\ \A i \in 1..Len(fresh) : fresh[i] \in Nat /\ fresh[i] < mined + 1
        /\ \A i \in 1..Len(reported) : reported[i] \in Nat /\ reported[i] < mined + 1
    <3>1. /\ \A i \in 1..Len(fresh) : fresh[i] \in Hashes
          /\ \A i \in 1..Len(reported) : reported[i] \in Hashes
      BY <1>0 DEF TypeOK
    <3>2. Hashes \subseteq Nat
      BY DEF Hashes
    <3>3. /\ \A i \in 1..Len(fresh) : fresh[i] \in Nat /\ fresh[i] <= mined
          /\ \A i \in 1..Len(reported) : reported[i] \in Nat /\ reported[i] <= mined
      BY <3>1, <3>2
    <3>4. \A h \in Nat : h <= mined => h < mined + 1
      BY <1>n
    <3> HIDE DEF Order
    <3> QED BY <3>3, <3>4
  <2>4. Ascending(fresh')
    <3> SUFFICES ASSUME NEW i \in 1..Len(fresh'), NEW j \in 1..Len(fresh'), i < j
                 PROVE  fresh'[i] < fresh'[j]
      BY DEF Ascending
    <3>1. i \in 1..Len(fresh) /\ Len(fresh) \in Nat
      BY <2>1, <2>2
    <3>2. CASE j = Len(fresh) + 1
      BY <2>2, <2>3, <3>1, <3>2
    <3>3. CASE j \in 1..Len(fresh)
      BY <2>2, <3>1, <3>3 DEF Ascending
    <3> QED BY <2>2, <3>1, <3>2, <3>3
  <2>5. \A i \in 1..Len(fresh') : fresh'[i] <= mined'
    BY <1>n, <2>1, <2>2, <2>3
  <2>6. \A i \in 1..Len(reported) : reported[i] <= mined'
    BY <1>n, <2>1, <2>3
  <2>7. \A i \in 1..Len(reported), j \in 1..Len(fresh') : reported[i] < fresh'[j]
    BY <1>n, <2>1, <2>2, <2>3
  <2> QED BY <2>1, <2>4, <2>5, <2>6, <2>7
<1>2. CASE PollLost
  BY <1>2 DEF PollLost, Ascending
<1>3. CASE Poll
  <2>1. /\ reported \in Seq(Hashes) /\ fresh \in Seq(Hashes) /\ delivered \in Seq(Hashes)
        /\ reported' = reported \o fresh /\ fresh' = <<>> /\ UNCHANGED <<mined, delivered>>
    BY <1>0, <1>3 DEF Poll, TypeOK
  <2>2. Ascending(reported')
    BY <2>1, AscendingConcat
  <2>3. /\ Len(reported') = Len(reported) + Len(fresh)
        /\ \A i \in 1..Len(reported) : reported'[i] = reported[i]
        /\ \A i \in (Len(reported) + 1)..Len(reported') :
              reported'[i] = fresh[i - Len(reported)]
    BY <2>1
  <2>4. \A i \in 1..Len(reported') : reported'[i] <= mined'
    <3> TAKE i \in 1..Len(reported')
    <3>1. CASE i <= Len(reported)
      BY <2>1, <2>3, <3>1
    <3>2. CASE i > Len(reported)
      <4>1. i - Len(reported) \in 1..Len(fresh) /\ reported'[i] = fresh[i - Len(reported)]
        BY <2>1, <2>3, <3>2
      <4> QED BY <2>1, <4>1
    <3> QED BY <2>1, <3>1, <3>2
  <2>5. Ascending(fresh') /\ Len(fresh') = 0
    BY <2>1 DEF Ascending
  <2>6. Len(delivered') <= Len(reported')
        /\ \A i \in 1..Len(delivered') : delivered'[i] = reported'[i]
    BY <2>1, <2>3
  <2> QED BY <2>2, <2>4, <2>5, <2>6
<1>4. CASE Recv
  <2>1. UNCHANGED <<reported, fresh, mined, receiver>> /\ receiver = "held"
    BY <1>4 DEF Recv
  <2>2. (delivered' \o queue') \o batch' = reported'
    BY <1>0, <2>1 DEF NothingLostInChannel
  <2>3. /\ Len(delivered') <= Len(reported')
        /\ \A i \in 1..Len(delivered') : delivered'[i] = reported'[i]
    <3>1. /\ delivered' \in Seq(Hashes) /\ queue' \in Seq(Hashes)
          /\ batch' \in Seq(Hashes) /\ reported' \in Seq(Hashes)
      BY <1>0 DEF TypeOK
    <3> QED BY <2>2, <3>1, ConcatBegins
  <2> QED BY <2>1, <2>3 DEF Ascending
<1>5. CASE StreamEnds \/ Send \/ SendFails \/ BatchSent \/ DropReceiver \/ UNCHANGED vars
  BY <1>5 DEF StreamEnds, Send, SendFails, BatchSent, DropReceiver, vars
<1> QED BY <1>1, <1>2, <1>3, <1>4, <1>5 DEF Next

\* No block's hash is received twice or after that of a later block, whatever
\* polls get lost, with any capacity and any number of blocks.
THEOREM PollingDeliversInOrder == Spec => []DeliveredInOrder
<1>1. Init => Order
  BY DEF Init, Order, Ascending
<1>2. IInv /\ Order => DeliveredInOrder
  <2> SUFFICES ASSUME IInv, Order, NEW i \in 1..Len(delivered), NEW j \in 1..Len(delivered),
                      i < j
               PROVE  delivered[i] < delivered[j]
    BY DEF DeliveredInOrder
  <2>1. Len(delivered) \in Nat /\ Len(reported) \in Nat /\ Len(delivered) <= Len(reported)
    BY DEF Order, IInv, TypeOK
  <2>2. i \in 1..Len(reported) /\ j \in 1..Len(reported)
    BY <2>1
  <2>3. reported[i] < reported[j]
    BY <2>2 DEF Order, Ascending
  <2> QED BY <2>3 DEF Order
<1>3. Spec => []Order
  BY <1>1, NextOrder, Invariance, PTL DEF Spec
<1> QED BY <1>2, <1>3, Invariance, PTL

-----------------------------------------------------------------------------
(* The poller provides the channel that RobustSubscription assumes.        *)

\* Every step is one of the channel, or leaves it as it is.
LEMMA NextProvidesChannel == IInv /\ [Next]_vars => [Channel!Next]_(Channel!vars)
<1> SUFFICES ASSUME IInv, [Next]_vars PROVE [Channel!Next]_(Channel!vars)
  OBVIOUS
<1> USE DEF Channel!Next, Channel!vars
<1>0. queue \in Seq(Hashes) /\ batch \in Seq(Hashes)
  BY DEF IInv, TypeOK
<1>1. CASE Mine \/ PollLost \/ UNCHANGED vars
  BY <1>1 DEF Mine, PollLost, vars
<1>2. CASE Poll \/ SendFails \/ BatchSent
  BY <1>2 DEF Poll, SendFails, BatchSent
<1>3. CASE StreamEnds
  BY <1>3 DEF StreamEnds, Channel!Close
<1>4. CASE Send
  <2>1. Len(queue') = Len(queue) + 1
    BY <1>0, <1>4 DEF Send
  <2>2. /\ Len(queue) < Capacity /\ task = "sending" /\ task' = "sending"
        /\ receiver' = receiver
    BY <1>4 DEF Send
  <2> QED BY <2>1, <2>2 DEF Channel!Arrive
<1>5. CASE Recv
  <2>1. Len(queue') = Len(queue) - 1 /\ Len(queue) > 0
    BY <1>0, <1>5 DEF Recv
  <2>2. task' = task /\ receiver' = receiver
    BY <1>5 DEF Recv
  <2> QED BY <2>1, <2>2 DEF Channel!Take
<1>6. CASE DropReceiver
  BY <1>6 DEF DropReceiver, Channel!Replace
<1> QED BY <1>1, <1>2, <1>3, <1>4, <1>5, <1>6 DEF Next

\* A poller is a BackendChannel that is bounded and never lags, with any
\* capacity.
THEOREM PollingProvidesChannel == Spec => ProvidesChannel
<1>1. Init => Channel!Init
  BY DEF Init, Channel!Init
<1> QED BY <1>1, Invariance, NextProvidesChannel, PTL
        DEF Spec, ProvidesChannel, Channel!Spec

=============================================================================
