-------------------------- MODULE KafkaTopic_proofs -------------------------
(***************************************************************************)
(* The safety of the kafkajs producer and the consumer of its topic for    *)
(* every number of sends, retries, records and stops: one true report,     *)
(* bounded double counting, and the refinement of Delivery, with at most   *)
(* one record lost for each stop.                                          *)
(***************************************************************************)
EXTENDS KafkaTopic, FiniteSetTheorems, TLAPS

\* Where the async function stands, and what the handler did.
Phase ==
  /\ reports = IF shutdown = "exited" THEN 1 ELSE 0
  /\ shutdown # "none" <=> aborted
  /\ pc \in {"loop", "send", "catch", "returned"}
  /\ pc = "loop" => latencies = 1..sent
  /\ pc = "send" => latencies = 1..(sent - 1) /\ sent \in Nat \ {0}
  /\ shutdown # "none" /\ ~signalled => pc = "returned" /\ latencies = 1..sent

\* Every latency is that of a record, the one about to be pushed too.
Logged ==
  /\ \A n \in latencies : \E o \in DOMAIN log : log[o] = n
  /\ request = "ok" => pc = "send" /\ \E o \in DOMAIN log : log[o] = sent
  /\ request = "pending" => pc = "send"

Counted == {o \in 1..MaxRecords : counts[o] > 0}
Running == cpc # "down"

\* The offsets of the consumer: what is committed was noted, what was noted
\* was read.
Offsets ==
  /\ Len(log) <= MaxRecords
  /\ committed <= Len(log) /\ kills <= stops
  /\ Running => committed <= noted /\ noted = position /\ position <= Len(log)
  /\ cpc = "count" => position >= 1

\* What is noted or committed and was never counted: one record for each
\* stop, and the one in hand, unless that was counted before a kill.
Holding == IF cpc = "count" /\ position \notin Counted THEN 1 ELSE 0
Missed ==
  /\ Cardinality((1..committed) \ Counted) <= stops + Holding
  /\ Running => Cardinality((1..noted) \ Counted) <= stops + Holding

\* Beyond the offset from which reading goes on, a record was counted once
\* for each kill at most.
Repeats ==
  \A o \in 1..MaxRecords :
    /\ counts[o] <= 1 + kills
    /\ ~Running /\ o > committed => counts[o] <= kills
    /\ Running /\ o > position => counts[o] <= kills
    /\ cpc = "count" /\ o = position => counts[o] <= kills

IndInv == TypeOK /\ Phase /\ Logged /\ Offsets /\ Missed /\ Repeats
-----------------------------------------------------------------------------
LEMMA IntervalIsFinite ==
  ASSUME NEW n \in Nat, NEW S
  PROVE  IsFiniteSet((1..n) \ S) /\ Cardinality((1..n) \ S) \in Nat
<1>1. IsFiniteSet(1..n)
  BY FS_Interval
<1> QED
  BY <1>1, FS_Subset, FS_CardinalityType

\* Fewer records, or more of them counted, and fewer are missed.
LEMMA FewerAreMissed ==
  ASSUME NEW m \in Nat, NEW n \in Nat, m <= n, NEW S, NEW T, S \subseteq T
  PROVE  Cardinality((1..m) \ T) <= Cardinality((1..n) \ S)
<1>1. (1..m) \ T \subseteq (1..n) \ S
  OBVIOUS
<1>2. IsFiniteSet((1..n) \ S)
  BY IntervalIsFinite
<1> QED
  BY <1>1, <1>2, FS_Subset

\* One element more makes a finite set larger by one at most.
LEMMA OneMoreElement ==
  ASSUME NEW S, IsFiniteSet(S), NEW x
  PROVE  /\ IsFiniteSet(S \cup {x})
         /\ Cardinality(S \cup {x}) <= Cardinality(S) + 1
<1>1. Cardinality(S) \in Nat
  BY FS_CardinalityType
<1>2. /\ IsFiniteSet(S \cup {x})
      /\ Cardinality(S \cup {x}) =
           IF x \in S THEN Cardinality(S) ELSE Cardinality(S) + 1
  BY FS_AddElement, Zenon
<1> QED
  BY <1>1, <1>2

\* One record more, and at most one more is missed.
LEMMA OneMoreIsMissed ==
  ASSUME NEW n \in Nat, NEW S
  PROVE  Cardinality((1..(n + 1)) \ S) <= Cardinality((1..n) \ S) + 1
<1>1. (1..(n + 1)) \ S \subseteq ((1..n) \ S) \cup {n + 1}
  <2> SUFFICES ASSUME NEW o \in 1..(n + 1), o \notin S
               PROVE  o \in ((1..n) \ S) \cup {n + 1}
    OBVIOUS
  <2>1. o \in 1..n \/ o = n + 1
    OBVIOUS
  <2> QED
    BY <2>1
<1>2. /\ IsFiniteSet(((1..n) \ S) \cup {n + 1})
      /\ Cardinality(((1..n) \ S) \cup {n + 1}) <= Cardinality((1..n) \ S) + 1
  <2>1. IsFiniteSet((1..n) \ S) /\ Cardinality((1..n) \ S) \in Nat
    BY IntervalIsFinite
  <2> QED
    BY <2>1, OneMoreElement
<1>3. Cardinality((1..(n + 1)) \ S) <= Cardinality(((1..n) \ S) \cup {n + 1})
  BY <1>1, <1>2, FS_Subset
<1>4. /\ Cardinality((1..(n + 1)) \ S) \in Nat
      /\ Cardinality((1..n) \ S) \in Nat
      /\ Cardinality(((1..n) \ S) \cup {n + 1}) \in Nat
  <2>1. n + 1 \in Nat
    OBVIOUS
  <2>2. Cardinality((1..(n + 1)) \ S) \in Nat /\ Cardinality((1..n) \ S) \in Nat
    BY <2>1, IntervalIsFinite
  <2>3. Cardinality(((1..n) \ S) \cup {n + 1}) \in Nat
    BY <1>2, FS_CardinalityType
  <2> QED
    BY <2>2, <2>3
<1> QED
  BY <1>2, <1>3, <1>4

\* One record more is counted, and one less is missed.
LEMMA OneLessIsMissed ==
  ASSUME NEW n \in Nat \ {0}, NEW S, n \notin S
  PROVE  Cardinality((1..n) \ (S \cup {n})) = Cardinality((1..n) \ S) - 1
<1>1. (1..n) \ (S \cup {n}) = ((1..n) \ S) \ {n}
  OBVIOUS
<1>2. n \in (1..n) \ S
  OBVIOUS
<1>3. IsFiniteSet((1..n) \ S)
  BY IntervalIsFinite
<1>4. Cardinality(((1..n) \ S) \ {n}) = Cardinality((1..n) \ S) - 1
  BY <1>2, <1>3, FS_RemoveElement
<1> QED
  BY <1>1, <1>4
-----------------------------------------------------------------------------
LEMMA InitIndInv == Init => IndInv
<1> SUFFICES ASSUME Init PROVE IndInv
  OBVIOUS
<1> USE TopicAssumption DEF Init, P!Init, C!Init
<1>1. TypeOK
  <2>1. log \in Seq(P!Send)
    <3>1. <<>> \in Seq(P!Send)
      OBVIOUS
    <3>2. log = <<>>
      OBVIOUS
    <3> QED
      BY ONLY <3>1, <3>2
  <2>2. latencies \in SUBSET P!Send /\ retries \in 0..MaxRetries /\ sent \in 0..MaxSends
    OBVIOUS
  <2>4. /\ pc \in {"loop", "send", "catch", "returned"}
        /\ request \in {"none", "pending", "ok", "failed"}
        /\ over \in BOOLEAN /\ aborted \in BOOLEAN /\ signalled \in BOOLEAN
        /\ shutdown \in {"none", "disconnecting", "exited"}
        /\ reports \in Nat
    OBVIOUS
  <2>5. P!TypeOK
    BY ONLY <2>1, <2>2, <2>4 DEF P!TypeOK
  <2>3. C!TypeOK
    BY DEF C!TypeOK
  <2> QED
    BY <2>3, <2>5 DEF TypeOK
<1>2. Phase /\ Logged /\ Offsets
  BY DEF Phase, Logged, Offsets, Running
<1>3. Missed
  <2>1. (1..committed) \ Counted = {}
    OBVIOUS
  <2> QED
    BY <2>1, FS_EmptySet DEF Missed, Running, Holding
<1>4. Repeats
  BY DEF Repeats, Running
<1> QED
  BY <1>1, <1>2, <1>3, <1>4 DEF IndInv

\* The consumer's part of the invariant does not see the producer, except
\* for the topic, which only grows.
LEMMA TopicGrows ==
  ASSUME IndInv, UNCHANGED consumerOnly, Len(log') \in Nat,
         Len(log) <= Len(log'), Len(log') <= MaxRecords
  PROVE  Offsets' /\ Missed' /\ Repeats' /\ C!TypeOK'
<1> USE DEF consumerOnly, IndInv, TypeOK, P!TypeOK, C!TypeOK, Running
<1>1. Offsets'
  BY DEF Offsets
<1>2. Counted' = Counted
  BY DEF Counted
<1>3. Missed'
  BY <1>2 DEF Missed, Holding
<1>4. Repeats'
  BY DEF Repeats
<1> QED
  BY <1>1, <1>3, <1>4

LEMMA ProducerSteps ==
  ASSUME IndInv, P!Next, UNCHANGED consumerOnly
  PROVE  IndInv'
<1> USE TopicAssumption DEF IndInv, TypeOK, P!TypeOK, P!Send
<1>1. P!TypeOK' /\ Phase' /\ Logged' /\ Len(log) <= Len(log')
        /\ Len(log') <= MaxRecords
  <2>1. CASE P!BeginSend
    BY <2>1 DEF P!BeginSend, P!Exited, Phase, Logged, Offsets
  <2>2. CASE P!Confirmed
    BY <2>2 DEF P!Confirmed, P!Exited, Phase, Logged, Offsets
  <2>3. CASE P!SendFails
    BY <2>3 DEF P!SendFails, P!Exited, Phase, Logged, Offsets
  <2>4. CASE P!CatchReturns
    BY <2>4 DEF P!CatchReturns, P!Exited, Phase, Logged, Offsets
  <2>5. CASE P!EndTest
    BY <2>5 DEF P!EndTest, P!Exited, Phase, Logged, Offsets
  <2>6. CASE P!Disconnected
    BY <2>6 DEF P!Disconnected, P!Exited, Phase, Logged, Offsets
  <2>7. CASE P!Signal
    BY <2>7 DEF P!Signal, P!Exited, Phase, Logged, Offsets
  <2>8. CASE P!Reject
    BY <2>8 DEF P!Reject, P!Exited, Phase, Logged, Offsets
  <2>9. CASE P!EndOfTest
    BY <2>9 DEF P!EndOfTest, P!Exited, Phase, Logged, Offsets
  <2>10. ASSUME NEW again \in BOOLEAN, P!Write(again)
         PROVE  P!TypeOK' /\ Phase' /\ Logged' /\ Len(log) <= Len(log')
                  /\ Len(log') <= MaxRecords
    <3>1. /\ pc = "send" /\ sent \in P!Send /\ sent' = sent
          /\ log' = Append(log, sent) /\ Len(log) < MaxRecords
          /\ retries' \in 0..MaxRetries /\ request' \in {"pending", "ok"}
          /\ UNCHANGED <<pc, latencies, over, aborted, shutdown, reports, signalled>>
      BY <2>10 DEF P!Write, Phase, Logged
    <3>2. P!TypeOK' /\ Phase' /\ Len(log') = Len(log) + 1
      BY <3>1 DEF Phase
    <3>3. /\ \A o \in DOMAIN log : o \in DOMAIN log' /\ log'[o] = log[o]
          /\ Len(log) + 1 \in DOMAIN log' /\ log'[Len(log) + 1] = sent
      BY <3>1
    <3>4. \A n \in latencies' : \E o \in DOMAIN log' : log'[o] = n
      BY <3>1, <3>3 DEF Logged
    <3>5. Logged'
      BY <3>1, <3>3, <3>4 DEF Logged
    <3> QED
      BY <3>1, <3>2, <3>5
  <2> QED
    BY <2>1, <2>2, <2>3, <2>4, <2>5, <2>6, <2>7, <2>8, <2>9, <2>10
       DEF P!Next, P!Main, P!Library
<1>2. Len(log') \in Nat
  BY <1>1
<1> QED
  BY <1>1, <1>2, TopicGrows

LEMMA ConsumerSteps ==
  ASSUME IndInv, C!Next, UNCHANGED producerOnly
  PROVE  IndInv'
<1> USE TopicAssumption DEF IndInv, TypeOK, P!TypeOK, C!TypeOK, P!Send, Running
<1>1. UNCHANGED log
  BY DEF C!Next, C!Reader, C!Start, C!Poll, C!Count, C!Close, C!AutoCommit,
     C!Stop, C!Kill
<1>2. P!TypeOK' /\ Phase' /\ Logged' /\ Len(log) \in Nat
  BY <1>1 DEF producerOnly, Phase, Logged
<1>3. \A n \in Nat : Cardinality((1..n) \ Counted) \in Nat
  BY IntervalIsFinite
<1>4. CASE C!Start
  <2>1. Counted' = Counted
    BY <1>4 DEF C!Start, Counted
  <2>2. C!TypeOK' /\ Offsets' /\ Repeats'
    BY <1>1, <1>4 DEF C!Start, Offsets, Repeats
  <2>3. Missed'
    BY <1>4, <2>1 DEF C!Start, Missed, Holding
  <2> QED
    BY <1>2, <2>2, <2>3
<1>5. CASE C!Poll
  <2>1. Counted' = Counted
    BY <1>5 DEF C!Poll, Counted
  <2>2. C!TypeOK' /\ Offsets' /\ Repeats'
    BY <1>1, <1>5 DEF C!Poll, Offsets, Repeats
  <2>3. Missed'
    <3>1. /\ noted' = noted + 1 /\ committed' = committed /\ stops' = stops
          /\ cpc = "poll" /\ cpc' = "count"
      BY <1>5 DEF C!Poll, Offsets
    <3>2. position' = noted + 1 /\ noted \in Nat
      BY <1>5 DEF C!Poll, Offsets
    <3>3. Cardinality((1..noted') \ Counted) <= stops + Holding'
      <4>1. CASE noted + 1 \in Counted
        <5>1. (1..(noted + 1)) \ Counted \subseteq (1..noted) \ Counted
          BY <3>2, <4>1
        <5>2. Cardinality((1..(noted + 1)) \ Counted) <= Cardinality((1..noted) \ Counted)
          BY <3>2, <5>1, IntervalIsFinite, FS_Subset
        <5>3. Holding' = 0 /\ Holding = 0
          BY <2>1, <3>1, <3>2, <4>1 DEF Holding
        <5> QED
          BY <1>3, <3>1, <3>2, <5>2, <5>3 DEF Missed
      <4>2. CASE noted + 1 \notin Counted
        <5>1. Cardinality((1..(noted + 1)) \ Counted) <= Cardinality((1..noted) \ Counted) + 1
          BY <3>2, OneMoreIsMissed
        <5>2. Holding' = 1 /\ Holding = 0
          BY <2>1, <3>1, <3>2, <4>2 DEF Holding
        <5>3. Cardinality((1..noted) \ Counted) <= stops
          BY <3>1, <5>2 DEF Missed
        <5>4. Cardinality((1..noted) \ Counted) \in Nat
              /\ Cardinality((1..(noted + 1)) \ Counted) \in Nat
          <6>1. noted + 1 \in Nat
            BY <3>2
          <6> QED
            BY <3>2, <6>1, IntervalIsFinite
        <5>5. Cardinality((1..(noted + 1)) \ Counted) <= stops + 1
          BY <5>1, <5>3, <5>4
        <5>6. Cardinality((1..noted') \ Counted) = Cardinality((1..(noted + 1)) \ Counted)
          BY <3>1
        <5> QED
          BY <5>2, <5>5, <5>6
      <4> QED
        BY <4>1, <4>2
    <3>4. Cardinality((1..committed) \ Counted) <= stops + Holding'
      <4>1. Holding = 0 /\ Holding' \in {0, 1}
        BY <3>1 DEF Holding
      <4> QED
        BY <1>3, <4>1 DEF Missed
    <3> QED
      BY <2>1, <3>1, <3>3, <3>4 DEF Missed
  <2> QED
    BY <1>2, <2>2, <2>3
<1>6. CASE C!Count
  <2>1. /\ position \in 1..MaxRecords
        /\ counts' = [counts EXCEPT ![position] = @ + 1]
        /\ UNCHANGED <<position, noted, committed, stops, kills>>
        /\ cpc = "count" /\ cpc' = "poll" /\ noted = position
        /\ committed <= noted
    BY <1>6 DEF C!Count, Offsets
  <2>2. C!TypeOK'
    BY <2>1
  <2>3. Offsets'
    BY <1>1, <2>1 DEF Offsets
  <2>4. Repeats'
    BY <2>1 DEF Repeats
  <2>5. Counted' = Counted \cup {position}
    BY <2>1 DEF Counted
  <2>6. Missed'
    <3>1. Cardinality((1..noted) \ Counted') <= stops
      <4>1. CASE position \in Counted
        <5>1. Counted' = Counted /\ Holding = 0
          BY <2>1, <2>5, <4>1 DEF Holding
        <5> QED
          BY <1>3, <2>1, <5>1 DEF Missed
      <4>2. CASE position \notin Counted
        <5>1. Cardinality((1..noted) \ Counted')
                = Cardinality((1..noted) \ Counted) - 1
          <6>1. position \in Nat \ {0}
            BY <2>1
          <6>2. Cardinality((1..position) \ (Counted \cup {position}))
                  = Cardinality((1..position) \ Counted) - 1
            BY <4>2, <6>1, OneLessIsMissed
          <6> QED
            BY <2>1, <2>5, <6>2
        <5>2. Holding = 1
          BY <2>1, <4>2 DEF Holding
        <5>3. Cardinality((1..noted) \ Counted) <= stops + 1
          BY <2>1, <5>2 DEF Missed
        <5>4. Cardinality((1..noted) \ Counted) \in Nat
          BY <2>1, IntervalIsFinite
        <5> QED
          BY <5>1, <5>3, <5>4
      <4> QED
        BY <4>1, <4>2
    <3>2. Cardinality((1..committed) \ Counted') <= Cardinality((1..noted) \ Counted')
      BY <2>1, FewerAreMissed
    <3>5. Holding' = 0
      BY <2>1 DEF Holding
    <3>3. /\ Cardinality((1..committed) \ Counted') \in Nat
          /\ Cardinality((1..noted) \ Counted') \in Nat
      BY IntervalIsFinite
    <3> QED
      BY <2>1, <3>1, <3>2, <3>3, <3>5 DEF Missed
  <2> QED
    BY <1>2, <2>2, <2>3, <2>4, <2>6
<1>7. CASE C!Close
  <2>1. Counted' = Counted
    BY <1>7 DEF C!Close, Counted
  <2>2. C!TypeOK' /\ Offsets' /\ Repeats'
    BY <1>1, <1>7 DEF C!Close, Offsets, Repeats
  <2>3. Missed'
    BY <1>7, <2>1 DEF C!Close, Missed, Holding
  <2> QED
    BY <1>2, <2>2, <2>3
<1>8. CASE C!AutoCommit
  <2>1. Counted' = Counted
    BY <1>8 DEF C!AutoCommit, Counted
  <2>2. C!TypeOK' /\ Offsets' /\ Repeats'
    BY <1>1, <1>8 DEF C!AutoCommit, Offsets, Repeats
  <2>3. Holding' = Holding
    BY <1>8, <2>1 DEF C!AutoCommit, Holding
  <2>4. Missed'
    BY <1>8, <2>1, <2>3 DEF C!AutoCommit, Missed
  <2> QED
    BY <1>2, <2>2, <2>4
<1>9. CASE C!Stop \/ C!Kill
  <2>1. Counted' = Counted
    BY <1>9 DEF C!Stop, C!Kill, Counted
  <2>2. C!TypeOK' /\ Offsets' /\ Repeats'
    <3>1. CASE C!Stop
      BY <1>1, <3>1 DEF C!Stop, Offsets, Repeats
    <3>2. CASE C!Kill
      BY <1>1, <3>2 DEF C!Kill, Offsets, Repeats
    <3> QED
      BY <1>9, <3>1, <3>2
  <2>3. /\ stops' = stops + 1 /\ Holding \in {0, 1} /\ Holding' = 0
        /\ UNCHANGED <<committed, noted>> /\ Running
    BY <1>9 DEF C!Stop, C!Kill, Holding
  <2>4. Missed'
    BY <1>3, <2>1, <2>3 DEF Missed
  <2> QED
    BY <1>2, <2>2, <2>4
<1> QED
  BY <1>4, <1>5, <1>6, <1>7, <1>8, <1>9 DEF C!Next, C!Reader

LEMMA Invariance == Spec => []IndInv
<1>1. IndInv /\ [Next]_vars => IndInv'
  <2> SUFFICES ASSUME IndInv, [Next]_vars PROVE IndInv'
    OBVIOUS
  <2>1. CASE UNCHANGED vars
    BY <2>1 DEF vars, producerOnly, consumerOnly, IndInv, TypeOK, P!TypeOK,
       C!TypeOK, Phase, Logged, Offsets, Missed, Holding, Repeats, Running, Counted
  <2> QED
    BY <2>1, ProducerSteps, ConsumerSteps DEF Next
<1> QED
  BY <1>1, InitIndInv, PTL DEF Spec
-----------------------------------------------------------------------------
\* The state of producer, topic and consumer is well typed.
THEOREM TypeCorrect == Spec => []TypeOK
<1>1. IndInv => TypeOK
  BY DEF IndInv
<1> QED
  BY <1>1, Invariance, PTL

\* The report comes out once and says what was confirmed (lines 56-87 of
\* the producer), whenever signals come and however sends end.
THEOREM ReportsAreTrue == Spec => []ReportIsTrue
<1>1. IndInv => ReportIsTrue
  BY DEF IndInv, Phase, Logged, ReportIsTrue
<1> QED
  BY <1>1, Invariance, PTL

\* Without a kill no record is counted twice (51-70 of the consumer).
THEOREM DoubleCountsNeedKills == Spec => []CountedOnceUnlessKilled
<1>1. IndInv => CountedOnceUnlessKilled
  BY DEF IndInv, Repeats, CountedOnceUnlessKilled
<1> QED
  BY <1>1, Invariance, PTL

\* A step of the producer stores one message or none.
LEMMA ProducerAccepts ==
  ASSUME IndInv, P!Next, UNCHANGED consumerOnly
  PROVE  D!Next \/ UNCHANGED D!deliveryVars
<1> USE DEF D!deliveryVars, consumerOnly
<1>1. UNCHANGED <<committed, stops, {o \in 1..MaxRecords : counts[o] > 0}>>
  OBVIOUS
<1>2. CASE UNCHANGED log
  BY <1>1, <1>2
<1>3. ASSUME NEW again \in BOOLEAN, P!Write(again)
      PROVE  D!Next
  <2>1. /\ log' = Append(log, sent) /\ Len(log) < MaxRecords
        /\ log \in Seq(P!Send) /\ Len(log) + 1 \in 1..MaxRecords
    BY <1>3, TopicAssumption DEF P!Write, IndInv, TypeOK, P!TypeOK
  <2>2. DOMAIN log' = (DOMAIN log) \cup {Len(log) + 1}
    BY <2>1
  <2>3. D!Accept(Len(log) + 1)
    BY <1>1, <2>2 DEF D!Accept
  <2> QED
    BY <2>1, <2>3 DEF D!Next
<1> QED
  BY <1>2, <1>3
     DEF P!Next, P!Main, P!Library, P!BeginSend, P!Confirmed, P!SendFails,
         P!CatchReturns, P!EndTest, P!Disconnected, P!Signal, P!Reject,
         P!EndOfTest

\* A step of the consumer handles a message, lets go of what it noted,
\* stops, or does nothing that Delivery sees.
LEMMA ConsumerDelivers ==
  ASSUME IndInv, C!Next, UNCHANGED producerOnly
  PROVE  D!Next \/ UNCHANGED D!deliveryVars
<1> USE DEF D!deliveryVars
<1>0. log \in Seq(P!Send) /\ C!TypeOK
  BY DEF IndInv, TypeOK, P!TypeOK
<1>1. CASE C!Start \/ C!Poll
  BY <1>1 DEF C!Start, C!Poll
<1>2. CASE C!Count
  <2>1. /\ position \in 1..MaxRecords /\ position \in DOMAIN log
        /\ counts' = [counts EXCEPT ![position] = @ + 1]
        /\ counts \in [1..MaxRecords -> Nat]
        /\ UNCHANGED <<log, committed, stops>>
    BY <1>0, <1>2, TopicAssumption
       DEF C!Count, C!TypeOK, IndInv, Offsets, Running
  <2>2. {o \in 1..MaxRecords : counts'[o] > 0}
          = {o \in 1..MaxRecords : counts[o] > 0} \cup {position}
    BY <2>1
  <2>3. PICK o \in 1..MaxRecords : o = position
    BY <2>1
  <2>4. D!Handle(o)
    BY <2>1, <2>2, <2>3 DEF D!Handle
  <2> QED
    BY <2>4 DEF D!Next
<1>3. CASE C!Close \/ C!AutoCommit
  <2>1. /\ committed' = noted /\ UNCHANGED <<log, counts, stops>>
        /\ noted \in Nat /\ committed \in Nat /\ stops \in Nat
        /\ committed <= noted /\ noted <= Len(log) /\ Len(log) <= MaxRecords
    BY <1>0, <1>3, TopicAssumption
       DEF C!Close, C!AutoCommit, C!TypeOK, IndInv, Offsets, Running
  <2>2. (1..committed) \cup (1..noted) = 1..noted
    BY <2>1
  <2>3. Cardinality((1..noted) \ {o \in 1..MaxRecords : counts[o] > 0})
          <= 1 + 1 * stops
    <3>1. /\ Cardinality((1..noted) \ Counted) <= stops + Holding
          /\ Holding \in {0, 1}
      BY <1>3 DEF IndInv, Missed, Running, Holding, C!Close, C!AutoCommit
    <3>2. Cardinality((1..noted) \ Counted) \in Nat
      BY <2>1, IntervalIsFinite
    <3>3. Cardinality((1..noted) \ Counted) <= 1 + 1 * stops
      BY <2>1, <3>1, <3>2
    <3> QED
      BY <3>3 DEF Counted
  <2>4. 1..noted \subseteq DOMAIN log /\ 1..noted \in SUBSET (1..MaxRecords)
    BY <1>0, <2>1, TopicAssumption
  <2>5. D!Remove(1..noted)
    BY <2>1, <2>2, <2>3, <2>4 DEF D!Remove, Cardinality, D!Cardinality
  <2> QED
    BY <2>4, <2>5 DEF D!Next
<1>4. CASE C!Stop \/ C!Kill
  BY <1>4 DEF C!Stop, C!Kill, D!Stop, D!Next
<1> QED
  BY <1>1, <1>2, <1>3, <1>4 DEF C!Next, C!Reader

\* Topic and consumer lose one record for each stop at most, beside the one
\* in hand (29 and 41 of the consumer).
THEOREM DeliveryRefinement == Spec => ImplementsDelivery
<1>1. Init => D!Init
  BY DEF Init, P!Init, C!Init, D!Init
<1>2. IndInv /\ [Next]_vars => [D!Next]_D!deliveryVars
  <2> SUFFICES ASSUME IndInv, [Next]_vars
               PROVE  D!Next \/ UNCHANGED D!deliveryVars
    OBVIOUS
  <2>1. CASE P!Next /\ UNCHANGED consumerOnly
    BY <2>1, ProducerAccepts
  <2>2. CASE C!Next /\ UNCHANGED producerOnly
    BY <2>2, ConsumerDelivers
  <2>3. CASE UNCHANGED vars
    BY <2>3 DEF vars, D!deliveryVars, consumerOnly
  <2> QED
    BY <2>1, <2>2, <2>3 DEF Next
<1> QED
  BY <1>1, <1>2, Invariance, PTL DEF Spec, ImplementsDelivery, D!Spec
\* What the abstract specification is good for: whatever implements it
\* handles what was accepted only, and has let go of at most one message
\* without handling it, and one more for each stop.
THEOREM DeliveryBoundsLosses ==
  ImplementsDelivery =>
    [](/\ Cardinality((1..committed) \ {o \in 1..MaxRecords : counts[o] > 0})
            <= 1 + stops
       /\ {o \in 1..MaxRecords : counts[o] > 0} \subseteq DOMAIN log)
<1> DEFINE handled == {o \in 1..MaxRecords : counts[o] > 0}
           removed == 1..committed
           accepted == DOMAIN log
           Inv == /\ stops \in Nat
                  /\ IsFiniteSet(removed)
                  /\ Cardinality(removed \ handled) <= 1 + 1 * stops
                  /\ handled \subseteq accepted
<1>1. D!Init => Inv
  <2> SUFFICES ASSUME D!Init PROVE Inv
    OBVIOUS
  <2>1. stops = 0 /\ removed = {} /\ handled = {}
    BY DEF D!Init
  <2> HIDE DEF handled, removed, accepted
  <2>2. removed \ handled = {}
    BY <2>1
  <2> QED
    BY <2>1, <2>2, FS_EmptySet
<1>2. Inv /\ [D!Next]_D!deliveryVars => Inv'
  <2> SUFFICES ASSUME Inv, [D!Next]_D!deliveryVars PROVE Inv'
    OBVIOUS
  <2>f. \A S \in SUBSET removed : IsFiniteSet(S) /\ Cardinality(S) \in Nat
    BY FS_Subset, FS_CardinalityType
  <2> HIDE DEF handled, removed, accepted
  <2>1. ASSUME NEW m \in 1..MaxRecords, D!Accept(m) PROVE Inv'
    BY <2>1 DEF D!Accept, handled, removed, accepted
  <2>2. ASSUME NEW m \in 1..MaxRecords, D!Handle(m) PROVE Inv'
    <3>1. /\ handled' = handled \cup {m} /\ m \in accepted
          /\ removed' = removed /\ accepted' = accepted /\ stops' = stops
      BY <2>2 DEF D!Handle, handled, removed, accepted
    <3>2. Cardinality(removed \ handled') <= Cardinality(removed \ handled)
      <4>1. removed \ handled' \subseteq removed \ handled
        BY <3>1
      <4> QED
        BY <2>f, <4>1, FS_Subset
    <3>3. Cardinality(removed \ handled') \in Nat /\ Cardinality(removed \ handled) \in Nat
      BY <2>f
    <3> QED
      BY <3>1, <3>2, <3>3
  <2>3. ASSUME NEW R \in SUBSET (1..MaxRecords), D!Remove(R) PROVE Inv'
    <3>1. /\ removed' = removed \cup R /\ R \subseteq accepted
          /\ Cardinality((removed \cup R) \ handled) <= 1 + 1 * stops
          /\ handled' = handled /\ accepted' = accepted /\ stops' = stops
      BY <2>3 DEF D!Remove, handled, removed, accepted, Cardinality, D!Cardinality
    <3>2. IsFiniteSet(R)
      <4>1. IsFiniteSet(1..MaxRecords)
        BY FS_Interval, TopicAssumption
      <4> QED
        BY <4>1, FS_Subset
    <3>3. IsFiniteSet(removed')
      BY <3>1, <3>2, FS_Union
    <3> QED
      BY <3>1, <3>3
  <2>4. CASE D!Stop
    <3>1. /\ handled' = handled /\ removed' = removed /\ accepted' = accepted
          /\ stops' = stops + 1
      BY <2>4 DEF D!Stop, handled, removed, accepted
    <3>2. Cardinality(removed \ handled) \in Nat
      BY <2>f
    <3> QED
      BY <3>1, <3>2
  <2>5. CASE UNCHANGED D!deliveryVars
    BY <2>5 DEF D!deliveryVars, handled, removed, accepted
  <2> QED
    BY <2>1, <2>2, <2>3, <2>4, <2>5 DEF D!Next
<1>3. Inv => /\ Cardinality(removed \ handled) <= 1 + stops
             /\ handled \subseteq accepted
  OBVIOUS
<1> QED
  BY <1>1, <1>2, <1>3, PTL DEF ImplementsDelivery, D!Spec
-----------------------------------------------------------------------------
\* The records of a send in the topic.
Copies(n) == {o \in DOMAIN log : log[o] = n}

\* A request leaves one record more than it was retried, at most, and no
\* send has records before it began.
Stored ==
  /\ \A n \in P!Send : Cardinality(Copies(n)) <= 1 + MaxRetries
  /\ \A n \in P!Send : n > sent => Copies(n) = {}
  /\ pc = "send" => Cardinality(Copies(sent))
                      <= retries + (IF request = "pending" THEN 0 ELSE 1)

\* Appending to the topic adds a record to those of one send.
LEMMA AppendCopies ==
  ASSUME log \in Seq(P!Send), NEW m \in P!Send, log' = Append(log, m)
  PROVE  /\ \A n \in P!Send : n # m => Copies(n)' = Copies(n)
         /\ Copies(m)' = Copies(m) \cup {Len(log) + 1}
<1>1. /\ DOMAIN log' = DOMAIN log \cup {Len(log) + 1}
      /\ \A o \in DOMAIN log : log'[o] = log[o]
      /\ log'[Len(log) + 1] = m /\ Len(log) + 1 \notin DOMAIN log
  OBVIOUS
<1>2. \A n \in P!Send : n # m => Copies(n)' = Copies(n)
  BY <1>1, Zenon DEF Copies
<1>3. Copies(m)' = Copies(m) \cup {Len(log) + 1}
  BY <1>1, Zenon DEF Copies
<1> QED
  BY <1>2, <1>3

\* They are finitely many.
LEMMA CopiesAreFinite ==
  ASSUME log \in Seq(P!Send), NEW n
  PROVE  IsFiniteSet(Copies(n)) /\ Cardinality(Copies(n)) \in Nat
<1>1. DOMAIN log = 1..Len(log) /\ Len(log) \in Nat
  OBVIOUS
<1>2. IsFiniteSet(DOMAIN log)
  BY <1>1, FS_Interval
<1>3. Copies(n) \subseteq DOMAIN log
  BY DEF Copies
<1> QED
  BY <1>2, <1>3, FS_Subset, FS_CardinalityType

\* Steps that leave the topic alone leave the records of every send alone.
LEMMA SameTopic ==
  ASSUME log' = log PROVE \A n : Copies(n)' = Copies(n)
BY Zenon DEF Copies

\* Nothing but an attempt of its own request adds a record of a send.
LEMMA StoredIsInvariant == Spec => []Stored
<1> USE TopicAssumption
<1>1. Init => Stored
  <2> SUFFICES ASSUME Init PROVE Stored
    OBVIOUS
  <2>1. log = <<>> /\ pc = "loop"
    BY DEF Init, P!Init
  <2>2. \A n : Copies(n) = {}
    BY <2>1 DEF Copies
  <2>3. \A n : Cardinality(Copies(n)) = 0
    BY <2>2, FS_EmptySet
  <2> QED
    BY <2>1, <2>2, <2>3 DEF Stored
<1>2. IndInv /\ IndInv' /\ Stored /\ [Next]_vars => Stored'
  <2> SUFFICES ASSUME IndInv, IndInv', Stored, [Next]_vars PROVE Stored'
    OBVIOUS
  <2>1. /\ log \in Seq(P!Send) /\ sent \in Nat /\ retries \in 0..MaxRetries
        /\ sent' \in Nat /\ retries' \in 0..MaxRetries
        /\ \A n \in P!Send : n \in Nat \ {0}
        /\ (pc = "send" => sent \in P!Send)
    BY DEF IndInv, TypeOK, P!TypeOK, Phase, P!Send
  <2>2. \A n : IsFiniteSet(Copies(n)) /\ Cardinality(Copies(n)) \in Nat
    BY <2>1, CopiesAreFinite
  <2>3. CASE P!BeginSend
    <3>1. /\ log' = log /\ sent' = sent + 1 /\ sent + 1 \in P!Send /\ retries' = 0
          /\ pc' = "send" /\ request' = "pending"
      BY <2>1, <2>3 DEF P!BeginSend, P!Send
    <3>2. \A n : Copies(n)' = Copies(n)
      BY <3>1, SameTopic
    <3>3. \A n \in P!Send : n > sent' => Copies(n)' = {}
      BY <2>1, <3>1, <3>2 DEF Stored
    <3>4. Copies(sent + 1) = {}
      BY <2>1, <3>1 DEF Stored
    <3>5. Cardinality(Copies(sent + 1)) = 0
      BY <3>4, FS_EmptySet
    <3> QED
      BY <2>1, <3>1, <3>2, <3>3, <3>5 DEF Stored
  <2>4. ASSUME NEW again \in BOOLEAN, P!Write(again) PROVE Stored'
    <3>1. /\ pc = "send" /\ pc' = "send" /\ sent \in P!Send /\ sent' = sent
          /\ log' = Append(log, sent) /\ request = "pending"
      BY <2>1, <2>4 DEF P!Write, IndInv, Logged
    <3>0. PICK m \in P!Send : m = sent
      BY <3>1
    <3>2. \/ retries < MaxRetries /\ retries' = retries + 1 /\ request' = "pending"
          \/ retries' = retries /\ request' = "ok"
      BY <2>4, <3>1 DEF P!Write
    <3>3. /\ \A n \in P!Send : n # m => Copies(n)' = Copies(n)
          /\ Copies(m)' = Copies(m) \cup {Len(log) + 1}
      BY <2>1, <3>0, <3>1, AppendCopies
    <3>4. Cardinality(Copies(m)') <= Cardinality(Copies(m)) + 1
      BY <2>2, <3>3, OneMoreElement
    <3>5. Cardinality(Copies(m)) <= retries
      <4>1. Cardinality(Copies(m)) <= retries + 0
        BY <3>0, <3>1 DEF Stored
      <4> QED
        BY <2>1, <4>1
    <3>6. Cardinality(Copies(m)') \in Nat
      BY <2>2, <3>3, FS_AddElement, FS_CardinalityType
    <3>7. Cardinality(Copies(m)') <= retries + 1
      BY <2>1, <2>2, <3>4, <3>5, <3>6
    <3>8. /\ Cardinality(Copies(m)') <= 1 + MaxRetries
          /\ Cardinality(Copies(m)')
               <= retries' + (IF request' = "pending" THEN 0 ELSE 1)
      BY <2>1, <3>2, <3>6, <3>7
    <3>9. \A n \in P!Send : Cardinality(Copies(n)') <= 1 + MaxRetries
      <4> TAKE n \in P!Send
      <4>1. CASE n = m
        BY <3>8, <4>1
      <4>2. CASE n # m
        <5>1. Cardinality(Copies(n)) <= 1 + MaxRetries
          BY DEF Stored
        <5> QED
          BY <3>3, <4>2, <5>1
      <4> QED
        BY <4>1, <4>2
    <3>10. \A n \in P!Send : n > sent => Copies(n)' = {}
      BY <2>1, <3>0, <3>1, <3>3 DEF Stored
    <3>11. pc' = "send" => Cardinality(Copies(sent)')
               <= retries' + (IF request' = "pending" THEN 0 ELSE 1)
      BY <3>0, <3>1, <3>8
    <3> QED
      BY <3>1, <3>9, <3>10, <3>11 DEF Stored
  <2>5. CASE UNCHANGED <<log, sent>> /\ (pc' # "send" \/ UNCHANGED <<pc, retries, request>>
               \/ (UNCHANGED <<pc, retries>> /\ request = "pending" /\ request' = "failed"))
    <3>1. \A n : Copies(n)' = Copies(n)
      BY <2>5, SameTopic
    <3> QED
      BY <2>1, <2>2, <2>5, <3>1 DEF Stored
  <2> QED
    BY <2>3, <2>4, <2>5
       DEF Next, vars, producerOnly, P!Next, P!Main, P!Library, P!Confirmed, P!SendFails,
           P!CatchReturns, P!EndTest, P!Disconnected, P!Signal, P!Reject,
           P!EndOfTest, C!Next, C!Reader, C!Start, C!Poll, C!Count, C!Close,
           C!AutoCommit, C!Stop, C!Kill
<1> QED
  BY <1>1, <1>2, Invariance, PTL DEF Spec

\* The topic holds a send at most once more than kafkajs retries a request
\* (lines 76-79 of the producer): the script sends each message once, and
\* nobody else writes it.
THEOREM CopiesAreRetries ==
  Spec => [](\A n \in P!Send :
               Cardinality({o \in DOMAIN log : log[o] = n}) <= 1 + MaxRetries)
<1>1. Stored => \A n \in P!Send :
                  Cardinality({o \in DOMAIN log : log[o] = n}) <= 1 + MaxRetries
  BY Zenon DEF Stored, Copies
<1> QED
  BY <1>1, StoredIsInvariant, PTL

\* What the reports of the consumer leave out for ever: among the records
\* whose offset is committed, those that no process counted are one for
\* each stop at most, and the one between poll (29) and the line that
\* counts (41).  Without a stop nothing is left out.
THEOREM LossesNeedStops ==
  Spec => [](Cardinality({o \in 1..committed : counts[o] = 0})
               <= stops + (IF cpc = "count" THEN 1 ELSE 0))
<1>1. IndInv => Cardinality({o \in 1..committed : counts[o] = 0})
                  <= stops + (IF cpc = "count" THEN 1 ELSE 0)
  <2> SUFFICES ASSUME IndInv
               PROVE  Cardinality({o \in 1..committed : counts[o] = 0})
                        <= stops + (IF cpc = "count" THEN 1 ELSE 0)
    OBVIOUS
  <2>1. /\ committed \in Nat /\ stops \in Nat /\ counts \in [1..MaxRecords -> Nat]
        /\ committed <= MaxRecords
    BY TopicAssumption DEF IndInv, TypeOK, P!TypeOK, C!TypeOK, Offsets
  <2>2. {o \in 1..committed : counts[o] = 0} = (1..committed) \ Counted
    BY <2>1, TopicAssumption DEF Counted
  <2>3. Cardinality((1..committed) \ Counted) <= stops + Holding
    BY DEF IndInv, Missed
  <2>4. Cardinality((1..committed) \ Counted) \in Nat
    BY <2>1, IntervalIsFinite
  <2>5. Cardinality((1..committed) \ Counted)
          <= stops + (IF cpc = "count" THEN 1 ELSE 0)
    BY <2>1, <2>3, <2>4 DEF Holding
  <2> QED
    BY <2>2, <2>5
<1> QED
  BY <1>1, Invariance, PTL

\* The committed offset never goes back and never passes the end of the
\* topic, whichever of the background commit and close comes last (70).
THEOREM OffsetsNeverGoBack ==
  Spec => [][committed <= committed' /\ committed' <= Len(log')]_vars
<1>1. IndInv /\ IndInv' /\ [Next]_vars
        => committed <= committed' /\ committed' <= Len(log')
  <2> SUFFICES ASSUME IndInv, IndInv', [Next]_vars
               PROVE  committed <= committed' /\ committed' <= Len(log')
    OBVIOUS
  <2>1. committed \in Nat /\ noted \in Nat
    BY DEF IndInv, TypeOK, C!TypeOK
  <2>2. CASE C!Close \/ C!AutoCommit
    BY <2>1, <2>2 DEF C!Close, C!AutoCommit, IndInv, Offsets, Running
  <2>3. CASE UNCHANGED committed
    BY <2>1, <2>3 DEF IndInv, Offsets
  <2> QED
    BY <2>2, <2>3
       DEF Next, vars, consumerOnly, C!Next, C!Reader, C!Start, C!Poll, C!Count,
           C!Stop, C!Kill
<1> QED
  BY <1>1, Invariance, PTL DEF Spec
-----------------------------------------------------------------------------
\* What is left to do when the loop is not to go on: the steps of the async
\* function, the exit of the handler, and the attempts of a request.
StepsLeft ==
  (CASE pc = "send" -> 2 [] pc \in {"loop", "catch"} -> 1 [] OTHER -> 0)
  + (IF shutdown = "exited" THEN 0 ELSE 1)
  + (IF request = "pending" THEN MaxRetries + 1 - retries ELSE 0)

\* The safety half of ProducerExits: once the test is over or a signal came,
\* each step of the async function, of the handler (56-62, 82-93) and of
\* kafkajs brings the exit nearer, and nothing takes it further away; so
\* they take MaxRetries + 4 steps at most.  That they are taken is the
\* fairness TLC checks with.
THEOREM ProducerRunsOut ==
  /\ Spec => [](StepsLeft \in 0..(MaxRetries + 4))
  /\ Spec => [][over \/ aborted =>
                  /\ StepsLeft' <= StepsLeft
                  /\ P!Main \/ P!Library => StepsLeft' < StepsLeft]_vars
<1> USE TopicAssumption
<1>1. IndInv => StepsLeft \in 0..(MaxRetries + 4)
  <2> SUFFICES ASSUME IndInv PROVE StepsLeft \in 0..(MaxRetries + 4)
    OBVIOUS
  <2>1. retries \in 0..MaxRetries
    BY DEF IndInv, TypeOK, P!TypeOK
  <2> QED
    BY <2>1 DEF StepsLeft
<1>2. IndInv /\ IndInv' /\ (over \/ aborted) /\ (P!Main \/ P!Library)
        => StepsLeft' < StepsLeft
  <2> SUFFICES ASSUME IndInv, IndInv', over \/ aborted, P!Main \/ P!Library
               PROVE  StepsLeft' < StepsLeft
    OBVIOUS
  <2>1. retries \in 0..MaxRetries /\ retries' \in 0..MaxRetries
    BY DEF IndInv, TypeOK, P!TypeOK
  <2>2. CASE P!Confirmed
    BY <2>1, <2>2 DEF P!Confirmed, StepsLeft
  <2>3. CASE P!SendFails
    BY <2>1, <2>3 DEF P!SendFails, StepsLeft
  <2>4. CASE P!CatchReturns
    BY <2>1, <2>4 DEF P!CatchReturns, StepsLeft
  <2>5. CASE P!EndTest
    <3>1. /\ pc = "loop" /\ pc' = "returned" /\ shutdown # "exited"
          /\ shutdown' \in {shutdown, "disconnecting"}
          /\ UNCHANGED <<request, retries>>
      BY <2>5, Zenon DEF P!EndTest, P!Exited
    <3> QED
      BY <2>1, <3>1 DEF StepsLeft
  <2>6. CASE P!Disconnected
    BY <2>1, <2>6 DEF P!Disconnected, StepsLeft
  <2>7. CASE P!Reject
    BY <2>1, <2>7 DEF P!Reject, StepsLeft
  <2>8. ASSUME NEW again \in BOOLEAN, P!Write(again)
        PROVE  StepsLeft' < StepsLeft
    BY <2>1, <2>8 DEF P!Write, StepsLeft
  <2> QED
    BY <2>2, <2>3, <2>4, <2>5, <2>6, <2>7, <2>8
       DEF P!Main, P!Library, P!BeginSend
<1>3. IndInv /\ [Next]_vars /\ ~P!Main /\ ~P!Library => StepsLeft' = StepsLeft
  <2> SUFFICES ASSUME IndInv, [Next]_vars, ~P!Main, ~P!Library
               PROVE  StepsLeft' = StepsLeft
    OBVIOUS
  <2>1. CASE P!Signal
    <3>1. shutdown # "exited" /\ shutdown' = "disconnecting"
      BY <2>1 DEF P!Signal, P!Exited
    <3> QED
      BY <2>1, <3>1 DEF P!Signal, StepsLeft
  <2>2. CASE UNCHANGED <<pc, shutdown, request, retries>>
    BY <2>2 DEF StepsLeft
  <2> QED
    BY <2>1, <2>2 DEF Next, vars, producerOnly, P!Next, P!EndOfTest
<1>4. IndInv /\ IndInv' /\ [Next]_vars /\ (over \/ aborted)
        => /\ StepsLeft' <= StepsLeft
           /\ P!Main \/ P!Library => StepsLeft' < StepsLeft
  <2> SUFFICES ASSUME IndInv, IndInv', [Next]_vars, over \/ aborted
               PROVE  /\ StepsLeft' <= StepsLeft
                      /\ P!Main \/ P!Library => StepsLeft' < StepsLeft
    OBVIOUS
  <2>0. retries \in 0..MaxRetries /\ retries' \in 0..MaxRetries
    BY DEF IndInv, TypeOK, P!TypeOK
  <2>1. StepsLeft \in Int /\ StepsLeft' \in Int
    BY <2>0 DEF StepsLeft
  <2> QED
    BY <2>1, <1>2, <1>3
<1> QED
  BY <1>1, <1>4, Invariance, PTL DEF Spec
=============================================================================
