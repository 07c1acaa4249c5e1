----------------------------- MODULE KafkaTopic -----------------------------
(***************************************************************************)
(* The kafkajs producer and the python consumer on the topic that both     *)
(* name, test_throughput, which is all they share.                         *)
(***************************************************************************)
EXTENDS Integers, Sequences, FiniteSets

CONSTANTS MaxSends, MaxRetries, MaxRecords, MaxStops

ASSUME TopicAssumption ==
  /\ MaxSends \in Nat /\ MaxRetries \in Nat
  /\ MaxRecords \in Nat /\ MaxStops \in Nat

VARIABLES log,
          pc, request, retries, sent, latencies, over, aborted, shutdown,
          reports, signalled,
          cpc, position, noted, committed, counts, stops, kills

P == INSTANCE KafkaJsProducer
C == INSTANCE KafkaConsumer

producerOnly == <<pc, request, retries, sent, latencies, over, aborted,
                  shutdown, reports, signalled>>
consumerOnly == <<cpc, position, noted, committed, counts, stops, kills>>
vars == <<log, producerOnly, consumerOnly>>

Init == P!Init /\ C!Init

Next == \/ P!Next /\ UNCHANGED consumerOnly
        \/ C!Next /\ UNCHANGED producerOnly

Spec == Init /\ [][Next]_vars

\* Both event loops run, requests are answered or time out
\* (requestTimeout), the clock goes on, a consumer that ended is started
\* again and librdkafka commits what was noted.  Nobody has to send a
\* signal or to stop the consumer.
FairSpec ==
  /\ Spec
  /\ WF_vars(P!Main /\ UNCHANGED consumerOnly)
  /\ WF_vars(P!Library /\ UNCHANGED consumerOnly)
  /\ WF_vars(P!EndOfTest /\ UNCHANGED consumerOnly)
  /\ WF_vars(C!Reader /\ UNCHANGED producerOnly)
  /\ WF_vars(C!AutoCommit /\ UNCHANGED producerOnly)
-----------------------------------------------------------------------------
TypeOK == P!TypeOK /\ C!TypeOK

\* The report comes out once, whoever asks for it (signals, or the end of
\* the test, line 57), a latency in it is that of a record in the topic,
\* and a test that no signal cut short reports on every send.
ReportIsTrue ==
  /\ reports <= 1
  /\ \A n \in latencies : \E o \in DOMAIN log : log[o] = n
  /\ reports = 1 /\ ~signalled => latencies = 1..sent

\* A consumer that is interrupted or meets an error, and is started again,
\* counts no record a second time: close commits what was read (70).  What
\* skips close costs more: kill -9, or a second Ctrl-C in the finally block.
CountedOnceUnlessKilled ==
  \A o \in 1..MaxRecords : counts[o] <= 1 + kills

\* Topic and consumer deliver at least once but for one record in hand,
\* and one more for each stop: the offset of a message is noted by poll
\* (29), before the message is counted (41).
D == INSTANCE Delivery WITH
       Message <- 1..MaxRecords, InHand <- 1, LossPerStop <- 1,
       accepted <- DOMAIN log,
       handled <- {o \in 1..MaxRecords : counts[o] > 0},
       removed <- 1..committed
ImplementsDelivery == D!Spec

\* Every record is read and its offset committed in the end, in whatever
\* process, so ImplementsDelivery bounds what the reports leave out.
EventuallyRead ==
  \A o \in 1..MaxRecords : (o <= Len(log)) ~> (o <= committed)

\* The producer exits: at the end of the test, after a signal that came
\* during a send (56-62), and when a send is rejected (89-92).
ProducerExits == <>P!Exited
=============================================================================
