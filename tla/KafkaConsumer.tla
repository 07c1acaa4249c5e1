---------------------------- MODULE KafkaConsumer ---------------------------
(***************************************************************************)
(* kubernetes/confluent/samples/python/performance-consumer.py: polls a    *)
(* topic, counts what it gets and reports at Ctrl-C.                       *)
(*                                                                         *)
(* librdkafka is external (enable.auto.commit, line 9): poll notes the     *)
(* offset after the message it returns, its own thread commits what was    *)
(* noted from time to time, and close commits it once more.  A process     *)
(* that ended goes on from the committed offset when it is started again.  *)
(* Offsets are numbers of records: the record at offset n is the n-th.     *)
(***************************************************************************)
EXTENDS Integers, Sequences, FiniteSets

CONSTANTS MaxRecords,   \* bound of the model: records in the topic
          MaxStops      \* bound of the model: interrupts, errors and kills

VARIABLES
  log,         \* the topic
  cpc,         \* the script: "down", "poll", "count", "finally"
  position,    \* records read, in the process that runs
  noted,       \* the offset to be committed
  committed,   \* the offset of the group at the broker
  counts,      \* how often each record was counted, over all processes
  stops,       \* interrupts, errors and kills so far
  kills        \* those among them that were kills

readerVars == <<log, cpc, position, noted, committed, counts, stops, kills>>

Init ==
  /\ cpc = "down" /\ position = 0 /\ noted = 0 /\ committed = 0
  /\ counts = [o \in 1..MaxRecords |-> 0]
  /\ stops = 0 /\ kills = 0

\* Lines 17-25; auto.offset.reset is "earliest".
Start ==
  /\ cpc = "down"
  /\ cpc' = "poll" /\ position' = committed /\ noted' = committed
  /\ UNCHANGED <<log, committed, counts, stops, kills>>

\* Line 29: poll returns the next record.  A poll that returns nothing, or
\* _PARTITION_EOF, leaves everything as it is (31-35).
Poll ==
  /\ cpc = "poll" /\ position < Len(log)
  /\ position' = position + 1 /\ noted' = position + 1
  /\ cpc' = "count"
  /\ UNCHANGED <<log, committed, counts, stops, kills>>

\* Lines 41-47.
Count ==
  /\ cpc = "count"
  /\ counts' = [counts EXCEPT ![position] = @ + 1]
  /\ cpc' = "poll"
  /\ UNCHANGED <<log, position, noted, committed, stops, kills>>

\* Mutant of Stop: a stop gives up the records of a whole batch.
Stop_skipsBatch ==
  /\ cpc \in {"poll", "count"} /\ stops < MaxStops
  /\ cpc' = "finally" /\ stops' = stops + 1
  /\ position' = Len(log) /\ noted' = Len(log)
  /\ UNCHANGED <<log, committed, counts, kills>>

\* Lines 37-38 and 49-50: an error ends the loop, and so does Ctrl-C,
\* which may hit between poll and the line that counts.
Stop ==
  /\ cpc \in {"poll", "count"} /\ stops < MaxStops
  /\ cpc' = "finally" /\ stops' = stops + 1
  /\ UNCHANGED <<log, position, noted, committed, counts, kills>>

\* Mutant of Close: the consumer is not closed.
Close_noCommit ==
  /\ cpc = "finally"
  /\ cpc' = "down"
  /\ UNCHANGED <<log, position, noted, committed, counts, stops, kills>>

\* Lines 51-70: the report, and close.
Close ==
  /\ cpc = "finally"
  /\ cpc' = "down" /\ committed' = noted
  /\ UNCHANGED <<log, position, noted, counts, stops, kills>>

\* kill -9, or Ctrl-C again in the finally block (52-70): nothing is closed
\* or committed.
Kill ==
  /\ cpc # "down" /\ stops < MaxStops
  /\ cpc' = "down" /\ stops' = stops + 1 /\ kills' = kills + 1
  /\ UNCHANGED <<log, position, noted, committed, counts>>

\* Mutant of AutoCommit: enable.auto.commit is FALSE.
AutoCommit_off ==
  /\ FALSE
  /\ UNCHANGED readerVars

\* The thread of librdkafka, every auto.commit.interval.ms.
AutoCommit ==
  /\ cpc # "down" /\ committed # noted
  /\ committed' = noted
  /\ UNCHANGED <<log, cpc, position, noted, counts, stops, kills>>

Reader == Start \/ Poll \/ Count \/ Close
Next == Reader \/ AutoCommit \/ Stop \/ Kill
-----------------------------------------------------------------------------
TypeOK ==
  /\ cpc \in {"down", "poll", "count", "finally"}
  /\ position \in Nat /\ noted \in Nat /\ committed \in Nat
  /\ counts \in [1..MaxRecords -> Nat]
  /\ stops \in 0..MaxStops /\ kills \in 0..MaxStops
=============================================================================
