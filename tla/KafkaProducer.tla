--------------------------- MODULE KafkaProducer ----------------------------
(***************************************************************************)
(* The librdkafka producers of kubernetes/confluent/samples: a script that *)
(* fills the local queue of the client library, polls it for delivery      *)
(* reports, and flushes it when the test time is over.  The library's own  *)
(* thread, the broker behind it included, is external: it settles every    *)
(* queued message, but only poll and flush run the script's callback and   *)
(* give the message's place in the queue back.                             *)
(*                                                                         *)
(*   "450MB"    python/performance-max-throughput-450MB.py                 *)
(*   "80MB"     python/performance-80MB-throughput-producer.py, and        *)
(*              performance-throughput-producer.py, the same but for sizes *)
(*   "latency"  python/performance-latency-producer.py                     *)
(*   "protobuf" python/protobuf/span/producer-protobuf.py and              *)
(*              log/producer-log-protobuf.py: one message, one flush       *)
(*   "rdkafka"  nodejs/performance-rdkafka-producer.js                     *)
(* Line numbers in the comments are those of the 450MB script unless said. *)
(***************************************************************************)
EXTENDS Integers, FiniteSets

CONSTANTS
  Scripts,       \* the scripts that may be started
  QueueMax,      \* queue.buffering.max.messages
  BatchTarget,   \* BATCH_TARGET, messages between two looks at the clock
  PollEvery,     \* the 80MB script polls when sent_count % PollEvery = 0
  MaxMessages    \* bound of the model: messages sent in the test

ASSUME KafkaAssumption ==
  /\ Scripts \subseteq {"450MB", "80MB", "latency", "protobuf", "rdkafka"}
  /\ QueueMax \in Nat \ {0}
  /\ BatchTarget \in Nat \ {0}
  /\ PollEvery \in Nat \ {0}
  /\ MaxMessages \in Nat

VARIABLES
  script,        \* the script that runs
  pc,            \* where it stands
  batch,         \* messages left of the range(BATCH_TARGET) loop
  sent_count,
  queue,         \* messages the library holds: no report served yet
  delivered,     \* those whose successful report waits to be served
  refused,       \* those whose failure report waits to be served
  latencies,     \* how many latencies were recorded for each message
  lost,          \* messages reported as failed, which nothing records
  over,          \* time.time() >= end_test
  interrupted    \* Ctrl-C was pressed

vars == <<script, pc, batch, sent_count, queue, delivered, refused,
          latencies, lost, over, interrupted>>

reports == <<queue, delivered, refused, latencies, lost>>

Id == 0..(MaxMessages - 1)

\* The scripts whose flush gives up after 10 s (Node 116, latency 52).
TimedFlush == {"rdkafka", "latency"}

\* The protobuf scripts have no clock and no loop: they build one message
\* and produce it (span 86-103).
OneShot == pc = "produce" /\ batch = 1

Init ==
  /\ script \in Scripts
  /\ IF script = "protobuf" THEN OneShot ELSE pc = "while" /\ batch = 0
  /\ sent_count = 0
  /\ queue = {} /\ delivered = {} /\ refused = {}
  /\ latencies = [id \in Id |-> 0]
  /\ lost = {}
  /\ over = FALSE
  /\ interrupted = FALSE

\* Mutant of Serve: delivery_report does not look at err: failures count as confirmations.
Serve_ignoresErr ==
  /\ latencies' = [id \in Id |->
       IF id \in delivered \cup refused THEN latencies[id] + 1 ELSE latencies[id]]
  /\ lost' = lost \cup refused
  /\ queue' = queue \ (delivered \cup refused)
  /\ delivered' = {} /\ refused' = {}

\* The library runs the delivery callback (37-41) for every report that
\* waits: a success counts, a failure is only dropped from the queue.
Serve ==
  /\ latencies' = [id \in Id |->
                     IF id \in delivered THEN latencies[id] + 1 ELSE latencies[id]]
  /\ lost' = lost \cup refused
  /\ queue' = queue \ (delivered \cup refused)
  /\ delivered' = {} /\ refused' = {}

\* Lines 63-78: the 450MB script polls after each batch, the latency one
\* after each message (its 46).  The 80MB script sends one message at a time
\* and polls every PollEvery messages (its 71-72), the Node script never
\* does, and the protobuf ones flush at once.
AfterSend(n) ==
  CASE script = "protobuf" -> "flush"
    [] script \in {"450MB", "latency"} -> "poll"
    [] script = "80MB" /\ n % PollEvery = 0 -> "poll"
    [] OTHER -> "while"
-----------------------------------------------------------------------------
(* Mutants of the actions below: the same code with a plausible mistake.   *)

\* The batch has one message more.
StartCycle_longer ==
  /\ pc = "while" /\ ~over
  /\ pc' = "produce" /\ batch' = BatchTarget + 1
  /\ UNCHANGED <<script, sent_count, reports, over, interrupted>>

\* A queue without a limit.
Produce_unbounded ==
  /\ pc = "produce" /\ sent_count < MaxMessages
  /\ queue' = queue \cup {sent_count}
  /\ sent_count' = sent_count + 1
  /\ batch' = batch - 1
  /\ pc' = IF batch > 1 THEN "produce" ELSE AfterSend(sent_count + 1)
  /\ UNCHANGED <<script, delivered, refused, latencies, lost, over, interrupted>>

\* A full queue is retried at once, without a poll.
PollFull_retry ==
  /\ pc = "full"
  /\ pc' = "produce"
  /\ UNCHANGED <<script, batch, sent_count, reports, over, interrupted>>

\* flush(0): the report does not wait for the queue.
EndFlush_noWait ==
  /\ pc = "flush"
  /\ pc' = "report"
  /\ UNCHANGED <<script, batch, sent_count, reports, over, interrupted>>
-----------------------------------------------------------------------------
(* The script.                                                             *)

\* Line 59, and 63 for the script that sends in batches.
StartCycle ==
  /\ pc = "while" /\ ~over
  /\ pc' = "produce"
  /\ batch' = IF script = "450MB" THEN BatchTarget ELSE 1
  /\ UNCHANGED <<script, sent_count, reports, over, interrupted>>

\* Lines 64-71: the library takes the message when its queue has room.
Produce ==
  /\ pc = "produce" /\ sent_count < MaxMessages
  /\ Cardinality(queue) < QueueMax
  /\ queue' = queue \cup {sent_count}
  /\ sent_count' = sent_count + 1
  /\ batch' = batch - 1
  /\ pc' = IF batch > 1 THEN "produce" ELSE AfterSend(sent_count + 1)
  /\ UNCHANGED <<script, delivered, refused, latencies, lost, over, interrupted>>

\* Line 73, and 86-88 of the Node script: BufferError, ERR__QUEUE_FULL.
BufferFull ==
  /\ pc = "produce" /\ Cardinality(queue) >= QueueMax
  /\ script # "latency"
  /\ pc' = "full" /\ batch' = 0
  /\ UNCHANGED <<script, sent_count, reports, over, interrupted>>

\* The latency script has no handler for BufferError (its 44): its try
\* catches Ctrl-C only, and the exception ends it without a report.
BufferCrash ==
  /\ pc = "produce" /\ Cardinality(queue) >= QueueMax
  /\ script = "latency"
  /\ pc' = "crashed" /\ batch' = 0
  /\ UNCHANGED <<script, sent_count, reports, over, interrupted>>

\* Lines 75-78: poll(0.01) waits a little and serves what has come, the
\* batch is given up and poll(0) follows; the 80MB script (its 77-78) has
\* poll(0.1) and looks at the clock.  The Node script waits in the event
\* loop (its 91), which serves no report without poll() or
\* setPollInterval().
PollFull ==
  /\ pc = "full"
  /\ IF script = "rdkafka" THEN UNCHANGED reports ELSE Serve
  /\ pc' = IF script = "450MB" THEN "poll" ELSE "while"
  /\ UNCHANGED <<script, batch, sent_count, over, interrupted>>

\* Line 78, and the pause of 82-87, which takes time and changes nothing.
Poll ==
  /\ pc = "poll"
  /\ Serve
  /\ pc' = "while"
  /\ UNCHANGED <<script, batch, sent_count, over, interrupted>>

\* The model has no message left: the cycle ends as if it were complete.
Exhausted ==
  /\ pc = "produce" /\ sent_count = MaxMessages
  /\ Cardinality(queue) < QueueMax
  /\ pc' = "while" /\ batch' = 0
  /\ UNCHANGED <<script, sent_count, reports, over, interrupted>>

\* Lines 59 and 89: the test time is over.
StartFlush ==
  /\ pc = "while" /\ over
  /\ pc' = "flush"
  /\ UNCHANGED <<script, batch, sent_count, reports, over, interrupted>>

\* Lines 89-90: flush serves the reports as they come.
Flush ==
  /\ pc = "flush" /\ delivered \cup refused # {}
  /\ Serve
  /\ UNCHANGED <<script, pc, batch, sent_count, over, interrupted>>

\* ... until the queue is empty, or the time-out of a timed flush, whose
\* scripts report whatever the outcome.
EndFlush ==
  /\ pc = "flush" /\ (queue = {} \/ script \in TimedFlush)
  /\ pc' = "report"
  /\ UNCHANGED <<script, batch, sent_count, reports, over, interrupted>>

\* Lines 92-93: Ctrl-C goes straight to the report, without a flush.  The
\* Node script exits at once (its 145-148), in the pauses that leave the
\* event loop free for the handler.  `except Exception` of the protobuf
\* scripts (log 90-100) does not catch it.
Interrupted ==
  CASE script = "rdkafka" -> "done"
    [] script = "protobuf" -> "crashed"
    [] OTHER -> "report"

Interrupt ==
  /\ pc \in IF script = "rdkafka"
              THEN {"full", "flush"}
              ELSE {"while", "produce", "full", "poll", "flush"}
  /\ pc' = Interrupted
  /\ interrupted' = TRUE
  /\ UNCHANGED <<script, batch, sent_count, reports, over>>

\* Lines 95-118.
Report ==
  /\ pc = "report"
  /\ pc' = "done"
  /\ UNCHANGED <<script, batch, sent_count, reports, over, interrupted>>

Main == \/ StartCycle \/ Produce \/ BufferFull \/ BufferCrash \/ PollFull
        \/ Poll \/ Exhausted \/ StartFlush \/ Flush \/ EndFlush \/ Report
-----------------------------------------------------------------------------
(* The library's thread, the broker and the clock.                         *)

Ended == {"done", "crashed"}
Unsettled == queue \ (delivered \cup refused)

\* The broker acknowledges a message.
Deliver(id) ==
  /\ id \in Unsettled /\ pc \notin Ended
  /\ delivered' = delivered \cup {id}
  /\ UNCHANGED <<script, pc, batch, sent_count, queue, refused, latencies,
                 lost, over, interrupted>>

\* The broker refuses a message (too large, say), or message.timeout.ms
\* passes without an answer.
Fail(id) ==
  /\ id \in Unsettled /\ pc \notin Ended
  /\ refused' = refused \cup {id}
  /\ UNCHANGED <<script, pc, batch, sent_count, queue, delivered, latencies,
                 lost, over, interrupted>>

EndOfTest ==
  /\ ~over /\ over' = TRUE
  /\ UNCHANGED <<script, pc, batch, sent_count, reports, interrupted>>

Library == \E id \in Id : Deliver(id) \/ Fail(id)

Next == Main \/ Interrupt \/ Library \/ EndOfTest

Spec == Init /\ [][Next]_vars

\* The script runs, the library settles every message it holds (that is
\* what message.timeout.ms is for), and time passes.
FairSpec == Spec /\ WF_vars(Main) /\ WF_vars(Library) /\ WF_vars(EndOfTest)
-----------------------------------------------------------------------------
Pcs == {"while", "produce", "full", "poll", "flush", "report", "done",
        "crashed"}

TypeOK ==
  /\ script \in Scripts
  /\ pc \in Pcs
  /\ batch \in 0..BatchTarget
  /\ sent_count \in 0..MaxMessages
  /\ queue \in SUBSET Id
  /\ delivered \in SUBSET Id
  /\ refused \in SUBSET Id
  /\ latencies \in [Id -> Nat]
  /\ lost \in SUBSET Id
  /\ over \in BOOLEAN /\ interrupted \in BOOLEAN

Recorded == {id \in Id : latencies[id] > 0}

\* Every message that produce() took is in exactly one place: in the
\* queue, recorded once in latencies, or lost to a failure report (lines
\* 66-71 against the callback 37-41, which two calls of poll and a flush
\* may all run).
Accounted ==
  /\ queue \cup Recorded \cup lost = 0..(sent_count - 1)
  /\ queue \cap Recorded = {} /\ queue \cap lost = {} /\ Recorded \cap lost = {}
  /\ \A id \in Id : latencies[id] <= 1
  /\ delivered \cup refused \subseteq queue /\ delivered \cap refused = {}

\* A test that runs to its end reports on every message it sent: lines 89
\* and 90 flush before the mean throughput is computed at 99.  Only Ctrl-C
\* (and the 10 s of a timed flush) may leave confirmations out of it.
ReportIsComplete ==
  pc \in {"report", "done"} /\ ~interrupted /\ script \notin TimedFlush
    => queue = {} /\ Cardinality(Recorded) + Cardinality(lost) = sent_count

\* queue.buffering.max.messages bounds the messages in memory, and each is
\* settled once: the script implements the abstract window.
Window == INSTANCE InFlightWindow WITH
            inFlight <- queue,
            confirmed <- Recorded,
            failed <- lost,
            Window <- QueueMax
ImplementsWindow == Window!Spec

\* Backpressure works: a pause on a full queue makes room for the next
\* message when an answer has come in the meantime (74-76: "if the local
\* buffer is full we free events at once"; 90-91 of the Node script: the
\* pause of 100 ms is there to relieve the network).
PauseMakesRoom ==
  [][pc = "full" /\ pc' \in {"while", "poll", "produce"} /\ delivered \cup refused # {}
       => Cardinality(queue') < QueueMax]_vars

\* The script ends: a full queue never keeps it from looking at the clock
\* (73-76, 59), and the flush without a timeout ends because the library
\* settles every message.
Terminates == <>(pc \in Ended)
=============================================================================
