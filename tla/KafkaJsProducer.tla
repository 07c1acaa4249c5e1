--------------------------- MODULE KafkaJsProducer --------------------------
(***************************************************************************)
(* kubernetes/confluent/samples/nodejs/                                    *)
(* performance-80MB-throughput-producer.js: an async loop that awaits each *)
(* send, and a handler of SIGINT and SIGTERM that disconnects the producer *)
(* under it and prints the report.  Between two awaits nothing else runs.  *)
(*                                                                         *)
(* kafkajs and the broker are external: a record is appended to the topic, *)
(* perhaps again when its answer is late and the request is retried, and   *)
(* the promise of send is resolved or rejected.                            *)
(***************************************************************************)
EXTENDS Integers, Sequences, FiniteSets

CONSTANTS MaxSends,    \* bound of the model: sends in the test
          MaxRetries,  \* retries of a request by kafkajs
          MaxRecords   \* bound of the model: records in the topic

VARIABLES
  log,         \* the topic: the number of the send of each record
  pc,          \* the async function: "loop", "send", "catch", "returned"
  request,     \* the promise of send: "none", "pending", "ok", "failed"
  retries,     \* retries of the request so far
  sent,        \* sends begun
  latencies,   \* sends whose latency was pushed
  over,        \* Date.now() >= endTest
  aborted,
  shutdown,    \* handleShutdown: "none", "disconnecting", "exited"
  reports,     \* reports printed
  signalled    \* a signal came before the end of the test

jsVars == <<log, pc, request, retries, sent, latencies, over, aborted,
            shutdown, reports, signalled>>

Send == 1..MaxSends
Exited == shutdown = "exited" \/ (pc = "returned" /\ shutdown = "none")

Init ==
  /\ log = <<>> /\ pc = "loop" /\ request = "none" /\ retries = 0
  /\ sent = 0 /\ latencies = {}
  /\ over = FALSE /\ aborted = FALSE /\ shutdown = "none"
  /\ reports = 0 /\ signalled = FALSE
-----------------------------------------------------------------------------
(* Mutants of the actions below: the same code with a plausible mistake.   *)

\* The latency is recorded for the send that comes next.
Confirmed_next ==
  /\ ~Exited
  /\ pc = "send" /\ request = "ok"
  /\ latencies' = latencies \cup {sent + 1}
  /\ pc' = "loop" /\ request' = "none"
  /\ UNCHANGED <<log, retries, sent, over, aborted, shutdown, reports, signalled>>

\* A rejected send is tried again, whatever the time.
SendFails_retry ==
  /\ ~Exited
  /\ pc = "send" /\ request = "failed"
  /\ request' = "pending" /\ UNCHANGED pc
  /\ UNCHANGED <<log, retries, sent, latencies, over, aborted, shutdown,
                 reports, signalled>>

\* handleShutdown without line 57.
Signal_again ==
  /\ ~Exited
  /\ IF shutdown = "disconnecting"
       THEN shutdown' = "exited" /\ reports' = reports + 2
       ELSE shutdown' = "disconnecting" /\ UNCHANGED reports
  /\ aborted' = TRUE /\ signalled' = TRUE
  /\ UNCHANGED <<log, pc, request, retries, sent, latencies, over>>
-----------------------------------------------------------------------------
\* Lines 70-79: the loop begins a send and waits for it.
BeginSend ==
  /\ ~Exited
  /\ pc = "loop" /\ ~over /\ ~aborted /\ sent < MaxSends
  /\ pc' = "send" /\ request' = "pending" /\ retries' = 0 /\ sent' = sent + 1
  /\ UNCHANGED <<log, latencies, over, aborted, shutdown, reports, signalled>>

\* Lines 82-83, also while the handler waits for the disconnection.
Confirmed ==
  /\ ~Exited
  /\ pc = "send" /\ request = "ok"
  /\ latencies' = latencies \cup {sent}
  /\ pc' = "loop" /\ request' = "none"
  /\ UNCHANGED <<log, retries, sent, over, aborted, shutdown, reports, signalled>>

\* Line 89: the send was rejected.
SendFails ==
  /\ ~Exited
  /\ pc = "send" /\ request = "failed"
  /\ pc' = "catch" /\ request' = "none"
  /\ UNCHANGED <<log, retries, sent, latencies, over, aborted, shutdown,
                 reports, signalled>>

\* Lines 91-93: disconnect and return; no report, and no exit while the
\* handler still waits.
CatchReturns ==
  /\ ~Exited
  /\ pc = "catch" /\ pc' = "returned"
  /\ UNCHANGED <<log, request, retries, sent, latencies, over, aborted,
                 shutdown, reports, signalled>>

\* Line 87: handleShutdown, which returns at once when it runs already.
EndTest ==
  /\ ~Exited
  /\ pc = "loop" /\ (over \/ aborted)
  /\ pc' = "returned" /\ aborted' = TRUE
  /\ shutdown' = IF aborted THEN shutdown ELSE "disconnecting"
  /\ UNCHANGED <<log, request, retries, sent, latencies, over, reports, signalled>>

\* Lines 56-60 on SIGINT or SIGTERM; a second signal changes nothing.
Signal ==
  /\ ~Exited /\ ~aborted
  /\ aborted' = TRUE /\ shutdown' = "disconnecting" /\ signalled' = TRUE
  /\ UNCHANGED <<log, pc, request, retries, sent, latencies, over, reports>>

\* Lines 60-62: the producer is disconnected, printReport and exit.
Disconnected ==
  /\ shutdown = "disconnecting"
  /\ shutdown' = "exited" /\ reports' = reports + 1
  /\ UNCHANGED <<log, pc, request, retries, sent, latencies, over, aborted,
                 signalled>>
-----------------------------------------------------------------------------
(* kafkajs, the broker and the clock.                                      *)

\* The record is appended.  Its answer arrives, or the request is sent
\* again.
Write(again) ==
  /\ request = "pending" /\ ~Exited /\ Len(log) < MaxRecords
  /\ log' = Append(log, sent)
  /\ \/ again /\ retries < MaxRetries /\ retries' = retries + 1
              /\ UNCHANGED request
     \/ ~again /\ request' = "ok" /\ UNCHANGED retries
  /\ UNCHANGED <<pc, sent, latencies, over, aborted, shutdown, reports, signalled>>

\* Retries exhausted, or the connection was closed by disconnect.
Reject ==
  /\ request = "pending" /\ ~Exited
  /\ request' = "failed"
  /\ UNCHANGED <<log, pc, retries, sent, latencies, over, aborted, shutdown,
                 reports, signalled>>

EndOfTest ==
  /\ ~over /\ over' = TRUE
  /\ UNCHANGED <<log, pc, request, retries, sent, latencies, aborted, shutdown,
                 reports, signalled>>

Main == BeginSend \/ Confirmed \/ SendFails \/ CatchReturns \/ EndTest \/ Disconnected
Library == Reject \/ \E again \in BOOLEAN : Write(again)

Next == Main \/ Signal \/ Library \/ EndOfTest
-----------------------------------------------------------------------------
TypeOK ==
  /\ log \in Seq(Send)
  /\ pc \in {"loop", "send", "catch", "returned"}
  /\ request \in {"none", "pending", "ok", "failed"}
  /\ retries \in 0..MaxRetries /\ sent \in 0..MaxSends
  /\ latencies \in SUBSET Send
  /\ over \in BOOLEAN /\ aborted \in BOOLEAN /\ signalled \in BOOLEAN
  /\ shutdown \in {"none", "disconnecting", "exited"}
  /\ reports \in Nat
=============================================================================
