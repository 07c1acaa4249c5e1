--------------------------- MODULE StompProducer ----------------------------
(***************************************************************************)
(* The ActiveMQ throughput producers of                                    *)
(* kubernetes/activemq/samples/python: a main thread that takes a permit,  *)
(* registers the send time of a message and sends it with a receipt        *)
(* header, and the listener thread of the STOMP client, which records a    *)
(* latency and gives the permit back for every RECEIPT frame.  Line        *)
(* numbers in the comments are those of producer-throughput-max-450MB.py.  *)
(*                                                                         *)
(* One module stands for the three scripts:                                *)
(*   max-450MB   TimedAcquire = TRUE,  BatchTarget > 1                     *)
(*   80MB, 1k    TimedAcquire = FALSE, BatchTarget = 1                     *)
(* The broker is external: it confirms a message, rejects it with an       *)
(* ERROR frame, or goes away.                                              *)
(***************************************************************************)
EXTENDS Integers, FiniteSets

CONSTANTS
  MaxInFlight,     \* MAX_IN_FLIGHT, the permits of the BoundedSemaphore
  BatchTarget,     \* BATCH_TARGET, sends between two looks at the clock
  TimedAcquire,    \* acquire(blocking=True, timeout=0.05), or acquire()
  Faults,          \* what the broker may do beside confirming
  MaxMessages      \* bound of the model: messages sent in the test

ASSUME ProducerAssumption ==
  /\ MaxInFlight \in Nat \ {0}
  /\ BatchTarget \in Nat \ {0}
  /\ TimedAcquire \in BOOLEAN
  /\ Faults \subseteq {"reject", "drop"}
  /\ MaxMessages \in Nat

VARIABLES
  pc,            \* where the main thread stands
  permits,       \* the value of the semaphore
  start_times,   \* the keys of start_times: registered, not yet confirmed
  latencies,     \* how many latencies were recorded for each message
  sent_count,
  batch,         \* sends left of the range(BATCH_TARGET) loop
  over,          \* time.time() >= end_test
  stop_wait,     \* time.time() >= stop_wait, the deadline of the drain
  connected,     \* the socket to the broker is open
  broker,        \* messages the broker has and has not answered
  receipts       \* RECEIPT frames on their way to the listener thread

vars == <<pc, permits, start_times, latencies, sent_count, batch, over,
          stop_wait, connected, broker, receipts>>

wire == <<connected, broker, receipts>>
clock == <<over, stop_wait>>

\* The n-th message carries the receipt id f"r-{n}".
Id == 0..(MaxMessages - 1)

Init ==
  /\ pc = "while"
  /\ permits = MaxInFlight
  /\ start_times = {}
  /\ latencies = [id \in Id |-> 0]
  /\ sent_count = 0
  /\ batch = 0
  /\ over = FALSE
  /\ stop_wait = FALSE
  /\ connected = TRUE
  /\ broker = {}
  /\ receipts = {}
-----------------------------------------------------------------------------
(* Mutants of the actions below: the same code with a plausible mistake.   *)

\* The permit is taken without looking whether there is one.
Acquire_unchecked ==
  /\ pc = "acquire" /\ sent_count < MaxMessages
  /\ permits' = permits - 1 /\ pc' = "register"
  /\ UNCHANGED <<start_times, latencies, sent_count, batch, clock, wire>>

\* The result of acquire(timeout=0.05) is ignored.
AcquireTimeout_ignored ==
  /\ pc = "acquire" /\ TimedAcquire /\ permits = 0
  /\ sent_count < MaxMessages
  /\ pc' = "register"
  /\ UNCHANGED <<permits, start_times, latencies, sent_count, batch, clock, wire>>

\* sent_count is not incremented: receipt ids are reused.
CountSent_sameId ==
  /\ pc = "count"
  /\ batch' = batch - 1
  /\ pc' = IF batch = 1 THEN "while" ELSE "acquire"
  /\ UNCHANGED <<permits, start_times, latencies, sent_count, clock, wire>>

\* The handler forgets semaphore.release().
on_receipt_noRelease(id) ==
  /\ id \in receipts
  /\ receipts' = receipts \ {id}
  /\ IF id \in start_times
       THEN /\ latencies' = [latencies EXCEPT ![id] = @ + 1]
            /\ start_times' = start_times \ {id}
       ELSE UNCHANGED <<latencies, start_times>>
  /\ UNCHANGED <<pc, permits, sent_count, batch, clock, connected, broker>>

\* The handler forgets del start_times[receipt_id].
on_receipt_noDel(id) ==
  /\ id \in receipts
  /\ receipts' = receipts \ {id}
  /\ IF id \in start_times
       THEN /\ latencies' = [latencies EXCEPT ![id] = @ + 1]
            /\ permits' = permits + 1
       ELSE UNCHANGED <<latencies, permits>>
  /\ UNCHANGED <<pc, start_times, sent_count, batch, clock, connected, broker>>

\* The drain waits for every confirmation, without a deadline.
EndDrain_noDeadline ==
  /\ pc = "drain" /\ start_times = {}
  /\ pc' = "report" /\ connected' = FALSE
  /\ UNCHANGED <<permits, start_times, latencies, sent_count, batch, clock,
                 broker, receipts>>
-----------------------------------------------------------------------------
(* The main thread.                                                        *)

\* Line 71: while time.time() < end_test, and line 75, a new batch.
StartBatch ==
  /\ pc = "while" /\ ~over
  /\ pc' = "acquire" /\ batch' = BatchTarget
  /\ UNCHANGED <<permits, start_times, latencies, sent_count, clock, wire>>

\* Lines 102-103: the test time is over, the drain gets its own deadline.
StartDrain ==
  /\ pc = "while" /\ over
  /\ pc' = "drain" /\ stop_wait' = FALSE
  /\ UNCHANGED <<permits, start_times, latencies, sent_count, batch, over, wire>>

\* Line 77: a permit is free (the bound of the model ends the sending).
Acquire ==
  /\ pc = "acquire" /\ permits > 0
  /\ sent_count < MaxMessages
  /\ permits' = permits - 1 /\ pc' = "register"
  /\ UNCHANGED <<start_times, latencies, sent_count, batch, clock, wire>>

\* Lines 77-78: no permit for 50 ms, so the rest of the batch is given up.
\* The scripts with a plain acquire() have no such step.
AcquireTimeout ==
  /\ pc = "acquire" /\ TimedAcquire /\ permits = 0
  /\ pc' = "while" /\ batch' = 0
  /\ UNCHANGED <<permits, start_times, latencies, sent_count, clock, wire>>

\* The model has no message left: the batch ends as if it were complete.
Exhausted ==
  /\ pc = "acquire" /\ permits > 0 /\ sent_count = MaxMessages
  /\ pc' = "while" /\ batch' = 0
  /\ UNCHANGED <<permits, start_times, latencies, sent_count, clock, wire>>

\* Lines 80-84: the start time is stored before the message leaves.
Register ==
  /\ pc = "register"
  /\ start_times' = start_times \cup {sent_count} /\ pc' = "send"
  /\ UNCHANGED <<permits, latencies, sent_count, batch, clock, wire>>

\* Lines 87-91.
SendMessage ==
  /\ pc = "send" /\ connected
  /\ broker' = broker \cup {sent_count}
  /\ pc' = "count"
  /\ UNCHANGED <<permits, start_times, latencies, sent_count, batch, clock,
                 connected, receipts>>

\* Line 92, when the receipt may have come already, and the end of the
\* batch, whose pause (94-100) takes time and changes nothing.
CountSent ==
  /\ pc = "count"
  /\ sent_count' = sent_count + 1
  /\ batch' = batch - 1
  /\ pc' = IF batch = 1 THEN "while" ELSE "acquire"
  /\ UNCHANGED <<permits, start_times, latencies, clock, wire>>

\* conn.send on a closed connection raises; only KeyboardInterrupt is
\* caught, so the finally block disconnects and the exception goes on.
SendFails ==
  /\ pc = "send" /\ ~connected
  /\ pc' = "crashed"
  /\ UNCHANGED <<permits, start_times, latencies, sent_count, batch, clock, wire>>

\* Lines 104-111: everything is confirmed or the deadline is past, and the
\* finally block disconnects.
EndDrain ==
  /\ pc = "drain" /\ (start_times = {} \/ stop_wait)
  /\ pc' = "report" /\ connected' = FALSE
  /\ UNCHANGED <<permits, start_times, latencies, sent_count, batch, clock,
                 broker, receipts>>

\* Lines 107-111: Ctrl-C anywhere in the try block, a wait included.
Interrupt ==
  /\ pc \in {"while", "acquire", "register", "send", "count", "drain"}
  /\ pc' = "report" /\ connected' = FALSE
  /\ UNCHANGED <<permits, start_times, latencies, sent_count, batch, clock,
                 broker, receipts>>

\* Lines 115-134: the report.
Report ==
  /\ pc = "report"
  /\ pc' = "done"
  /\ UNCHANGED <<permits, start_times, latencies, sent_count, batch, clock, wire>>

Main == \/ StartBatch \/ StartDrain \/ Acquire \/ AcquireTimeout \/ Exhausted
        \/ Register \/ SendMessage \/ CountSent \/ SendFails \/ EndDrain
        \/ Report
-----------------------------------------------------------------------------
(* The listener thread.                                                    *)

\* Lines 36-44.  The thread may still handle frames it has read when the
\* main thread disconnects.
on_receipt(id) ==
  /\ id \in receipts
  /\ receipts' = receipts \ {id}
  /\ IF id \in start_times
       THEN /\ latencies' = [latencies EXCEPT ![id] = @ + 1]
            /\ start_times' = start_times \ {id}
            /\ permits' = permits + 1
       ELSE UNCHANGED <<latencies, start_times, permits>>
  /\ UNCHANGED <<pc, sent_count, batch, clock, connected, broker>>
-----------------------------------------------------------------------------
(* The broker and the clock.                                               *)

Confirm(id) ==
  /\ connected /\ id \in broker
  /\ broker' = broker \ {id} /\ receipts' = receipts \cup {id}
  /\ UNCHANGED <<pc, permits, start_times, latencies, sent_count, batch, clock,
                 connected>>

\* An ERROR frame instead of a receipt, after which a broker may close the
\* connection.  on_error (46-47) prints the frame and changes nothing.
Reject(id) ==
  /\ "reject" \in Faults
  /\ connected /\ id \in broker
  /\ broker' = broker \ {id} /\ connected' \in BOOLEAN
  /\ UNCHANGED <<pc, permits, start_times, latencies, sent_count, batch, clock,
                 receipts>>

\* The connection is lost with what had not been answered.
Drop ==
  /\ "drop" \in Faults
  /\ connected /\ connected' = FALSE
  /\ broker' = {}
  /\ receipts' \in SUBSET receipts
  /\ UNCHANGED <<pc, permits, start_times, latencies, sent_count, batch, clock>>

EndOfTest ==
  /\ ~over /\ over' = TRUE
  /\ UNCHANGED <<pc, permits, start_times, latencies, sent_count, batch,
                 stop_wait, wire>>

DrainDeadline ==
  /\ pc = "drain" /\ ~stop_wait /\ stop_wait' = TRUE
  /\ UNCHANGED <<pc, permits, start_times, latencies, sent_count, batch, over,
                 wire>>

Listener == \E id \in Id : on_receipt(id)
Broker == \E id \in Id : Confirm(id) \/ Reject(id)
Time == EndOfTest \/ DrainDeadline

Next == Main \/ Interrupt \/ Listener \/ Broker \/ Drop \/ Time

Spec == Init /\ [][Next]_vars

\* Both threads are scheduled, time passes, and the broker answers what it
\* has (one way or the other) while it is connected.  Nobody has to press
\* Ctrl-C and the connection does not have to fail.
FairSpec == Spec /\ WF_vars(Main) /\ WF_vars(Listener)
                 /\ WF_vars(Broker) /\ WF_vars(Time)
-----------------------------------------------------------------------------
Pcs == {"while", "acquire", "register", "send", "count", "drain", "report",
        "done", "crashed"}

TypeOK ==
  /\ pc \in Pcs
  /\ permits \in 0..MaxInFlight
  /\ start_times \in SUBSET Id
  /\ latencies \in [Id -> Nat]
  /\ sent_count \in 0..MaxMessages
  /\ batch \in 0..BatchTarget
  /\ over \in BOOLEAN /\ stop_wait \in BOOLEAN /\ connected \in BOOLEAN
  /\ broker \in SUBSET Id
  /\ receipts \in SUBSET Id

\* Every permit that is not in the semaphore stands for a registered
\* message, or for the one the main thread is about to register (lines
\* 77-84); so release() never exceeds the bound of the BoundedSemaphore.
\* Ctrl-C between the two may lose a permit, when nothing is sent any more.
PermitsConserved ==
  /\ permits + Cardinality(start_times) <= MaxInFlight
  /\ pc \notin {"report", "done"} =>
       permits + Cardinality(start_times)
         = IF pc = "register" THEN MaxInFlight - 1 ELSE MaxInFlight

\* A RECEIPT frame always finds its start time, although the send and the
\* handler run in different threads: registration comes before the send
\* (lines 83-91).
ReceiptsAreRegistered == broker \cup receipts \subseteq start_times

\* A message counts at most once in the statistics, and one that counts
\* was sent and is no longer pending (lines 39-44 against 83-92).  The
\* receipt may come before sent_count knows of the message, which Ctrl-C
\* then leaves out of it.
CountedOnce ==
  \A id \in Id :
    /\ latencies[id] <= 1
    /\ latencies[id] = 1 =>
         /\ id \notin start_times
         /\ \/ id < sent_count
            \/ id = sent_count /\ pc \in {"count", "report", "done"}

\* MAX_IN_FLIGHT bounds the payloads the client and the broker hold.
WindowHolds == Cardinality(broker \cup receipts) <= MaxInFlight

\* The script implements the abstract window.
Window == INSTANCE InFlightWindow WITH
            inFlight <- start_times,
            confirmed <- {id \in Id : latencies[id] > 0},
            failed <- {},
            Window <- MaxInFlight
ImplementsWindow == Window!Spec

\* With a timed acquire the script ends whatever the broker does: the
\* clock is looked at again when no permit comes (lines 71-78, 104).  With
\* a plain acquire() it ends if every message is confirmed.
Terminates == <>(pc \in {"done", "crashed"})

\* What the 80MB script says of itself: when the broker does not process
\* the messages the script pauses safely (its line 65), and a broker that
\* rejected them is reported (its line 110).  A sender that waits for a
\* permit while nothing is on the wire any more goes on to its report.
RejectionReported ==
  (pc = "acquire" /\ permits = 0 /\ broker \cup receipts = {})
    ~> (pc \in {"done", "crashed"})
=============================================================================
