------------------------ MODULE KafkaProducer_proofs ------------------------
(***************************************************************************)
(* The safety of the Kafka producers for every queue size, batch, polling  *)
(* interval and number of messages: an inductive invariant, and what       *)
(* follows from it: complete reports, backpressure that makes room (for    *)
(* the scripts that poll), and the refinement of InFlightWindow.           *)
(***************************************************************************)
EXTENDS KafkaProducer, FiniteSetTheorems, TLAPS

\* The queue never exceeds queue.buffering.max.messages.
QueueBounded == Cardinality(queue) <= QueueMax

\* A cycle that sends has something left to send (line 63).
BatchLeft == pc = "produce" => batch > 0

\* A python script that was not interrupted reports on an empty queue.
Flushed ==
  pc \in {"report", "done"} /\ ~interrupted /\ script \notin TimedFlush
    => queue = {}

IndInv == TypeOK /\ Accounted /\ QueueBounded /\ BatchLeft /\ Flushed
-----------------------------------------------------------------------------
LEMMA IdsAreFinite ==
  ASSUME NEW S \in SUBSET Id
  PROVE  IsFiniteSet(S) /\ Cardinality(S) \in Nat
<1>1. IsFiniteSet(Id)
  BY KafkaAssumption, FS_Interval DEF Id
<1> QED
  BY <1>1, FS_Subset, FS_CardinalityType

\* What one round of callbacks does: the reports that waited are recorded,
\* and every message still is in one place.
LEMMA ServeAccounts ==
  ASSUME TypeOK, Accounted, QueueBounded, Serve, UNCHANGED sent_count
  PROVE  /\ queue' = queue \ (delivered \cup refused)
         /\ lost' = lost \cup refused
         /\ Recorded' = Recorded \cup delivered
         /\ queue' \in SUBSET Id /\ lost' \in SUBSET Id
         /\ delivered' = {} /\ refused' = {}
         /\ latencies' \in [Id -> Nat]
         /\ Accounted' /\ QueueBounded'
<1>1. /\ queue' = queue \ (delivered \cup refused)
      /\ lost' = lost \cup refused
      /\ delivered' = {} /\ refused' = {}
      /\ latencies' = [id \in Id |-> IF id \in delivered THEN latencies[id] + 1
                                                         ELSE latencies[id]]
  BY DEF Serve
<1>2. /\ queue \in SUBSET Id /\ delivered \in SUBSET Id
      /\ refused \in SUBSET Id /\ lost \in SUBSET Id
      /\ latencies \in [Id -> Nat]
  BY DEF TypeOK
<1>3. latencies' \in [Id -> Nat]
  BY <1>1, <1>2
<1>4. Recorded' = Recorded \cup delivered
  BY <1>1, <1>2 DEF Recorded
<1>5. queue' \in SUBSET Id /\ lost' \in SUBSET Id
  BY <1>1, <1>2
<1>6. /\ delivered \cup refused \subseteq queue /\ delivered \cap refused = {}
      /\ queue \cap Recorded = {} /\ queue \cap lost = {}
      /\ Recorded \cap lost = {}
      /\ queue \cup Recorded \cup lost = 0..(sent_count - 1)
      /\ \A id \in Id : latencies[id] <= 1
  BY DEF Accounted
<1>7. \A id \in Id : latencies'[id] <= 1
  <2>1. SUFFICES ASSUME NEW id \in Id, id \in delivered
                 PROVE  latencies[id] + 1 <= 1
    BY <1>1, <1>6
  <2>2. ~(latencies[id] > 0)
    BY <2>1, <1>6 DEF Recorded
  <2> QED
    BY <2>2, <1>2
<1>8. Accounted'
  <2>1. /\ queue' \cap Recorded' = {} /\ queue' \cap lost' = {}
        /\ Recorded' \cap lost' = {}
    BY <1>1, <1>4, <1>6
  <2>2. queue' \cup Recorded' \cup lost' = 0..(sent_count' - 1)
    BY <1>1, <1>4, <1>6
  <2> QED
    BY <2>1, <2>2, <1>1, <1>7 DEF Accounted
<1>9. QueueBounded'
  <2>1. Cardinality(queue') <= Cardinality(queue)
    BY <1>1, <1>2, IdsAreFinite, FS_Subset
  <2> QED
    BY <2>1, <1>2, <1>5, IdsAreFinite, KafkaAssumption DEF QueueBounded
<1> QED
  BY <1>1, <1>3, <1>4, <1>5, <1>8, <1>9

\* A script starts with nothing sent.
LEMMA InitIndInv == Init => IndInv
<1> SUFFICES ASSUME Init PROVE IndInv
  OBVIOUS
<1> USE KafkaAssumption DEF Init, OneShot
<1>1. TypeOK
  <2>1. over \in BOOLEAN /\ interrupted \in BOOLEAN
    BY Zenon
  <2> QED
    BY <2>1 DEF TypeOK, Pcs
<1>2. Accounted
  BY DEF Accounted, Recorded
<1>3. QueueBounded
  BY FS_EmptySet DEF QueueBounded
<1>4. BatchLeft /\ Flushed
  BY DEF BatchLeft, Flushed
<1> QED
  BY <1>1, <1>2, <1>3, <1>4 DEF IndInv

\* Every step keeps the invariant.
LEMMA NextIndInv == IndInv /\ [Next]_vars => IndInv'
<1> SUFFICES ASSUME IndInv, [Next]_vars PROVE IndInv'
  OBVIOUS
<1> USE KafkaAssumption DEF IndInv
<1> USE DEF TypeOK, Pcs, BatchLeft, Flushed
<1>1. CASE StartCycle
  BY <1>1 DEF StartCycle, reports, Accounted, Recorded, QueueBounded
<1>2. CASE Produce
  <2> USE <1>2 DEF Produce
  <2>1. sent_count \in Id /\ sent_count \notin queue
    BY DEF Accounted, Id
  <2>2. TypeOK'
    BY <2>1 DEF AfterSend
  <2>3. Accounted'
    <3>1. Recorded' = Recorded
      BY DEF Recorded
    <3>2. sent_count \notin Recorded /\ sent_count \notin lost
      BY DEF Accounted
    <3>3. 0..(sent_count' - 1) = 0..(sent_count - 1) \cup {sent_count}
      OBVIOUS
    <3> QED
      BY <2>1, <3>1, <3>2, <3>3 DEF Accounted
  <2>4. QueueBounded'
    BY <2>1, IdsAreFinite, FS_AddElement DEF QueueBounded
  <2>5. BatchLeft' /\ Flushed'
    BY DEF AfterSend
  <2> QED
    BY <2>2, <2>3, <2>4, <2>5
<1>3. CASE BufferFull
  BY <1>3 DEF BufferFull, reports, Accounted, Recorded, QueueBounded
<1>16. CASE BufferCrash
  BY <1>16 DEF BufferCrash, reports, Accounted, Recorded, QueueBounded
<1>4. CASE PollFull
  <2>1. CASE script = "rdkafka"
    BY <1>4, <2>1 DEF PollFull, reports, Accounted, Recorded, QueueBounded
  <2>2. CASE script # "rdkafka"
    <3>1. Serve /\ UNCHANGED sent_count
      BY <1>4, <2>2 DEF PollFull
    <3> QED
      BY <1>4, <3>1, ServeAccounts DEF PollFull
  <2> QED
    BY <2>1, <2>2
<1>5. CASE Poll
  <2>1. Serve /\ UNCHANGED sent_count
    BY <1>5 DEF Poll
  <2> QED
    BY <1>5, <2>1, ServeAccounts DEF Poll
<1>6. CASE Exhausted
  BY <1>6 DEF Exhausted, reports, Accounted, Recorded, QueueBounded
<1>7. CASE StartFlush
  BY <1>7 DEF StartFlush, reports, Accounted, Recorded, QueueBounded
<1>8. CASE Flush
  <2>1. Serve /\ UNCHANGED sent_count
    BY <1>8 DEF Flush
  <2> QED
    BY <1>8, <2>1, ServeAccounts DEF Flush
<1>9. CASE EndFlush
  BY <1>9 DEF EndFlush, reports, Accounted, Recorded, QueueBounded
<1>10. CASE Report
  BY <1>10 DEF Report, reports, Accounted, Recorded, QueueBounded
<1>11. CASE Interrupt
  BY <1>11 DEF Interrupt, Interrupted, reports, Accounted, Recorded, QueueBounded
<1>12. ASSUME NEW id \in Id, Deliver(id) PROVE IndInv'
  BY <1>12 DEF Deliver, Unsettled, Accounted, Recorded, QueueBounded
<1>13. ASSUME NEW id \in Id, Fail(id) PROVE IndInv'
  BY <1>13 DEF Fail, Unsettled, Accounted, Recorded, QueueBounded
<1>14. CASE EndOfTest
  BY <1>14 DEF EndOfTest, reports, Accounted, Recorded, QueueBounded
<1>15. CASE UNCHANGED vars
  BY <1>15 DEF vars, Accounted, Recorded, QueueBounded
<1> QED
  BY <1>1, <1>2, <1>3, <1>4, <1>5, <1>6, <1>7, <1>8, <1>9, <1>10, <1>11,
     <1>12, <1>13, <1>14, <1>15, <1>16 DEF Next, Main, Library

LEMMA Invariance == Spec => []IndInv
BY InitIndInv, NextIndInv, PTL DEF Spec
-----------------------------------------------------------------------------
\* The state is well typed: no batch, counter or queue leaves its range.
THEOREM TypeCorrect == Spec => []TypeOK
BY Invariance, PTL DEF IndInv

\* No message is counted twice, counted although it failed, or forgotten,
\* whichever calls of poll and flush run its callback.
THEOREM EveryMessageIsAccounted == Spec => []Accounted
BY Invariance, PTL DEF IndInv

\* An uninterrupted python script reports on all it has sent.
THEOREM ReportsAreComplete == Spec => []ReportIsComplete
<1>1. IndInv => ReportIsComplete
  <2> SUFFICES ASSUME IndInv, pc \in {"report", "done"}, ~interrupted,
                      script \notin TimedFlush
               PROVE  /\ queue = {}
                      /\ Cardinality(Recorded) + Cardinality(lost) = sent_count
    BY DEF ReportIsComplete
  <2>1. queue = {}
    BY DEF IndInv, Flushed
  <2>2. /\ Recorded \cup lost = 0..(sent_count - 1)
        /\ Recorded \cap lost = {}
    BY <2>1 DEF IndInv, Accounted
  <2>3. /\ Recorded \in SUBSET Id /\ lost \in SUBSET Id
        /\ sent_count \in Nat
    BY KafkaAssumption DEF IndInv, TypeOK, Recorded
  <2>4. Cardinality(Recorded \cup lost) = sent_count
    <3>1. sent_count - 1 \in Int /\ 0 \in Int
      BY <2>3
    <3>2. Cardinality(0..(sent_count - 1))
            = IF 0 > sent_count - 1 THEN 0 ELSE sent_count - 1 - 0 + 1
      BY <3>1, FS_Interval
    <3>3. Cardinality(0..(sent_count - 1)) = sent_count
      BY <2>3, <3>2
    <3> QED
      BY <2>2, <3>3
  <2>5. Cardinality(Recorded \cup lost)
          = Cardinality(Recorded) + Cardinality(lost)
              - Cardinality(Recorded \cap lost)
    BY <2>3, IdsAreFinite, FS_Union
  <2>6. Cardinality(Recorded \cap lost) = 0
    BY <2>2, FS_EmptySet
  <2> QED
    BY <2>1, <2>3, <2>4, <2>5, <2>6, IdsAreFinite
<1> QED
  BY <1>1, Invariance, PTL

\* Among the scripts that poll, a pause on a full queue makes room as soon
\* as one answer has come.  (The Node script is the exception that the
\* model checker shows.)
PollingScripts == "rdkafka" \notin Scripts

THEOREM BackpressureWorks ==
  ASSUME PollingScripts
  PROVE  Spec => PauseMakesRoom
<1>1. ASSUME IndInv, [Next]_vars, pc = "full",
             pc' \in {"while", "poll", "produce"},
             delivered \cup refused # {}
      PROVE  Cardinality(queue') < QueueMax
  <2>1. PollFull
    BY <1>1 DEF Next, Main, StartCycle, Produce, BufferFull, BufferCrash, Poll, Exhausted,
      StartFlush, Flush, EndFlush, Report, Interrupt, Interrupted, Library, Deliver, Fail,
      EndOfTest, vars
  <2>2. queue' = queue \ (delivered \cup refused)
    BY <1>1, <2>1 DEF PollFull, Serve, PollingScripts, IndInv, TypeOK
  <2>3. queue \in SUBSET Id /\ queue' \in SUBSET Id
    BY <1>1, <2>2 DEF IndInv, TypeOK
  <2>4. queue' \in SUBSET queue /\ queue' # queue
    BY <1>1, <2>2 DEF IndInv, Accounted
  <2>5. Cardinality(queue') < Cardinality(queue)
    BY <2>3, <2>4, IdsAreFinite, FS_Subset
  <2> QED
    BY <1>1, <2>3, <2>5, IdsAreFinite, KafkaAssumption DEF IndInv, QueueBounded
<1>2. IndInv /\ [Next]_vars =>
        [pc = "full" /\ pc' \in {"while", "poll", "produce"}
           /\ delivered \cup refused # {}
             => Cardinality(queue') < QueueMax]_vars
  BY <1>1
<1> QED
  BY <1>2, Invariance, PTL DEF Spec, PauseMakesRoom
-----------------------------------------------------------------------------
\* A round of callbacks settles the messages it reports on.
LEMMA ServeSettles ==
  ASSUME IndInv, Serve, UNCHANGED sent_count
  PROVE  Window!Next
<1>1. /\ delivered \in SUBSET queue /\ refused \in SUBSET queue
      /\ delivered \cap refused = {}
  BY DEF IndInv, Accounted
<1>2. /\ queue' = queue \ (delivered \cup refused)
      /\ lost' = lost \cup refused
      /\ Recorded' = Recorded \cup delivered
  BY ServeAccounts DEF IndInv
<1>3. Window!Settle(delivered, refused)
  BY <1>1, <1>2 DEF Window!Settle
<1> QED
  BY <1>1, <1>3 DEF Window!Next

\* The script implements the abstract window of QueueMax messages.
THEOREM Refinement == Spec => ImplementsWindow
<1>1. Init => Window!Init
  BY DEF Init, Window!Init, Recorded
<1>2. IndInv /\ [Next]_vars => [Window!Next]_<<queue, Recorded, lost>>
  <2> SUFFICES ASSUME IndInv, [Next]_vars
               PROVE  Window!Next \/ UNCHANGED <<queue, Recorded, lost>>
    BY DEF vars
  <2>1. CASE Produce
    <3>1. sent_count \in Id
      BY <2>1, KafkaAssumption DEF Produce, IndInv, TypeOK, Id
    <3>2. sent_count \notin queue \cup Recorded \cup lost
      BY KafkaAssumption DEF IndInv, TypeOK, Accounted
    <3>3. UNCHANGED <<Recorded, lost>>
      BY <2>1 DEF Produce, Recorded
    <3>4. Window!Send(sent_count)
      BY <2>1, <3>2, <3>3
         DEF Produce, Window!Send, Cardinality, Window!Cardinality
    <3> QED
      BY <3>1, <3>4 DEF Window!Next
  <2>2. CASE PollFull \/ Poll \/ Flush
    <3>1. Serve \/ UNCHANGED reports
      BY <2>2 DEF PollFull, Poll, Flush
    <3>2. UNCHANGED sent_count
      BY <2>2 DEF PollFull, Poll, Flush
    <3>3. CASE Serve
      BY <3>2, <3>3, ServeSettles
    <3>4. CASE UNCHANGED reports
      BY <3>4 DEF reports, Recorded
    <3> QED
      BY <3>1, <3>3, <3>4
  <2>3. CASE StartCycle \/ BufferFull \/ BufferCrash \/ Exhausted \/ StartFlush \/ EndFlush
               \/ Report \/ Interrupt \/ EndOfTest
    BY <2>3 DEF StartCycle, BufferFull, BufferCrash, Exhausted, StartFlush, EndFlush,
      Report, Interrupt, EndOfTest, reports, Recorded
  <2>4. CASE Library \/ UNCHANGED vars
    BY <2>4 DEF Library, Deliver, Fail, vars, Recorded
  <2> QED
    BY <2>1, <2>2, <2>3, <2>4 DEF Next, Main
<1> QED
  BY <1>1, <1>2, Invariance, PTL DEF Spec, ImplementsWindow, Window!Spec,
     Window!windowVars
\* What the abstract window is good for: whatever implements it keeps the
\* messages without an answer, the confirmed and the failed ones apart, never
\* has more than Window without an answer, and never takes an answer back.
THEOREM WindowSettlesOnce ==
  /\ ImplementsWindow =>
       [](/\ Cardinality(queue) <= QueueMax
          /\ queue \cap Recorded = {} /\ queue \cap lost = {}
          /\ Recorded \cap lost = {})
  /\ ImplementsWindow =>
       [][Recorded \subseteq Recorded' /\ lost \subseteq lost']_<<queue, Recorded, lost>>
<1> DEFINE Inv == /\ queue \subseteq Id /\ Cardinality(queue) <= QueueMax
                  /\ queue \cap Recorded = {} /\ queue \cap lost = {}
                  /\ Recorded \cap lost = {}
<1>1. Window!Init => Inv
  <2> SUFFICES ASSUME Window!Init PROVE Inv
    OBVIOUS
  <2>1. queue = {} /\ Recorded = {} /\ lost = {}
    BY DEF Window!Init
  <2> QED
    BY <2>1, FS_EmptySet, KafkaAssumption
<1>2. Inv /\ [Window!Next]_Window!windowVars =>
        Inv' /\ Recorded \subseteq Recorded' /\ lost \subseteq lost'
  <2> SUFFICES ASSUME Inv, [Window!Next]_Window!windowVars
               PROVE  Inv' /\ Recorded \subseteq Recorded' /\ lost \subseteq lost'
    OBVIOUS
  <2>1. IsFiniteSet(queue) /\ Cardinality(queue) \in Nat
    BY IdsAreFinite
  <2>2. ASSUME NEW id \in Id, Window!Send(id)
        PROVE  Inv' /\ Recorded \subseteq Recorded' /\ lost \subseteq lost'
    <3>1. /\ id \notin queue \cup Recorded \cup lost
          /\ Cardinality(queue) < QueueMax /\ queue' = queue \cup {id}
          /\ Recorded' = Recorded /\ lost' = lost
      BY <2>2 DEF Window!Send, Cardinality, Window!Cardinality
    <3>2. Cardinality(queue \cup {id}) = Cardinality(queue) + 1
      BY <2>1, <3>1, FS_AddElement
    <3>3. Cardinality(queue \cup {id}) <= QueueMax
      BY <2>1, <3>1, <3>2, KafkaAssumption
    <3> QED
      BY <3>1, <3>3
  <2>3. ASSUME NEW C \in SUBSET queue, NEW F \in SUBSET queue, Window!Settle(C, F)
        PROVE  Inv' /\ Recorded \subseteq Recorded' /\ lost \subseteq lost'
    <3>1. /\ C \cap F = {} /\ queue' = queue \ (C \cup F)
          /\ Recorded' = Recorded \cup C /\ lost' = lost \cup F
      BY <2>3 DEF Window!Settle
    <3>2. queue' \subseteq queue
      BY <3>1
    <3>3. Cardinality(queue') <= Cardinality(queue) /\ Cardinality(queue') \in Nat
      BY <2>1, <3>2, FS_Subset, FS_CardinalityType
    <3>4. Cardinality(queue') <= QueueMax
      BY <2>1, <3>3, KafkaAssumption
    <3> QED
      BY <3>1, <3>4
  <2>4. CASE UNCHANGED Window!windowVars
    BY <2>4 DEF Window!windowVars
  <2> QED
    BY <2>2, <2>3, <2>4 DEF Window!Next
<1> QED
  BY <1>1, <1>2, PTL DEF ImplementsWindow, Window!Spec, Window!windowVars
-----------------------------------------------------------------------------
\* The steps of the script that are left when the test time is over: sends,
\* pauses, and rounds of callbacks that find something to serve.
StepsLeft ==
  CASE pc = "produce" -> 6 + 2 * batch + Cardinality(queue)
    [] pc = "full"    -> 5 + Cardinality(queue)
    [] pc = "poll"    -> 4 + Cardinality(queue)
    [] pc = "while"   -> 3 + Cardinality(queue)
    [] pc = "flush"   -> 2 + Cardinality(queue)
    [] pc = "report"  -> 1
    [] OTHER          -> 0

\* A round of callbacks never fills the queue, and empties it of what it
\* serves.
LEMMA ServeShrinks ==
  ASSUME IndInv, Serve, UNCHANGED sent_count
  PROVE  /\ Cardinality(queue') <= Cardinality(queue)
         /\ delivered \cup refused # {} => Cardinality(queue') < Cardinality(queue)
<1>1. /\ queue \in SUBSET Id /\ queue' = queue \ (delivered \cup refused)
      /\ delivered \cup refused \subseteq queue
  BY ServeAccounts DEF IndInv, TypeOK, Accounted
<1>2. IsFiniteSet(queue)
  BY <1>1, IdsAreFinite
<1>3. Cardinality(queue') <= Cardinality(queue)
  BY <1>1, <1>2, FS_Subset
<1>4. ASSUME delivered \cup refused # {}
      PROVE  Cardinality(queue') < Cardinality(queue)
  <2>1. queue' \subseteq queue /\ queue' # queue
    BY <1>1, <1>4
  <2>2. Cardinality(queue') # Cardinality(queue)
    BY <1>2, <2>1, FS_Subset
  <2>3. Cardinality(queue) \in Nat /\ Cardinality(queue') \in Nat
    BY <1>2, <2>1, FS_Subset, FS_CardinalityType
  <2> QED
    BY <1>3, <2>2, <2>3
<1> QED
  BY <1>3, <1>4

\* The safety half of Terminates: once the test time is over (59), every
\* step of the script, and Ctrl-C, brings its end nearer, in the pauses on a
\* full queue (73-78) and in the rounds of the flush (89-90) too; the
\* library's answers do not take it further away.
THEOREM TestRunsOut ==
  /\ Spec => [](StepsLeft \in 0..(6 + 2 * BatchTarget + QueueMax))
  /\ Spec => [][over => /\ StepsLeft' <= StepsLeft
                        /\ Main \/ Interrupt => StepsLeft' < StepsLeft]_vars
<1> USE KafkaAssumption
<1>0. IndInv => Cardinality(queue) \in 0..QueueMax /\ batch \in 0..BatchTarget
                /\ pc \in Pcs
  <2> SUFFICES ASSUME IndInv PROVE Cardinality(queue) \in 0..QueueMax
    BY DEF IndInv, TypeOK
  <2>1. Cardinality(queue) \in Nat
    BY IdsAreFinite DEF IndInv, TypeOK
  <2> QED
    BY <2>1 DEF IndInv, QueueBounded
<1>1. IndInv => StepsLeft \in 0..(6 + 2 * BatchTarget + QueueMax)
  <2> SUFFICES ASSUME IndInv PROVE StepsLeft \in 0..(6 + 2 * BatchTarget + QueueMax)
    OBVIOUS
  <2> DEFINE q == Cardinality(queue)
  <2>1. q \in 0..QueueMax /\ batch \in 0..BatchTarget /\ pc \in Pcs
    BY <1>0
  <2> HIDE DEF q
  <2>2. StepsLeft = CASE pc = "produce" -> 6 + 2 * batch + q
    [] pc = "full"    -> 5 + q
    [] pc = "poll"    -> 4 + q
    [] pc = "while"   -> 3 + q
    [] pc = "flush"   -> 2 + q
    [] pc = "report"  -> 1
    [] OTHER          -> 0
    BY DEF StepsLeft, q
  <2> QED
    BY <2>1, <2>2
<1>2. IndInv /\ IndInv' /\ over /\ (Main \/ Interrupt) => StepsLeft' < StepsLeft
  <2> SUFFICES ASSUME IndInv, IndInv', over, Main \/ Interrupt
               PROVE  StepsLeft' < StepsLeft
    OBVIOUS
  <2>1. /\ Cardinality(queue) \in Nat /\ batch \in Nat
        /\ Cardinality(queue)' \in Nat /\ batch' \in Nat
    <3>1. queue \in SUBSET Id /\ queue' \in SUBSET Id /\ batch \in Nat /\ batch' \in Nat
      BY DEF IndInv, TypeOK
    <3> QED
      BY <3>1, IdsAreFinite
  <2>2. CASE StartFlush \/ Report \/ EndFlush \/ BufferFull \/ BufferCrash
               \/ Exhausted
    <3>1. /\ Cardinality(queue)' = Cardinality(queue)
          /\ \/ pc = "while" /\ pc' = "flush"
             \/ pc = "report" /\ pc' = "done"
             \/ pc = "flush" /\ pc' = "report"
             \/ pc = "produce" /\ pc' \in {"full", "crashed", "while"}
      BY <2>2 DEF StartFlush, Report, EndFlush, BufferFull, BufferCrash,
         Exhausted, reports
    <3> QED
      BY <2>1, <3>1 DEF StepsLeft
  <2>3. CASE Produce
    <3>1. /\ pc = "produce" /\ batch' = batch - 1
          /\ pc' = "produce" \/ pc' \in {"flush", "poll", "while"}
      BY <2>3 DEF Produce, AfterSend
    <3>2. Cardinality(queue)' <= Cardinality(queue) + 1
      <4>1. queue \in SUBSET Id /\ queue' = queue \cup {sent_count}
        BY <2>3 DEF Produce, IndInv, TypeOK
      <4>2. IsFiniteSet(queue)
        BY <4>1, IdsAreFinite
      <4> QED
        BY <2>1, <4>1, <4>2, FS_AddElement
    <3> QED
      BY <2>1, <3>1, <3>2 DEF StepsLeft
  <2>4. CASE PollFull \/ Poll \/ Flush
    <3>1. /\ Serve \/ UNCHANGED reports
          /\ UNCHANGED <<batch, sent_count>>
      BY <2>4 DEF PollFull, Poll, Flush
    <3>2. Cardinality(queue)' <= Cardinality(queue)
      BY <2>1, <3>1, ServeShrinks DEF reports
    <3>3. \/ pc = "full" /\ pc' \in {"poll", "while"}
          \/ pc = "poll" /\ pc' = "while"
          \/ pc = "flush" /\ pc' = "flush" /\ Cardinality(queue)' < Cardinality(queue)
      BY <2>4, ServeShrinks DEF PollFull, Poll, Flush
    <3> QED
      BY <2>1, <3>1, <3>2, <3>3 DEF StepsLeft
  <2>5. CASE Interrupt
    <3>1. /\ pc \in {"while", "produce", "full", "poll", "flush"}
          /\ pc' \in {"done", "crashed", "report"}
      BY <2>5 DEF Interrupt, Interrupted
    <3> QED
      BY <2>1, <3>1 DEF StepsLeft
  <2> QED
    BY <2>2, <2>3, <2>4, <2>5 DEF Main, StartCycle
<1>3. [Next]_vars /\ ~Main /\ ~Interrupt => UNCHANGED <<pc, batch, queue>>
  BY DEF Next, Library, Deliver, Fail, EndOfTest, reports, vars
<1>4. IndInv /\ IndInv' /\ [Next]_vars =>
        (over => /\ StepsLeft' <= StepsLeft
                 /\ Main \/ Interrupt => StepsLeft' < StepsLeft)
  <2> SUFFICES ASSUME IndInv, IndInv', [Next]_vars, over
               PROVE  /\ StepsLeft' <= StepsLeft
                      /\ Main \/ Interrupt => StepsLeft' < StepsLeft
    OBVIOUS
  <2>1. StepsLeft \in Int /\ StepsLeft' \in Int
    <3>1. queue \in SUBSET Id /\ queue' \in SUBSET Id /\ batch \in Nat /\ batch' \in Nat
      BY DEF IndInv, TypeOK
    <3>2. Cardinality(queue) \in Nat /\ Cardinality(queue)' \in Nat
      BY <3>1, IdsAreFinite
    <3> QED
      BY <3>1, <3>2 DEF StepsLeft
  <2>2. CASE Main \/ Interrupt
    BY <1>2, <2>1, <2>2
  <2>3. CASE ~Main /\ ~Interrupt
    <3>1. StepsLeft' = StepsLeft
      BY <1>3, <2>3 DEF StepsLeft
    <3> QED
      BY <2>1, <2>3, <3>1
  <2> QED
    BY <2>2, <2>3
<1> QED
  BY <1>1, <1>4, Invariance, PTL DEF Spec
=============================================================================
