------------------------ MODULE StompProducer_proofs ------------------------
(***************************************************************************)
(* The safety of the STOMP producers for every window, batch, broker and   *)
(* number of messages: an inductive invariant, and the refinement of       *)
(* InFlightWindow that follows from it.                                    *)
(***************************************************************************)
EXTENDS StompProducer, FiniteSetTheorems, TLAPS

\* Identifiers are handed out in order: the next one is new until it is
\* registered, and only a message that was sent is on the wire, once.
IdsInOrder ==
  /\ start_times \subseteq 0..sent_count
  /\ pc \in {"while", "acquire", "register", "drain"} =>
       sent_count \notin start_times
  /\ pc = "send" => sent_count \in start_times
  /\ broker \cup receipts \subseteq 0..sent_count
  /\ pc \notin {"count", "report", "done"} =>
       sent_count \notin broker \cup receipts
  /\ broker \cap receipts = {}

\* What the loop counters are good for where they are used.
LoopCounters ==
  /\ pc \in {"acquire", "register", "send", "count"} => batch > 0
  /\ pc \in {"register", "send", "count"} => sent_count < MaxMessages

IndInv == TypeOK /\ PermitsConserved /\ ReceiptsAreRegistered /\ CountedOnce
            /\ IdsInOrder /\ LoopCounters
-----------------------------------------------------------------------------
\* The set of pending messages is finite, so its cardinality is a number
\* that grows and shrinks by one with the steps of the two threads.
LEMMA PendingIsFinite ==
  ASSUME start_times \in SUBSET Id
  PROVE  IsFiniteSet(start_times) /\ Cardinality(start_times) \in Nat
<1>1. IsFiniteSet(Id)
  BY ProducerAssumption, FS_Interval DEF Id
<1> QED
  BY <1>1, FS_Subset, FS_CardinalityType

LEMMA PendingGrows ==
  ASSUME start_times \in SUBSET Id, NEW id, id \notin start_times
  PROVE  Cardinality(start_times \cup {id}) = Cardinality(start_times) + 1
BY PendingIsFinite, FS_AddElement

LEMMA PendingShrinks ==
  ASSUME start_times \in SUBSET Id, NEW id \in start_times
  PROVE  /\ Cardinality(start_times \ {id}) = Cardinality(start_times) - 1
         /\ Cardinality(start_times) > 0
<1>1. Cardinality(start_times \ {id}) = Cardinality(start_times) - 1
  BY PendingIsFinite, FS_RemoveElement
<1>2. Cardinality(start_times \ {id}) \in Nat
  BY PendingIsFinite, FS_RemoveElement, FS_CardinalityType
<1> QED
  BY <1>1, <1>2, PendingIsFinite

\* The script starts in the invariant.
LEMMA InitIndInv == Init => IndInv
<1> SUFFICES ASSUME Init PROVE IndInv
  OBVIOUS
<1> USE ProducerAssumption DEF Init
<1>1. TypeOK
  <2>1. latencies \in [Id -> Nat]
    OBVIOUS
  <2>2. pc \in Pcs /\ permits \in 0..MaxInFlight
    BY DEF Pcs
  <2>3. /\ start_times \in SUBSET Id /\ broker \in SUBSET Id
        /\ receipts \in SUBSET Id
    OBVIOUS
  <2>4. sent_count \in 0..MaxMessages /\ batch \in 0..BatchTarget
    OBVIOUS
  <2>5. over \in BOOLEAN /\ stop_wait \in BOOLEAN /\ connected \in BOOLEAN
    BY Zenon
  <2> QED
    BY <2>1, <2>2, <2>3, <2>4, <2>5 DEF TypeOK
<1>2. PermitsConserved
  BY FS_EmptySet DEF PermitsConserved
<1>3. ReceiptsAreRegistered /\ CountedOnce /\ IdsInOrder /\ LoopCounters
  BY DEF ReceiptsAreRegistered, CountedOnce, IdsInOrder, LoopCounters
<1> QED
  BY <1>1, <1>2, <1>3 DEF IndInv

\* Every step of either thread, of the broker and of the clock keeps it.
LEMMA NextIndInv == IndInv /\ [Next]_vars => IndInv'
<1> SUFFICES ASSUME IndInv, [Next]_vars PROVE IndInv'
  OBVIOUS
<1> USE ProducerAssumption DEF IndInv
<1>c. Cardinality(start_times) \in Nat
  BY PendingIsFinite DEF TypeOK
<1> DEFINE Rest == ReceiptsAreRegistered /\ CountedOnce /\ IdsInOrder
                     /\ LoopCounters
<1>1. CASE StartBatch
  BY <1>1 DEF StartBatch, clock, wire, TypeOK, Pcs, PermitsConserved,
     ReceiptsAreRegistered, CountedOnce, IdsInOrder, LoopCounters
<1>2. CASE StartDrain
  BY <1>2 DEF StartDrain, clock, wire, TypeOK, Pcs, PermitsConserved,
     ReceiptsAreRegistered, CountedOnce, IdsInOrder, LoopCounters
<1>3. CASE Acquire
  <2>1. TypeOK' /\ PermitsConserved'
    BY <1>3, <1>c DEF Acquire, clock, wire, TypeOK, Pcs, PermitsConserved
  <2>2. Rest'
    BY <1>3 DEF Acquire, clock, wire, TypeOK, ReceiptsAreRegistered,
       CountedOnce, IdsInOrder, LoopCounters
  <2> QED
    BY <2>1, <2>2
<1>4. CASE AcquireTimeout \/ Exhausted
  <2>1. /\ pc = "acquire" /\ pc' = "while" /\ batch' = 0
        /\ UNCHANGED <<permits, start_times, latencies, sent_count, over,
                       stop_wait, connected, broker, receipts>>
    BY <1>4 DEF AcquireTimeout, Exhausted, clock, wire
  <2>2. TypeOK' /\ PermitsConserved'
    BY <2>1 DEF TypeOK, Pcs, PermitsConserved
  <2>3. Rest'
    BY <2>1 DEF ReceiptsAreRegistered, CountedOnce, IdsInOrder, LoopCounters
  <2> QED
    BY <2>2, <2>3
<1>5. CASE Register
  <2>1. sent_count \in Id /\ sent_count \notin start_times
    BY <1>5 DEF Register, TypeOK, Id, IdsInOrder, LoopCounters
  <2>2. TypeOK'
    BY <1>5, <2>1 DEF Register, clock, wire, TypeOK, Pcs
  <2>3. Cardinality(start_times') = Cardinality(start_times) + 1
    BY <1>5, <2>1, PendingGrows DEF Register, TypeOK
  <2>4. PermitsConserved'
    BY <1>5, <1>c, <2>3 DEF Register, TypeOK, PermitsConserved
  <2>5. Rest'
    BY <1>5, <2>1 DEF Register, clock, wire, TypeOK, ReceiptsAreRegistered,
       CountedOnce, IdsInOrder, LoopCounters
  <2> QED
    BY <2>2, <2>4, <2>5
<1>6. CASE SendMessage
  <2>1. TypeOK' /\ PermitsConserved'
    BY <1>6, <1>c DEF SendMessage, clock, TypeOK, Pcs, PermitsConserved, Id,
       LoopCounters
  <2>2. Rest'
    BY <1>6 DEF SendMessage, clock, TypeOK, ReceiptsAreRegistered,
       CountedOnce, IdsInOrder, LoopCounters
  <2> QED
    BY <2>1, <2>2
<1>6a. CASE CountSent
  <2>1. TypeOK' /\ PermitsConserved'
    BY <1>6a, <1>c DEF CountSent, clock, wire, TypeOK, Pcs, PermitsConserved,
       LoopCounters
  <2>2. Rest'
    BY <1>6a DEF CountSent, clock, wire, TypeOK, ReceiptsAreRegistered,
       CountedOnce, IdsInOrder, LoopCounters
  <2> QED
    BY <2>1, <2>2
<1>7. CASE SendFails
  BY <1>7 DEF SendFails, clock, wire, TypeOK, Pcs, PermitsConserved,
     ReceiptsAreRegistered, CountedOnce, IdsInOrder, LoopCounters
<1>8. CASE EndDrain \/ Interrupt
  BY <1>8, <1>c DEF EndDrain, Interrupt, clock, TypeOK, Pcs, PermitsConserved,
     ReceiptsAreRegistered, CountedOnce, IdsInOrder, LoopCounters
<1>9. CASE Report
  BY <1>9 DEF Report, clock, wire, TypeOK, Pcs, PermitsConserved,
     ReceiptsAreRegistered, CountedOnce, IdsInOrder, LoopCounters
<1>10. ASSUME NEW id \in Id, on_receipt(id) PROVE IndInv'
  <2>1. id \in start_times
    BY <1>10 DEF on_receipt, ReceiptsAreRegistered
  <2>2. /\ receipts' = receipts \ {id}
        /\ latencies' = [latencies EXCEPT ![id] = @ + 1]
        /\ start_times' = start_times \ {id}
        /\ permits' = permits + 1
        /\ UNCHANGED <<pc, sent_count, batch, clock, connected, broker>>
    BY <1>10, <2>1 DEF on_receipt
  <2>3. /\ Cardinality(start_times') = Cardinality(start_times) - 1
        /\ Cardinality(start_times) > 0
    BY <2>1, <2>2, PendingShrinks DEF TypeOK
  <2>4. permits' \in 0..MaxInFlight
    BY <2>2, <2>3, <1>c DEF TypeOK, PermitsConserved
  <2>5. latencies' \in [Id -> Nat]
    BY <1>10, <2>2 DEF TypeOK
  <2>6. TypeOK'
    BY <2>2, <2>4, <2>5 DEF TypeOK, clock
  <2>7. PermitsConserved'
    BY <2>2, <2>3, <1>c DEF TypeOK, PermitsConserved
  <2>8. /\ id \notin broker
        /\ \/ id < sent_count
           \/ id = sent_count /\ pc \in {"count", "report", "done"}
    BY <1>10, <2>1 DEF on_receipt, IdsInOrder, TypeOK, Id
  <2>9. ReceiptsAreRegistered' /\ IdsInOrder' /\ LoopCounters'
    <3>1. ReceiptsAreRegistered' /\ LoopCounters'
      BY <2>2, <2>8 DEF ReceiptsAreRegistered, LoopCounters
    <3>2. pc = "send" => id # sent_count
      BY <2>8, <1>10 DEF TypeOK, Id
    <3>3. IdsInOrder'
      BY <2>2, <3>2 DEF IdsInOrder
    <3> QED
      BY <3>1, <3>3
  <2>10. CountedOnce'
    <3>1. latencies[id] = 0
      BY <1>10, <2>1 DEF CountedOnce, TypeOK
    <3>2. /\ latencies'[id] = 1
          /\ \A i \in Id : i # id => latencies'[i] = latencies[i]
      BY <1>10, <2>2, <3>1 DEF TypeOK
    <3> QED
      BY <2>2, <2>8, <3>2 DEF CountedOnce
  <2> QED
    BY <2>6, <2>7, <2>9, <2>10
<1>11. ASSUME NEW id \in Id, Confirm(id) \/ Reject(id) PROVE IndInv'
  BY <1>11 DEF Confirm, Reject, clock, TypeOK, PermitsConserved,
     ReceiptsAreRegistered, CountedOnce, IdsInOrder, LoopCounters
<1>12. CASE Drop
  BY <1>12 DEF Drop, clock, TypeOK, PermitsConserved, ReceiptsAreRegistered,
     CountedOnce, IdsInOrder, LoopCounters
<1>13. CASE Time
  BY <1>13 DEF Time, EndOfTest, DrainDeadline, wire, TypeOK, PermitsConserved,
     ReceiptsAreRegistered, CountedOnce, IdsInOrder, LoopCounters
<1>14. CASE UNCHANGED vars
  BY <1>14 DEF vars, TypeOK, PermitsConserved, ReceiptsAreRegistered,
     CountedOnce, IdsInOrder, LoopCounters
<1> QED
  BY <1>1, <1>2, <1>3, <1>4, <1>5, <1>6, <1>7, <1>8, <1>9, <1>10, <1>11,
     <1>12, <1>13, <1>14, <1>6a DEF Next, Main, Listener, Broker

\* The inductive invariant holds in every reachable state, for every number
\* of permits, batch size, broker and length of the test.
THEOREM Invariance == Spec => []IndInv
<1> QED
  BY InitIndInv, NextIndInv, PTL DEF Spec

\* Type correctness of the producer's state.
THEOREM TypeCorrect == Spec => []TypeOK
<1>1. IndInv => TypeOK
  BY DEF IndInv
<1> QED
  BY <1>1, Invariance, PTL

\* No permit is created or lost between the main thread and the listener
\* (lines 77-84 against 39-44), so release() never overflows.
THEOREM PermitsAreConserved == Spec => []PermitsConserved
<1>1. IndInv => PermitsConserved
  BY DEF IndInv
<1> QED
  BY <1>1, Invariance, PTL

\* However the two threads interleave, on_receipt (39-44) finds the start
\* time of every receipt that comes.
THEOREM ReceiptsStayRegistered == Spec => []ReceiptsAreRegistered
<1>1. IndInv => ReceiptsAreRegistered
  BY DEF IndInv
<1> QED
  BY <1>1, Invariance, PTL

\* A message enters the statistics (39-44) once, and only when its start
\* time is gone.
THEOREM ReceiptsCountOnce == Spec => []CountedOnce
<1>1. IndInv => CountedOnce
  BY DEF IndInv
<1> QED
  BY <1>1, Invariance, PTL

\* The payloads that client and broker hold never exceed MAX_IN_FLIGHT.
THEOREM WindowAlwaysHolds == Spec => []WindowHolds
<1>1. IndInv => WindowHolds
  <2> SUFFICES ASSUME IndInv PROVE WindowHolds
    OBVIOUS
  <2> USE DEF IndInv
  <2>1. IsFiniteSet(start_times) /\ Cardinality(start_times) \in Nat
    BY PendingIsFinite DEF TypeOK
  <2>2. /\ Cardinality(broker \cup receipts) <= Cardinality(start_times)
        /\ Cardinality(broker \cup receipts) \in Nat
    BY <2>1, FS_Subset, FS_CardinalityType DEF ReceiptsAreRegistered
  <2>3. Cardinality(start_times) <= MaxInFlight
    BY <2>1, ProducerAssumption DEF PermitsConserved, TypeOK
  <2> QED
    BY <2>1, <2>2, <2>3, ProducerAssumption DEF WindowHolds
<1> QED
  BY <1>1, Invariance, PTL

-----------------------------------------------------------------------------
(* Refinement: registering is the Send of the window, a counted receipt is *)
(* its Confirm, and every other step leaves the window alone.              *)

counted == {id \in Id : latencies[id] > 0}

LEMMA InitRefines == Init => Window!Init
BY DEF Init, Window!Init

LEMMA RegisterRefines ==
  ASSUME IndInv, Register PROVE Window!Send(sent_count) /\ sent_count \in Id
<1> USE ProducerAssumption DEF IndInv, Register
<1>1. sent_count \in Id
  BY DEF TypeOK, Id, LoopCounters
<1>2. sent_count \notin start_times \cup counted
  <2>1. latencies[sent_count] = 0
    BY <1>1 DEF CountedOnce, TypeOK
  <2> QED
    BY <1>1, <2>1 DEF counted, IdsInOrder
<1>3. Cardinality(start_times) < MaxInFlight
  <2>1. Cardinality(start_times) \in Nat
    BY PendingIsFinite DEF TypeOK
  <2>2. permits + Cardinality(start_times) = MaxInFlight - 1
    BY DEF PermitsConserved
  <2>3. permits \in Nat
    BY DEF TypeOK
  <2> QED
    BY <2>1, <2>2, <2>3
<1>4. latencies' = latencies /\ start_times' = start_times \cup {sent_count}
  OBVIOUS
<1> QED
  BY <1>1, <1>2, <1>3, <1>4
     DEF Window!Send, counted, Cardinality, Window!Cardinality

LEMMA ReceiptRefines ==
  ASSUME IndInv, NEW id \in Id, on_receipt(id) PROVE
    \E C, F \in SUBSET start_times : Window!Settle(C, F)
<1> USE DEF IndInv
<1>1. id \in start_times
  BY DEF on_receipt, ReceiptsAreRegistered
<1>2. /\ latencies' = [latencies EXCEPT ![id] = @ + 1]
      /\ start_times' = start_times \ {id}
  BY <1>1 DEF on_receipt
<1>3. /\ latencies'[id] > 0
      /\ \A i \in Id : i # id => latencies'[i] = latencies[i]
  BY <1>2 DEF TypeOK
<1>4. {i \in Id : latencies'[i] > 0} = {i \in Id : latencies[i] > 0} \cup {id}
  BY <1>3
<1>5. Window!Settle({id}, {})
  BY <1>2, <1>4 DEF Window!Settle
<1> QED
  BY <1>1, <1>5

LEMMA StepRefines ==
  IndInv /\ [Next]_vars => [Window!Next]_(Window!windowVars)
<1> SUFFICES ASSUME IndInv, [Next]_vars
             PROVE  Window!Next \/ UNCHANGED Window!windowVars
  OBVIOUS
<1>1. CASE Register
  BY <1>1, RegisterRefines DEF Window!Next
<1>2. CASE Listener
  BY <1>2, ReceiptRefines DEF Listener, Window!Next
<1>3. CASE ~Register /\ ~Listener
  <2>1. UNCHANGED <<start_times, latencies>>
    BY <1>3 DEF Next, Main, StartBatch, StartDrain, Acquire, AcquireTimeout,
       Exhausted, SendMessage, CountSent, SendFails, EndDrain, Report, Interrupt, Broker,
       Confirm, Reject, Drop, Time, EndOfTest, DrainDeadline, vars
  <2> QED
    BY <2>1 DEF Window!windowVars
<1> QED
  BY <1>1, <1>2, <1>3

\* The producer implements the abstract window, for every value of its
\* constants.
THEOREM Refinement == Spec => ImplementsWindow
<1> QED
  BY InitRefines, StepRefines, Invariance, PTL
     DEF Spec, ImplementsWindow, Window!Spec
-----------------------------------------------------------------------------
\* While the test runs on a sound connection, a pending message is the one
\* that is about to leave, or it is with the broker, or its receipt is on
\* the way.
OnTheWay ==
  pc \notin {"report", "done"} =>
    /\ connected /\ pc # "crashed"
    /\ start_times = broker \cup receipts \cup
                     (IF pc = "send" THEN {sent_count} ELSE {})

\* Nothing but a rejection or a lost connection leaves a message pending
\* that nobody will answer.
LEMMA NoFaultsOnTheWay ==
  ASSUME Faults = {}
  PROVE  Spec => []OnTheWay
<1>1. Init => OnTheWay
  BY DEF Init, OnTheWay
<1>2. IndInv /\ OnTheWay /\ [Next]_vars => OnTheWay'
  <2> SUFFICES ASSUME IndInv, OnTheWay, [Next]_vars PROVE OnTheWay'
    OBVIOUS
  <2>1. CASE StartBatch \/ StartDrain \/ Acquire \/ AcquireTimeout \/ Exhausted
               \/ EndDrain \/ Interrupt \/ Report \/ Time \/ UNCHANGED vars
    BY <2>1 DEF StartBatch, StartDrain, Acquire, AcquireTimeout, Exhausted,
       EndDrain, Interrupt, Report, Time, EndOfTest, DrainDeadline, clock, wire,
       vars, OnTheWay
  <2>2. CASE Register
    BY <2>2 DEF Register, clock, wire, OnTheWay
  <2>3. CASE SendMessage
    BY <2>3 DEF SendMessage, clock, wire, OnTheWay
  <2>4. CASE CountSent
    BY <2>4 DEF CountSent, clock, wire, OnTheWay
  <2>5. CASE SendFails
    BY <2>5 DEF SendFails, OnTheWay
  <2>6. ASSUME NEW id \in Id, on_receipt(id) PROVE OnTheWay'
    <3>1. /\ id \in receipts /\ id \in start_times /\ id \notin broker
          /\ pc = "send" => id # sent_count
      BY <2>6 DEF on_receipt, IndInv, ReceiptsAreRegistered, IdsInOrder
    <3>2. /\ receipts' = receipts \ {id} /\ start_times' = start_times \ {id}
          /\ UNCHANGED <<pc, sent_count, connected, broker>>
      BY <2>6, <3>1 DEF on_receipt
    <3> QED
      BY <3>1, <3>2 DEF OnTheWay
  <2>7. ASSUME NEW id \in Id, Confirm(id) PROVE OnTheWay'
    BY <2>7 DEF Confirm, OnTheWay
  <2>8. ~Drop /\ \A id \in Id : ~Reject(id)
    BY DEF Drop, Reject
  <2> QED
    BY <2>1, <2>2, <2>3, <2>4, <2>5, <2>6, <2>7, <2>8
       DEF Next, Main, Listener, Broker
<1> QED
  BY <1>1, <1>2, Invariance, PTL DEF Spec

\* When acquire() waits (line 77; the 80MB and 1k scripts wait without a
\* limit), some message is with the broker or its receipt is on the way: with
\* a broker that confirms what it gets, it is never the listener that owes a
\* permit nobody will give back.  That a rejection is enough to break this
\* is the run stomp_80_reject.
THEOREM AcquireIsAnswered ==
  ASSUME Faults = {}
  PROVE  Spec => [](pc = "acquire" /\ permits = 0 =>
                      connected /\ broker \cup receipts # {})
<1>1. IndInv /\ OnTheWay =>
        (pc = "acquire" /\ permits = 0 => connected /\ broker \cup receipts # {})
  <2> SUFFICES ASSUME IndInv, OnTheWay, pc = "acquire", permits = 0
               PROVE  connected /\ broker \cup receipts # {}
    OBVIOUS
  <2>1. Cardinality(start_times) = MaxInFlight
    <3>1. Cardinality(start_times) \in Nat
      BY PendingIsFinite DEF IndInv, TypeOK
    <3> QED
      BY <3>1, ProducerAssumption DEF IndInv, PermitsConserved
  <2>2. start_times # {}
    BY <2>1, FS_EmptySet, ProducerAssumption
  <2> QED
    BY <2>2 DEF OnTheWay
<1> QED
  BY <1>1, NoFaultsOnTheWay, Invariance, PTL

\* The steps of the main thread that are left when the test time is over.
StepsLeft ==
  CASE pc = "acquire"  -> 4 * batch + 3
    [] pc = "register" -> 4 * batch + 2
    [] pc = "send"     -> 4 * batch + 1
    [] pc = "count"    -> 4 * batch
    [] pc = "while"    -> 3
    [] pc = "drain"    -> 2
    [] pc = "report"   -> 1
    [] OTHER           -> 0

\* The safety half of Terminates: once the test time is over (71), every
\* step of the main thread, and Ctrl-C, brings its end nearer, and neither
\* the listener nor the broker takes it further away; 4 * BATCH_TARGET + 3
\* steps are enough.
THEOREM TestRunsOut ==
  /\ Spec => [](StepsLeft \in 0..(4 * BatchTarget + 3))
  /\ Spec => [][over => /\ StepsLeft' <= StepsLeft
                        /\ Main \/ Interrupt => StepsLeft' < StepsLeft]_vars
<1> USE ProducerAssumption
<1>1. IndInv => StepsLeft \in 0..(4 * BatchTarget + 3)
  BY DEF IndInv, TypeOK, Pcs, StepsLeft
<1>2. IndInv /\ IndInv' /\ over /\ (Main \/ Interrupt) => StepsLeft' < StepsLeft
  <2> SUFFICES ASSUME IndInv, IndInv', over, Main \/ Interrupt
               PROVE  StepsLeft' < StepsLeft
    OBVIOUS
  <2>1. /\ batch \in Nat /\ batch' \in Nat
        /\ pc \in {"acquire", "register", "send", "count"} => batch > 0
    BY DEF IndInv, TypeOK, LoopCounters
  <2>2. CASE StartDrain \/ EndDrain \/ Report
    <3>1. \/ pc = "while" /\ pc' = "drain"
          \/ pc = "drain" /\ pc' = "report"
          \/ pc = "report" /\ pc' = "done"
      BY <2>2 DEF StartDrain, EndDrain, Report
    <3> QED
      BY <3>1 DEF StepsLeft
  <2>3. CASE Acquire
    BY <2>1, <2>3 DEF Acquire, StepsLeft
  <2>4. CASE AcquireTimeout \/ Exhausted
    BY <2>1, <2>4 DEF AcquireTimeout, Exhausted, StepsLeft
  <2>5. CASE Register
    BY <2>1, <2>5 DEF Register, StepsLeft
  <2>6. CASE SendMessage \/ SendFails
    BY <2>1, <2>6 DEF SendMessage, SendFails, StepsLeft
  <2>7. CASE CountSent
    BY <2>1, <2>7 DEF CountSent, StepsLeft
  <2>8. CASE Interrupt
    BY <2>1, <2>8 DEF Interrupt, StepsLeft
  <2> QED
    BY <2>2, <2>3, <2>4, <2>5, <2>6, <2>7, <2>8 DEF Main, StartBatch
<1>3. [Next]_vars /\ ~Main /\ ~Interrupt => UNCHANGED <<pc, batch>>
  BY DEF Next, Listener, on_receipt, Broker, Confirm, Reject, Drop, Time,
     EndOfTest, DrainDeadline, wire, clock, vars
<1>4. IndInv /\ IndInv' /\ [Next]_vars =>
        (over => /\ StepsLeft' <= StepsLeft
                 /\ Main \/ Interrupt => StepsLeft' < StepsLeft)
  <2> SUFFICES ASSUME IndInv, IndInv', [Next]_vars, over
               PROVE  /\ StepsLeft' <= StepsLeft
                      /\ Main \/ Interrupt => StepsLeft' < StepsLeft
    OBVIOUS
  <2>1. StepsLeft \in Int /\ StepsLeft' \in Int
    BY DEF IndInv, TypeOK, StepsLeft
  <2>2. CASE Main \/ Interrupt
    BY <1>2, <2>1, <2>2
  <2>3. CASE ~Main /\ ~Interrupt
    <3>1. StepsLeft' = StepsLeft
      BY <1>3, <2>3 DEF StepsLeft
    <3> QED
      BY <2>1, <2>3, <3>1
  <2> QED
    BY <2>2, <2>3
<1> QED
  BY <1>1, <1>4, Invariance, PTL DEF Spec
=============================================================================
