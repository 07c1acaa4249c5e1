------------------------- MODULE SolaceQueue_proofs -------------------------
(***************************************************************************)
(* The safety of a Solace producer and consumer for every limit, window    *)
(* and number of failures: pending messages are those without a verdict,   *)
(* acknowledged ones are safe, and queue and consumer implement Delivery   *)
(* without a loss.                                                         *)
(***************************************************************************)
EXTENDS SolaceQueue, FiniteSetTheorems, TLAPS

\* Where the numbers stand: those below count were published, and count
\* itself is remembered before it is.
Numbers ==
  /\ outbox \cup acked \cup rejected \subseteq 1..(count - 1)
  /\ pc = "publish" => script = "python" /\ count \in tracked
  /\ pc = "publish" => count <= MaxCount
  /\ rejected \cap outbox = {} /\ oks \cap nos = {}

\* What the broker said it stored, it stored, and the queue keeps it until
\* it was acknowledged, which is after it was printed.
Kept ==
  /\ oks \subseteq stored
  /\ script = "node" => acked \subseteq stored
  /\ stored \subseteq spool \cup removed
  /\ spool \subseteq stored /\ handled \subseteq stored
  /\ removed \subseteq handled /\ acks \subseteq handled
  /\ handling \subseteq handled

IndInv == TypeOK /\ PendingIsUnanswered /\ Numbers /\ Kept
-----------------------------------------------------------------------------
LEMMA InitIndInv == Init => IndInv
<1> SUFFICES ASSUME Init PROVE IndInv
  OBVIOUS
<1> USE SolaceAssumption DEF Init, P!Init, C!Init
<1>1. TypeOK
  BY DEF TypeOK, P!TypeOK, C!TypeOK, P!Ended
<1>2. PendingIsUnanswered /\ Numbers
  BY DEF PendingIsUnanswered, Numbers
<1>3. Kept
  BY DEF Kept
<1> QED
  BY <1>1, <1>2, <1>3 DEF IndInv

LEMMA ProducerSteps ==
  ASSUME IndInv, P!Next, UNCHANGED consumerOnly
  PROVE  IndInv'
<1> USE SolaceAssumption
    DEF IndInv, TypeOK, P!TypeOK, C!TypeOK, P!Ended, P!Id, Id, consumerOnly,
        P!memory, P!library, P!broker
<1>1. CASE P!EnsurePython \/ P!EnsureNode \/ P!CreateQueue \/ P!Rerun
           \/ P!Connect \/ P!ConnectFails \/ P!PublishFails \/ P!EndLoop
           \/ P!ClosePython \/ P!TickEnd \/ P!CloseNode \/ P!Interrupt
           \/ P!Drop \/ P!Retry
  <2>1. /\ UNCHANGED <<script, spool, stored, outbox, count, tracked, acked, rejected>>
        /\ oks' \in {oks, {}} /\ nos' \in {nos, {}}
        /\ pc' # "publish" \/ pc' = pc
    <3>1. CASE P!EnsurePython \/ P!EnsureNode \/ P!CreateQueue \/ P!Rerun
               \/ P!Connect \/ P!ConnectFails \/ P!PublishFails
      BY <3>1 DEF P!EnsurePython, P!EnsureNode, P!CreateQueue, P!Rerun,
         P!Connect, P!ConnectFails, P!PublishFails
    <3>2. CASE P!EndLoop \/ P!ClosePython \/ P!TickEnd \/ P!CloseNode
               \/ P!Drop \/ P!Retry
      BY <3>2 DEF P!EndLoop, P!ClosePython, P!TickEnd, P!CloseNode, P!Drop,
         P!Retry
    <3>3. CASE P!Interrupt
      BY <3>3 DEF P!Interrupt
    <3> QED
      BY <1>1, <3>1, <3>2, <3>3
  <2>2. /\ exists' \in BOOLEAN /\ link' \in {"down", "up", "retrying", "lost"}
        /\ drops' \in 0..MaxDrops
        /\ pc' \in {"ensure", "create", "connect", "loop", "publish", "closing"}
                     \cup P!Ended
    <3>1. CASE P!EnsurePython \/ P!EnsureNode \/ P!Rerun
               \/ P!Connect \/ P!ConnectFails \/ P!PublishFails
      BY <3>1 DEF P!EnsurePython, P!EnsureNode, P!Rerun,
         P!Connect, P!ConnectFails, P!PublishFails
    <3>2. CASE P!EndLoop \/ P!ClosePython \/ P!TickEnd \/ P!CloseNode
               \/ P!Drop \/ P!Retry
      BY <3>2 DEF P!EndLoop, P!ClosePython, P!TickEnd, P!CloseNode, P!Drop,
         P!Retry
    <3>3. CASE P!Interrupt
      BY <3>3 DEF P!Interrupt
    <3>4. CASE P!CreateQueue
      BY <3>4 DEF P!CreateQueue
    <3> QED
      BY <1>1, <3>1, <3>2, <3>3, <3>4
  <2>3. TypeOK'
    BY <2>1, <2>2
  <2>4. PendingIsUnanswered' /\ Numbers' /\ Kept'
    BY <2>1 DEF PendingIsUnanswered, Numbers, Kept
  <2> QED
    BY <2>3, <2>4
<1>2. CASE P!Register
  BY <1>2 DEF P!Register, PendingIsUnanswered, Numbers, Kept
<1>3. CASE P!Publish
  <2>1. TypeOK'
    BY <1>3 DEF P!Publish, Numbers
  <2>2. PendingIsUnanswered' /\ Numbers' /\ Kept'
    BY <1>3 DEF P!Publish, PendingIsUnanswered, Numbers, Kept
  <2> QED
    BY <2>1, <2>2
<1>4. CASE P!Tick
  <2>1. TypeOK'
    BY <1>4 DEF P!Tick
  <2>2. PendingIsUnanswered' /\ Numbers' /\ Kept'
    BY <1>4 DEF P!Tick, PendingIsUnanswered, Numbers, Kept
  <2> QED
    BY <2>1, <2>2
<1>5. CASE P!TickThrows
  BY <1>5 DEF P!TickThrows, PendingIsUnanswered, Numbers, Kept
<1>6. CASE P!Handlers
  <2>1. PICK id \in P!Id :
          P!on_publish_receipt(id) \/ P!Acknowledged(id) \/ P!Rejected(id)
    BY <1>6 DEF P!Handlers
  <2>2. /\ id \in outbox /\ outbox' = outbox \ {id}
        /\ oks' \subseteq oks \ {id} \/ (nos' = nos \ {id} /\ oks' = oks /\ id \in nos)
        /\ UNCHANGED <<script, pc, count, link, drops, exists, spool, stored>>
    BY <2>1 DEF P!on_publish_receipt, P!Acknowledged, P!Rejected,
         PendingIsUnanswered
  <2>3. TypeOK'
    BY <2>1, <2>2 DEF P!on_publish_receipt, P!Acknowledged, P!Rejected
  <2>4. Kept'
    BY <2>1, <2>2 DEF P!on_publish_receipt, P!Acknowledged, P!Rejected, Kept
  <2>6. PendingIsUnanswered' /\ Numbers'
    <3>1. CASE P!on_publish_receipt(id)
      BY <2>2, <3>1 DEF P!on_publish_receipt, PendingIsUnanswered, Numbers
    <3>2. CASE P!Acknowledged(id)
      <4>1. PendingIsUnanswered'
        BY <2>2, <3>2 DEF P!Acknowledged, PendingIsUnanswered, Numbers
      <4>2. Numbers'
        BY <2>2, <3>2 DEF P!Acknowledged, PendingIsUnanswered, Numbers
      <4> QED
        BY <4>1, <4>2
    <3>3. CASE P!Rejected(id)
      <4>1. PendingIsUnanswered'
        BY <2>2, <3>3 DEF P!Rejected, PendingIsUnanswered, Numbers
      <4>2. Numbers'
        BY <2>2, <3>3 DEF P!Rejected, PendingIsUnanswered, Numbers
      <4> QED
        BY <4>1, <4>2
    <3> QED
      BY <2>1, <3>1, <3>2, <3>3
  <2> QED
    BY <2>3, <2>4, <2>6
<1>7. CASE P!Answers
  <2>1. PICK id \in P!Id : P!Store(id) \/ P!Refuse(id)
    BY <1>7 DEF P!Answers
  <2>2. TypeOK'
    BY <2>1 DEF P!Store, P!Refuse
  <2>3. /\ UNCHANGED <<script, pc, count, tracked, acked, rejected, outbox, removed,
                       handled, acks, handling>>
        /\ id \in outbox \ (oks \cup nos)
        /\ \/ oks' = oks \cup {id} /\ nos' = nos /\ stored' = stored \cup {id}
              /\ spool' = spool \cup {id}
           \/ nos' = nos \cup {id} /\ UNCHANGED <<oks, stored, spool>>
    BY <2>1 DEF P!Store, P!Refuse, P!Unanswered
  <2>4. PendingIsUnanswered' /\ Numbers'
    <3>1. PendingIsUnanswered'
      BY <2>3 DEF PendingIsUnanswered
    <3>2. Numbers'
      BY <2>3 DEF Numbers
    <3> QED
      BY <3>1, <3>2
  <2>5. Kept'
    BY <2>3 DEF Kept
  <2> QED
    BY <2>2, <2>4, <2>5
<1> QED
  BY <1>1, <1>2, <1>3, <1>4, <1>5, <1>6, <1>7 DEF P!Next, P!Main

LEMMA ConsumerSteps ==
  ASSUME IndInv, C!Next, UNCHANGED producerOnly
  PROVE  IndInv'
<1> USE SolaceAssumption DEF IndInv, TypeOK, P!TypeOK, C!TypeOK, P!Id, Id, producerOnly
<1>1. PendingIsUnanswered' /\ Numbers' /\ UNCHANGED <<script, exists>>
  BY DEF PendingIsUnanswered, Numbers, C!Next, C!Bind, C!BindFails, C!Ack,
     C!Stop, C!Reconnect, C!GiveUp, C!Disturbed, C!on_message, C!Remove
<1>2. CASE C!Bind \/ C!BindFails \/ C!Ack \/ C!Stop \/ C!Reconnect \/ C!GiveUp
  <2>1. UNCHANGED <<spool, handled, removed>> /\ handling' \in {handling, {}}
    BY <1>2 DEF C!Bind, C!BindFails, C!Ack, C!Stop, C!Reconnect, C!GiveUp,
       C!Disturbed
  <2>2. acks' \subseteq acks \cup handling
    BY <1>2 DEF C!Bind, C!BindFails, C!Ack, C!Stop, C!Reconnect, C!GiveUp,
       C!Disturbed
  <2>3. consumer' \in {"down", "up", "idle", "deaf"} /\ stops' \in 0..MaxStops
    BY <1>2 DEF C!Bind, C!BindFails, C!Ack, C!Stop, C!Reconnect, C!GiveUp,
       C!Disturbed
  <2>4. TypeOK' /\ Kept'
    BY <1>1, <2>1, <2>2, <2>3 DEF Kept
  <2> QED
    BY <1>1, <2>4
<1>3. ASSUME NEW id \in Id, C!on_message(id) \/ C!Remove(id)
      PROVE  IndInv'
  BY <1>1, <1>3 DEF C!on_message, C!Remove, Kept
<1> QED
  BY <1>2, <1>3 DEF C!Next

LEMMA Invariance == Spec => []IndInv
<1>1. IndInv /\ [Next]_vars => IndInv'
  <2> SUFFICES ASSUME IndInv, [Next]_vars PROVE IndInv'
    OBVIOUS
  <2>1. CASE UNCHANGED vars
    BY <2>1 DEF vars, producerOnly, consumerOnly, IndInv, TypeOK, P!TypeOK,
       C!TypeOK, PendingIsUnanswered, Numbers, Kept
  <2> QED
    BY <2>1, ProducerSteps, ConsumerSteps DEF Next
<1> QED
  BY <1>1, InitIndInv, PTL DEF Spec
-----------------------------------------------------------------------------
\* The state of producer, broker and consumer is well typed.
THEOREM TypeCorrect == Spec => []TypeOK
<1>1. IndInv => TypeOK
  BY DEF IndInv
<1> QED
  BY <1>1, Invariance, PTL

\* The map of pending messages holds exactly the messages without a verdict
\* (py 91 and 55-56, js 144 and 172), for every order of sends and answers.
THEOREM PendingMessagesAreUnanswered == Spec => []PendingIsUnanswered
<1>1. IndInv => PendingIsUnanswered
  BY DEF IndInv
<1> QED
  BY <1>1, Invariance, PTL

\* What the Node producer reported as acknowledged is in the queue or was
\* printed by the consumer (js 158-174).
THEOREM AcknowledgedMessagesAreSafe == Spec => []AckedIsSafe
<1>1. IndInv => AckedIsSafe
  BY DEF IndInv, Kept, AckedIsSafe
<1> QED
  BY <1>1, Invariance, PTL

\* Queue and consumer deliver at least once, whatever connections do and
\* however often the consumer is stopped.
THEOREM DeliveryRefinement == Spec => ImplementsDelivery
<1>1. Init => D!Init
  BY DEF Init, P!Init, C!Init, D!Init
<1>2. IndInv /\ [Next]_vars => [D!Next]_<<stored, handled, removed, stops>>
  <2> SUFFICES ASSUME IndInv, [Next]_vars
               PROVE  D!Next \/ UNCHANGED <<stored, handled, removed, stops>>
    OBVIOUS
  <2>1. CASE P!Next /\ UNCHANGED consumerOnly
    <3>1. \/ UNCHANGED stored
          \/ \E id \in P!Id : stored' = stored \cup {id}
      BY <2>1 DEF P!Next, P!Main, P!EnsurePython, P!EnsureNode, P!CreateQueue,
         P!Rerun, P!Connect, P!ConnectFails, P!PublishFails, P!EndLoop,
         P!ClosePython, P!TickEnd, P!CloseNode, P!Interrupt, P!Drop, P!Retry,
         P!Register, P!Publish, P!Tick, P!TickThrows, P!Handlers, P!Answers,
         P!on_publish_receipt, P!Acknowledged, P!Rejected, P!Store, P!Refuse,
         P!broker
    <3> QED
      BY <2>1, <3>1 DEF consumerOnly, D!Next, D!Accept, P!Id, Id
  <2>2. CASE C!Next /\ UNCHANGED producerOnly
    <3>1. CASE C!Bind \/ C!BindFails \/ C!Ack
      BY <2>2, <3>1 DEF producerOnly, C!Bind, C!BindFails, C!Ack
    <3>2. CASE C!Stop \/ C!Reconnect \/ C!GiveUp
      BY <2>2, <3>2 DEF producerOnly, C!Stop, C!Reconnect, C!GiveUp,
         C!Disturbed, D!Next, D!Stop
    <3>3. ASSUME NEW id \in Id, C!on_message(id)
          PROVE  D!Handle(id)
      BY <2>2, <3>3 DEF producerOnly, C!on_message, D!Handle, IndInv, Kept
    <3>4. ASSUME NEW id \in Id, C!Remove(id)
          PROVE  D!Remove({id})
      <4>1. (removed \cup {id}) \ handled = {} /\ id \in stored
        BY <3>4 DEF C!Remove, IndInv, Kept
      <4>2. Cardinality((removed \cup {id}) \ handled) = 0 /\ stops \in Nat
        BY <4>1, FS_EmptySet, SolaceAssumption DEF IndInv, TypeOK, C!TypeOK
      <4> QED
        BY <2>2, <3>4, <4>1, <4>2
           DEF producerOnly, C!Remove, D!Remove, Cardinality, D!Cardinality
    <3> QED
      BY <2>2, <3>1, <3>2, <3>3, <3>4 DEF C!Next, D!Next
  <2>3. CASE UNCHANGED vars
    BY <2>3 DEF vars, producerOnly, consumerOnly
  <2> QED
    BY <2>1, <2>2, <2>3 DEF Next
<1> QED
  BY <1>1, <1>2, Invariance, PTL DEF Spec, ImplementsDelivery, D!Spec, D!deliveryVars
-----------------------------------------------------------------------------
\* A message leaves the queue only after the consumer printed it (py 28, js
\* 55), and nothing is printed that was not stored, for either script and
\* through lost answers, acknowledgements and connections.
THEOREM NothingIsLost ==
  Spec => [](/\ stored \ spool \subseteq handled
             /\ spool \cup handled \subseteq stored)
<1>1. IndInv => /\ stored \ spool \subseteq handled
                /\ spool \cup handled \subseteq stored
  BY DEF IndInv, Kept
<1> QED
  BY <1>1, Invariance, PTL

\* "ACK OK" and "Rechazado" are said of different messages, and what was said
\* is never taken back, although answers are repeated after a reconnection
\* (py 47-58, js 158-179).
THEOREM VerdictsAreFinal ==
  /\ Spec => [](acked \cap rejected = {})
  /\ Spec => [][acked \subseteq acked' /\ rejected \subseteq rejected']_vars
<1>1. IndInv => acked \cap rejected = {}
  BY DEF IndInv, PendingIsUnanswered
<1>2. [Next]_vars => acked \subseteq acked' /\ rejected \subseteq rejected'
  <2> SUFFICES ASSUME [Next]_vars, UNCHANGED <<acked, rejected>> \/ P!Handlers
               PROVE  acked \subseteq acked' /\ rejected \subseteq rejected'
    BY DEF Next, vars, producerOnly, consumerOnly, P!Next, P!Main,
       P!EnsurePython, P!EnsureNode, P!CreateQueue, P!Rerun, P!Connect,
       P!ConnectFails, P!PublishFails, P!EndLoop, P!ClosePython, P!TickEnd,
       P!CloseNode, P!Interrupt, P!Drop, P!Retry, P!Register, P!Publish, P!Tick,
       P!TickThrows, P!Answers, P!Store, P!Refuse, P!memory
  <2> QED
    BY DEF P!Handlers, P!on_publish_receipt, P!Acknowledged, P!Rejected
<1> QED
  BY <1>1, <1>2, Invariance, PTL DEF Spec

\* What a producer still has to do: the steps before the session, and two
\* for each message that is left.
MessageSteps == 2 * (MaxCount + 1 - count)
StepsLeft ==
  CASE pc = "ensure"   -> MessageSteps + (IF exists THEN 4 ELSE 7)
    [] pc = "create"   -> MessageSteps + 6
    [] pc = "stranded" -> IF exists THEN MessageSteps + 5 ELSE 0
    [] pc = "connect"  -> MessageSteps + 3
    [] pc = "loop"     -> MessageSteps + 2
    [] pc = "publish"  -> MessageSteps + 1
    [] pc = "closing"  -> 1
    [] OTHER           -> 0

\* The steps that go on to something else: all of the script but a tick
\* that throws.
Progress == P!Main \/ P!Interrupt \/ P!Rerun

\* A message that is about to be published is one of those left.
LEMMA MessageStepsType ==
  ASSUME IndInv
  PROVE  /\ count \in 1..(MaxCount + 1)
         /\ MessageSteps \in 0..(2 * MaxCount)
         /\ pc = "publish" => MessageSteps >= 2
<1>1. count \in 1..(MaxCount + 1) /\ (pc = "publish" => count <= MaxCount)
  BY DEF IndInv, TypeOK, P!TypeOK, Numbers
<1> QED
  BY <1>1, SolaceAssumption DEF MessageSteps

\* Each of these steps leaves less to do, the second start of a script that
\* only created the queue (js 101) included.
LEMMA ProgressCounts ==
  ASSUME IndInv, IndInv', Progress PROVE StepsLeft' < StepsLeft
<1> USE SolaceAssumption
<1>1. /\ count \in Nat /\ count' \in Nat
      /\ MessageSteps \in Nat /\ MessageSteps' \in Nat
      /\ pc = "publish" => MessageSteps >= 2
      /\ MessageSteps = 2 * (MaxCount + 1 - count)
      /\ MessageSteps' = 2 * (MaxCount + 1 - count')
  <2>1. /\ count \in 1..(MaxCount + 1) /\ count' \in 1..(MaxCount + 1)
        /\ pc = "publish" => count <= MaxCount
    BY DEF IndInv, TypeOK, P!TypeOK, Numbers
  <2>2. /\ MessageSteps = 2 * (MaxCount + 1 - count)
        /\ MessageSteps' = 2 * (MaxCount + 1 - count')
    BY DEF MessageSteps
  <2>3. \A c \in 1..(MaxCount + 1) :
          2 * (MaxCount + 1 - c) \in Nat /\ (c <= MaxCount => 2 * (MaxCount + 1 - c) >= 2)
    OBVIOUS
  <2>4. MessageSteps \in Nat /\ MessageSteps' \in Nat
    BY <2>1, <2>2, <2>3, Zenon
  <2>5. pc = "publish" => MessageSteps >= 2
    BY <2>1, <2>2, <2>3, Zenon
  <2>6. count \in Nat /\ count' \in Nat
    BY <2>1
  <2> QED
    BY <2>2, <2>4, <2>5, <2>6, Zenon
<1>2. count' = count => MessageSteps' = MessageSteps
  BY <1>1
<1>3. count' = count + 1 => MessageSteps' = MessageSteps - 2
  BY <1>1
<1>4. CASE P!EnsurePython \/ P!EnsureNode
  <2>1. /\ pc = "ensure" /\ count' = count
        /\ \/ exists /\ pc' \in {"connect", "failed"}
           \/ ~exists /\ pc' \in {"create", "connect", "failed"}
    BY <1>4 DEF P!EnsurePython, P!EnsureNode, P!memory
  <2> QED
    BY <1>1, <1>2, <2>1 DEF StepsLeft
<1>5. CASE P!CreateQueue
  <2>1. /\ pc = "create" /\ count' = count /\ pc' \in {"stranded", "failed"}
    BY <1>5 DEF P!CreateQueue, P!memory
  <2> QED
    BY <1>1, <1>2, <2>1 DEF StepsLeft
<1>6. CASE P!Rerun
  <2>1. /\ pc = "stranded" /\ exists /\ exists' = exists /\ count' = count
        /\ pc' = "ensure"
    BY <1>6 DEF P!Rerun, P!memory, P!broker
  <2> QED
    BY <1>1, <1>2, <2>1 DEF StepsLeft
<1>7. CASE P!Connect \/ P!ConnectFails
  <2>1. pc = "connect" /\ count' = count /\ pc' \in {"loop", "done", "failed"}
    BY <1>7 DEF P!Connect, P!ConnectFails, P!memory
  <2> QED
    BY <1>1, <1>2, <2>1 DEF StepsLeft
<1>8. CASE P!Register \/ P!EndLoop \/ P!TickEnd
  <2>1. pc = "loop" /\ count' = count /\ pc' \in {"publish", "closing"}
    BY <1>8 DEF P!Register, P!EndLoop, P!TickEnd, P!memory
  <2> QED
    BY <1>1, <1>2, <2>1 DEF StepsLeft
<1>9. CASE P!Publish
  <2>1. pc = "publish" /\ count' = count + 1 /\ pc' = "loop"
    BY <1>9 DEF P!Publish
  <2> QED
    BY <1>1, <1>3, <2>1 DEF StepsLeft
<1>10. CASE P!PublishFails
  <2>1. pc = "publish" /\ count' = count /\ pc' = "closing"
    BY <1>10 DEF P!PublishFails, P!memory
  <2> QED
    BY <1>1, <2>1 DEF StepsLeft
<1>11. CASE P!Tick
  <2>1. pc = "loop" /\ pc' = "loop" /\ count' = count + 1
    BY <1>11 DEF P!Tick
  <2> QED
    BY <1>1, <1>3, <2>1 DEF StepsLeft
<1>12. CASE P!ClosePython \/ P!CloseNode
  <2>1. pc = "closing" /\ pc' \in {"done", "failed"}
    BY <1>12 DEF P!ClosePython, P!CloseNode
  <2> QED
    BY <2>1 DEF StepsLeft
<1>13. CASE P!Interrupt
  <2>1. /\ pc \in {"ensure", "create", "connect", "loop", "publish", "closing"}
        /\ \/ pc \in {"loop", "publish"} /\ pc' = "closing"
           \/ pc' = "failed"
    BY <1>13 DEF P!Interrupt, P!Ended, IndInv, TypeOK, P!TypeOK
  <2> QED
    BY <1>1, <2>1 DEF StepsLeft
<1> QED
  BY <1>4, <1>5, <1>6, <1>7, <1>8, <1>9, <1>10, <1>11, <1>12, <1>13
     DEF Progress, P!Main

\* The safety half of Ends: whatever broker and library do, a producer takes
\* 2 * MaxCount + 7 steps at most besides ticks that throw (js 149-151),
\* and nothing that happens around it gives it more to do.  Only those ticks
\* can go on for ever.
THEOREM ProducerRunsOut ==
  /\ Spec => [](StepsLeft \in 0..(2 * MaxCount + 7))
  /\ Spec => [][/\ StepsLeft' <= StepsLeft
                /\ Progress => StepsLeft' < StepsLeft]_vars
<1>1. IndInv => StepsLeft \in 0..(2 * MaxCount + 7)
  <2> SUFFICES ASSUME IndInv PROVE StepsLeft \in 0..(2 * MaxCount + 7)
    OBVIOUS
  <2>1. MessageSteps \in 0..(2 * MaxCount)
    BY MessageStepsType
  <2> QED
    BY <2>1, SolaceAssumption DEF StepsLeft
<1>2. IndInv /\ IndInv' /\ [Next]_vars
        => /\ StepsLeft' <= StepsLeft
           /\ Progress => StepsLeft' < StepsLeft
  <2> SUFFICES ASSUME IndInv, IndInv', [Next]_vars
               PROVE  /\ StepsLeft' <= StepsLeft
                      /\ Progress => StepsLeft' < StepsLeft
    OBVIOUS
  <2>1. StepsLeft \in Int /\ StepsLeft' \in Int
    <3>1. count \in 1..(MaxCount + 1) /\ count' \in 1..(MaxCount + 1)
      BY DEF IndInv, TypeOK, P!TypeOK
    <3>2. MessageSteps \in Int /\ MessageSteps' \in Int
      BY <3>1, SolaceAssumption DEF MessageSteps
    <3> QED
      BY <3>2 DEF StepsLeft
  <2>2. CASE Progress
    BY <2>1, <2>2, ProgressCounts
  <2>3. CASE ~Progress
    <3>1. UNCHANGED <<pc, count, exists>>
      BY <2>3 DEF Progress, Next, vars, producerOnly, consumerOnly, P!Next,
         P!TickThrows, P!Handlers, P!Answers, P!Drop, P!Retry, P!Store,
         P!Refuse, P!on_publish_receipt, P!Acknowledged, P!Rejected, P!memory,
         P!library, P!broker, C!Next, C!Bind, C!BindFails, C!Ack, C!Stop,
         C!Reconnect, C!GiveUp, C!Disturbed, C!on_message, C!Remove
    <3>2. StepsLeft' = StepsLeft
      BY <3>1 DEF StepsLeft, MessageSteps
    <3> QED
      BY <2>1, <2>3, <3>2
  <2> QED
    BY <2>2, <2>3
<1> QED
  BY <1>1, <1>2, Invariance, PTL DEF Spec
=============================================================================
