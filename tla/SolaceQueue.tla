---------------------------- MODULE SolaceQueue -----------------------------
(***************************************************************************)
(* A Solace producer and the consumer of the same queue, which share       *)
(* nothing but the broker: `exists` and `spool`.                           *)
(***************************************************************************)
EXTENDS Integers, FiniteSets

CONSTANTS Scripts, MaxCount, AdWindow, MaxDrops, MaxStops

ASSUME SolaceAssumption ==
  /\ Scripts \subseteq {"python", "node"}
  /\ MaxCount \in Nat /\ AdWindow \in Nat \ {0}
  /\ MaxDrops \in Nat /\ MaxStops \in Nat

VARIABLES script, exists, spool,
          pc, count, tracked, acked, rejected, outbox, oks, nos, link, drops,
          stored,
          consumer, handling, acks, handled, removed, stops

Id == 1..MaxCount

P == INSTANCE SolaceProducer
C == INSTANCE SolaceConsumer

producerOnly == <<pc, count, tracked, acked, rejected, outbox, oks, nos, link,
                  drops, stored>>
consumerOnly == <<consumer, handling, acks, handled, removed, stops>>
vars == <<script, exists, spool, producerOnly, consumerOnly>>

Init == P!Init /\ C!Init

Next == \/ P!Next /\ UNCHANGED consumerOnly
        \/ C!Next /\ UNCHANGED producerOnly

Spec == Init /\ [][Next]_vars

\* The scripts run, the broker answers what it has received, the library
\* retries, and what ended is started again.  Nobody has to press Ctrl-C or
\* to stop a process that hears nothing, and no connection has to fail.
FairSpec ==
  /\ Spec
  /\ WF_vars(P!Main /\ UNCHANGED consumerOnly)
  /\ WF_vars(P!Handlers /\ UNCHANGED consumerOnly)
  /\ WF_vars(P!Answers /\ UNCHANGED consumerOnly)
  /\ WF_vars(P!Retry /\ UNCHANGED consumerOnly)
  /\ WF_vars((C!Bind \/ C!BindFails) /\ UNCHANGED producerOnly)
  /\ WF_vars(C!Ack /\ UNCHANGED producerOnly)
  /\ \A id \in Id :
       WF_vars((C!on_message(id) \/ C!Remove(id)) /\ UNCHANGED producerOnly)
-----------------------------------------------------------------------------
TypeOK == P!TypeOK /\ C!TypeOK

\* What the Node producer reported as "ACK OK" is in the queue or was
\* printed by the consumer, although answers, acknowledgements and
\* connections are lost in between (js 158-174, 41-55 of the consumer).
AckedIsSafe == script = "node" => acked \subseteq spool \cup handled

\* A message in the map of pending messages is exactly one without a
\* verdict: remembered before it leaves (py 91 before 99, js 144 before
\* 147), forgotten when it is acknowledged and never else, so that every
\* answer finds it and counts once.  The message that is about to leave
\* may be in it already.
PendingIsUnanswered ==
  /\ acked \cap tracked = {}
  /\ 1..(count - 1) \subseteq acked \cup tracked
  /\ tracked \cup acked \subseteq 1..count
  /\ outbox \cup rejected \subseteq tracked
  /\ oks \cup nos \subseteq outbox

\* Queue and consumer deliver at least once, and a stop of the consumer
\* costs nothing.
D == INSTANCE Delivery WITH
       Message <- Id, InHand <- 0, LossPerStop <- 0, accepted <- stored
ImplementsDelivery == D!Spec

\* What the broker stored is printed in the end, through stops of the
\* consumer and repeated connections; unless the consumer stays for ever a
\* process that hears nothing: a Node consumer that was started before there
\* was a queue (34-36), or one whose connection was given up (py 56-57).
\* There is no other way to leave a message in the queue.
EventuallyHandled ==
  \/ \A id \in Id : (id \in stored) ~> (id \in handled)
  \/ <>[](consumer \in {"idle", "deaf"})

\* A producer ends, whatever the broker does: the interval of the Node
\* script only if the connection was not given up (js 122 and 149).
Ends == <>(pc \in P!Ended \/ (script = "node" /\ link = "lost"))

\* The python producer: the messages sent to the name of the queue end up
\* in it (py 80-81), so what it reports as "ACK OK" (py 58) was stored.
AckMeansStored == acked \subseteq stored
=============================================================================
