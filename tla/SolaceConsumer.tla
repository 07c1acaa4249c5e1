--------------------------- MODULE SolaceConsumer ---------------------------
(***************************************************************************)
(* The consumers of kubernetes/solace/samples/queue-tcp-persistent: bind   *)
(* to the durable queue, print each message and acknowledge it.            *)
(*                                                                         *)
(*   "python"  python/consumer-queue-tcp.py                                *)
(*   "node"    nodejs/consumer-queue-tcp.js                                *)
(*                                                                         *)
(* The broker is external: it delivers what the queue holds, again what    *)
(* was not acknowledged, and removes what was.  A process that ended is    *)
(* started again by its user, or by Kubernetes (nodejs/deployment.yml).    *)
(***************************************************************************)
EXTENDS Integers, FiniteSets

CONSTANTS Id,         \* message identifiers
          MaxStops    \* bound of the model: stops and losses of the connection

VARIABLES
  script,      \* the script that runs
  exists,      \* the broker has the queue
  spool,       \* the messages in the queue
  consumer,    \* "down", "up", or a process that hears nothing: "idle", it
               \* was never bound, or "deaf", its connection was given up
  handling,    \* the message that on_message printed and did not acknowledge
  acks,        \* acknowledgements on their way to the broker
  handled,     \* messages printed, once or more
  removed,     \* history: messages the broker removed from the queue
  stops        \* stops so far

consumerVars == <<script, exists, spool, consumer, handling, acks, handled,
                  removed, stops>>

Init ==
  /\ consumer = "down"
  /\ handling = {} /\ acks = {} /\ handled = {} /\ removed = {} /\ stops = 0

\* py 41-51: start raises when there is no such queue, and the script ends
\* (59-63); js 28-58.
Bind ==
  /\ consumer = "down" /\ exists
  /\ consumer' = "up"
  /\ UNCHANGED <<script, exists, spool, handling, acks, handled, removed, stops>>

\* js 34-36: an error of the consumer is a line in the log; nothing tries
\* to bind again.
BindFails ==
  /\ script = "node" /\ consumer = "down" /\ ~exists
  /\ consumer' = "idle"
  /\ UNCHANGED <<script, exists, spool, handling, acks, handled, removed, stops>>

\* Mutant of on_message: the message is acknowledged before it is printed.
on_message_ackFirst(id) ==
  /\ consumer = "up" /\ handling = {}
  /\ id \in spool \ acks
  /\ handling' = {id} /\ acks' = acks \cup {id}
  /\ UNCHANGED <<script, exists, spool, consumer, handled, removed, stops>>

\* py 15-25, js 41-54.
on_message(id) ==
  /\ consumer = "up" /\ handling = {}
  /\ id \in spool \ acks
  /\ handling' = {id} /\ handled' = handled \cup {id}
  /\ UNCHANGED <<script, exists, spool, consumer, acks, removed, stops>>

\* Mutant of Ack: the handler never comes back.
Ack_hangs ==
  /\ handling # {}
  /\ acks' = acks \cup handling
  /\ UNCHANGED <<script, exists, spool, consumer, handling, handled, removed, stops>>

\* py 28-31, js 55.
Ack ==
  /\ handling # {}
  /\ acks' = acks \cup handling /\ handling' = {}
  /\ UNCHANGED <<script, exists, spool, consumer, handled, removed, stops>>

\* The broker removes what was acknowledged.
Remove(id) ==
  /\ id \in acks
  /\ acks' = acks \ {id} /\ spool' = spool \ {id} /\ removed' = removed \cup {id}
  /\ UNCHANGED <<script, exists, consumer, handling, handled, stops>>

\* Acknowledgements that were not sent or have not arrived are lost; ack
\* raises and py 30-31 prints the error.
Disturbed ==
  /\ stops < MaxStops /\ stops' = stops + 1
  /\ handling' = {} /\ acks' = {}
  /\ UNCHANGED <<script, exists, spool, handled, removed>>

\* Ctrl-C (py 61-63), or a kill.
Stop ==
  /\ consumer \in {"up", "idle", "deaf"} /\ consumer' = "down"
  /\ Disturbed

\* A lost connection, which the library sets up again.
Reconnect == consumer = "up" /\ UNCHANGED consumer /\ Disturbed

\* Or it gives up after its retries.  Only an exception of the main thread
\* ends the loop of py 56-57, and js has no handler for the end of a session:
\* the process goes on and nothing calls connect again.
GiveUp == consumer = "up" /\ consumer' = "deaf" /\ Disturbed

Next == \/ Bind \/ BindFails \/ Ack \/ Stop \/ Reconnect \/ GiveUp
        \/ \E id \in Id : on_message(id) \/ Remove(id)

TypeOK ==
  /\ consumer \in {"down", "up", "idle", "deaf"}
  /\ handling \in SUBSET Id /\ acks \in SUBSET Id
  /\ handled \in SUBSET Id /\ removed \in SUBSET Id
  /\ stops \in 0..MaxStops
=============================================================================
