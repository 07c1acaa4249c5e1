--------------------------- MODULE SolaceProducer ---------------------------
(***************************************************************************)
(* The persistent producers of kubernetes/solace/samples/                  *)
(* queue-tcp-persistent: a look at the queue over SEMP, a session, and a   *)
(* loop that remembers when each message left and prints "ACK OK" when     *)
(* its answer comes.                                                       *)
(*                                                                         *)
(*   "python"  python/producer-queue-tcp.py, a loop and a callback thread  *)
(*   "node"    nodejs/producer-queue-tcp.js, an interval and event         *)
(*             handlers, one at a time                                     *)
(*                                                                         *)
(* The client library is external: it keeps what was published until the   *)
(* broker answers, sends it again when a lost connection comes back, and   *)
(* gives the connection up after its retries.  So is the broker: it stores *)
(* a message, or refuses it (no such queue, no room).  Line numbers are    *)
(* preceded by py or js.                                                   *)
(***************************************************************************)
EXTENDS Integers, FiniteSets

CONSTANTS
  Scripts,     \* the scripts that may be started
  MaxCount,    \* the 90000 of py 87 and js 119
  AdWindow,    \* adWindowSize (js 45)
  MaxDrops     \* bound of the model: losses of the producer's connection

VARIABLES
  script,      \* the script that runs
  exists,      \* the broker has the queue
  spool,       \* the messages in the queue
  pc,          \* where the script stands
  count,       \* number of the next message
  tracked,     \* the keys of seguimiento_mensajes
  acked,       \* messages reported as "ACK OK"
  rejected,    \* messages reported as "Rechazado" (js 179)
  outbox,      \* published, no answer handed to the script
  oks, nos,    \* answers on their way: stored, refused
  link,        \* "down" before connect, "up", "retrying" or "lost"
  drops,       \* losses of the connection so far
  stored       \* history: every message the broker ever stored

library == <<outbox, oks, nos, link, drops>>
memory == <<count, tracked, acked, rejected>>
broker == <<exists, spool, stored>>
vars == <<script, pc, memory, library, broker>>

Id == 1..MaxCount
Ended == {"done", "failed", "stranded"}

Init ==
  /\ script \in Scripts
  /\ exists \in BOOLEAN /\ spool = {} /\ stored = {}
  /\ pc = "ensure"
  /\ count = 1 /\ tracked = {} /\ acked = {} /\ rejected = {}
  /\ outbox = {} /\ oks = {} /\ nos = {} /\ link = "down" /\ drops = 0
-----------------------------------------------------------------------------
(* Before the session.                                                     *)

\* py 36-41: whatever the answer, and even without one, the script goes on.
EnsurePython ==
  /\ script = "python" /\ pc = "ensure"
  /\ pc' = "connect"
  /\ UNCHANGED <<script, memory, library, broker>>

\* js 70-83: 200, 400 or 404, any other status, or no answer at all.
EnsureNode ==
  /\ script = "node" /\ pc = "ensure"
  /\ \/ exists /\ pc' = "connect"
     \/ ~exists /\ pc' = "create"
     \/ pc' = "failed"
  /\ UNCHANGED <<script, memory, library, broker>>

\* js 85-105: the queue is created, or the broker says no; nobody consumes
\* the body of the answer, so its 'end' never comes, the promise is never
\* settled and connect is never called.  Nothing handles an 'error'.
CreateQueue ==
  /\ pc = "create"
  /\ \/ exists' \in {exists, TRUE} /\ pc' = "stranded"
     \/ exists' = exists /\ pc' = "failed"
  /\ UNCHANGED <<script, memory, library, spool, stored>>

\* The user starts a script again that did nothing but create the queue.
Rerun ==
  /\ pc = "stranded" /\ exists
  /\ pc' = "ensure"
  /\ UNCHANGED <<script, memory, library, broker>>

\* py 72-78, js 187 and UP_NOTICE (116).
Connect ==
  /\ pc = "connect"
  /\ pc' = "loop" /\ link' = "up"
  /\ UNCHANGED <<script, memory, outbox, oks, nos, drops, broker>>

\* py 104-109: the finally block has nothing to close.  js 180: a line in
\* the log, and nothing that could happen any more.
ConnectFails ==
  /\ pc = "connect"
  /\ pc' = IF script = "python" THEN "done" ELSE "failed"
  /\ UNCHANGED <<script, memory, library, broker>>
-----------------------------------------------------------------------------
(* Mutants of the actions below: the same code with a plausible mistake.   *)

\* The python handler forgets to pop what it found.
Receipt_noPop(id) ==
  /\ script = "python" /\ id \in oks \cup nos
  /\ acked' = IF id \in tracked THEN acked \cup {id} ELSE acked
  /\ outbox' = outbox \ {id} /\ oks' = oks \ {id} /\ nos' = nos \ {id}
  /\ UNCHANGED <<script, pc, count, tracked, rejected, link, drops, broker>>

\* One handler for both events: a refused message is acknowledged.
Rejected_asAck(id) ==
  /\ script = "node" /\ id \in nos
  /\ acked' = IF id \in tracked THEN acked \cup {id} ELSE acked
  /\ tracked' = tracked \ {id}
  /\ outbox' = outbox \ {id} /\ nos' = nos \ {id}
  /\ UNCHANGED <<script, pc, count, rejected, oks, link, drops, broker>>

\* The limit is off by one.
Register_overLimit ==
  /\ script = "python" /\ pc = "loop" /\ count <= MaxCount + 1
  /\ tracked' = tracked \cup {count}
  /\ pc' = "publish"
  /\ UNCHANGED <<script, count, acked, rejected, library, broker>>

\* The interval waits for one message more than it sends.
TickEnd_never ==
  /\ script = "node" /\ pc = "loop" /\ count > MaxCount
  /\ pc' = "closing"
  /\ UNCHANGED <<script, memory, library, broker>>
-----------------------------------------------------------------------------
(* The python loop and its callback thread.                                *)

\* py 87-91: the message is remembered before it is published.
Register ==
  /\ script = "python" /\ pc = "loop" /\ count <= MaxCount
  /\ tracked' = tracked \cup {count}
  /\ pc' = "publish"
  /\ UNCHANGED <<script, count, acked, rejected, library, broker>>

\* py 93-102: the publisher buffers without a limit.
Publish ==
  /\ pc = "publish" /\ link # "lost"
  /\ outbox' = outbox \cup {count}
  /\ count' = count + 1 /\ pc' = "loop"
  /\ UNCHANGED <<script, tracked, acked, rejected, oks, nos, link, drops, broker>>

\* py 104-105: publish raises once the connection was given up.
PublishFails ==
  /\ pc = "publish" /\ link = "lost"
  /\ pc' = "closing"
  /\ UNCHANGED <<script, memory, library, broker>>

\* py 87: the loop is over.
EndLoop ==
  /\ script = "python" /\ pc = "loop" /\ count > MaxCount
  /\ pc' = "closing"
  /\ UNCHANGED <<script, memory, library, broker>>

\* py 47-58: the handler looks at the message only, never at what the
\* receipt says of it.
on_publish_receipt(id) ==
  /\ script = "python" /\ id \in oks \cup nos
  /\ acked' = IF id \in tracked THEN acked \cup {id} ELSE acked
  /\ tracked' = tracked \ {id}
  /\ outbox' = outbox \ {id} /\ oks' = oks \ {id} /\ nos' = nos \ {id}
  /\ UNCHANGED <<script, pc, count, rejected, link, drops, broker>>

\* py 106-109: terminate(500) waits for the answers, and raises when some
\* are still missing.
ClosePython ==
  /\ script = "python" /\ pc = "closing"
  /\ \/ pc' = "done"
     \/ outbox # {} /\ pc' = "failed"
  /\ link' = "lost" /\ oks' = {} /\ nos' = {}
  /\ UNCHANGED <<script, memory, outbox, drops, broker>>
-----------------------------------------------------------------------------
(* The handlers of the Node script.                                        *)

\* js 122-126.
TickEnd ==
  /\ script = "node" /\ pc = "loop" /\ count >= MaxCount
  /\ pc' = "closing"
  /\ UNCHANGED <<script, memory, library, broker>>

\* The library's publisher window: js 45 only sets its size.
HasRoom == Cardinality(outbox) < AdWindow

\* js 128-148: send takes the message when the library's window has room;
\* while the connection is being retried it may do so or not.
Tick ==
  /\ script = "node" /\ pc = "loop" /\ count < MaxCount
  /\ HasRoom /\ link \in {"up", "retrying"}
  /\ tracked' = tracked \cup {count}
  /\ outbox' = outbox \cup {count}
  /\ count' = count + 1
  /\ UNCHANGED <<script, pc, acked, rejected, oks, nos, link, drops, broker>>

\* js 149-151: send throws; the message is tried again at the next tick.
TickThrows ==
  /\ script = "node" /\ pc = "loop" /\ count < MaxCount
  /\ ~HasRoom \/ link \in {"retrying", "lost"}
  /\ tracked' = tracked \cup {count}
  /\ UNCHANGED <<script, pc, count, acked, rejected, library, broker>>

\* js 158-174.
Acknowledged(id) ==
  /\ script = "node" /\ id \in oks
  /\ acked' = IF id \in tracked THEN acked \cup {id} ELSE acked
  /\ tracked' = tracked \ {id}
  /\ outbox' = outbox \ {id} /\ oks' = oks \ {id}
  /\ UNCHANGED <<script, pc, count, rejected, nos, link, drops, broker>>

\* js 179: the message stays in the map.
Rejected(id) ==
  /\ script = "node" /\ id \in nos
  /\ rejected' = rejected \cup {id}
  /\ outbox' = outbox \ {id} /\ nos' = nos \ {id}
  /\ UNCHANGED <<script, pc, count, tracked, acked, oks, link, drops, broker>>

\* js 124: a second after the last message, answered or not.
CloseNode ==
  /\ script = "node" /\ pc = "closing"
  /\ pc' = "done" /\ link' = "lost" /\ oks' = {} /\ nos' = {}
  /\ UNCHANGED <<script, memory, outbox, drops, broker>>
-----------------------------------------------------------------------------
(* Ctrl-C, the library and the broker.                                     *)

\* `except Exception` does not catch Ctrl-C, `finally` runs (py 106); the
\* Node script has no handler and dies.
Interrupt ==
  /\ pc \notin Ended
  /\ IF script = "python" /\ pc \in {"loop", "publish"}
       THEN pc' = "closing" /\ UNCHANGED library
       ELSE /\ pc' = "failed" /\ link' = "lost" /\ oks' = {} /\ nos' = {}
            /\ UNCHANGED <<outbox, drops>>
  /\ UNCHANGED <<script, memory, broker>>

Unanswered == outbox \ (oks \cup nos)

\* The broker stores a message, perhaps for the second time if the answer
\* to the first was lost with the connection.
Store(id) ==
  /\ link = "up" /\ exists /\ id \in Unanswered
  /\ spool' = spool \cup {id} /\ stored' = stored \cup {id}
  /\ oks' = oks \cup {id}
  /\ UNCHANGED <<script, pc, memory, outbox, nos, link, drops, exists>>

\* No such queue, or no room in it.
Refuse(id) ==
  /\ link = "up" /\ id \in Unanswered
  /\ nos' = nos \cup {id}
  /\ UNCHANGED <<script, pc, memory, outbox, oks, link, drops, broker>>

Drop ==
  /\ link = "up" /\ drops < MaxDrops
  /\ link' = "retrying" /\ oks' = {} /\ nos' = {} /\ drops' = drops + 1
  /\ UNCHANGED <<script, pc, memory, outbox, broker>>

\* reconnectRetries (js 41): the connection comes back or is given up.
Retry ==
  /\ link = "retrying"
  /\ link' \in {"up", "lost"}
  /\ UNCHANGED <<script, pc, memory, outbox, oks, nos, drops, broker>>

Main == \/ EnsurePython \/ EnsureNode \/ CreateQueue \/ Connect \/ ConnectFails
        \/ Register \/ Publish \/ PublishFails \/ EndLoop \/ ClosePython
        \/ TickEnd \/ Tick \/ CloseNode

Handlers == \E id \in Id :
              on_publish_receipt(id) \/ Acknowledged(id) \/ Rejected(id)

Answers == \E id \in Id : Store(id) \/ Refuse(id)

Next == Main \/ TickThrows \/ Handlers \/ Answers \/ Drop \/ Retry
          \/ Interrupt \/ Rerun
-----------------------------------------------------------------------------
TypeOK ==
  /\ script \in Scripts
  /\ exists \in BOOLEAN
  /\ spool \in SUBSET Id /\ stored \in SUBSET Id
  /\ pc \in {"ensure", "create", "connect", "loop", "publish", "closing"}
              \cup Ended
  /\ count \in 1..(MaxCount + 1)
  /\ tracked \in SUBSET Id /\ acked \in SUBSET Id /\ rejected \in SUBSET Id
  /\ outbox \in SUBSET Id /\ oks \in SUBSET Id /\ nos \in SUBSET Id
  /\ link \in {"down", "up", "retrying", "lost"}
  /\ drops \in 0..MaxDrops
=============================================================================
