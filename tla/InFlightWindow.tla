--------------------------- MODULE InFlightWindow ---------------------------
(***************************************************************************)
(* What a flow-controlled sample producer promises, whatever its client    *)
(* library: it hands over each message once, keeps at most Window of them  *)
(* unanswered, and counts a message as confirmed or as failed at most      *)
(* once.  Answers come one or several at a time.  A message that is never  *)
(* answered keeps its place in the window until the end of the test.       *)
(***************************************************************************)
EXTENDS Naturals, FiniteSets

CONSTANTS Id,       \* message identifiers
          Window    \* bound on the unanswered messages

VARIABLES inFlight,   \* handed over, not answered
          confirmed,  \* confirmed, each counted once
          failed      \* given up by the client library

windowVars == <<inFlight, confirmed, failed>>

Init == inFlight = {} /\ confirmed = {} /\ failed = {}

Send(id) ==
  /\ id \notin inFlight \cup confirmed \cup failed
  /\ Cardinality(inFlight) < Window
  /\ inFlight' = inFlight \cup {id}
  /\ UNCHANGED <<confirmed, failed>>

Settle(C, F) ==
  /\ C \cap F = {}
  /\ inFlight' = inFlight \ (C \cup F)
  /\ confirmed' = confirmed \cup C
  /\ failed' = failed \cup F

Next == \/ \E id \in Id : Send(id)
        \/ \E C, F \in SUBSET inFlight : Settle(C, F)

Spec == Init /\ [][Next]_windowVars
=============================================================================
