------------------------------ MODULE Delivery ------------------------------
(***************************************************************************)
(* What a queue or a topic and its consumer promise together: what the     *)
(* broker accepted is handled at least once, and the broker lets go of a   *)
(* message only when it was handled, up to the messages a consumer may     *)
(* have in hand and those that a stop of the consumer may cost.            *)
(***************************************************************************)
EXTENDS Naturals, FiniteSets

CONSTANTS Message,
          InHand,       \* messages let go of while the consumer has them
          LossPerStop   \* messages that one stop may cost

VARIABLES accepted,   \* stored by the broker
          handled,    \* printed or counted by the consumer
          removed,    \* the broker will not deliver it again
          stops       \* stops of the consumer

deliveryVars == <<accepted, handled, removed, stops>>

Init == accepted = {} /\ handled = {} /\ removed = {} /\ stops = 0

Accept(m) ==
  /\ accepted' = accepted \cup {m}
  /\ UNCHANGED <<handled, removed, stops>>

Handle(m) ==
  /\ m \in accepted
  /\ handled' = handled \cup {m}
  /\ UNCHANGED <<accepted, removed, stops>>

Remove(R) ==
  /\ R \subseteq accepted
  /\ Cardinality((removed \cup R) \ handled) <= InHand + LossPerStop * stops
  /\ removed' = removed \cup R
  /\ UNCHANGED <<accepted, handled, stops>>

Stop == stops' = stops + 1 /\ UNCHANGED <<accepted, handled, removed>>

Next == \/ \E m \in Message : Accept(m) \/ Handle(m)
        \/ \E R \in SUBSET Message : Remove(R)
        \/ Stop

Spec == Init /\ [][Next]_deliveryVars
=============================================================================
