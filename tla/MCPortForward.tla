---------------------------- MODULE MCPortForward ----------------------------
(* Two tools that share local port 8088: solace, whose uninstaller closes   *)
(* no forward, and confluent, whose term `kafka` finds kafka-0-internal but *)
(* not ksqldb.                                                              *)
EXTENDS PortForward

C(q, v) == [port |-> q, svc |-> v]
Calls(t) ==
  CASE t = "solace" -> <<C(8088, "solace"), C(9000, "solace")>>
    [] t = "confluent" -> <<C(9092, "kafka-0"), C(8088, "ksqldb")>>
    [] t = "kafbat" -> <<C(8987, "kafka-ui")>>
\* The calls of the tools to the ports of the instance.
MC_plan == [t \in Tool |-> SelectSeq(Calls(t), LAMBDA c : c.port \in Port)]
MC_terms == [t \in Tool |->
  IF t = "confluent" THEN <<{}, {"kafka-0", "kafka-ui"} \cap Service>>
                     ELSE <<>>]
MC_NoPid == "nopid"
MC_NoService == "none"
MC_NoPort == 0
=============================================================================
