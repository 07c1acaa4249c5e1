SPECIFICATION FairSpec
CONSTANTS
  Pid = {p1, p2, p3}
  Tool = {"solace", "confluent"}
  Port = {8088, 9092}
  Service = {"solace", "kafka-0", "ksqldb"}
  Clients = {9092}
  NoPid <- MC_NoPid
  NoPort <- MC_NoPort
  NoService <- MC_NoService
  plan <- MC_plan
  terms <- MC_terms
INVARIANTS TypeOK LastForwardWins ClosedAtEnd
PROPERTY ReportComesTrue
