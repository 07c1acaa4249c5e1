SPECIFICATION FairSpec
CONSTANTS
  Shell = {s1}
  Tool = {"confluent", "klaw", "keycloak"}
  Namespaces = {"confluent", "klaw", "keycloak", "solace"}
  Preexisting = {"keycloak"}
  NoNamespace <- MC_NoNamespace
  own <- MC_own
  yml <- MC_yml
  pinned <- MC_pinned
  deletes <- MC_deletes
  sweeps <- MC_sweeps
  again <- MC_again
INVARIANTS TypeOK NoOrphanProxy AppliedWhereAsked InstalledIsActive
PROPERTY SessionsEnd
