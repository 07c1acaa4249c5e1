----------------------------- MODULE MCNamespace -----------------------------
(* Instances of Namespace: the values that the tools of kubernetes/ give to *)
(* its tables.                                                              *)
EXTENDS Namespace

MC_NoNamespace == "none"
MC_own == [t \in Tool |->
  IF t = "linkerd" THEN "none" ELSE t]
MC_yml == [t \in Tool |->
  IF t = "keycloak" THEN "solace" ELSE t]
\* Every object of the manifest names its namespace.
MC_pinned == [t \in Tool |-> t \in {"confluent", "karavan", "linkerd"}]
MC_deletes == [t \in Tool |->
  IF t = "linkerd" THEN <<"emojivoto", "linkerd-viz", "linkerd">> ELSE <<t>>]
MC_sweeps == [t \in Tool |-> t \notin {"klaw", "n8n"}]
MC_again == [t \in Tool |-> t \in {"klaw", "n8n", "karavan"}]
=============================================================================
