------------------------------ MODULE MCWaitPod ------------------------------
(* Instances of WaitPod: the retries of the script, and two pods.           *)
EXTENDS WaitPod

MC_NoPod == 0
=============================================================================
