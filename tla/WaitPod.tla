------------------------------- MODULE WaitPod -------------------------------
(***************************************************************************)
(* wait_pod_running (scripts/kubernetes/wait-pod-running.sh) and the       *)
(* spinner that watches its kubectl wait (scripts/spinner.sh), while the   *)
(* cluster creates, restarts and deletes pods.                             *)
(***************************************************************************)
EXTENDS Integers, FiniteSets

CONSTANTS
  Pod,         \* pods whose name starts with $POD_NAME, in the order of names
  NoPod,
  MAX_RETRIES, MAX_WAIT_RETRIES

ASSUME WaitAssumption ==
  /\ Pod \subseteq Nat /\ NoPod \notin Pod
  /\ MAX_RETRIES \in Nat \ {0} /\ MAX_WAIT_RETRIES \in Nat \ {0}

VARIABLES
  pods,        \* the condition ContainersReady of each pod, or absent
  wasReady,    \* history: the pods ready at some time of the last attempt
  pc,
  COUNT, POD, WAIT_COUNT,
  READY,       \* what kubectl get printed: "True", "False" or nothing
  WAIT_RC,     \* exit code 0 of the last kubectl wait
  child,       \* the kubectl wait that runs in the background
  rc           \* what wait_pod_running returned

vars == <<pods, wasReady, pc, COUNT, POD, WAIT_COUNT, READY, WAIT_RC, child, rc>>
locals == <<COUNT, POD, WAIT_COUNT, READY, WAIT_RC>>

Exists == {p \in Pod : pods[p] # "absent"}
ReadyPods == {p \in Pod : pods[p] = "ready"}

\* kubectl get pods -o name | grep | head -1: redisinsight has redis for a
\* prefix too.
FirstPod == {p \in Exists : \A r \in Exists : p <= r}

\* What kubectl get -o jsonpath may print; nothing when it fails.
Condition(p) ==
  {""} \cup (IF p \notin Exists THEN {} ELSE
             IF pods[p] = "ready" THEN {"True"} ELSE {"False", ""})

Goto(l) == pc' = l
Return(n) == pc' = "done" /\ rc' = n

Init ==
  /\ pods \in [Pod -> {"absent", "unready", "ready"}]
  /\ wasReady = {}
  /\ pc = "idle"
  /\ COUNT = 0 /\ POD = NoPod /\ WAIT_COUNT = 0
  /\ READY = "" /\ WAIT_RC = FALSE
  /\ child = "none" /\ rc = "none"
-----------------------------------------------------------------------------
(* Mutants of the actions below.                                           *)

\* It asks for the pod by its prefix once more.
CheckReady_prefix ==
  /\ pc = "check"
  /\ \E p \in FirstPod : READY' \in Condition(p)
  /\ \/ READY' = "True" /\ Return("0")
     \/ READY' # "True" /\ Goto("wait") /\ UNCHANGED rc
  /\ UNCHANGED <<pods, wasReady, COUNT, POD, WAIT_COUNT, WAIT_RC, child>>

\* COUNT is not incremented when kubectl get pods prints nothing.
NotFound_noCount ==
  /\ pc = "list"
  /\ IF COUNT < MAX_RETRIES THEN Goto("list") /\ UNCHANGED rc ELSE Return("1")
  /\ UNCHANGED <<pods, wasReady, locals, child>>

\* The spinner stops at its limit, and leaves the process.
SpinnerReturns_early ==
  /\ pc = "spin" /\ Goto("verify")
  /\ WAIT_RC' = (child = "rc0")
  /\ child' = IF child = "running" THEN child ELSE "none"
  /\ UNCHANGED <<pods, wasReady, COUNT, POD, WAIT_COUNT, READY, rc>>

\* One attempt too many.
Verify_le ==
  /\ pc = "verify"
  /\ READY' \in Condition(POD)
  /\ Goto(IF ~(WAIT_RC /\ READY' = "True") /\ WAIT_COUNT <= MAX_WAIT_RETRIES
            THEN "wait" ELSE "evaluate")
  /\ UNCHANGED <<pods, wasReady, COUNT, POD, WAIT_COUNT, WAIT_RC, child, rc>>
-----------------------------------------------------------------------------
Call ==
  /\ pc \in {"idle", "done"} /\ Goto("list")
  /\ COUNT' = 0 /\ POD' = NoPod /\ WAIT_COUNT' = 0 /\ WAIT_RC' = FALSE
  /\ rc' = "none"
  /\ wasReady' = ReadyPods
  /\ UNCHANGED <<pods, READY, child>>

\* Lines 16-22: the first pod with the prefix, for the rest of the call.
Found ==
  /\ pc = "list" /\ Goto("check")
  /\ POD' \in FirstPod
  /\ wasReady' = ReadyPods
  /\ UNCHANGED <<pods, COUNT, WAIT_COUNT, READY, WAIT_RC, child, rc>>

\* Lines 23-33: no such pod, or kubectl failed.
NotFound ==
  /\ pc = "list"
  /\ COUNT' = COUNT + 1
  /\ IF COUNT' < MAX_RETRIES THEN Goto("list") /\ UNCHANGED rc ELSE Return("1")
  /\ UNCHANGED <<pods, wasReady, POD, WAIT_COUNT, READY, WAIT_RC, child>>

\* Lines 39-44.
CheckReady ==
  /\ pc = "check"
  /\ READY' \in Condition(POD)
  /\ \/ READY' = "True" /\ Return("0")
     \/ READY' # "True" /\ Goto("wait") /\ UNCHANGED rc
  /\ UNCHANGED <<pods, wasReady, COUNT, POD, WAIT_COUNT, WAIT_RC, child>>

\* Lines 68-73: kubectl wait in the background, under the spinner.
StartWait ==
  /\ pc = "wait" /\ Goto("spin")
  /\ WAIT_COUNT' = WAIT_COUNT + 1
  /\ child' = "running"
  /\ wasReady' = ReadyPods
  /\ UNCHANGED <<pods, COUNT, POD, READY, WAIT_RC, rc>>

\* spinner.sh 77-89: it leaves its loop when the process is gone, and
\* returns its exit code.
SpinnerReturns ==
  /\ pc = "spin" /\ child # "running" /\ Goto("verify")
  /\ WAIT_RC' = (child = "rc0")
  /\ child' = "none"
  /\ UNCHANGED <<pods, wasReady, COUNT, POD, WAIT_COUNT, READY, rc>>

\* spinner.sh 95-108: after 300 seconds.
SpinnerKills ==
  /\ pc = "spin" /\ child = "running"
  /\ child' = "killed"
  /\ UNCHANGED <<pods, wasReady, pc, locals, rc>>

\* Lines 76-98.
Verify ==
  /\ pc = "verify"
  /\ READY' \in Condition(POD)
  /\ Goto(IF ~(WAIT_RC /\ READY' = "True") /\ WAIT_COUNT < MAX_WAIT_RETRIES
            THEN "wait" ELSE "evaluate")
  /\ UNCHANGED <<pods, wasReady, COUNT, POD, WAIT_COUNT, WAIT_RC, child, rc>>

\* Lines 101-111.
Evaluate ==
  /\ pc = "evaluate"
  /\ Return(IF WAIT_RC /\ READY = "True" THEN "0" ELSE "1")
  /\ UNCHANGED <<pods, wasReady, locals, child>>
-----------------------------------------------------------------------------
\* kubectl wait sees the condition, or its three minutes are over, or the
\* pod is gone.
WaitEnds ==
  /\ child = "running"
  /\ \/ POD \in ReadyPods /\ child' = "rc0"
     \/ child' = "rc1"
  /\ UNCHANGED <<pods, wasReady, pc, locals, rc>>

\* The cluster: a pod is created or deleted, its containers become ready,
\* crash or start again.
PodStep(p) ==
  /\ \E c \in {"absent", "unready", "ready"} : pods' = [pods EXCEPT ![p] = c]
  /\ wasReady' = wasReady \cup {r \in Pod : pods'[r] = "ready"}
  /\ UNCHANGED <<pc, locals, child, rc>>

Script == \/ Found \/ NotFound \/ CheckReady \/ StartWait \/ SpinnerReturns
          \/ SpinnerKills \/ Verify \/ Evaluate

Next == Call \/ Script \/ WaitEnds \/ \E p \in Pod : PodStep(p)

Spec == Init /\ [][Next]_vars

\* The script goes on, its 300 seconds pass; the cluster may do nothing.
FairSpec == Spec /\ WF_vars(Script)
-----------------------------------------------------------------------------
Labels == {"idle", "list", "check", "wait", "spin", "verify", "evaluate", "done"}

TypeOK ==
  /\ pods \in [Pod -> {"absent", "unready", "ready"}]
  /\ wasReady \subseteq Pod
  /\ pc \in Labels
  /\ COUNT \in 0..MAX_RETRIES
  /\ POD \in Pod \cup {NoPod}
  /\ WAIT_COUNT \in 0..MAX_WAIT_RETRIES
  /\ READY \in {"True", "False", ""}
  /\ WAIT_RC \in BOOLEAN
  /\ child \in {"none", "running", "rc0", "rc1", "killed"}
  /\ rc \in {"none", "0", "1"}

\* wait-pod-running.sh 4-5, 80 and 101: when it returns 0, the pod it found
\* and names in its message was ready during its last attempt: after the
\* pod was chosen, and not before the last kubectl wait. Other pods with the
\* prefix, and earlier attempts, do not count, although list, check, wait and
\* the check after it are answered at four moments. That the pod is the one
\* the caller means is not said: line 16 takes the first with the prefix.
ReadyForItsPod == rc = "0" => POD \in wasReady

\* spinner.sh 77-89: no kubectl wait is left behind when the call is over,
\* not even one that hangs.
NoChildLeft == pc \in {"list", "check", "wait", "verify", "done"} =>
                 child = "none"

\* The call ends, whatever the pod does: 5 attempts to find it, 3 to see it
\* ready, and a limit on each.
CallEnds == pc = "list" ~> pc = "done"
=============================================================================
