------------------------------ MODULE Namespace ------------------------------
(***************************************************************************)
(* The namespace life cycle of the kubernetes tools:                       *)
(* scripts/kubernetes/create-namespace.sh, create-resources.sh,            *)
(* delete-resources.sh and delete-namespace.sh, as one run of start.sh     *)
(* after the other calls them, in one terminal or in several, while the    *)
(* namespace controller of the cluster works on its own.                   *)
(*                                                                         *)
(* What the terminals share is not only the cluster: `kubectl config       *)
(* set-context` writes the current namespace to the kubeconfig file of the *)
(* user, and `kubectl proxy` takes a fixed port of the machine.            *)
(***************************************************************************)
EXTENDS Integers, Sequences

CONSTANTS
  Shell,        \* terminals in which start.sh is run
  Tool,
  Namespaces,   \* the namespaces of the cluster
  NoNamespace,  \* the empty argument, and the missing file
  own,          \* [Tool -> ..] the argument of create_namespace
  yml,          \* [Tool -> ..] the name that the tool's namespace.yml declares
  pinned,       \* [Tool -> BOOLEAN] the manifest names the namespace itself
  deletes,      \* [Tool -> Seq(Namespaces)] the delete_namespace calls
  sweeps,       \* [Tool -> BOOLEAN] the uninstaller calls delete_resources
  again,        \* [Tool -> BOOLEAN] it then runs kubectl delete namespace
  Preexisting   \* namespaces the cluster may already have

ASSUME NamespaceAssumption ==
  /\ NoNamespace \notin Namespaces
  /\ own \in [Tool -> Namespaces \cup {NoNamespace}]
  /\ yml \in [Tool -> Namespaces \cup {NoNamespace}]
  /\ pinned \in [Tool -> BOOLEAN]
  /\ deletes \in [Tool -> Seq(Namespaces) \ {<<>>}]
  /\ sweeps \in [Tool -> BOOLEAN]
  /\ again \in [Tool -> BOOLEAN]
  /\ Preexisting \subseteq Namespaces

VARIABLES
  ns,        \* status.phase of each namespace
  objects,   \* the tools whose manifest is applied in each namespace
  context,   \* the namespace of the current context in the kubeconfig
  proxy,     \* a kubectl proxy is listening on its port
  pc,        \* the next command of each terminal
  tool,      \* the tool it works on
  left,      \* the namespaces its uninstaller has yet to delete
  errexit,   \* set -eo pipefail is on
  trap       \* PROXY_PID of the EXIT trap: none, the live proxy, or a dead one

vars == <<ns, objects, context, proxy, pc, tool, left, errexit, trap>>
cluster == <<ns, objects>>
session == <<tool, left>>
host == <<proxy, errexit, trap>>

Phase(n) == IF n \in Namespaces THEN ns[n] ELSE "Absent"

Goto(s, l) == pc' = [pc EXCEPT ![s] = l]

\* A command of the uninstaller fails: with errexit on, the shell exits.
Failed(s, l) == Goto(s, IF errexit[s] THEN "exit1" ELSE l)

Init ==
  /\ ns \in [Namespaces -> {"Absent", "Active"}]
  /\ \A n \in Namespaces \ Preexisting : ns[n] = "Absent"
  /\ objects \in [Namespaces -> SUBSET Tool]
  /\ \A n \in Namespaces : \A t \in objects[n] :
       /\ ns[n] = "Active"
       /\ \E i \in 1..Len(deletes[t]) : deletes[t][i] = n
  /\ context = NoNamespace
  /\ proxy = FALSE
  /\ pc = [s \in Shell |-> "idle"]
  /\ tool \in [Shell -> Tool]
  /\ left = [s \in Shell |-> <<>>]
  /\ errexit = [s \in Shell |-> FALSE]
  /\ trap = [s \in Shell |-> "none"]
-----------------------------------------------------------------------------
(* Mutants of the actions below: the same code with a plausible mistake.   *)

\* `return 1` is handed on to a caller that has no code for it.
GetNamespace_returns(s) ==
  /\ pc[s] = "get"
  /\ Goto(s, IF Phase(own[tool[s]]) # "Absent" THEN "status" ELSE "return")
  /\ UNCHANGED <<cluster, context, session, host>>

\* The proxy is killed at the end of the function, not by a trap on EXIT.
EndSession_noTrap(s) ==
  /\ pc[s] \in {"installed", "uninstalled", "exit0", "exit1"}
  /\ Goto(s, "idle")
  /\ proxy' = (proxy /\ ~(trap[s] = "live" /\ pc[s] = "uninstalled"))
  /\ trap' = [trap EXCEPT ![s] = "none"]
  /\ errexit' = [errexit EXCEPT ![s] = FALSE]
  /\ left' = [left EXCEPT ![s] = <<>>]
  /\ UNCHANGED <<cluster, context, tool>>

\* The context is switched only for a namespace that was just created.
CheckStatus_keepsContext(s) ==
  /\ pc[s] = "status"
  /\ Goto(s, CASE Phase(own[tool[s]]) = "Absent" -> "exit1"
               [] Phase(own[tool[s]]) = "Terminating" -> "exit0"
               [] Phase(own[tool[s]]) = "Active" -> "apply")
  /\ UNCHANGED <<cluster, context, session, host>>

\* "No es necesaria su creacion": an existing namespace needs nothing else.
GetNamespace_found(s) ==
  /\ pc[s] = "get"
  /\ Goto(s, CASE Phase(own[tool[s]]) # "Absent" \/ yml[tool[s]] = NoNamespace
                    -> "apply"
               [] OTHER -> "apply_ns")
  /\ UNCHANGED <<cluster, context, session, host>>

\* kubectl delete namespace without --timeout.
ReportDeleted_noTimeout(s) ==
  /\ pc[s] = "dn_wait" /\ Goto(s, "dn_deleted")
  /\ Phase(Head(left[s])) = "Absent"
  /\ UNCHANGED <<cluster, context, session, host>>
-----------------------------------------------------------------------------
(* start.sh: one action on one tool, and the exit of the shell.            *)

StartInstall(s, t) ==
  /\ pc[s] = "idle" /\ Goto(s, "get")
  /\ tool' = [tool EXCEPT ![s] = t]
  /\ UNCHANGED <<cluster, context, left, host>>

StartUninstall(s, t) ==
  /\ pc[s] = "idle" /\ Goto(s, "dr_context")
  /\ tool' = [tool EXCEPT ![s] = t]
  /\ left' = [left EXCEPT ![s] = deletes[t]]
  /\ UNCHANGED <<cluster, context, host>>

\* The shell exits; `trap killproxy EXIT` (delete-namespace.sh 60-64) kills
\* the process PROXY_PID names at that time.
EndSession(s) ==
  /\ pc[s] \in {"installed", "uninstalled", "exit0", "exit1"}
  /\ Goto(s, "idle")
  /\ proxy' = (proxy /\ trap[s] # "live")
  /\ trap' = [trap EXCEPT ![s] = "none"]
  /\ errexit' = [errexit EXCEPT ![s] = FALSE]
  /\ left' = [left EXCEPT ![s] = <<>>]
  /\ UNCHANGED <<cluster, context, tool>>
-----------------------------------------------------------------------------
(* create_namespace, called by create_resources or by the installer.       *)

\* Lines 17-34: look for the namespace.  `return 1` when the file is
\* missing is not looked at by the caller, which goes on to the manifest.
GetNamespace(s) ==
  /\ pc[s] = "get"
  /\ Goto(s, CASE Phase(own[tool[s]]) # "Absent" -> "status"
               [] Phase(own[tool[s]]) = "Absent" /\ yml[tool[s]] = NoNamespace
                    -> "apply"
               [] OTHER -> "apply_ns")
  /\ UNCHANGED <<cluster, context, session, host>>

\* Lines 36-40: kubectl apply creates the namespace the file declares.  Its
\* exit code is not looked at.
ApplyNamespace(s) ==
  /\ pc[s] = "apply_ns" /\ Goto(s, "status")
  /\ ns' = [ns EXCEPT ![yml[tool[s]]] = IF @ = "Absent" THEN "Active" ELSE @]
  /\ UNCHANGED <<objects, context, session, host>>

\* Lines 44-56.
CheckStatus(s) ==
  /\ pc[s] = "status"
  /\ Goto(s, CASE Phase(own[tool[s]]) = "Absent" -> "exit1"
               [] Phase(own[tool[s]]) = "Terminating" -> "exit0"
               [] Phase(own[tool[s]]) = "Active" -> "context")
  /\ UNCHANGED <<cluster, context, session, host>>

\* Lines 58-63.
SetContext(s) ==
  /\ pc[s] = "context" /\ Goto(s, "apply")
  /\ context' = own[tool[s]]
  /\ UNCHANGED <<cluster, session, host>>

\* Where kubectl puts or looks for the objects of a manifest.
Target(t, n) == IF pinned[t] THEN n ELSE context

\* create-resources.sh 17-31: kubectl apply, into an existing namespace that
\* is not being deleted, or exit 1.  It may fail there too, with a part of
\* the manifest applied or none of it.
ApplyManifest(s) ==
  LET t == tool[s]
      n == Target(t, own[t])
  IN /\ pc[s] = "apply"
     /\ \/ /\ Phase(n) = "Active"
           /\ objects' = [objects EXCEPT ![n] = @ \cup {t}]
           /\ Goto(s, "installed") \/ Goto(s, "exit1")
        \/ /\ UNCHANGED objects
           /\ Goto(s, "exit1")
     /\ UNCHANGED <<ns, context, session, host>>
-----------------------------------------------------------------------------
(* delete_resources, or what an uninstaller has in its place, for the next *)
(* namespace to delete.                                                    *)

\* delete-resources.sh 24-25.
DeleteContext(s) ==
  /\ pc[s] = "dr_context" /\ Goto(s, "dr_manifest")
  /\ context' = Head(left[s])
  /\ UNCHANGED <<cluster, session, host>>

\* Line 28: kubectl delete -f fails when it finds nothing to delete, or is
\* killed by the spinner after 300 seconds, and the spinner returns that.
DeleteManifest(s) ==
  LET t == tool[s]
      n == Target(t, Head(left[s]))
      found == n \in Namespaces /\ t \in objects[n]
  IN /\ pc[s] = "dr_manifest"
     /\ \/ /\ found /\ Goto(s, "dr_sweep")
           /\ objects' = [objects EXCEPT ![n] = @ \ {t}]
        \/ Failed(s, "dr_sweep") /\ UNCHANGED objects
     /\ UNCHANGED <<ns, context, session, host>>

\* A deletion by type empties the namespace or leaves what it cannot delete.
DeleteObjects(n) == objects' \in {objects, [objects EXCEPT ![n] = {}]}

\* Lines 30-55: the custom resource definitions, watched by the spinner, and
\* every type of object, ten seconds each.  The pipelines fail when grep
\* finds nothing, which matters under pipefail.
Sweep(s) ==
  /\ pc[s] = "dr_sweep"
  /\ IF sweeps[tool[s]]
       THEN /\ DeleteObjects(Head(left[s]))
            /\ Goto(s, "dr_rest") \/ Failed(s, "dr_rest")
       ELSE /\ Goto(s, "dn_get") \/ Failed(s, "dn_get")
            /\ UNCHANGED objects
  /\ UNCHANGED <<ns, context, session, host>>

\* Lines 56 and 61-119: kubectl delete of what is stuck, then of whatever has
\* the namespace in its name.  These have no --timeout and no spinner: kubectl
\* waits for the finalizers, and this command may never end.
SweepRest(s) ==
  /\ pc[s] = "dr_rest"
  /\ DeleteObjects(Head(left[s]))
  /\ Goto(s, "dn_get") \/ Failed(s, "dn_get")
  /\ UNCHANGED <<ns, context, session, host>>
-----------------------------------------------------------------------------
(* delete_namespace, always called as `delete_namespace N || echo ..`, so  *)
(* errexit is ignored inside and in force after it.                        *)

\* Lines 21-29.
FindNamespace(s) ==
  /\ pc[s] = "dn_get"
  /\ Goto(s, IF Phase(Head(left[s])) = "Absent" THEN "dn_return"
                                               ELSE "dn_proxy")
  /\ UNCHANGED <<cluster, context, session, host>>

\* Lines 31-66: errexit, a kubectl proxy in the background, the EXIT trap.
\* A second proxy finds the port taken and exits, so PROXY_PID names a dead
\* process; it replaces the PID that was there.  Without jq or curl the shell
\* exits before that (lines 35-55).
StartProxy(s) ==
  /\ pc[s] = "dn_proxy"
  /\ errexit' = [errexit EXCEPT ![s] = TRUE]
  /\ \/ /\ Goto(s, "dn_phase")
        /\ trap' = [trap EXCEPT ![s] = IF proxy THEN "dead" ELSE "live"]
        /\ proxy' = TRUE
     \/ Goto(s, "exit1") /\ UNCHANGED <<trap, proxy>>
  /\ UNCHANGED <<cluster, context, session>>

\* Lines 71-77 and 102-107: only an Active namespace is deleted.
ReadPhase(s) ==
  /\ pc[s] = "dn_phase"
  /\ Goto(s, IF Phase(Head(left[s])) = "Active" THEN "dn_delete"
                                               ELSE "dn_return")
  /\ UNCHANGED <<cluster, context, session, host>>

\* Line 83: the deletion is requested.
RequestDelete(s) ==
  /\ pc[s] = "dn_delete" /\ Goto(s, "dn_wait")
  /\ ns' = [ns EXCEPT ![Head(left[s])] =
              IF @ = "Active" THEN "Terminating" ELSE @]
  /\ UNCHANGED <<objects, context, session, host>>

\* Lines 83-93: kubectl returns 0 when the namespace is gone, and 1 when it
\* was not found or when the 30 seconds are over; both are reported as a
\* deletion.  kubectl has no third exit code for lines 94-99.
ReportDeleted(s) ==
  /\ pc[s] = "dn_wait" /\ Goto(s, "dn_deleted")
  /\ UNCHANGED <<cluster, context, session, host>>

\* The uninstaller goes on to its next namespace, to its own kubectl delete
\* namespace, or to its end.
Return(s) ==
  /\ pc[s] \in {"dn_deleted", "dn_return"}
  /\ left' = IF Len(left[s]) > 1 THEN [left EXCEPT ![s] = Tail(@)] ELSE left
  /\ Goto(s, CASE Len(left[s]) > 1 -> "dr_context"
               [] Len(left[s]) = 1 /\ again[tool[s]] -> "again"
               [] OTHER -> "uninstalled")
  /\ UNCHANGED <<cluster, context, tool, host>>

\* kubectl delete namespace & spinner (klaw, karavan, n8n uninstall.sh).
DeleteAgain(s) ==
  /\ pc[s] = "again"
  /\ IF Phase(Head(left[s])) = "Absent"
       THEN Failed(s, "uninstalled") /\ UNCHANGED ns
       ELSE /\ Goto(s, "again_wait")
            /\ ns' = [ns EXCEPT ![Head(left[s])] = "Terminating"]
  /\ UNCHANGED <<objects, context, session, host>>

\* The namespace goes, or the spinner kills kubectl after 300 seconds.
AgainEnds(s) ==
  /\ pc[s] = "again_wait"
  /\ \/ Phase(Head(left[s])) = "Absent" /\ Goto(s, "uninstalled")
     \/ Phase(Head(left[s])) # "Absent" /\ Failed(s, "uninstalled")
  /\ UNCHANGED <<cluster, context, session, host>>
-----------------------------------------------------------------------------
\* The namespace controller removes the contents, then the namespace.
Finalize(n) ==
  /\ ns[n] = "Terminating"
  /\ ns' = [ns EXCEPT ![n] = "Absent"]
  /\ objects' = [objects EXCEPT ![n] = {}]
  /\ UNCHANGED <<context, pc, session, host>>

\* The commands that end: the API server answers or refuses, and whatever
\* waits has a --timeout, a number of retries or the spinner.
Bounded(s) ==
  \/ EndSession(s)
  \/ GetNamespace(s) \/ ApplyNamespace(s) \/ CheckStatus(s) \/ SetContext(s)
  \/ ApplyManifest(s)
  \/ DeleteContext(s) \/ DeleteManifest(s) \/ Sweep(s)
  \/ FindNamespace(s) \/ StartProxy(s) \/ ReadPhase(s) \/ RequestDelete(s)
  \/ ReportDeleted(s) \/ Return(s) \/ DeleteAgain(s) \/ AgainEnds(s)

Command(s) == Bounded(s) \/ SweepRest(s)

Start(s) == \E t \in Tool : StartInstall(s, t) \/ StartUninstall(s, t)

Next == \/ \E s \in Shell : Start(s) \/ Command(s)
        \/ \E n \in Namespaces : Finalize(n)

Spec == Init /\ [][Next]_vars

\* A shell that has started goes on as long as its command ends.  Nothing is
\* assumed of SweepRest, nor of the controller: a namespace may be
\* Terminating for ever.
FairSpec == Spec /\ \A s \in Shell : WF_vars(Bounded(s))
-----------------------------------------------------------------------------
Labels == {"idle", "get", "apply_ns", "status", "context", "apply",
           "installed", "dr_context", "dr_manifest", "dr_sweep", "dr_rest",
           "dn_get", "dn_proxy", "dn_phase", "dn_delete", "dn_wait", "dn_deleted",
           "dn_return", "again", "again_wait", "uninstalled", "exit0", "exit1"}

TypeOK ==
  /\ ns \in [Namespaces -> {"Absent", "Active", "Terminating"}]
  /\ objects \in [Namespaces -> SUBSET Tool]
  /\ context \in Namespaces \cup {NoNamespace}
  /\ proxy \in BOOLEAN
  /\ pc \in [Shell -> Labels]
  /\ tool \in [Shell -> Tool]
  /\ left \in [Shell -> Seq(Namespaces)]
  /\ errexit \in [Shell -> BOOLEAN]
  /\ trap \in [Shell -> {"none", "live", "dead"}]

\* A kubectl proxy that is alive is in the EXIT trap of a running shell
\* (delete-namespace.sh 57-64, and its last comment: "proxy will get killed
\* by the trap"), whatever ends the shell first.
NoOrphanProxy == proxy => \E s \in Shell : trap[s] = "live"

\* The objects of a tool are in the namespace its installer asked for
\* (create-resources.sh 13-21), although kubectl takes the namespace from a
\* context that create_namespace set some commands before.
AppliedWhereAsked ==
  \A n \in Namespaces : \A t \in objects[n] : own[t] = n

\* An installer that comes to its end has its objects in an Active
\* namespace, the one create_namespace looked at (create-namespace.sh
\* 44-56), even if the previous run left that namespace half deleted.
InstalledIsActive ==
  \A s \in Shell : pc[s] = "installed" =>
    /\ Phase(own[tool[s]]) = "Active"
    /\ tool[s] \in objects[own[tool[s]]]

\* Every run of start.sh ends, even if the namespace never does, or hangs in
\* the deletions of delete-resources.sh 56-118, which have no time limit: the
\* waits of delete_namespace (line 83) and of the spinner are bounded, so
\* there is no other place where it can hang.
SessionsEnd ==
  \A s \in Shell : []<>(pc[s] = "idle") \/ <>[](pc[s] = "dr_rest")
=============================================================================
