-------------------------- MODULE Namespace_proofs --------------------------
(***************************************************************************)
(* For any number of terminals and tools: the state is well typed; if      *)
(* every uninstaller deletes one namespace, its own, no kubectl proxy      *)
(* outlives its shell; if there is one terminal, the objects of a tool are *)
(* in the namespace its installer asked for, and with several those of the *)
(* tools whose manifest names it; and every session runs out of commands.  *)
(***************************************************************************)
EXTENDS Namespace, TLAPS

\* The labels at which an uninstaller still has a namespace to delete.
Deleting == {"dr_context", "dr_manifest", "dr_sweep", "dr_rest", "dn_get",
             "dn_proxy", "dn_phase", "dn_delete", "dn_wait", "dn_deleted",
             "dn_return", "again", "again_wait"}

LeftOK == \A s \in Shell : pc[s] \in Deleting => left[s] # <<>>

LEMMA HeadTail ==
  ASSUME NEW q \in Seq(Namespaces), q # <<>>
  PROVE  /\ Head(q) \in Namespaces
         /\ Tail(q) \in Seq(Namespaces)
         /\ Len(q) > 1 => Tail(q) # <<>>
OBVIOUS

LEMMA TypeInit == Init => TypeOK /\ LeftOK
<1> SUFFICES ASSUME Init PROVE TypeOK /\ LeftOK
  OBVIOUS
<1> USE NamespaceAssumption DEF Init
<1>1. /\ ns \in [Namespaces -> {"Absent", "Active", "Terminating"}]
      /\ objects \in [Namespaces -> SUBSET Tool]
      /\ context \in Namespaces \cup {NoNamespace}
  OBVIOUS
<1>2. pc \in [Shell -> Labels] /\ trap \in [Shell -> {"none", "live", "dead"}]
  BY DEF Labels
<1>3. proxy \in BOOLEAN /\ errexit \in [Shell -> BOOLEAN]
  BY Zenon
<1>4. tool \in [Shell -> Tool] /\ left \in [Shell -> Seq(Namespaces)]
  OBVIOUS
<1>5. LeftOK
  BY DEF LeftOK, Deleting
<1> QED
  BY <1>1, <1>2, <1>3, <1>4, <1>5 DEF TypeOK

\* What kubectl get namespace can show.
LEMMA PhaseType ==
  ASSUME TypeOK, NEW n
  PROVE  Phase(n) \in {"Absent", "Active", "Terminating"}
  BY DEF TypeOK, Phase

LEMMA StatusLabels ==
  ASSUME TypeOK, NEW s \in Shell, CheckStatus(s)
  PROVE  \E l \in {"exit0", "exit1", "context"} : Goto(s, l)
<1>1. CASE Phase(own[tool[s]]) = "Absent"
  BY <1>1 DEF CheckStatus
<1>2. CASE Phase(own[tool[s]]) = "Terminating"
  BY <1>2 DEF CheckStatus
<1>3. CASE Phase(own[tool[s]]) = "Active"
  BY <1>3 DEF CheckStatus
<1> QED
  BY <1>1, <1>2, <1>3, PhaseType

LEMMA TypeNext == TypeOK /\ LeftOK /\ [Next]_vars => TypeOK' /\ LeftOK'
<1> SUFFICES ASSUME TypeOK, LeftOK, [Next]_vars PROVE TypeOK' /\ LeftOK'
  OBVIOUS
<1> USE NamespaceAssumption
<1> USE DEF cluster, session, host
<1>1. ASSUME NEW s \in Shell, NEW t \in Tool, StartInstall(s, t)
      PROVE  TypeOK' /\ LeftOK'
  BY <1>1 DEF StartInstall, Goto, TypeOK, Labels, LeftOK, Deleting
<1>2. ASSUME NEW s \in Shell, NEW t \in Tool, StartUninstall(s, t)
      PROVE  TypeOK' /\ LeftOK'
  BY <1>2 DEF StartUninstall, Goto, TypeOK, Labels, LeftOK, Deleting
<1>3. ASSUME NEW s \in Shell, EndSession(s) PROVE TypeOK' /\ LeftOK'
  BY <1>3 DEF EndSession, Goto, TypeOK, Labels, LeftOK, Deleting
<1>4. ASSUME NEW s \in Shell, GetNamespace(s) PROVE TypeOK' /\ LeftOK'
  BY <1>4 DEF GetNamespace, Goto, TypeOK, Labels, LeftOK, Deleting
<1>5. ASSUME NEW s \in Shell, ApplyNamespace(s) PROVE TypeOK' /\ LeftOK'
  BY <1>5 DEF ApplyNamespace, Goto, TypeOK, Labels, LeftOK, Deleting
<1>6. ASSUME NEW s \in Shell, CheckStatus(s) PROVE TypeOK' /\ LeftOK'
  <2>1. PICK l \in {"exit0", "exit1", "context"} : Goto(s, l)
    BY <1>6, StatusLabels
  <2>2. UNCHANGED <<cluster, context, session, host>>
    BY <1>6 DEF CheckStatus
  <2> QED
    BY <2>1, <2>2 DEF Goto, TypeOK, Labels, LeftOK, Deleting
<1>7. ASSUME NEW s \in Shell, SetContext(s) PROVE TypeOK' /\ LeftOK'
  BY <1>7 DEF SetContext, Goto, TypeOK, Labels, LeftOK, Deleting
<1>8. ASSUME NEW s \in Shell, ApplyManifest(s) PROVE TypeOK' /\ LeftOK'
  <2> DEFINE n == Target(tool[s], own[tool[s]])
  <2>1. objects' \in [Namespaces -> SUBSET Tool]
    <3>1. CASE /\ Phase(n) = "Active"
               /\ objects' = [objects EXCEPT ![n] = @ \cup {tool[s]}]
      BY <3>1 DEF TypeOK
    <3>2. CASE objects' = objects
      BY <3>2 DEF TypeOK
    <3> QED
      BY <1>8, <3>1, <3>2 DEF ApplyManifest
  <2>2. PICK l \in {"installed", "exit1"} : Goto(s, l)
    BY <1>8 DEF ApplyManifest
  <2>3. UNCHANGED <<ns, context, session, host>>
    BY <1>8 DEF ApplyManifest
  <2> QED
    BY <2>1, <2>2, <2>3 DEF Goto, TypeOK, Labels, LeftOK, Deleting
<1>9. ASSUME NEW s \in Shell, DeleteContext(s) PROVE TypeOK' /\ LeftOK'
  BY <1>9, HeadTail DEF DeleteContext, Goto, TypeOK, Labels, LeftOK, Deleting
<1>10. ASSUME NEW s \in Shell, DeleteManifest(s) PROVE TypeOK' /\ LeftOK'
  <2>1. objects' \in [Namespaces -> SUBSET Tool]
    BY <1>10 DEF DeleteManifest, TypeOK
  <2>2. PICK l \in {"dr_sweep", "exit1"} : Goto(s, l)
    BY <1>10 DEF DeleteManifest, Failed
  <2>3. pc[s] = "dr_manifest" /\ UNCHANGED <<ns, context, session, host>>
    BY <1>10 DEF DeleteManifest
  <2> QED
    BY <2>1, <2>2, <2>3 DEF Goto, TypeOK, Labels, LeftOK, Deleting
<1>11. ASSUME NEW s \in Shell, Sweep(s) PROVE TypeOK' /\ LeftOK'
  <2>1. objects' \in [Namespaces -> SUBSET Tool]
    BY <1>11 DEF Sweep, DeleteObjects, TypeOK
  <2>2. PICK l \in {"dr_rest", "dn_get", "exit1"} : Goto(s, l)
    BY <1>11 DEF Sweep, Failed
  <2>3. pc[s] = "dr_sweep" /\ UNCHANGED <<ns, context, session, host>>
    BY <1>11 DEF Sweep
  <2> QED
    BY <2>1, <2>2, <2>3 DEF Goto, TypeOK, Labels, LeftOK, Deleting
<1>20. ASSUME NEW s \in Shell, SweepRest(s) PROVE TypeOK' /\ LeftOK'
  <2>1. objects' \in [Namespaces -> SUBSET Tool]
    BY <1>20 DEF SweepRest, DeleteObjects, TypeOK
  <2>2. PICK l \in {"dn_get", "exit1"} : Goto(s, l)
    BY <1>20 DEF SweepRest, Failed
  <2>3. pc[s] = "dr_rest" /\ UNCHANGED <<ns, context, session, host>>
    BY <1>20 DEF SweepRest
  <2> QED
    BY <2>1, <2>2, <2>3 DEF Goto, TypeOK, Labels, LeftOK, Deleting
<1>12. ASSUME NEW s \in Shell,
              FindNamespace(s) \/ ReadPhase(s) \/ ReportDeleted(s)
       PROVE  TypeOK' /\ LeftOK'
  BY <1>12 DEF FindNamespace, ReadPhase, ReportDeleted, Goto, TypeOK, Labels,
     LeftOK, Deleting
<1>13. ASSUME NEW s \in Shell, StartProxy(s) PROVE TypeOK' /\ LeftOK'
  BY <1>13 DEF StartProxy, Goto, TypeOK, Labels, LeftOK, Deleting
<1>14. ASSUME NEW s \in Shell, RequestDelete(s) PROVE TypeOK' /\ LeftOK'
  BY <1>14 DEF RequestDelete, Goto, TypeOK, Labels, LeftOK, Deleting
<1>15. ASSUME NEW s \in Shell, Return(s) PROVE TypeOK' /\ LeftOK'
  BY <1>15, HeadTail DEF Return, Goto, TypeOK, Labels, LeftOK, Deleting
<1>16. ASSUME NEW s \in Shell, DeleteAgain(s) PROVE TypeOK' /\ LeftOK'
  BY <1>16 DEF DeleteAgain, Failed, Goto, TypeOK, Labels, LeftOK, Deleting
<1>17. ASSUME NEW s \in Shell, AgainEnds(s) PROVE TypeOK' /\ LeftOK'
  BY <1>17 DEF AgainEnds, Failed, Goto, TypeOK, Labels, LeftOK, Deleting
<1>18. ASSUME NEW n \in Namespaces, Finalize(n) PROVE TypeOK' /\ LeftOK'
  BY <1>18 DEF Finalize, TypeOK, LeftOK
<1>19. CASE UNCHANGED vars
  BY <1>19 DEF vars, TypeOK, LeftOK
<1> QED
  BY <1>1, <1>2, <1>3, <1>4, <1>5, <1>6, <1>7, <1>8, <1>9, <1>10, <1>11,
     <1>12, <1>13, <1>14, <1>15, <1>16, <1>17, <1>18, <1>19, <1>20
     DEF Next, Start, Command, Bounded

\* The state of the terminals and of the cluster is well typed.
THEOREM TypeCorrect == Spec => [](TypeOK /\ LeftOK)
<1> QED
  BY TypeInit, TypeNext, PTL DEF Spec
-----------------------------------------------------------------------------
(* One proxy per shell that deletes one namespace.                         *)

\* Every tool but linkerd: the uninstaller deletes the namespace that the
\* installer asked for, and there is a namespace.yml.
OwnNamespaceOnly ==
  \A t \in Tool : /\ own[t] \in Namespaces /\ yml[t] \in Namespaces
                  /\ deletes[t] = <<own[t]>>

\* What is left to delete, at the labels where it matters.
OneLeft == \A s \in Shell : pc[s] \in Deleting => left[s] = <<own[tool[s]]>>

\* A shell has no trap before it calls delete_namespace.
Trapped == {"dn_phase", "dn_delete", "dn_wait", "dn_deleted", "dn_return",
            "again", "again_wait", "uninstalled", "exit1"}
TrapsSet == \A s \in Shell : pc[s] \notin Trapped => trap[s] = "none"

\* The proxy that is alive is in one trap, a live one in no second.
OneOwner == \A s \in Shell : trap[s] = "live" =>
              proxy /\ \A r \in Shell : trap[r] = "live" => r = s

ProxyInv == OneLeft /\ TrapsSet /\ OneOwner /\ NoOrphanProxy

LEMMA ProxyInit == Init => ProxyInv
BY DEF Init, ProxyInv, OneLeft, TrapsSet, OneOwner, NoOrphanProxy, Deleting

\* A step that leaves the proxy and the traps alone.
LEMMA ProxyStays ==
  ASSUME TypeOK, ProxyInv, NEW s \in Shell, NEW l \in Labels, Goto(s, l),
         UNCHANGED <<proxy, trap>>,
         l \notin Trapped => pc[s] \notin Trapped,
         l \in Deleting => left'[s] = <<own[tool'[s]]>>,
         \A r \in Shell : r # s => left'[r] = left[r] /\ tool'[r] = tool[r]
  PROVE  ProxyInv'
<1>1. OneLeft'
  BY DEF ProxyInv, OneLeft, TypeOK, Goto
<1>2. TrapsSet'
  BY DEF ProxyInv, TrapsSet, TypeOK, Goto
<1>3. OneOwner' /\ NoOrphanProxy'
  BY DEF ProxyInv, OneOwner, NoOrphanProxy
<1> QED
  BY <1>1, <1>2, <1>3 DEF ProxyInv

LEMMA ProxyNext ==
  ASSUME OwnNamespaceOnly
  PROVE  TypeOK /\ ProxyInv /\ [Next]_vars => ProxyInv'
<1> SUFFICES ASSUME TypeOK, ProxyInv, [Next]_vars PROVE ProxyInv'
  OBVIOUS
<1> USE DEF cluster, session, host
<1>1. ASSUME NEW s \in Shell, NEW t \in Tool,
             StartInstall(s, t) \/ StartUninstall(s, t)
      PROVE  ProxyInv'
  <2>1. PICK l \in {"get", "dr_context"} :
          /\ Goto(s, l) /\ pc[s] = "idle" /\ UNCHANGED <<proxy, trap>>
          /\ l = "dr_context" => left'[s] = <<own[tool'[s]]>>
          /\ \A r \in Shell : r # s => left'[r] = left[r] /\ tool'[r] = tool[r]
    BY <1>1 DEF StartInstall, StartUninstall, TypeOK, OwnNamespaceOnly
  <2> QED
    BY <2>1, ProxyStays DEF Labels, Trapped, Deleting
<1>2. ASSUME NEW s \in Shell, EndSession(s) PROVE ProxyInv'
  <2>1. OneLeft' /\ TrapsSet'
    BY <1>2 DEF EndSession, Goto, TypeOK, ProxyInv, OneLeft, TrapsSet, Deleting
  <2>2. OneOwner' /\ NoOrphanProxy'
    BY <1>2 DEF EndSession, TypeOK, ProxyInv, OneOwner, NoOrphanProxy
  <2> QED
    BY <2>1, <2>2 DEF ProxyInv
<1>3. ASSUME NEW s \in Shell,
             \/ GetNamespace(s) \/ ApplyNamespace(s) \/ CheckStatus(s)
             \/ SetContext(s) \/ ApplyManifest(s)
      PROVE  ProxyInv'
  <2>1. PICK l \in {"status", "apply", "apply_ns", "exit0", "exit1", "context",
                    "installed"} :
          /\ Goto(s, l) /\ UNCHANGED <<proxy, trap, left, tool>>
          /\ pc[s] \in {"get", "apply_ns", "status", "context", "apply"}
    <3>1. CASE GetNamespace(s)
      BY <3>1 DEF GetNamespace
    <3>2. CASE CheckStatus(s)
      BY <3>2 DEF CheckStatus, TypeOK, Phase
    <3>3. CASE ApplyNamespace(s) \/ SetContext(s) \/ ApplyManifest(s)
      BY <3>3 DEF ApplyNamespace, SetContext, ApplyManifest
    <3> QED
      BY <1>3, <3>1, <3>2, <3>3
  <2> QED
    BY <2>1, ProxyStays DEF Labels, Trapped, Deleting
<1>4. ASSUME NEW s \in Shell,
             \/ DeleteContext(s) \/ DeleteManifest(s) \/ Sweep(s)
             \/ SweepRest(s) \/ FindNamespace(s)
      PROVE  ProxyInv'
  <2>1. PICK l \in {"dr_manifest", "dr_sweep", "dr_rest", "dn_get",
                    "dn_return", "dn_proxy", "exit1"} :
          /\ Goto(s, l) /\ UNCHANGED <<proxy, trap, left, tool>>
          /\ pc[s] \in Deleting \ Trapped
    BY <1>4 DEF DeleteContext, DeleteManifest, Sweep, SweepRest, FindNamespace,
       Failed, Deleting, Trapped
  <2>2. left[s] = <<own[tool[s]]>>
    BY <2>1 DEF ProxyInv, OneLeft
  <2> QED
    BY <2>1, <2>2, ProxyStays DEF Labels, Trapped, Deleting
<1>5. ASSUME NEW s \in Shell, StartProxy(s) PROVE ProxyInv'
  <2>1. OneLeft' /\ TrapsSet'
    BY <1>5 DEF StartProxy, Goto, TypeOK, ProxyInv, OneLeft, TrapsSet, Deleting,
       Trapped
  <2>2. trap[s] = "none"
    BY <1>5 DEF StartProxy, ProxyInv, TrapsSet, Trapped
  <2>3. OneOwner' /\ NoOrphanProxy'
    BY <1>5, <2>2 DEF StartProxy, TypeOK, ProxyInv, OneOwner, NoOrphanProxy
  <2> QED
    BY <2>1, <2>3 DEF ProxyInv
<1>6. ASSUME NEW s \in Shell,
             \/ ReadPhase(s) \/ RequestDelete(s) \/ ReportDeleted(s)
             \/ DeleteAgain(s) \/ AgainEnds(s)
      PROVE  ProxyInv'
  <2>1. PICK l \in Trapped :
          /\ Goto(s, l) /\ UNCHANGED <<proxy, trap, left, tool>>
          /\ pc[s] \in Deleting
    BY <1>6 DEF ReadPhase, RequestDelete, ReportDeleted, DeleteAgain, AgainEnds,
       Failed, Deleting, Trapped
  <2>2. left[s] = <<own[tool[s]]>>
    BY <2>1 DEF ProxyInv, OneLeft
  <2> QED
    BY <2>1, <2>2, ProxyStays DEF Labels, Trapped
<1>7. ASSUME NEW s \in Shell, Return(s) PROVE ProxyInv'
  <2>1. left[s] = <<own[tool[s]]>>
    BY <1>7 DEF Return, ProxyInv, OneLeft, Deleting
  <2>2. PICK l \in {"again", "uninstalled"} :
          Goto(s, l) /\ UNCHANGED <<proxy, trap, left, tool>>
    BY <1>7, <2>1 DEF Return
  <2> QED
    BY <2>1, <2>2, ProxyStays DEF Labels, Trapped
<1>8. CASE (\E n \in Namespaces : Finalize(n)) \/ UNCHANGED vars
  BY <1>8 DEF Finalize, vars, ProxyInv, OneLeft, TrapsSet, OneOwner,
     NoOrphanProxy
<1> QED
  BY <1>1, <1>2, <1>3, <1>4, <1>5, <1>6, <1>7, <1>8
     DEF Next, Start, Command, Bounded

\* No kubectl proxy outlives the shell that started it (delete-namespace.sh
\* 57-64), whichever command ends the shell, with any number of terminals:
\* for the tools whose uninstaller deletes one namespace.
THEOREM ProxiesAreKilled ==
  ASSUME OwnNamespaceOnly
  PROVE  Spec => []NoOrphanProxy
<1>1. ProxyInv => NoOrphanProxy
  BY DEF ProxyInv
<1>2. TypeOK /\ ProxyInv /\ [Next]_vars => ProxyInv'
  BY ProxyNext
<1> QED
  BY <1>1, <1>2, ProxyInit, TypeCorrect, PTL DEF Spec
-----------------------------------------------------------------------------
(* One terminal: nobody moves the context between two of its commands.     *)

OneShell == \A r, s \in Shell : r = s

\* The manifest goes where Phase was read.
ContextSet == \A s \in Shell : pc[s] = "apply" => context = own[tool[s]]

PlaceInv == AppliedWhereAsked /\ ContextSet

LEMMA PlaceInit == ASSUME OwnNamespaceOnly PROVE Init => PlaceInv
<1> SUFFICES ASSUME Init PROVE PlaceInv
  OBVIOUS
<1>1. ASSUME NEW n \in Namespaces, NEW t \in objects[n] PROVE own[t] = n
  <2>1. t \in Tool
    BY <1>1 DEF Init
  <2>2. PICK i \in 1..Len(deletes[t]) : deletes[t][i] = n
    BY <1>1 DEF Init
  <2>3. deletes[t] = <<own[t]>>
    BY <2>1 DEF OwnNamespaceOnly
  <2> QED
    BY <2>2, <2>3
<1> QED
  BY <1>1 DEF Init, PlaceInv, AppliedWhereAsked, ContextSet

\* The deletions of delete_resources add nothing.
LEMMA DeletionsDelete ==
  ASSUME TypeOK, NEW s \in Shell,
         DeleteManifest(s) \/ Sweep(s) \/ SweepRest(s)
  PROVE  \A n \in Namespaces : objects'[n] \subseteq objects[n]
<1>1. CASE DeleteManifest(s)
  BY <1>1 DEF DeleteManifest, TypeOK
<1>2. CASE Sweep(s) \/ SweepRest(s)
  <2>1. objects' = objects \/ DeleteObjects(Head(left[s]))
    BY <1>2 DEF Sweep, SweepRest
  <2> QED
    BY <2>1 DEF DeleteObjects, TypeOK
<1> QED
  BY <1>1, <1>2

LEMMA PlaceNext ==
  ASSUME OwnNamespaceOnly, OneShell
  PROVE  TypeOK /\ PlaceInv /\ [Next]_vars => PlaceInv'
<1> SUFFICES ASSUME TypeOK, PlaceInv, [Next]_vars PROVE PlaceInv'
  OBVIOUS
<1> USE DEF cluster, session, host
<1>1. ASSUME NEW s \in Shell, NEW t \in Tool,
             StartInstall(s, t) \/ StartUninstall(s, t)
      PROVE  PlaceInv'
  BY <1>1 DEF StartInstall, StartUninstall, Goto, TypeOK, PlaceInv,
     AppliedWhereAsked, ContextSet
<1>2. ASSUME NEW s \in Shell, GetNamespace(s) PROVE PlaceInv'
  <2>1. yml[tool[s]] # NoNamespace
    BY NamespaceAssumption DEF OwnNamespaceOnly, TypeOK
  <2>2. Goto(s, "status") \/ Goto(s, "apply_ns")
    BY <1>2, <2>1 DEF GetNamespace
  <2>3. PlaceInv'
    BY <1>2, <2>2 DEF GetNamespace, Goto, TypeOK, PlaceInv, AppliedWhereAsked,
       ContextSet
  <2> QED
    BY <2>3
<1>3. ASSUME NEW s \in Shell, CheckStatus(s) PROVE PlaceInv'
  <2>1. PICK l \in {"exit0", "exit1", "context"} : Goto(s, l)
    BY <1>3, StatusLabels
  <2>2. UNCHANGED <<cluster, context, session, host>>
    BY <1>3 DEF CheckStatus
  <2> QED
    BY <2>1, <2>2 DEF Goto, TypeOK, PlaceInv, AppliedWhereAsked,
       ContextSet
<1>4. ASSUME NEW s \in Shell, SetContext(s) PROVE PlaceInv'
  BY <1>4 DEF SetContext, Goto, TypeOK, OneShell, PlaceInv, AppliedWhereAsked,
     ContextSet
<1>5. ASSUME NEW s \in Shell, ApplyManifest(s) PROVE PlaceInv'
  <2>1. Target(tool[s], own[tool[s]]) = own[tool[s]]
    BY <1>5 DEF ApplyManifest, Target, PlaceInv, ContextSet
  <2>2. \/ objects' = [objects EXCEPT ![own[tool[s]]] = @ \cup {tool[s]}]
        \/ objects' = objects
    BY <1>5, <2>1 DEF ApplyManifest
  <2>3. AppliedWhereAsked'
    <3>1. \A n \in Namespaces : \A t \in objects'[n] :
            t \in objects[n] \/ (t = tool[s] /\ n = own[tool[s]])
      BY <2>2 DEF TypeOK
    <3> QED
      BY <3>1 DEF PlaceInv, AppliedWhereAsked
  <2>4. ContextSet'
    BY <1>5 DEF ApplyManifest, Goto, TypeOK, PlaceInv, ContextSet
  <2> QED
    BY <2>3, <2>4 DEF PlaceInv
<1>6. ASSUME NEW s \in Shell, DeleteContext(s) PROVE PlaceInv'
  BY <1>6 DEF DeleteContext, Goto, TypeOK, OneShell, PlaceInv,
     AppliedWhereAsked, ContextSet
<1>7. ASSUME NEW s \in Shell, DeleteManifest(s) \/ Sweep(s) \/ SweepRest(s)
      PROVE  PlaceInv'
  <2>1. \A n \in Namespaces : objects'[n] \subseteq objects[n]
    BY <1>7, DeletionsDelete
  <2>2. AppliedWhereAsked'
    BY <2>1 DEF PlaceInv, AppliedWhereAsked
  <2>3. PICK l \in {"dr_sweep", "dr_rest", "dn_get", "exit1"} :
          Goto(s, l) /\ UNCHANGED <<context, tool>>
    BY <1>7 DEF DeleteManifest, Sweep, SweepRest, Failed
  <2>4. ContextSet'
    BY <2>3 DEF Goto, TypeOK, PlaceInv, ContextSet
  <2> QED
    BY <2>2, <2>4 DEF PlaceInv
<1>8. ASSUME NEW s \in Shell,
             \/ EndSession(s) \/ ApplyNamespace(s) \/ FindNamespace(s)
             \/ StartProxy(s) \/ ReadPhase(s) \/ RequestDelete(s)
             \/ ReportDeleted(s) \/ Return(s) \/ DeleteAgain(s) \/ AgainEnds(s)
      PROVE  PlaceInv'
  <2>1. PICK l \in Labels \ {"apply"} :
          Goto(s, l) /\ UNCHANGED <<objects, context, tool>>
    BY <1>8 DEF EndSession, ApplyNamespace, FindNamespace, StartProxy,
       ReadPhase, RequestDelete, ReportDeleted, Return, DeleteAgain, AgainEnds,
       Failed, Labels
  <2> QED
    BY <2>1 DEF Goto, TypeOK, PlaceInv, AppliedWhereAsked, ContextSet
<1>9. ASSUME NEW n \in Namespaces, Finalize(n) PROVE PlaceInv'
  BY <1>9 DEF Finalize, TypeOK, PlaceInv, AppliedWhereAsked, ContextSet
<1>10. CASE UNCHANGED vars
  BY <1>10 DEF vars, PlaceInv, AppliedWhereAsked, ContextSet
<1> QED
  BY <1>1, <1>2, <1>3, <1>4, <1>5, <1>6, <1>7, <1>8, <1>9, <1>10
     DEF Next, Start, Command, Bounded

\* With one terminal the objects of a tool are in the namespace that its
\* installer asked for (create-resources.sh 13-21), although a manifest
\* without a namespace takes it from the shared context.
THEOREM ObjectsAreInPlace ==
  ASSUME OwnNamespaceOnly, OneShell
  PROVE  Spec => []AppliedWhereAsked
<1>1. PlaceInv => AppliedWhereAsked
  BY DEF PlaceInv
<1>2. TypeOK /\ PlaceInv /\ [Next]_vars => PlaceInv'
  BY PlaceNext
<1>3. Init => PlaceInv
  BY PlaceInit
<1> QED
  BY <1>1, <1>2, <1>3, TypeCorrect, PTL DEF Spec
-----------------------------------------------------------------------------
(* Between the end of an installer and the exit of its shell nobody else   *)
(* deletes the namespace.                                                  *)

LEMMA ActiveNext ==
  ASSUME OwnNamespaceOnly, OneShell
  PROVE  TypeOK /\ PlaceInv /\ InstalledIsActive /\ [Next]_vars
           => InstalledIsActive'
<1> SUFFICES ASSUME TypeOK, PlaceInv, InstalledIsActive, [Next]_vars,
                    NEW s \in Shell, pc'[s] = "installed"
             PROVE  /\ Phase(own[tool[s]])' = "Active"
                    /\ tool'[s] \in objects'[own[tool'[s]]]
  BY DEF InstalledIsActive
<1> USE DEF cluster, session, host
<1>1. own[tool[s]] \in Namespaces
  BY DEF OwnNamespaceOnly, TypeOK
<1>2. ASSUME ApplyManifest(s)
      PROVE  /\ Phase(own[tool[s]])' = "Active"
             /\ tool'[s] \in objects'[own[tool'[s]]]
  <2>1. Target(tool[s], own[tool[s]]) = own[tool[s]]
    BY <1>2 DEF ApplyManifest, Target, PlaceInv, ContextSet
  <2>2. /\ Phase(own[tool[s]]) = "Active" /\ UNCHANGED <<ns, tool>>
        /\ objects' = [objects EXCEPT ![own[tool[s]]] = @ \cup {tool[s]}]
    BY <1>2, <2>1 DEF ApplyManifest, Goto, TypeOK
  <2> QED
    BY <1>1, <2>2 DEF TypeOK, Phase
<1>3. ASSUME NEW n \in Namespaces, Finalize(n)
      PROVE  /\ Phase(own[tool[s]])' = "Active"
             /\ tool'[s] \in objects'[own[tool'[s]]]
  BY <1>1, <1>3 DEF Finalize, InstalledIsActive, Phase, TypeOK
<1>4. ASSUME NEW r \in Shell, Start(r) \/ (Command(r) /\ ~ApplyManifest(r))
      PROVE  FALSE
  <2>1. r = s
    BY DEF OneShell
  <2>2. pc \in [Shell -> Labels]
    BY DEF TypeOK
  <2>3. CASE Start(r)
    BY <2>1, <2>2, <2>3 DEF Start, StartInstall, StartUninstall, Goto
  <2>4. CASE CheckStatus(r)
    BY <2>1, <2>2, <2>4, StatusLabels DEF Goto
  <2>5. CASE GetNamespace(r)
    <3>1. PICK l \in {"status", "apply", "apply_ns"} : Goto(r, l)
      BY <2>5 DEF GetNamespace
    <3> QED
      BY <2>1, <2>2, <3>1 DEF Goto
  <2>6. CASE \/ EndSession(r) \/ ApplyNamespace(r) \/ SetContext(r)
             \/ DeleteContext(r) \/ DeleteManifest(r) \/ Sweep(r)
             \/ SweepRest(r)
    BY <2>1, <2>2, <2>6 DEF EndSession, ApplyNamespace, SetContext,
       DeleteContext, DeleteManifest, Sweep, SweepRest, Goto, Failed
  <2>7. CASE \/ FindNamespace(r) \/ StartProxy(r) \/ ReadPhase(r)
             \/ RequestDelete(r) \/ ReportDeleted(r) \/ AgainEnds(r)
             \/ DeleteAgain(r)
    BY <2>1, <2>2, <2>7 DEF FindNamespace, StartProxy, ReadPhase,
       RequestDelete, ReportDeleted, AgainEnds, DeleteAgain, Goto, Failed
  <2>8. CASE Return(r)
    <3>1. PICK l \in {"dr_context", "again", "uninstalled"} : Goto(r, l)
      BY <2>8 DEF Return
    <3> QED
      BY <2>1, <2>2, <3>1 DEF Goto
  <2> QED
    BY <1>4, <2>3, <2>4, <2>5, <2>6, <2>7, <2>8 DEF Command, Bounded
<1>5. CASE UNCHANGED vars
  BY <1>5 DEF vars, InstalledIsActive, Phase
<1>6. ASSUME NEW r \in Shell, ApplyManifest(r) PROVE r = s
  BY DEF OneShell
<1> QED
  BY <1>2, <1>3, <1>4, <1>5, <1>6 DEF Next

\* With one terminal an installer that comes to its end has its objects in
\* an Active namespace (create-namespace.sh 44-56), the one it asked for.
THEOREM InstalledStaysActive ==
  ASSUME OwnNamespaceOnly, OneShell
  PROVE  Spec => []InstalledIsActive
<1>1. Init => InstalledIsActive
  BY DEF Init, InstalledIsActive
<1>2. TypeOK /\ PlaceInv /\ InstalledIsActive /\ [Next]_vars
        => InstalledIsActive'
  BY ActiveNext
<1>3. TypeOK /\ PlaceInv /\ [Next]_vars => PlaceInv'
  BY PlaceNext
<1>4. Init => PlaceInv
  BY PlaceInit
<1> QED
  BY <1>1, <1>2, <1>3, <1>4, TypeCorrect, PTL DEF Spec
-----------------------------------------------------------------------------
(* Tools whose manifest names its namespace: any number of terminals.      *)

\* Whatever context holds, a manifest with a namespace of its own goes there.
PinnedInPlace ==
  \A n \in Namespaces : \A t \in objects[n] : pinned[t] => own[t] = n

LEMMA PinnedNext == TypeOK /\ PinnedInPlace /\ [Next]_vars => PinnedInPlace'
<1> SUFFICES ASSUME TypeOK, PinnedInPlace, [Next]_vars PROVE PinnedInPlace'
  OBVIOUS
<1> USE DEF cluster, session, host
<1>1. ASSUME NEW s \in Shell, ApplyManifest(s) PROVE PinnedInPlace'
  <2> DEFINE n == Target(tool[s], own[tool[s]])
  <2>1. \/ objects' = [objects EXCEPT ![n] = @ \cup {tool[s]}]
        \/ objects' = objects
    BY <1>1 DEF ApplyManifest
  <2>2. pinned[tool[s]] => n = own[tool[s]]
    BY DEF Target
  <2> HIDE DEF n
  <2>3. \A m \in Namespaces : \A t \in objects'[m] :
          t \in objects[m] \/ (t = tool[s] /\ m = n)
    BY <2>1 DEF TypeOK
  <2> QED
    BY <2>2, <2>3 DEF PinnedInPlace
<1>2. ASSUME NEW s \in Shell, DeleteManifest(s) \/ Sweep(s) \/ SweepRest(s)
      PROVE  PinnedInPlace'
  <2>1. \A n \in Namespaces : objects'[n] \subseteq objects[n]
    BY <1>2, DeletionsDelete
  <2> QED
    BY <2>1 DEF PinnedInPlace
<1>3. ASSUME NEW n \in Namespaces, Finalize(n) PROVE PinnedInPlace'
  BY <1>3 DEF Finalize, TypeOK, PinnedInPlace
<1>4. CASE UNCHANGED objects
  BY <1>4 DEF PinnedInPlace
<1>5. ASSUME NEW s \in Shell, Start(s) \/ Command(s)
      PROVE  \/ UNCHANGED objects
             \/ ApplyManifest(s) \/ DeleteManifest(s) \/ Sweep(s) \/ SweepRest(s)
  BY <1>5 DEF Start, StartInstall, StartUninstall, Command, Bounded, EndSession,
     GetNamespace, ApplyNamespace, CheckStatus, SetContext, DeleteContext,
     FindNamespace, StartProxy, ReadPhase, RequestDelete, ReportDeleted,
     Return, DeleteAgain, AgainEnds
<1>6. CASE UNCHANGED vars
  BY <1>4, <1>6 DEF vars
<1> QED
  BY <1>1, <1>2, <1>3, <1>4, <1>5, <1>6 DEF Next

\* However many terminals move the context, the objects of a tool whose
\* manifest names its namespace are in no other: kubectl then takes nothing
\* from the context (create-resources.sh 13-21).
THEOREM PinnedObjectsAreInPlace ==
  ASSUME OwnNamespaceOnly
  PROVE  Spec => [](\A n \in Namespaces : \A t \in objects[n] :
                      pinned[t] => own[t] = n)
<1>1. Init => PinnedInPlace
  <2> SUFFICES ASSUME Init, NEW n \in Namespaces, NEW t \in objects[n] PROVE own[t] = n
    BY DEF PinnedInPlace
  <2>1. t \in Tool
    BY DEF Init
  <2>2. PICK i \in 1..Len(deletes[t]) : deletes[t][i] = n
    BY DEF Init
  <2>3. deletes[t] = <<own[t]>>
    BY <2>1 DEF OwnNamespaceOnly
  <2> QED
    BY <2>2, <2>3
<1>2. PinnedInPlace <=> \A n \in Namespaces : \A t \in objects[n] :
                          pinned[t] => own[t] = n
  BY DEF PinnedInPlace
<1> QED
  BY <1>1, <1>2, PinnedNext, TypeCorrect, PTL DEF Spec
-----------------------------------------------------------------------------
(* A session runs out of commands.                                         *)

\* What a label is worth: more than every label a command leads to from it.
Rank(l) ==
  CASE l = "idle" -> 0
    [] l \in {"installed", "uninstalled", "exit0", "exit1"} -> 1
    [] l \in {"apply", "again_wait"} -> 2
    [] l \in {"context", "again"} -> 3
    [] l \in {"status", "dn_deleted", "dn_return"} -> 4
    [] l \in {"apply_ns", "dn_wait"} -> 5
    [] l \in {"get", "dn_delete"} -> 6
    [] l = "dn_phase" -> 7
    [] l = "dn_proxy" -> 8
    [] l = "dn_get" -> 9
    [] l = "dr_rest" -> 10
    [] l = "dr_sweep" -> 11
    [] l = "dr_manifest" -> 12
    [] l = "dr_context" -> 13

\* The commands a terminal may yet run before its shell has exited.
CommandsLeft(s) == 10 * Len(left[s]) + Rank(pc[s])

LEMMA RankType == ASSUME NEW l \in Labels PROVE Rank(l) \in 0..13
BY DEF Labels, Rank

\* A command that leaves the namespaces to delete alone.
LEMMA Descends ==
  ASSUME TypeOK, NEW s \in Shell, NEW l \in Labels, Goto(s, l),
         UNCHANGED left, Rank(l) < Rank(pc[s])
  PROVE  CommandsLeft(s)' < CommandsLeft(s)
<1>1. pc'[s] = l /\ left'[s] = left[s] /\ pc[s] \in Labels /\ Len(left[s]) \in Nat
  BY DEF TypeOK, Goto
<1>2. Rank(l) \in Int /\ Rank(pc[s]) \in Int
  BY <1>1, RankType
<1>3. CommandsLeft(s)' = 10 * Len(left[s]) + Rank(l)
  BY <1>1 DEF CommandsLeft
<1> QED
  BY <1>1, <1>2, <1>3 DEF CommandsLeft

LEMMA CommandsRunOut ==
  ASSUME TypeOK, LeftOK, NEW s \in Shell, Command(s)
  PROVE  CommandsLeft(s)' < CommandsLeft(s)
<1>0. pc[s] \in Labels /\ left[s] \in Seq(Namespaces) /\ Len(left[s]) \in Nat
  BY DEF TypeOK
<1>1. CASE EndSession(s)
  <2>1. pc'[s] = "idle" /\ left'[s] = <<>>
    BY <1>1 DEF EndSession, Goto, TypeOK
  <2>2. CommandsLeft(s)' = 0
    BY <2>1 DEF CommandsLeft, Rank
  <2>3. Rank(pc[s]) = 1
    BY <1>1 DEF EndSession, Rank
  <2> QED
    BY <1>0, <2>2, <2>3 DEF CommandsLeft
<1>2. CASE Return(s)
  <2>0. Rank(pc[s]) = 4
    BY <1>2 DEF Return, Rank
  <2>1. CASE Len(left[s]) > 1
    <3>1. pc'[s] = "dr_context" /\ left'[s] = Tail(left[s])
      BY <1>2, <2>1 DEF Return, Goto, TypeOK
    <3>2. Len(left'[s]) = Len(left[s]) - 1
      BY <1>0, <2>1, <3>1
    <3>3. CommandsLeft(s)' = 10 * (Len(left[s]) - 1) + 13
      BY <3>1, <3>2 DEF CommandsLeft, Rank
    <3> QED
      BY <1>0, <2>0, <3>3 DEF CommandsLeft
  <2>2. CASE ~(Len(left[s]) > 1)
    <3>1. PICK l \in {"again", "uninstalled"} : Goto(s, l) /\ UNCHANGED left
      BY <1>2, <2>2 DEF Return
    <3>2. l \in Labels /\ Rank(l) < 4
      BY DEF Labels, Rank
    <3> QED
      BY <2>0, <3>1, <3>2, Descends
  <2> QED
    BY <2>1, <2>2
<1>3. CASE GetNamespace(s)
  <2>1. PICK l \in {"status", "apply", "apply_ns"} : Goto(s, l) /\ UNCHANGED left
    BY <1>3 DEF GetNamespace, session
  <2>2. Rank(pc[s]) = 6
    BY <1>3 DEF GetNamespace, Rank
  <2>3. l \in Labels /\ Rank(l) < 6
    BY DEF Labels, Rank
  <2> QED
    BY <2>1, <2>2, <2>3, Descends
<1>4. CASE CheckStatus(s)
  <2>1. PICK l \in {"exit0", "exit1", "context"} : Goto(s, l)
    BY <1>4, StatusLabels
  <2>2. UNCHANGED left /\ Rank(pc[s]) = 4
    BY <1>4 DEF CheckStatus, session, Rank
  <2>3. l \in Labels /\ Rank(l) < 4
    BY DEF Labels, Rank
  <2> QED
    BY <2>1, <2>2, <2>3, Descends
<1>5. CASE ApplyNamespace(s)
  <2>1. Goto(s, "status") /\ UNCHANGED left /\ pc[s] = "apply_ns"
    BY <1>5 DEF ApplyNamespace, session
  <2> QED
    BY <2>1, Descends DEF Labels, Rank
<1>6. CASE SetContext(s)
  <2>1. Goto(s, "apply") /\ UNCHANGED left /\ pc[s] = "context"
    BY <1>6 DEF SetContext, session
  <2> QED
    BY <2>1, Descends DEF Labels, Rank
<1>7. CASE ApplyManifest(s)
  <2>1. PICK l \in {"installed", "exit1"} : Goto(s, l) /\ UNCHANGED left /\ pc[s] = "apply"
    BY <1>7 DEF ApplyManifest, session
  <2> QED
    BY <2>1, Descends DEF Labels, Rank
<1>8. CASE DeleteContext(s)
  <2>1. Goto(s, "dr_manifest") /\ UNCHANGED left /\ pc[s] = "dr_context"
    BY <1>8 DEF DeleteContext, session
  <2> QED
    BY <2>1, Descends DEF Labels, Rank
<1>9. CASE DeleteManifest(s)
  <2>1. PICK l \in {"dr_sweep", "exit1"} : Goto(s, l) /\ UNCHANGED left /\ pc[s] = "dr_manifest"
    BY <1>9 DEF DeleteManifest, Failed, session
  <2> QED
    BY <2>1, Descends DEF Labels, Rank
<1>10. CASE Sweep(s)
  <2>1. PICK l \in {"dr_rest", "dn_get", "exit1"} :
          Goto(s, l) /\ UNCHANGED left /\ pc[s] = "dr_sweep"
    BY <1>10 DEF Sweep, Failed, session
  <2> QED
    BY <2>1, Descends DEF Labels, Rank
<1>18. CASE SweepRest(s)
  <2>1. PICK l \in {"dn_get", "exit1"} :
          Goto(s, l) /\ UNCHANGED left /\ pc[s] = "dr_rest"
    BY <1>18 DEF SweepRest, Failed, session
  <2> QED
    BY <2>1, Descends DEF Labels, Rank
<1>11. CASE FindNamespace(s)
  <2>1. PICK l \in {"dn_return", "dn_proxy"} : Goto(s, l) /\ UNCHANGED left /\ pc[s] = "dn_get"
    BY <1>11 DEF FindNamespace, session
  <2> QED
    BY <2>1, Descends DEF Labels, Rank
<1>12. CASE StartProxy(s)
  <2>1. PICK l \in {"dn_phase", "exit1"} :
          Goto(s, l) /\ UNCHANGED left /\ pc[s] = "dn_proxy"
    BY <1>12 DEF StartProxy, session
  <2> QED
    BY <2>1, Descends DEF Labels, Rank
<1>13. CASE ReadPhase(s)
  <2>1. PICK l \in {"dn_delete", "dn_return"} : Goto(s, l) /\ UNCHANGED left /\ pc[s] = "dn_phase"
    BY <1>13 DEF ReadPhase, session
  <2> QED
    BY <2>1, Descends DEF Labels, Rank
<1>14. CASE RequestDelete(s)
  <2>1. Goto(s, "dn_wait") /\ UNCHANGED left /\ pc[s] = "dn_delete"
    BY <1>14 DEF RequestDelete, session
  <2> QED
    BY <2>1, Descends DEF Labels, Rank
<1>15. CASE ReportDeleted(s)
  <2>1. Goto(s, "dn_deleted") /\ UNCHANGED left /\ pc[s] = "dn_wait"
    BY <1>15 DEF ReportDeleted, session
  <2> QED
    BY <2>1, Descends DEF Labels, Rank
<1>16. CASE DeleteAgain(s)
  <2>1. PICK l \in {"again_wait", "uninstalled", "exit1"} : Goto(s, l) /\ UNCHANGED left /\ pc[s] = "again"
    BY <1>16 DEF DeleteAgain, Failed, session
  <2> QED
    BY <2>1, Descends DEF Labels, Rank
<1>17. CASE AgainEnds(s)
  <2>1. PICK l \in {"uninstalled", "exit1"} : Goto(s, l) /\ UNCHANGED left /\ pc[s] = "again_wait"
    BY <1>17 DEF AgainEnds, Failed, session
  <2> QED
    BY <2>1, Descends DEF Labels, Rank
<1> QED
  BY <1>1, <1>2, <1>3, <1>4, <1>5, <1>6, <1>7, <1>8, <1>9, <1>10, <1>11, <1>12,
     <1>13, <1>14, <1>15, <1>16, <1>17, <1>18 DEF Command, Bounded

\* The step of another terminal, or of the namespace controller.
LEMMA OthersKeepCommands ==
  ASSUME TypeOK, NEW s \in Shell, [Next]_vars, ~Command(s), ~Start(s)
  PROVE  CommandsLeft(s)' = CommandsLeft(s)
<1> SUFFICES pc'[s] = pc[s] /\ left'[s] = left[s]
  BY DEF CommandsLeft
<1> USE DEF cluster, session, host
<1>1. ASSUME NEW r \in Shell, r # s, Start(r) \/ Command(r)
      PROVE  pc'[s] = pc[s] /\ left'[s] = left[s]
  <2>1. CASE Start(r) \/ EndSession(r) \/ Return(r)
    <3>1. pc'[s] = pc[s]
      BY <1>1, <2>1 DEF Start, StartInstall, StartUninstall, EndSession, Return,
         Goto, TypeOK
    <3>2. left'[s] = left[s]
      BY <1>1, <2>1 DEF Start, StartInstall, StartUninstall, EndSession, Return, TypeOK
    <3> QED
      BY <3>1, <3>2
  <2>2. CASE ~(Start(r) \/ EndSession(r) \/ Return(r))
    <3>1. (\E l : Goto(r, l)) /\ UNCHANGED left
      BY <1>1, <2>2 DEF Command, Bounded, GetNamespace, ApplyNamespace,
         CheckStatus, SetContext, ApplyManifest, DeleteContext, DeleteManifest,
         Sweep, SweepRest, FindNamespace, StartProxy, ReadPhase, RequestDelete, ReportDeleted,
         DeleteAgain, AgainEnds, Failed
    <3> QED
      BY <1>1, <3>1 DEF Goto, TypeOK
  <2> QED
    BY <2>1, <2>2
<1>2. CASE (\E n \in Namespaces : Finalize(n)) \/ UNCHANGED vars
  BY <1>2 DEF Finalize, vars
<1> QED
  BY <1>1, <1>2 DEF Next

\* The safety half of SessionsEnd, for any number of terminals, tools and
\* namespaces: each command of a run of start.sh that comes to its end leaves
\* fewer of them to run, and nothing that happens elsewhere adds one, so
\* create-namespace.sh, delete-resources.sh and delete-namespace.sh never go
\* round for ever; a session can only hang inside a command.
THEOREM SessionsRunOut ==
  /\ Spec => [](\A s \in Shell : CommandsLeft(s) \in Nat)
  /\ Spec => [][\A s \in Shell :
                  /\ Command(s) => CommandsLeft(s)' < CommandsLeft(s)
                  /\ ~Command(s) /\ ~Start(s)
                       => CommandsLeft(s)' = CommandsLeft(s)]_vars
<1>1. TypeOK /\ LeftOK => \A s \in Shell : CommandsLeft(s) \in Nat
  <2> SUFFICES ASSUME TypeOK, NEW s \in Shell PROVE CommandsLeft(s) \in Nat
    OBVIOUS
  <2>1. pc[s] \in Labels /\ Len(left[s]) \in Nat
    BY DEF TypeOK
  <2>2. Rank(pc[s]) \in 0..13
    BY <2>1, RankType
  <2> QED
    BY <2>1, <2>2 DEF CommandsLeft
<1>2. TypeOK /\ LeftOK /\ [Next]_vars =>
        \A s \in Shell :
          /\ Command(s) => CommandsLeft(s)' < CommandsLeft(s)
          /\ ~Command(s) /\ ~Start(s) => CommandsLeft(s)' = CommandsLeft(s)
  BY CommandsRunOut, OthersKeepCommands
<1> QED
  BY <1>1, <1>2, TypeCorrect, PTL DEF Spec
=============================================================================
