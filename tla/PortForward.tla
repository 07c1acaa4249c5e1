----------------------------- MODULE PortForward -----------------------------
(***************************************************************************)
(* port_forward and delete_port_forward (scripts/kubernetes/               *)
(* create-port-forward.sh, delete-port-forward.sh) in one terminal, with   *)
(* the processes of the machine that they find with lsof and ps.  The      *)
(* forwards are disowned: they run on when start.sh has ended, while       *)
(* services come and go and other programs use the ports.                  *)
(*                                                                         *)
(* A PID that a script holds is not given to a new process: PIDs wrap      *)
(* around much later.                                                      *)
(***************************************************************************)
EXTENDS Integers, Sequences, FiniteSets

CONSTANTS
  Pid, Port, Service,
  NoPid, NoPort, NoService,
  Tool,
  plan,      \* [Tool -> Seq(Call)] the port_forward calls of the installer
  terms,     \* [Tool -> Seq(SUBSET Service)] the delete_port_forward calls of
             \* the uninstaller: the services whose name contains the argument
  Clients    \* the ports that local programs connect to

Call == [port : Port, svc : Service]

ASSUME ForwardAssumption ==
  /\ NoPid \notin Pid /\ NoPort \notin Port /\ NoService \notin Service
  /\ plan \in [Tool -> Seq(Call)]
  /\ terms \in [Tool -> Seq(SUBSET Service)]
  /\ Clients \subseteq Port

VARIABLES
  proc,      \* the process table: forwards, servers and clients
  up,        \* the services that have a running pod
  claimed,   \* the service of the last success message for a port
  pc,        \* the next command of the terminal
  tool,
  i,         \* the call it works on
  found,     \* PID_PORT: what lsof showed
  pids,      \* PIDS: what ps showed, and is still to be killed
  errexit,   \* set -e is on, see delete_namespace
  rivals     \* history: the forwards that waited for a port, so that lsof did
             \* not show them, when a later call looked the port up

vars == <<proc, up, claimed, pc, tool, i, found, pids, errexit, rivals>>

Dead == [kind |-> "none", svc |-> NoService, port |-> NoPort]

Forwards == {p \in Pid : proc[p].kind \in {"starting", "forward"}}
Listens(p, q) == proc[p].port = q /\ proc[p].kind \in {"forward", "server"}
InUse(q) == \E p \in Pid : Listens(p, q)

\* lsof -i :q shows the processes with a socket on q, either end of it.
Sockets(q) == {p \in Pid : Listens(p, q)
                           \/ (proc[p].kind = "client" /\ proc[p].port = q)}

FreePid == {p \in Pid : proc[p] = Dead /\ p # found /\ p \notin pids}

Current == plan[tool][i]
\* The forwards that the look of line 19 misses.
Unseen == {p \in Pid : proc[p].kind = "starting" /\ proc[p].port = Current.port}

Kill9(p) == proc' = [proc EXCEPT ![p] = Dead] /\ rivals' = rivals \ {p}
Goto(l) == pc' = l

Init ==
  /\ proc = [p \in Pid |-> Dead]
  /\ up = {}
  /\ claimed = [q \in Port |-> NoService]
  /\ pc = "idle"
  /\ tool \in Tool
  /\ i = 1
  /\ found = NoPid
  /\ pids = {}
  /\ errexit = FALSE
  /\ rivals = {}
-----------------------------------------------------------------------------
(* Mutants of the actions below.                                           *)

\* kill without -9: a kubectl that hangs goes on.
Kill_polite ==
  /\ pc = "kill" /\ Goto("launch")
  /\ \/ found \in Pid /\ Kill9(found)
     \/ UNCHANGED <<proc, rivals>>
  /\ UNCHANGED <<up, claimed, tool, i, found, pids, errexit>>

\* PID_PORT keeps the value of the call before.
LookUp_keeps ==
  /\ pc = "lsof" /\ Goto("check")
  /\ \/ found = NoPid /\ found' \in Sockets(Current.port)
     \/ found' = found
  /\ rivals' = rivals \cup Unseen
  /\ UNCHANGED <<proc, up, claimed, tool, i, pids, errexit>>

\* The list is taken from lsof: the forwards that listen.
ListForwards_listening ==
  /\ pc = "ps" /\ Goto("reap")
  /\ pids' = {p \in Pid : proc[p].kind = "forward"
                          /\ proc[p].svc \in terms[tool][i]}
  /\ UNCHANGED <<proc, up, claimed, tool, i, found, errexit, rivals>>

\* One port more than the installer has.
NextCall_offByOne ==
  /\ pc = "forwarded"
  /\ i' = IF i <= Len(plan[tool]) THEN i + 1 ELSE i
  /\ Goto(IF i <= Len(plan[tool]) THEN "lsof" ELSE "installed")
  /\ UNCHANGED <<proc, up, claimed, tool, found, pids, errexit, rivals>>
-----------------------------------------------------------------------------
(* The installer: port_forward for each of its ports.                      *)

Begin(t) == pc = "idle" /\ tool' = t /\ i' = 1

StartInstall(t) ==
  /\ Begin(t) /\ plan[t] # <<>> /\ Goto("lsof")
  /\ UNCHANGED <<proc, up, claimed, found, pids, errexit, rivals>>

\* Line 19: lsof | tail -1, the last of the processes it shows.
LookUp ==
  /\ pc = "lsof" /\ Goto("check")
  /\ \/ found' \in Sockets(Current.port)
     \/ Sockets(Current.port) = {} /\ found' = NoPid
  /\ rivals' = rivals \cup Unseen
  /\ UNCHANGED <<proc, up, claimed, tool, i, pids, errexit>>

\* Lines 21-27: lsof is asked again, for its exit code.
CheckPort ==
  /\ pc = "check"
  /\ Goto(IF Sockets(Current.port) # {} THEN "kill" ELSE "launch")
  /\ UNCHANGED <<proc, up, claimed, tool, i, found, pids, errexit, rivals>>

\* Line 29: kill -9 $PID_PORT, which may be empty or gone.
Kill ==
  /\ pc = "kill" /\ Goto("launch")
  /\ IF found \in Pid THEN Kill9(found) ELSE UNCHANGED <<proc, rivals>>
  /\ UNCHANGED <<up, claimed, tool, i, found, pids, errexit>>

\* Lines 34-42: kubectl port-forward in the background; the success message
\* does not wait for it.
Launch ==
  /\ pc = "launch" /\ Goto("forwarded")
  /\ \E p \in FreePid :
       proc' = [proc EXCEPT ![p] = [kind |-> "starting", svc |-> Current.svc,
                                    port |-> Current.port]]
  /\ claimed' = [claimed EXCEPT ![Current.port] = Current.svc]
  /\ found' = NoPid
  /\ UNCHANGED <<up, tool, i, pids, errexit, rivals>>

NextCall ==
  /\ pc = "forwarded"
  /\ i' = IF i < Len(plan[tool]) THEN i + 1 ELSE i
  /\ Goto(IF i < Len(plan[tool]) THEN "lsof" ELSE "installed")
  /\ UNCHANGED <<proc, up, claimed, tool, found, pids, errexit, rivals>>
-----------------------------------------------------------------------------
(* The uninstaller: delete_port_forward for each of its terms, after       *)
(* delete_namespace, which leaves errexit on if there was a namespace.     *)

StartUninstall(t) ==
  /\ Begin(t) /\ terms[t] # <<>> /\ Goto("ps")
  /\ errexit' \in BOOLEAN
  /\ UNCHANGED <<proc, up, claimed, found, pids, rivals>>

\* Line 16.
ListForwards ==
  /\ pc = "ps" /\ Goto("reap")
  /\ pids' = {p \in Forwards : proc[p].svc \in terms[tool][i]}
  /\ UNCHANGED <<proc, up, claimed, tool, i, found, errexit, rivals>>

\* Lines 21-29: a kill that fails is reported, unless errexit ends the shell
\* on line 23.
Reap(p) ==
  /\ pc = "reap" /\ p \in pids
  /\ Kill9(p)
  /\ IF proc[p] = Dead /\ errexit
       THEN Goto("exit1") /\ UNCHANGED pids
       ELSE pids' = pids \ {p} /\ UNCHANGED pc
  /\ UNCHANGED <<up, claimed, tool, i, found, errexit>>

NextTerm ==
  /\ pc = "reap" /\ pids = {}
  /\ i' = IF i < Len(terms[tool]) THEN i + 1 ELSE i
  /\ Goto(IF i < Len(terms[tool]) THEN "ps" ELSE "uninstalled")
  /\ UNCHANGED <<proc, up, claimed, tool, found, pids, errexit, rivals>>

\* The shell ends; the forwards are disowned and do not.
EndSession ==
  /\ pc \in {"installed", "uninstalled", "exit1"} /\ Goto("idle")
  /\ errexit' = FALSE
  /\ pids' = {}
  /\ UNCHANGED <<proc, up, claimed, tool, i, found, rivals>>
-----------------------------------------------------------------------------
(* kubectl port-forward, the cluster, and other programs.                  *)

session == <<claimed, pc, tool, i, found, pids, errexit>>

\* It waits for a running pod of the service, then takes the port or fails.
Bind(p) ==
  /\ proc[p].kind = "starting" /\ proc[p].svc \in up
  /\ \/ InUse(proc[p].port) /\ Kill9(p)
     \/ /\ ~InUse(proc[p].port) /\ UNCHANGED rivals
        /\ proc' = [proc EXCEPT ![p].kind = "forward"]
  /\ UNCHANGED <<up, session>>

\* It gives up waiting, or loses the pod it was connected to.
Fail(p) ==
  /\ p \in Forwards /\ proc[p].svc \notin up
  /\ Kill9(p)
  /\ UNCHANGED <<up, session>>

PodUp(v) == up' = up \cup {v} /\ UNCHANGED <<proc, session, rivals>>
PodDown(v) == up' = up \ {v} /\ UNCHANGED <<proc, session, rivals>>

\* Another program takes a port that is free.
Serve(p, q) ==
  /\ p \in FreePid /\ ~InUse(q)
  /\ proc' = [proc EXCEPT ![p] = [kind |-> "server", svc |-> NoService,
                                  port |-> q]]
  /\ UNCHANGED <<up, session, rivals>>

\* A program connects to a port; its socket outlives the server's.
Connect(p, q) ==
  /\ q \in Clients /\ p \in FreePid /\ InUse(q)
  /\ proc' = [proc EXCEPT ![p] = [kind |-> "client", svc |-> NoService,
                                  port |-> q]]
  /\ UNCHANGED <<up, session, rivals>>

\* A server or a client ends.
Leave(p) ==
  /\ proc[p].kind \in {"server", "client"} /\ Kill9(p)
  /\ UNCHANGED <<up, session>>

Command == \/ LookUp \/ CheckPort \/ Kill \/ Launch \/ NextCall
           \/ ListForwards \/ (\E p \in Pid : Reap(p)) \/ NextTerm
           \/ EndSession

Start == \E t \in Tool : StartInstall(t) \/ StartUninstall(t)

Machine == \/ \E p \in Pid : Bind(p) \/ Fail(p) \/ Leave(p)
           \/ \E p \in Pid, q \in Port : Serve(p, q) \/ Connect(p, q)
           \/ \E v \in Service : PodUp(v) \/ PodDown(v)

Next == Start \/ Command \/ Machine

Spec == Init /\ [][Next]_vars

\* A forward whose pod runs comes to its port, and the shell goes on.
FairSpec == Spec /\ WF_vars(Command) /\ \A p \in Pid : WF_vars(Bind(p))
-----------------------------------------------------------------------------
Kinds == {"none", "starting", "forward", "server", "client"}
Installing == {"lsof", "check", "kill", "launch", "forwarded"}
Uninstalling == {"ps", "reap"}

TypeOK ==
  /\ proc \in [Pid -> [kind : Kinds, svc : Service \cup {NoService},
                       port : Port \cup {NoPort}]]
  /\ up \subseteq Service
  /\ claimed \in [Port -> Service \cup {NoService}]
  /\ pc \in Installing \cup Uninstalling
              \cup {"idle", "installed", "uninstalled", "exit1"}
  /\ tool \in Tool
  /\ i \in Nat \ {0}
  /\ pc \in Installing => i <= Len(plan[tool])
  /\ pc \in Uninstalling => i <= Len(terms[tool])
  /\ found \in Pid \cup {NoPid}
  /\ pids \subseteq Pid
  /\ errexit \in BOOLEAN
  /\ rivals \subseteq Forwards

\* A local port that is forwarded leads to the service of the last success
\* message for it (create-port-forward.sh 42): a forward that an earlier
\* tool left on the port has been found and killed.  The exception is a
\* forward that was still waiting for its pod when line 19 looked: nothing
\* shows it then, and it may come up before the new one, or after it has
\* gone.  A port with clients is another matter.
LastForwardWins ==
  \A q \in Port \ Clients : \A p \in Pid \ rivals :
    proc[p].kind = "forward" /\ proc[p].port = q => proc[p].svc = claimed[q]

\* What the success message of a port_forward says comes true, although it
\* comes before kubectl has taken the port: if the service stays up, no
\* later message or uninstaller undoes it and no other program or rival
\* takes the port first, the forward gets it.
ReportComesTrue ==
  \A q \in Port \ Clients, v \in Service :
    (\E p \in Pid : proc[p] = [kind |-> "starting", svc |-> v, port |-> q]) ~>
      \/ v \notin up
      \/ claimed[q] # v
      \/ pc = "reap" /\ v \in terms[tool][i]
      \/ \E p \in Pid : /\ Listens(p, q)
                        /\ proc[p].kind = "forward" =>
                             proc[p].svc = v \/ p \in rivals

\* An uninstaller that comes to its end leaves none of the forwards it was
\* to close (delete-port-forward.sh 14-30), the ones that are still waiting
\* for their pod included.
ClosedAtEnd ==
  pc = "uninstalled" =>
    \A k \in DOMAIN terms[tool] : \A p \in Forwards :
      proc[p].svc \notin terms[tool][k]
=============================================================================
