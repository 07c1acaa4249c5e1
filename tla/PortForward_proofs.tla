-------------------------- MODULE PortForward_proofs --------------------------
(***************************************************************************)
(* For any tools, ports, services and processes: the forward of the last   *)
(* success message wins on a port without clients, except against the      *)
(* rivals that lsof could not show; an uninstaller that comes to its end   *)
(* has closed its forwards; and nothing else is killed.                    *)
(***************************************************************************)
EXTENDS PortForward, TLAPS

\* The process table after kill -9 and after a new process.
LEMMA ProcTypes ==
  ASSUME TypeOK, NEW p \in Pid,
         NEW r \in [kind : Kinds, svc : Service \cup {NoService},
                    port : Port \cup {NoPort}],
         proc' = [proc EXCEPT ![p] = r]
  PROVE  /\ proc' \in [Pid -> [kind : Kinds, svc : Service \cup {NoService},
                               port : Port \cup {NoPort}]]
         /\ proc'[p] = r
         /\ \A x \in Pid : x # p => proc'[x] = proc[x]
  BY DEF TypeOK

LEMMA DeadType ==
  Dead \in [kind : Kinds, svc : Service \cup {NoService},
            port : Port \cup {NoPort}]
  BY DEF Dead, Kinds

\* The call an installer works on.
LEMMA CurrentType ==
  ASSUME TypeOK, pc \in Installing
  PROVE  Current \in Call /\ i \in DOMAIN plan[tool]
<1>1. plan[tool] \in Seq(Call)
  BY ForwardAssumption DEF TypeOK
<1>2. i \in 1..Len(plan[tool])
  BY DEF TypeOK
<1> QED
  BY <1>1, <1>2 DEF Current

\* What Bind makes of a forward.
LEMMA BindStep ==
  ASSUME TypeOK, NEW p \in Pid, Bind(p)
  PROVE  \E r \in [kind : Kinds, svc : Service \cup {NoService},
                   port : Port \cup {NoPort}] :
           /\ proc' = [proc EXCEPT ![p] = r]
           /\ \/ r = Dead /\ rivals' = rivals \ {p}
              \/ /\ r = [kind |-> "forward", svc |-> proc[p].svc,
                         port |-> proc[p].port]
                 /\ ~InUse(proc[p].port) /\ UNCHANGED rivals
<1> DEFINE new == [kind |-> "forward", svc |-> proc[p].svc,
                   port |-> proc[p].port]
<1>1. [proc[p] EXCEPT !.kind = "forward"] = new
  BY DEF TypeOK
<1>2. new \in [kind : Kinds, svc : Service \cup {NoService},
               port : Port \cup {NoPort}]
  BY DEF TypeOK, Kinds
<1> HIDE DEF new
<1>3. CASE InUse(proc[p].port)
  BY <1>3, DeadType DEF Bind, Kill9
<1>4. CASE ~InUse(proc[p].port)
  <2>1. proc' = [proc EXCEPT ![p] = new] /\ UNCHANGED rivals
    BY <1>1, <1>4 DEF Bind, TypeOK
  <2> QED
    BY <1>2, <1>4, <2>1 DEF new
<1> QED
  BY <1>3, <1>4
-----------------------------------------------------------------------------
(* Type correctness.                                                       *)

LEMMA TypeInit == Init => TypeOK
<1> SUFFICES ASSUME Init PROVE TypeOK
  OBVIOUS
<1>1. proc \in [Pid -> [kind : Kinds, svc : Service \cup {NoService},
                       port : Port \cup {NoPort}]]
  BY DeadType DEF Init
<1>2. claimed \in [Port -> Service \cup {NoService}]
  BY DEF Init
<1>3. pc = "idle" /\ pc \notin Installing /\ pc \notin Uninstalling
  BY DEF Init, Installing, Uninstalling
<1>4. /\ up \subseteq Service /\ pids \subseteq Pid /\ found \in Pid \cup {NoPid}
      /\ tool \in Tool /\ i = 1 /\ errexit \in BOOLEAN
  BY DEF Init
<1>5. i \in Nat \ {0}
  BY <1>4
<1> QED
  BY <1>1, <1>2, <1>3, <1>4, <1>5 DEF TypeOK, Init

\* One process changes, and is no rival after it unless it is a forward.
LEMMA OneChanges ==
  ASSUME TypeOK, NEW p \in Pid,
         \A x \in Pid : x # p => proc'[x] = proc[x],
         rivals' \subseteq rivals,
         p \in rivals' => proc'[p].kind = "forward"
  PROVE  rivals' \subseteq Forwards'
  BY DEF TypeOK, Forwards

LEMMA RivalsNext == TypeOK /\ [Next]_vars => rivals' \subseteq Forwards'
<1> SUFFICES ASSUME TypeOK, [Next]_vars PROVE rivals' \subseteq Forwards'
  OBVIOUS
<1>1. ASSUME NEW p \in Pid, Kill9(p) PROVE rivals' \subseteq Forwards'
  <2>1. \A x \in Pid : x # p => proc'[x] = proc[x]
    BY <1>1, ProcTypes, DeadType DEF Kill9
  <2> QED
    BY <1>1, <2>1, OneChanges DEF Kill9
<1>2. CASE UNCHANGED <<proc, rivals>>
  BY <1>2 DEF TypeOK, Forwards
<1>3. CASE LookUp
  BY <1>3 DEF LookUp, Unseen, TypeOK, Forwards
<1>4. ASSUME NEW p \in FreePid, NEW r, proc' = [proc EXCEPT ![p] = r],
             UNCHANGED rivals
      PROVE  rivals' \subseteq Forwards'
  <2>1. p \in Pid /\ p \notin rivals
    BY <1>4 DEF FreePid, TypeOK, Forwards, Dead
  <2>2. \A x \in Pid : x # p => proc'[x] = proc[x]
    BY <1>4 DEF TypeOK
  <2> QED
    BY <1>4, <2>1, <2>2, OneChanges
<1>5. CASE Launch
  BY <1>4, <1>5 DEF Launch
<1>6. ASSUME NEW p \in Pid, NEW q \in Port, Serve(p, q) \/ Connect(p, q)
      PROVE  rivals' \subseteq Forwards'
  BY <1>4, <1>6 DEF Serve, Connect
<1>7. ASSUME NEW p \in Pid, Bind(p) PROVE rivals' \subseteq Forwards'
  <2>1. PICK r \in [kind : Kinds, svc : Service \cup {NoService},
                    port : Port \cup {NoPort}] :
          /\ proc' = [proc EXCEPT ![p] = r]
          /\ r.kind = "forward" \/ p \notin rivals'
          /\ rivals' \subseteq rivals
    BY <1>7, BindStep
  <2>2. proc'[p] = r /\ \A x \in Pid : x # p => proc'[x] = proc[x]
    BY <2>1, ProcTypes
  <2> QED
    BY <2>1, <2>2, OneChanges
<1>8. CASE Start \/ (\E v \in Service : PodUp(v) \/ PodDown(v)) \/ UNCHANGED vars
  BY <1>2, <1>8 DEF Start, StartInstall, StartUninstall, PodUp, PodDown, vars
<1>9. CASE Kill \/ \E p \in Pid : Reap(p) \/ Fail(p) \/ Leave(p)
  BY <1>1, <1>2, <1>9 DEF Kill, Reap, Fail, Leave
<1>10. CASE CheckPort \/ NextCall \/ ListForwards \/ NextTerm \/ EndSession
  BY <1>2, <1>10 DEF CheckPort, NextCall, ListForwards, NextTerm, EndSession
<1> QED
  BY <1>3, <1>5, <1>6, <1>7, <1>8, <1>9, <1>10 DEF Next, Start, Command, Machine

LEMMA TypeNext == TypeOK /\ [Next]_vars => TypeOK'
<1> SUFFICES ASSUME TypeOK, [Next]_vars PROVE TypeOK'
  OBVIOUS
<1> USE ForwardAssumption
<1>0. rivals' \subseteq Forwards'
  BY RivalsNext
<1> DEFINE Proc == [Pid -> [kind : Kinds, svc : Service \cup {NoService},
                            port : Port \cup {NoPort}]]
<1>1. ASSUME NEW t \in Tool, StartInstall(t) \/ StartUninstall(t) PROVE TypeOK'
  BY <1>0, <1>1 DEF StartInstall, StartUninstall, Begin, Goto, TypeOK, Installing,
     Uninstalling
<1>2. CASE LookUp \/ CheckPort \/ ListForwards \/ EndSession
  <2>1. found' \in Pid \cup {NoPid} /\ pids' \subseteq Pid
    BY <1>2 DEF LookUp, CheckPort, ListForwards, EndSession, TypeOK, Sockets,
       Forwards
  <2> QED
    BY <1>0, <1>2, <2>1 DEF LookUp, CheckPort, ListForwards, EndSession, Goto,
       TypeOK, Installing, Uninstalling
<1>10. CASE NextCall \/ NextTerm
  <2>1. Len(plan[tool]) \in Nat /\ Len(terms[tool]) \in Nat
    BY DEF TypeOK
  <2> QED
    BY <1>0, <1>10, <2>1 DEF NextCall, NextTerm, Goto, TypeOK, Installing,
       Uninstalling
<1>3. CASE Kill
  <2>1. proc' \in Proc
    BY <1>3, ProcTypes, DeadType DEF Kill, Kill9, TypeOK
  <2> QED
    BY <1>0, <1>3, <2>1 DEF Kill, Goto, TypeOK, Installing, Uninstalling
<1>4. CASE Launch
  <2>1. Current \in Call
    BY <1>4, CurrentType DEF Launch, Installing
  <2>2. PICK p \in FreePid :
          proc' = [proc EXCEPT ![p] = [kind |-> "starting",
                              svc |-> Current.svc, port |-> Current.port]]
    BY <1>4 DEF Launch
  <2>3. proc' \in Proc
    BY <2>1, <2>2 DEF FreePid, TypeOK, Kinds, Call
  <2>4. claimed' \in [Port -> Service \cup {NoService}]
    BY <1>4, <2>1 DEF Launch, TypeOK, Call
  <2> QED
    BY <1>0, <1>4, <2>3, <2>4 DEF Launch, Goto, TypeOK, Installing, Uninstalling
<1>5. ASSUME NEW p \in Pid, Reap(p) PROVE TypeOK'
  <2>1. proc' \in Proc
    BY <1>5, ProcTypes, DeadType DEF Reap, Kill9
  <2> QED
    BY <1>0, <1>5, <2>1 DEF Reap, Goto, TypeOK, Installing, Uninstalling
<1>6. ASSUME NEW p \in Pid, Bind(p) \/ Fail(p) \/ Leave(p) PROVE TypeOK'
  <2>1. proc' \in Proc
    BY <1>6, BindStep, ProcTypes, DeadType DEF Fail, Leave, Kill9
  <2> QED
    BY <1>0, <1>6, <2>1 DEF Bind, Fail, Leave, session, TypeOK
<1>7. ASSUME NEW p \in Pid, NEW q \in Port, Serve(p, q) \/ Connect(p, q)
      PROVE  TypeOK'
  <2>1. proc' \in Proc
    <3>1. PICK k \in {"server", "client"} :
            proc' = [proc EXCEPT ![p] = [kind |-> k, svc |-> NoService,
                                         port |-> q]]
      BY <1>7 DEF Serve, Connect
    <3>2. [kind |-> k, svc |-> NoService, port |-> q] \in
            [kind : Kinds, svc : Service \cup {NoService},
             port : Port \cup {NoPort}]
      BY DEF Kinds
    <3> QED
      BY <3>1, <3>2, ProcTypes
  <2>2. UNCHANGED <<up, session>>
    BY <1>7 DEF Serve, Connect
  <2> QED
    BY <1>0, <2>1, <2>2 DEF session, TypeOK
<1>8. ASSUME NEW v \in Service, PodUp(v) \/ PodDown(v) PROVE TypeOK'
  BY <1>0, <1>8 DEF PodUp, PodDown, session, TypeOK
<1>9. CASE UNCHANGED vars
  BY <1>0, <1>9 DEF vars, TypeOK
<1> QED
  BY <1>1, <1>2, <1>3, <1>4, <1>5, <1>6, <1>7, <1>8, <1>9, <1>10
     DEF Next, Start, Command, Machine

\* Processes, services and the terminal are well typed.
THEOREM TypeCorrect == Spec => []TypeOK
<1> QED
  BY TypeInit, TypeNext, PTL DEF Spec
-----------------------------------------------------------------------------
(* delete_port_forward closes what it was to close.                        *)

\* The terms that are behind it find nothing any more; the term it works on
\* finds only what is still to be killed.
Behind(k) == \A p \in Forwards : proc[p].svc \notin terms[tool][k]

CloseInv ==
  /\ pc \in Uninstalling => \A k \in DOMAIN terms[tool] : k < i => Behind(k)
  /\ pc = "reap" => \A p \in Forwards :
                      proc[p].svc \in terms[tool][i] => p \in pids
  /\ ClosedAtEnd

LEMMA CloseNext == TypeOK /\ CloseInv /\ [Next]_vars => CloseInv'
<1> SUFFICES ASSUME TypeOK, CloseInv, [Next]_vars PROVE CloseInv'
  OBVIOUS
<1> USE ForwardAssumption
\* Outside Launch every forward was one before, of the same service.
<1> DEFINE Fewer == \A p \in Pid : p \in Forwards' =>
                      p \in Forwards /\ proc'[p].svc = proc[p].svc
<1>1. ASSUME NEW t \in Tool, StartInstall(t) \/ StartUninstall(t)
      PROVE  CloseInv'
  BY <1>1 DEF StartInstall, StartUninstall, Begin, Goto, TypeOK, CloseInv,
     ClosedAtEnd, Uninstalling
<1>2. CASE LookUp \/ CheckPort \/ NextCall \/ Kill \/ Launch \/ EndSession
  BY <1>2 DEF LookUp, CheckPort, NextCall, Kill, Launch, EndSession, Goto,
     CloseInv, ClosedAtEnd, Uninstalling
<1>3. CASE ListForwards
  BY <1>3 DEF ListForwards, Goto, CloseInv, ClosedAtEnd, Uninstalling, Forwards,
     Behind
<1>4. CASE NextTerm
  <2>1. Behind(i)
    BY <1>4 DEF NextTerm, CloseInv, Behind
  <2>2. \A k \in DOMAIN terms[tool] : k <= i => Behind(k)
    BY <1>4, <2>1 DEF NextTerm, CloseInv, Uninstalling, TypeOK
  <2>3. \A k \in DOMAIN terms[tool] : Behind(k) => Behind(k)'
    BY <1>4 DEF NextTerm, Behind, Forwards
  <2>4. i \in Nat /\ i <= Len(terms[tool]) /\ terms[tool] \in Seq(SUBSET Service)
    BY <1>4 DEF NextTerm, TypeOK, Uninstalling
  <2>5. CASE i < Len(terms[tool])
    <3>1. i' = i + 1 /\ pc' = "ps" /\ tool' = tool
      BY <1>4, <2>5 DEF NextTerm, Goto
    <3> QED
      BY <2>2, <2>3, <2>4, <3>1 DEF CloseInv, ClosedAtEnd, Uninstalling
  <2>6. CASE i = Len(terms[tool])
    <3>1. pc' = "uninstalled" /\ tool' = tool
      BY <1>4, <2>6 DEF NextTerm, Goto
    <3>2. \A k \in DOMAIN terms[tool] : Behind(k)'
      BY <2>2, <2>3, <2>4, <2>6
    <3> QED
      BY <3>1, <3>2 DEF CloseInv, ClosedAtEnd, Uninstalling, Behind
  <2> QED
    BY <2>4, <2>5, <2>6
<1>5. ASSUME NEW p \in Pid, Reap(p) PROVE CloseInv'
  <2>1. /\ proc'[p] = Dead
        /\ \A x \in Pid : x # p => proc'[x] = proc[x]
    BY <1>5, ProcTypes, DeadType DEF Reap, Kill9
  <2>2. Fewer /\ p \notin Forwards'
    BY <2>1 DEF Forwards, Dead
  <2>3. pc = "reap" /\ UNCHANGED <<tool, i>>
    BY <1>5 DEF Reap
  <2>4. \/ pc' = "exit1"
        \/ pc' = pc /\ pids' = pids \ {p}
    BY <1>5 DEF Reap, Goto
  <2> QED
    BY <2>2, <2>3, <2>4 DEF CloseInv, ClosedAtEnd, Uninstalling, Behind,
       Forwards
<1>6. ASSUME UNCHANGED session, Fewer PROVE CloseInv'
  BY <1>6 DEF session, CloseInv, ClosedAtEnd, Behind, Forwards
<1>7. ASSUME NEW p \in Pid, Bind(p) PROVE Fewer
  <2>1. PICK r \in [kind : Kinds, svc : Service \cup {NoService},
                    port : Port \cup {NoPort}] :
          /\ proc' = [proc EXCEPT ![p] = r]
          /\ r = Dead \/ r.svc = proc[p].svc
    BY <1>7, BindStep
  <2>2. proc'[p] = r /\ \A x \in Pid : x # p => proc'[x] = proc[x]
    BY <2>1, ProcTypes
  <2> QED
    BY <1>7, <2>1, <2>2 DEF Bind, Forwards, Dead
<1>8. ASSUME NEW p \in Pid, Fail(p) \/ Leave(p) PROVE Fewer
  <2>1. proc'[p] = Dead /\ \A x \in Pid : x # p => proc'[x] = proc[x]
    BY <1>8, ProcTypes, DeadType DEF Fail, Leave, Kill9
  <2> QED
    BY <2>1 DEF Forwards, Dead
<1>9. ASSUME NEW p \in Pid, NEW q \in Port, Serve(p, q) \/ Connect(p, q)
      PROVE  Fewer
  <2>1. /\ proc'[p].kind \in {"server", "client"}
        /\ \A x \in Pid : x # p => proc'[x] = proc[x]
    BY <1>9 DEF Serve, Connect, TypeOK
  <2> QED
    BY <2>1 DEF Forwards
<1>10. ASSUME NEW v \in Service, PodUp(v) \/ PodDown(v) PROVE Fewer
  BY <1>10 DEF PodUp, PodDown, Forwards
<1>11. CASE UNCHANGED vars
  BY <1>11 DEF vars, CloseInv, ClosedAtEnd, Behind, Forwards
<1>12. CASE Machine
  <2>1. Fewer
    BY <1>12, <1>7, <1>8, <1>9, <1>10 DEF Machine
  <2>2. UNCHANGED session
    BY <1>12 DEF Machine, Bind, Fail, Leave, Serve, Connect, PodUp, PodDown
  <2> QED
    BY <1>6, <2>1, <2>2
<1> QED
  BY <1>1, <1>2, <1>3, <1>4, <1>5, <1>11, <1>12 DEF Next, Start, Command

\* An uninstaller that comes to its end leaves none of its forwards, also
\* the ones that wait for their pod, with whatever programs and sessions
\* around it (delete-port-forward.sh 14-30).
THEOREM ForwardsAreClosed == Spec => []ClosedAtEnd
<1>1. Init => CloseInv
  BY DEF Init, CloseInv, ClosedAtEnd, Uninstalling
<1>2. CloseInv => ClosedAtEnd
  BY DEF CloseInv
<1> QED
  BY <1>1, <1>2, CloseNext, TypeInit, TypeNext, PTL DEF Spec
-----------------------------------------------------------------------------
(* The forward of the last success message wins.                           *)

ClientsOnly == \A p \in Pid : proc[p].kind = "client" => proc[p].port \in Clients

\* A port has one server.
OneListener ==
  \A p, r \in Pid : /\ proc[p].kind \in {"forward", "server"}
                    /\ proc[r].kind \in {"forward", "server"}
                    /\ proc[p].port = proc[r].port
                    => p = r

\* A forward that is no rival, waiting or not, is of the service that was
\* claimed for its port.  When the port is being forwarded anew it is what
\* lsof found, and after kill -9 there is none.
Accounted ==
  \A p \in Forwards \ rivals : proc[p].port \notin Clients =>
    /\ proc[p].svc = claimed[proc[p].port]
    /\ pc \in {"check", "kill"} /\ proc[p].port = Current.port =>
         proc[p].kind = "forward" /\ p = found
    /\ pc = "launch" => proc[p].port # Current.port

WinInv == ClientsOnly /\ OneListener /\ Accounted

\* A step that changes no process, and no port that is worked on.
LEMMA SameProcs ==
  ASSUME TypeOK, WinInv, UNCHANGED <<proc, claimed, rivals>>,
         \/ pc' \notin {"check", "kill", "launch"}
         \/ UNCHANGED <<pc, tool, i, found>>
  PROVE  WinInv'
  BY DEF WinInv, ClientsOnly, OneListener, Accounted, Forwards, Current

\* A step that ends one process.
LEMMA OneEnds ==
  ASSUME TypeOK, WinInv, NEW p \in Pid, Kill9(p), UNCHANGED claimed,
         \/ pc' \notin {"check", "kill", "launch"}
         \/ UNCHANGED <<pc, tool, i, found>>
  PROVE  WinInv'
<1>1. /\ proc'[p] = Dead
      /\ \A x \in Pid : x # p => proc'[x] = proc[x]
  BY ProcTypes, DeadType DEF Kill9
<1>2. ClientsOnly'
  BY <1>1 DEF WinInv, ClientsOnly, Dead
<1>3. OneListener'
  BY <1>1 DEF WinInv, OneListener, Dead
<1>4. Forwards' \ rivals' \subseteq Forwards \ rivals /\ p \notin Forwards'
  BY <1>1 DEF Forwards, Kill9, Dead
<1>5. Accounted'
  BY <1>1, <1>4 DEF WinInv, Accounted, Forwards, Current
<1> QED
  BY <1>2, <1>3, <1>5 DEF WinInv

\* The look and the second look of create-port-forward.sh 19-27.
LEMMA LookWins ==
  ASSUME TypeOK, WinInv, LookUp \/ CheckPort
  PROVE  WinInv'
<1>1. UNCHANGED <<proc, claimed, tool, i>> /\ Current' = Current
  BY DEF LookUp, CheckPort, Current
<1>2. ClientsOnly' /\ OneListener'
  <2>1. ClientsOnly'
    BY <1>1 DEF WinInv, ClientsOnly
  <2>2. OneListener'
    BY <1>1 DEF WinInv, OneListener
  <2> QED
    BY <2>1, <2>2
<1>3. CASE LookUp
  <2>1. pc' = "check" /\ rivals' = rivals \cup Unseen
    BY <1>3 DEF LookUp, Goto
  <2>2. ASSUME NEW p \in Forwards', p \notin rivals', proc'[p].port \notin Clients
        PROVE  /\ p \in Forwards \ rivals
               /\ proc[p].port = Current.port =>
                    proc[p].kind = "forward" /\ p = found'
    <3>1. p \in Forwards \ rivals /\ p \notin Unseen /\ p \in Pid
      BY <1>1, <2>1, <2>2 DEF Forwards
    <3>2. ASSUME proc[p].port = Current.port
          PROVE  proc[p].kind = "forward" /\ p = found'
      <4>1. proc[p].kind = "forward"
        BY <3>1, <3>2 DEF Unseen, Forwards
      <4>2. p \in Sockets(Current.port)
        BY <3>1, <3>2, <4>1 DEF Sockets, Listens
      <4>3. \A r \in Sockets(Current.port) : r = p
        BY <1>1, <2>2, <3>1, <3>2, <4>1
           DEF Sockets, Listens, WinInv, ClientsOnly, OneListener
      <4> QED
        BY <1>3, <4>1, <4>2, <4>3 DEF LookUp
    <3> QED
      BY <3>1, <3>2
  <2>3. Accounted'
    BY <1>1, <2>1, <2>2 DEF WinInv, Accounted
  <2> QED
    BY <1>2, <2>3 DEF WinInv
<1>4. CASE CheckPort
  <2>1. /\ pc = "check" /\ UNCHANGED <<found, rivals>>
        /\ \/ pc' = "kill"
           \/ pc' = "launch" /\ Sockets(Current.port) = {}
    BY <1>4 DEF CheckPort, Goto
  <2>2. Forwards' = Forwards
    BY <1>1 DEF Forwards
  <2>3. \A p \in Forwards : proc[p].kind = "forward" =>
          p \in Sockets(proc[p].port)
    BY DEF Forwards, Sockets, Listens
  <2>4. Accounted'
    BY <1>1, <2>1, <2>2, <2>3 DEF WinInv, Accounted
  <2> QED
    BY <1>2, <2>4 DEF WinInv
<1> QED
  BY <1>3, <1>4

\* kill -9 of what was found, line 29.
LEMMA KillWins ==
  ASSUME TypeOK, WinInv, Kill
  PROVE  WinInv'
<1>1. /\ UNCHANGED <<claimed, tool, i, found>> /\ Current' = Current
      /\ pc = "kill" /\ pc' = "launch"
  BY DEF Kill, Goto, Current
<1>2. /\ \A p \in Pid : \/ p = found /\ proc'[p] = Dead
                        \/ p # found /\ proc'[p] = proc[p]
      /\ \A p \in Pid : p # found /\ p \in rivals => p \in rivals'
  BY ProcTypes, DeadType, ForwardAssumption DEF Kill, Kill9, TypeOK
<1>3. ClientsOnly'
  BY <1>2 DEF WinInv, ClientsOnly, Dead
<1>4. OneListener'
  BY <1>2 DEF WinInv, OneListener, Dead
<1>5. ASSUME NEW p \in Forwards', p \notin rivals', proc'[p].port \notin Clients
      PROVE  /\ proc'[p].svc = claimed[proc'[p].port]
             /\ proc'[p].port # Current.port
  <2>1. p \in Pid /\ p # found /\ proc'[p] = proc[p]
    BY <1>2, <1>5 DEF Forwards, Dead
  <2>2. p \in Forwards \ rivals
    BY <1>2, <1>5, <2>1 DEF Forwards
  <2> QED
    BY <1>1, <1>5, <2>1, <2>2 DEF WinInv, Accounted
<1>6. Accounted'
  BY <1>1, <1>5 DEF Accounted
<1> QED
  BY <1>3, <1>4, <1>6 DEF WinInv

\* The new forward, lines 34-42.
LEMMA LaunchWins ==
  ASSUME TypeOK, WinInv, Launch
  PROVE  WinInv'
<1> USE ForwardAssumption
<1>1. /\ UNCHANGED <<tool, i, rivals>> /\ pc = "launch" /\ pc' = "forwarded"
      /\ claimed' = [claimed EXCEPT ![Current.port] = Current.svc]
  BY DEF Launch, Goto
<1>2. Current \in Call
  BY <1>1, CurrentType DEF Installing
<1> DEFINE new == [kind |-> "starting", svc |-> Current.svc,
                   port |-> Current.port]
<1>3. PICK n \in FreePid : proc' = [proc EXCEPT ![n] = new]
  BY DEF Launch
<1>4. /\ n \in Pid /\ proc'[n] = new
      /\ \A x \in Pid : x # n => proc'[x] = proc[x]
  BY <1>3 DEF FreePid, TypeOK
<1>5. claimed'[Current.port] = Current.svc
  BY <1>1, <1>2 DEF TypeOK, Call
<1>6. \A q \in Port \cup {NoPort} :
        q # Current.port => claimed'[q] = claimed[q]
  BY <1>1 DEF TypeOK
<1>7. \A p \in Pid : proc[p].port \in Port \cup {NoPort}
  BY DEF TypeOK
<1>8. ASSUME NEW p \in Forwards', p \notin rivals', proc'[p].port \notin Clients
      PROVE  proc'[p].svc = claimed'[proc'[p].port]
  <2>1. CASE p = n
    BY <1>4, <1>5, <2>1
  <2>2. CASE p # n
    <3>1. p \in Pid /\ proc'[p] = proc[p] /\ p \in Forwards \ rivals
      BY <1>1, <1>4, <1>8, <2>2 DEF Forwards
    <3>2. /\ proc[p].port # Current.port
          /\ proc[p].svc = claimed[proc[p].port]
      BY <1>1, <1>8, <3>1 DEF WinInv, Accounted
    <3> QED
      BY <1>6, <1>7, <3>1, <3>2
  <2> QED
    BY <2>1, <2>2
<1>9. Accounted'
  BY <1>1, <1>8 DEF Accounted
<1>10. ClientsOnly'
  BY <1>4 DEF WinInv, ClientsOnly
<1>11. OneListener'
  BY <1>4 DEF WinInv, OneListener
<1> QED
  BY <1>9, <1>10, <1>11 DEF WinInv

\* kubectl takes a port that nobody listens to, or ends.
LEMMA BindWins ==
  ASSUME TypeOK, WinInv, NEW p \in Pid, Bind(p)
  PROVE  WinInv'
<1> DEFINE new == [kind |-> "forward", svc |-> proc[p].svc,
                   port |-> proc[p].port]
<1>1. UNCHANGED <<claimed, pc, tool, i, found>> /\ Current' = Current
  BY DEF Bind, session, Current
<1>2. CASE Kill9(p)
  BY <1>1, <1>2, OneEnds
<1>3. CASE ~Kill9(p)
  <2>1. /\ proc[p].kind = "starting" /\ ~InUse(proc[p].port)
        /\ UNCHANGED rivals
    BY <1>3 DEF Bind
  <2>2. proc' = [proc EXCEPT ![p] = new]
    <3>1. [proc[p] EXCEPT !.kind = "forward"] = new
      BY DEF TypeOK
    <3> QED
      BY <1>3, <3>1 DEF Bind, TypeOK
  <2>3. proc'[p] = new /\ \A x \in Pid : x # p => proc'[x] = proc[x]
    BY <2>2 DEF TypeOK
  <2>4. \A x \in Pid : proc[x].kind \in {"forward", "server"} =>
          proc[x].port # proc[p].port
    BY <2>1 DEF InUse, Listens
  <2>5. OneListener'
    BY <2>3, <2>4 DEF WinInv, OneListener
  <2>6. ClientsOnly'
    BY <2>3 DEF WinInv, ClientsOnly
  <2>7. Forwards' = Forwards /\ p \in Forwards
    BY <2>1, <2>3 DEF Forwards
  <2>8. \A x \in Pid : proc'[x].svc = proc[x].svc /\ proc'[x].port = proc[x].port
    BY <2>3
  <2>9. \A x \in Pid : proc[x].kind = "forward" => proc'[x].kind = "forward"
    BY <2>3
  <2>10. Accounted'
    BY <1>1, <2>1, <2>7, <2>8, <2>9 DEF WinInv, Accounted, Forwards
  <2> QED
    BY <2>5, <2>6, <2>10 DEF WinInv
<1> QED
  BY <1>2, <1>3

\* Other programs take free ports, or connect where clients do.
LEMMA ProgramsLetWin ==
  ASSUME TypeOK, WinInv, NEW p \in Pid, NEW q \in Port,
         Serve(p, q) \/ Connect(p, q)
  PROVE  WinInv'
<1>1. PICK k \in {"server", "client"} :
        /\ proc' = [proc EXCEPT ![p] = [kind |-> k, svc |-> NoService, port |-> q]]
        /\ k = "server" => ~InUse(q)
        /\ k = "client" => q \in Clients
  BY DEF Serve, Connect
<1>2. /\ proc'[p] = [kind |-> k, svc |-> NoService, port |-> q]
      /\ \A x \in Pid : x # p => proc'[x] = proc[x]
  BY <1>1 DEF TypeOK
<1>3. UNCHANGED <<claimed, pc, tool, i, found, rivals>> /\ Current' = Current
  BY DEF Serve, Connect, session, Current
<1>4. k = "server" => \A x \in Pid : proc[x].kind \in {"forward", "server"} =>
                        proc[x].port # q
  BY <1>1 DEF InUse, Listens
<1>5. OneListener'
  BY <1>2, <1>4 DEF WinInv, OneListener
<1>6. ClientsOnly'
  BY <1>1, <1>2 DEF WinInv, ClientsOnly
<1>7. \A x \in Forwards' : x \in Forwards /\ proc'[x] = proc[x]
  BY <1>2 DEF Forwards
<1>8. Accounted'
  BY <1>3, <1>7 DEF WinInv, Accounted
<1> QED
  BY <1>5, <1>6, <1>8 DEF WinInv

LEMMA WinNext == TypeOK /\ WinInv /\ [Next]_vars => WinInv'
<1> SUFFICES ASSUME TypeOK, WinInv, [Next]_vars PROVE WinInv'
  OBVIOUS
<1>1. CASE Start
  <2>1. UNCHANGED <<proc, claimed, rivals>> /\ pc' \in {"lsof", "ps"}
    BY <1>1 DEF Start, StartInstall, StartUninstall, Goto
  <2> QED
    BY <2>1, SameProcs
<1>2. CASE LookUp \/ CheckPort \/ Kill \/ Launch
  BY <1>2, LookWins, KillWins, LaunchWins
<1>3. CASE NextCall \/ ListForwards \/ NextTerm \/ EndSession
  <2>1. /\ UNCHANGED <<proc, claimed, rivals>>
        /\ pc' \in {"lsof", "installed", "reap", "ps", "uninstalled", "idle"}
    BY <1>3 DEF NextCall, ListForwards, NextTerm, EndSession, Goto
  <2> QED
    BY <2>1, SameProcs
<1>4. ASSUME NEW p \in Pid, Reap(p) PROVE WinInv'
  <2>1. Kill9(p) /\ UNCHANGED claimed /\ pc' \in {"reap", "exit1"}
    BY <1>4 DEF Reap, Goto
  <2> QED
    BY <2>1, OneEnds
<1>5. ASSUME NEW p \in Pid, Fail(p) \/ Leave(p) PROVE WinInv'
  BY <1>5, OneEnds DEF Fail, Leave, session
<1>6. ASSUME NEW v \in Service, PodUp(v) \/ PodDown(v) PROVE WinInv'
  BY <1>6, SameProcs DEF PodUp, PodDown, session
<1>7. CASE Machine
  BY <1>5, <1>6, <1>7, BindWins, ProgramsLetWin DEF Machine
<1>8. CASE UNCHANGED vars
  BY <1>8, SameProcs DEF vars
<1> QED
  BY <1>1, <1>2, <1>3, <1>4, <1>7, <1>8 DEF Next, Command

\* A forwarded port leads to the service of the last success message for it
\* (create-port-forward.sh 19-42), for any tools and ports and however many
\* forwards of earlier sessions still wait for their pods: only a forward
\* that waited for the same port when lsof looked can be in the way.
THEOREM LastForwardAlwaysWins == Spec => []LastForwardWins
<1>1. Init => WinInv
  BY DEF Init, WinInv, ClientsOnly, OneListener, Accounted, Forwards, Dead
<1>2. TypeOK /\ WinInv /\ [Next]_vars => WinInv'
  BY WinNext
<1>3. WinInv => LastForwardWins
  BY DEF WinInv, Accounted, LastForwardWins, Forwards
<1> QED
  BY <1>1, <1>2, <1>3, TypeInit, TypeNext, PTL DEF Spec
-----------------------------------------------------------------------------
(* The scripts kill what they found, and nothing else.                     *)

\* A process that was found on the port, and those that were listed for the
\* term, are what they were, or are gone; their numbers are not used again.
Aimed ==
  /\ pc \in {"check", "kill"} /\ found \in Pid =>
       \/ proc[found] = Dead
       \/ proc[found].kind # "starting" /\ proc[found].port = Current.port
  /\ pc = "reap" => \A p \in pids :
       \/ proc[p] = Dead
       \/ p \in Forwards /\ proc[p].svc \in terms[tool][i]

\* What machine and cluster may make of a process that a script knows.
Known(p) ==
  \/ proc'[p] = proc[p] \/ proc'[p] = Dead
  \/ /\ proc[p].kind = "starting" /\ proc'[p].kind = "forward"
     /\ proc'[p].svc = proc[p].svc

\* A process that the scripts know keeps its service until it ends, and its
\* number is not taken by another.
LEMMA MachineKnows ==
  ASSUME TypeOK, Machine, NEW p \in Pid, p = found \/ p \in pids
  PROVE  Known(p)
<1>1. ASSUME NEW x \in Pid, Bind(x) PROVE Known(p)
  <2>1. PICK r \in [kind : Kinds, svc : Service \cup {NoService},
                    port : Port \cup {NoPort}] :
          /\ proc' = [proc EXCEPT ![x] = r]
          /\ r = Dead \/ (r.kind = "forward" /\ r.svc = proc[x].svc)
    BY <1>1, BindStep
  <2>2. proc'[x] = r /\ \A y \in Pid : y # x => proc'[y] = proc[y]
    BY <2>1, ProcTypes
  <2> QED
    BY <1>1, <2>1, <2>2 DEF Bind, Known
<1>2. ASSUME NEW x \in Pid, Fail(x) \/ Leave(x) PROVE Known(p)
  <2>1. proc'[x] = Dead /\ \A y \in Pid : y # x => proc'[y] = proc[y]
    BY <1>2, ProcTypes, DeadType DEF Fail, Leave, Kill9
  <2> QED
    BY <2>1 DEF Known
<1>3. ASSUME NEW x \in Pid, NEW q \in Port, Serve(x, q) \/ Connect(x, q)
      PROVE  Known(p)
  <2>1. x # p /\ \A y \in Pid : y # x => proc'[y] = proc[y]
    BY <1>3 DEF Serve, Connect, FreePid, TypeOK
  <2> QED
    BY <2>1 DEF Known
<1>4. ASSUME NEW v \in Service, PodUp(v) \/ PodDown(v) PROVE Known(p)
  BY <1>4 DEF PodUp, PodDown, Known
<1> QED
  BY <1>1, <1>2, <1>3, <1>4 DEF Machine

\* Whatever happens between lsof or ps and kill, the number that is killed
\* stands for what was found.
LEMMA AimedNext == TypeOK /\ Aimed /\ [Next]_vars => Aimed'
<1> SUFFICES ASSUME TypeOK, Aimed, [Next]_vars PROVE Aimed'
  OBVIOUS
<1> USE ForwardAssumption
<1>1. ASSUME NEW t \in Tool, StartInstall(t) \/ StartUninstall(t)
      PROVE  Aimed'
  BY <1>1 DEF StartInstall, StartUninstall, Goto, Aimed
<1>2. CASE Kill \/ Launch \/ NextCall \/ NextTerm \/ EndSession
  BY <1>2 DEF Kill, Launch, NextCall, NextTerm, EndSession, Goto, Aimed
<1>3. CASE LookUp
  <2>1. /\ pc' = "check" /\ UNCHANGED <<proc, tool, i>>
        /\ found' \in Sockets(Current.port) \/ found' = NoPid
    BY <1>3 DEF LookUp, Goto
  <2>2. Current' = Current
    BY <2>1 DEF Current
  <2> QED
    BY <2>1, <2>2 DEF Aimed, Sockets, Listens
<1>4. CASE CheckPort
  <2>1. /\ pc = "check" /\ pc' \in {"kill", "launch"}
        /\ UNCHANGED <<proc, found, tool, i>>
    BY <1>4 DEF CheckPort, Goto
  <2>2. Current' = Current
    BY <2>1 DEF Current
  <2> QED
    BY <2>1, <2>2 DEF Aimed
<1>5. CASE ListForwards
  BY <1>5 DEF ListForwards, Goto, Aimed, Forwards
<1>6. ASSUME NEW p \in Pid, Reap(p) PROVE Aimed'
  <2>1. /\ proc'[p] = Dead
        /\ \A x \in Pid : x # p => proc'[x] = proc[x]
    BY <1>6, ProcTypes, DeadType DEF Reap, Kill9
  <2>2. /\ pc = "reap" /\ UNCHANGED <<tool, i>>
        /\ \/ pc' = "exit1"
           \/ pc' = "reap" /\ pids' \subseteq pids
    BY <1>6 DEF Reap, Goto
  <2>3. pids \subseteq Pid
    BY DEF TypeOK
  <2> QED
    BY <2>1, <2>2, <2>3 DEF Aimed, Forwards
<1>7. CASE Machine
  <2>1. UNCHANGED session /\ Current' = Current
    BY <1>7 DEF Machine, Bind, Fail, Leave, Serve, Connect, PodUp, PodDown,
       session, Current
  <2>2. UNCHANGED <<pc, found, pids, tool, i>>
    BY <2>1 DEF session
  <2>3. \A p \in Pid : p = found \/ p \in pids => Known(p)
    BY <1>7, MachineKnows
  <2>4. ASSUME pc \in {"check", "kill"}, found \in Pid
        PROVE  \/ proc'[found] = Dead
               \/ /\ proc'[found].kind # "starting"
                  /\ proc'[found].port = Current.port
    BY <2>3, <2>4 DEF Aimed, Known, Dead
  <2>5. ASSUME pc = "reap", NEW p \in pids
        PROVE  \/ proc'[p] = Dead
               \/ p \in Forwards' /\ proc'[p].svc \in terms[tool][i]
    <3>1. p \in Pid /\ Known(p)
      BY <2>3, <2>5 DEF TypeOK
    <3>2. proc[p] = Dead \/ (p \in Forwards /\ proc[p].svc \in terms[tool][i])
      BY <2>5 DEF Aimed
    <3> QED
      BY <3>1, <3>2 DEF Known, Forwards, Dead
  <2> QED
    BY <2>1, <2>2, <2>4, <2>5 DEF Aimed
<1>8. CASE UNCHANGED vars
  BY <1>8 DEF vars, Aimed, Forwards, Current
<1> QED
  BY <1>1, <1>2, <1>3, <1>4, <1>5, <1>6, <1>7, <1>8 DEF Next, Start, Command

\* A process that the scripts end is one that has a socket on the port of the
\* call (create-port-forward.sh 19-29), or a forward of a service the term
\* names (delete-port-forward.sh 16-23), although forwards end and programs
\* start between the look and the kill -9.
THEOREM NobodyElseIsKilled ==
  Spec => [][Command => \A p \in Pid : proc[p] # Dead /\ proc'[p] = Dead =>
               \/ pc = "kill" /\ p = found /\ proc[p].port = Current.port
               \/ /\ pc = "reap" /\ p \in Forwards
                  /\ proc[p].svc \in terms[tool][i]]_vars
<1>1. Init => Aimed
  BY DEF Init, Aimed
<1>2. ASSUME TypeOK, Aimed, Command, NEW p \in Pid,
             proc[p] # Dead, proc'[p] = Dead
      PROVE  \/ pc = "kill" /\ p = found /\ proc[p].port = Current.port
             \/ /\ pc = "reap" /\ p \in Forwards
                /\ proc[p].svc \in terms[tool][i]
  <2>1. CASE Kill
    <3>1. pc = "kill" /\ (\/ found \in Pid /\ proc' = [proc EXCEPT ![found] = Dead]
                          \/ proc' = proc)
      BY <2>1 DEF Kill, Kill9
    <3>2. p = found
      BY <1>2, <3>1 DEF TypeOK
    <3> QED
      BY <1>2, <3>1, <3>2 DEF Aimed
  <2>2. ASSUME NEW x \in Pid, Reap(x)
        PROVE  /\ pc = "reap" /\ p \in Forwards
               /\ proc[p].svc \in terms[tool][i]
    <3>1. pc = "reap" /\ x \in pids /\ proc' = [proc EXCEPT ![x] = Dead]
      BY <2>2 DEF Reap, Kill9
    <3>2. p = x
      BY <1>2, <3>1 DEF TypeOK
    <3> QED
      BY <1>2, <3>1, <3>2 DEF Aimed
  <2>3. CASE Launch
    <3>1. PICK x \in FreePid :
            proc' = [proc EXCEPT ![x] = [kind |-> "starting", svc |-> Current.svc,
                                         port |-> Current.port]]
      BY <2>3 DEF Launch
    <3>2. x \in Pid /\ proc[x] = Dead
      BY <3>1 DEF FreePid
    <3> QED
      BY <1>2, <3>1, <3>2 DEF TypeOK
  <2>4. CASE UNCHANGED proc
    BY <1>2, <2>4
  <2> QED
    BY <1>2, <2>1, <2>2, <2>3, <2>4
       DEF Command, LookUp, CheckPort, NextCall, ListForwards, NextTerm, EndSession
<1>3. TypeOK /\ Aimed => (Command => \A p \in Pid :
        proc[p] # Dead /\ proc'[p] = Dead =>
          \/ pc = "kill" /\ p = found /\ proc[p].port = Current.port
          \/ /\ pc = "reap" /\ p \in Forwards
             /\ proc[p].svc \in terms[tool][i])
  BY <1>2
<1> QED
  BY <1>1, <1>3, AimedNext, TypeInit, TypeNext, PTL DEF Spec
=============================================================================
