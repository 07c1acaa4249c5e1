---------------------------- MODULE WaitPod_proofs ----------------------------
(***************************************************************************)
(* For any pods and any number of retries: the state is well typed, which  *)
(* bounds the retries, no kubectl wait is left behind, and a call that     *)
(* returns 0 has seen the pod it chose ready in its last attempt, however  *)
(* many pods share the prefix; and a call runs out of steps.               *)
(***************************************************************************)
EXTENDS WaitPod, TLAPS

\* Where the counters and the background process stand.
Stage ==
  /\ pc = "list" => COUNT < MAX_RETRIES
  /\ pc \in {"check", "wait", "spin", "verify", "evaluate"} => POD \in Pod
  /\ pc \in {"list", "check"} => WAIT_COUNT = 0
  /\ pc = "wait" => WAIT_COUNT < MAX_WAIT_RETRIES
  /\ pc = "spin" => WAIT_COUNT # 0
  /\ child # "none" => pc = "spin"

\* One more attempt, while there are some left.
LEMMA OneMore ==
  ASSUME NEW m \in Nat, NEW k \in 0..m, k < m
  PROVE  k + 1 \in 0..m
  OBVIOUS

LEMMA StageInit == Init => TypeOK /\ Stage
<1> SUFFICES ASSUME Init PROVE TypeOK /\ Stage
  OBVIOUS
<1>1. 0 \in 0..MAX_RETRIES /\ 0 \in 0..MAX_WAIT_RETRIES
  BY WaitAssumption
<1>2. TypeOK
  BY <1>1 DEF Init, TypeOK, Labels
<1>3. Stage
  BY DEF Init, Stage
<1> QED
  BY <1>2, <1>3

LEMMA StageNext == TypeOK /\ Stage /\ [Next]_vars => TypeOK' /\ Stage'
<1> SUFFICES ASSUME TypeOK, Stage, [Next]_vars PROVE TypeOK' /\ Stage'
  OBVIOUS
<1> USE DEF Goto, Return, locals
<1>0. /\ 0 \in 0..MAX_RETRIES /\ 0 \in 0..MAX_WAIT_RETRIES
      /\ 0 < MAX_RETRIES /\ 0 < MAX_WAIT_RETRIES
  BY WaitAssumption
<1>1. CASE Call
  <2>1. TypeOK'
    BY <1>0, <1>1 DEF Call, ReadyPods, TypeOK, Labels
  <2>2. Stage'
    BY <1>0, <1>1 DEF Call, ReadyPods, Stage
  <2> QED
    BY <2>1, <2>2
<1>2. CASE Found \/ NotFound
  <2>1. CASE Found
    <3>1. POD' \in Pod /\ pc = "list" /\ pc' = "check"
      BY <2>1 DEF Found, FirstPod, Exists
    <3> QED
      BY <2>1, <3>1 DEF Found, ReadyPods, TypeOK, Stage, Labels
  <2>2. CASE NotFound
    <3>1. COUNT' = COUNT + 1 /\ COUNT' \in 0..MAX_RETRIES
      <4>1. COUNT \in 0..MAX_RETRIES /\ COUNT < MAX_RETRIES
        BY <2>2 DEF NotFound, TypeOK, Stage
      <4>2. COUNT' = COUNT + 1
        BY <2>2 DEF NotFound
      <4> QED
        BY <4>1, <4>2, OneMore, WaitAssumption
    <3>2. \/ COUNT' < MAX_RETRIES /\ pc' = "list" /\ rc' = rc
          \/ pc' = "done" /\ rc' = "1"
      BY <2>2 DEF NotFound
    <3> QED
      BY <2>2, <3>1, <3>2 DEF NotFound, TypeOK, Stage, Labels
  <2> QED
    BY <1>2, <2>1, <2>2
<1>3. CASE CheckReady
  <2>1. READY' \in {"True", "False", ""}
    BY <1>3 DEF CheckReady, Condition
  <2>2. TypeOK'
    BY <1>3, <2>1 DEF CheckReady, TypeOK, Labels
  <2>3. Stage'
    BY <1>0, <1>3 DEF CheckReady, Stage
  <2> QED
    BY <2>2, <2>3
<1>4. CASE StartWait
  <2>1. WAIT_COUNT' \in 0..MAX_WAIT_RETRIES
    <3>1. WAIT_COUNT \in 0..MAX_WAIT_RETRIES /\ WAIT_COUNT < MAX_WAIT_RETRIES
      BY <1>4 DEF StartWait, TypeOK, Stage
    <3>2. WAIT_COUNT' = WAIT_COUNT + 1
      BY <1>4 DEF StartWait
    <3> QED
      BY <3>1, <3>2, OneMore, WaitAssumption
  <2>2. TypeOK'
    BY <1>4, <2>1 DEF StartWait, ReadyPods, TypeOK, Labels
  <2>3. Stage'
    <3>1. WAIT_COUNT \in 0..MAX_WAIT_RETRIES
      BY DEF TypeOK
    <3>2. WAIT_COUNT' = WAIT_COUNT + 1
      BY <1>4 DEF StartWait
    <3>3. WAIT_COUNT' # 0
      BY <3>1, <3>2, WaitAssumption
    <3> QED
      BY <1>4, <3>3 DEF StartWait, Stage
  <2> QED
    BY <2>2, <2>3
<1>5. CASE SpinnerReturns \/ SpinnerKills \/ WaitEnds
  <2>1. TypeOK'
    BY <1>5 DEF SpinnerReturns, SpinnerKills, WaitEnds, TypeOK, Labels
  <2>2. Stage'
    BY <1>5 DEF SpinnerReturns, SpinnerKills, WaitEnds, Stage
  <2> QED
    BY <2>1, <2>2
<1>6. CASE Verify
  <2>1. READY' \in {"True", "False", ""}
    BY <1>6 DEF Verify, Condition
  <2>2. TypeOK'
    BY <1>6, <2>1 DEF Verify, TypeOK, Labels
  <2>3. Stage'
    BY <1>6 DEF Verify, Stage
  <2> QED
    BY <2>2, <2>3
<1>7. CASE Evaluate
  BY <1>7 DEF Evaluate, TypeOK, Stage, Labels
<1>8. ASSUME NEW p \in Pod, PodStep(p) PROVE TypeOK' /\ Stage'
  BY <1>8 DEF PodStep, TypeOK, Stage
<1>9. CASE UNCHANGED vars
  BY <1>9 DEF vars, TypeOK, Stage
<1> QED
  BY <1>1, <1>2, <1>3, <1>4, <1>5, <1>6, <1>7, <1>8, <1>9 DEF Next, Script

\* The call is well typed: at most MAX_RETRIES attempts to find the pod and
\* MAX_WAIT_RETRIES to see it ready.
THEOREM TypeCorrect == Spec => []TypeOK
<1> QED
  BY StageInit, StageNext, PTL DEF Spec

\* No kubectl wait is left behind (spinner.sh 77-89).
THEOREM NoChildIsLeft == Spec => []NoChildLeft
<1>1. Stage => NoChildLeft
  BY DEF Stage, NoChildLeft
<1> QED
  BY <1>1, StageInit, StageNext, PTL DEF Spec
-----------------------------------------------------------------------------
\* READY says True only if the chosen pod was ready since the attempt began.
Seen ==
  /\ pc # "idle" => ReadyPods \subseteq wasReady
  /\ pc = "evaluate" /\ READY = "True" => POD \in wasReady
  /\ rc # "none" => pc = "done"
  /\ rc = "0" => POD \in wasReady

LEMMA SeenNext == TypeOK /\ Stage /\ Seen /\ [Next]_vars => Seen'
<1> SUFFICES ASSUME TypeOK, Stage, Seen, [Next]_vars PROVE Seen'
  OBVIOUS
<1> USE DEF Goto, Return, locals
<1>1. CASE Call
  BY <1>1 DEF Call, ReadyPods, Seen
<1>2. CASE Found \/ NotFound
  BY <1>2 DEF Found, NotFound, ReadyPods, Seen
<1>3. ASSUME NEW p \in Pod, READY' \in Condition(p), READY' = "True"
      PROVE  p \in ReadyPods
  BY <1>3 DEF Condition, Exists, ReadyPods, TypeOK
<1>4. CASE CheckReady
  BY <1>3, <1>4 DEF CheckReady, ReadyPods, Seen, Stage
<1>5. CASE StartWait \/ SpinnerReturns \/ SpinnerKills \/ WaitEnds
  BY <1>5 DEF StartWait, SpinnerReturns, SpinnerKills, WaitEnds, ReadyPods, Seen
<1>6. CASE Verify
  BY <1>3, <1>6 DEF Verify, ReadyPods, Seen, Stage
<1>7. CASE Evaluate
  BY <1>7 DEF Evaluate, ReadyPods, Seen
<1>8. ASSUME NEW p \in Pod, PodStep(p) PROVE Seen'
  BY <1>8 DEF PodStep, ReadyPods, Seen
<1>9. CASE UNCHANGED vars
  BY <1>9 DEF vars, ReadyPods, Seen
<1> QED
  BY <1>1, <1>2, <1>4, <1>5, <1>6, <1>7, <1>8, <1>9 DEF Next, Script

\* A call that returns 0 has seen the pod it chose ready during its last
\* attempt (wait-pod-running.sh 39-44, 72-82, 101), with any number of pods
\* that share the prefix and change between any two of its questions.
THEOREM ReadyIsSeen == Spec => []ReadyForItsPod
<1>1. Init => Seen
  BY DEF Init, Seen
<1>2. Seen => ReadyForItsPod
  BY DEF Seen, ReadyForItsPod
<1> QED
  BY <1>1, <1>2, StageInit, StageNext, SeenNext, PTL DEF Spec
-----------------------------------------------------------------------------
\* The rounds of kubectl wait that are left, each of four steps, and the
\* steps to the end of the current one.
Rounds == MAX_WAIT_RETRIES - WAIT_COUNT
Longest == MAX_RETRIES + 4 * MAX_WAIT_RETRIES + 2

StepsLeft ==
  CASE pc \in {"idle", "done"} -> 0
    [] pc = "list" -> Longest - COUNT
    [] pc = "check" -> 4 * MAX_WAIT_RETRIES + 2
    [] pc = "wait" -> 4 * Rounds + 1
    [] pc = "spin" -> IF child = "running" THEN 4 * Rounds + 4 ELSE 4 * Rounds + 3
    [] pc = "verify" -> 4 * Rounds + 2
    [] pc = "evaluate" -> 1

\* Never more rounds than there are in the beginning.
LEMMA RoundsType == TypeOK => Rounds \in 0..MAX_WAIT_RETRIES
<1> SUFFICES ASSUME TypeOK PROVE Rounds \in 0..MAX_WAIT_RETRIES
  OBVIOUS
<1>1. \A m \in Nat : \A k \in 0..m : m - k \in 0..m
  OBVIOUS
<1>2. MAX_WAIT_RETRIES \in Nat /\ WAIT_COUNT \in 0..MAX_WAIT_RETRIES
  BY WaitAssumption DEF TypeOK
<1> QED
  BY <1>1, <1>2, Zenon DEF Rounds

\* Each step of the script, and the end of kubectl wait, leaves fewer.
LEMMA StepsRunOut ==
  ASSUME TypeOK, Stage, TypeOK', Script \/ WaitEnds
  PROVE  StepsLeft' < StepsLeft
<1> USE DEF Goto, Return, locals
<1>0. /\ Rounds \in Nat /\ COUNT \in Int /\ WAIT_COUNT \in Int
      /\ MAX_RETRIES \in Nat \ {0} /\ MAX_WAIT_RETRIES \in Nat \ {0}
  <2>1. Rounds \in 0..MAX_WAIT_RETRIES
    BY RoundsType
  <2>2. COUNT \in 0..MAX_RETRIES /\ WAIT_COUNT \in 0..MAX_WAIT_RETRIES
    BY DEF TypeOK
  <2> QED
    BY <2>1, <2>2, WaitAssumption
<1>1. CASE Found
  <2>1. StepsLeft = Longest - COUNT /\ COUNT < MAX_RETRIES
    BY <1>1 DEF Found, StepsLeft, Stage
  <2>2. StepsLeft' = 4 * MAX_WAIT_RETRIES + 2
    BY <1>1 DEF Found, StepsLeft
  <2> QED
    BY <1>0, <2>1, <2>2 DEF Longest
<1>2. CASE NotFound
  <2>1. StepsLeft = Longest - COUNT /\ COUNT < MAX_RETRIES /\ COUNT' = COUNT + 1
    BY <1>2 DEF NotFound, StepsLeft, Stage
  <2>2. StepsLeft' = Longest - COUNT' \/ StepsLeft' = 0
    BY <1>2 DEF NotFound, StepsLeft, Longest
  <2> QED
    BY <1>0, <2>1, <2>2 DEF Longest
<1>3. CASE CheckReady
  <2>1. StepsLeft = 4 * MAX_WAIT_RETRIES + 2 /\ WAIT_COUNT = 0 /\ UNCHANGED WAIT_COUNT
    BY <1>3 DEF CheckReady, StepsLeft, Stage
  <2>2. StepsLeft' = 0 \/ StepsLeft' = 4 * Rounds' + 1
    BY <1>3 DEF CheckReady, StepsLeft
  <2> QED
    BY <1>0, <2>1, <2>2 DEF Rounds
<1>4. CASE StartWait
  <2>1. StepsLeft = 4 * Rounds + 1
    BY <1>4 DEF StartWait, StepsLeft
  <2>2. StepsLeft' = 4 * Rounds' + 4 /\ WAIT_COUNT' = WAIT_COUNT + 1
    BY <1>4 DEF StartWait, StepsLeft
  <2>3. Rounds' = Rounds - 1
    BY <1>0, <2>2 DEF Rounds
  <2> QED
    BY <1>0, <2>1, <2>2, <2>3
<1>5. CASE SpinnerReturns
  <2>1. StepsLeft = 4 * Rounds + 3
    BY <1>5 DEF SpinnerReturns, StepsLeft
  <2>2. StepsLeft' = 4 * Rounds' + 2 /\ Rounds' = Rounds
    BY <1>5 DEF SpinnerReturns, StepsLeft, Rounds
  <2> QED
    BY <1>0, <2>1, <2>2
<1>6. CASE SpinnerKills
  <2>1. StepsLeft = 4 * Rounds + 4
    BY <1>6 DEF SpinnerKills, StepsLeft
  <2>2. StepsLeft' = 4 * Rounds' + 3 /\ Rounds' = Rounds
    BY <1>6 DEF SpinnerKills, StepsLeft, Rounds
  <2> QED
    BY <1>0, <2>1, <2>2
<1>7. CASE Verify
  <2>1. StepsLeft = 4 * Rounds + 2
    BY <1>7 DEF Verify, StepsLeft
  <2>2. (StepsLeft' = 4 * Rounds' + 1 \/ StepsLeft' = 1) /\ Rounds' = Rounds
    BY <1>7 DEF Verify, StepsLeft, Rounds
  <2> QED
    BY <1>0, <2>1, <2>2
<1>8. CASE Evaluate
  BY <1>8 DEF Evaluate, StepsLeft
<1>9. CASE WaitEnds
  <2>1. StepsLeft = 4 * Rounds + 4
    BY <1>9 DEF WaitEnds, StepsLeft, Stage
  <2>2. StepsLeft' = 4 * Rounds' + 3 /\ Rounds' = Rounds
    BY <1>9 DEF WaitEnds, StepsLeft, Rounds, Stage
  <2> QED
    BY <1>0, <2>1, <2>2
<1> QED
  BY <1>1, <1>2, <1>3, <1>4, <1>5, <1>6, <1>7, <1>8, <1>9 DEF Script

\* The safety half of CallEnds, for all pods and limits: whatever the pods
\* do, wait_pod_running takes at most MAX_RETRIES + 4 * MAX_WAIT_RETRIES + 2
\* steps, since every step of it leaves fewer and the cluster adds none.
THEOREM CallsRunOut ==
  Spec => /\ [](StepsLeft \in 0..Longest)
          /\ [][/\ Call => StepsLeft' = Longest
                /\ Script \/ WaitEnds => StepsLeft' < StepsLeft
                /\ (\E p \in Pod : PodStep(p)) => StepsLeft' = StepsLeft]_vars
<1>1. TypeOK /\ Stage => StepsLeft \in 0..Longest
  <2> SUFFICES ASSUME TypeOK, Stage PROVE StepsLeft \in 0..Longest
    OBVIOUS
  <2>0. /\ Rounds \in Nat /\ Rounds <= MAX_WAIT_RETRIES /\ COUNT \in 0..MAX_RETRIES
        /\ MAX_RETRIES \in Nat \ {0} /\ MAX_WAIT_RETRIES \in Nat \ {0}
    <3>1. Rounds \in 0..MAX_WAIT_RETRIES
      BY RoundsType
    <3>2. COUNT \in 0..MAX_RETRIES
      BY DEF TypeOK
    <3> QED
      BY <3>1, <3>2, WaitAssumption
  <2>1. Longest \in Nat /\ Longest = MAX_RETRIES + 4 * MAX_WAIT_RETRIES + 2
    BY <2>0 DEF Longest
  <2>2. CASE pc \in {"idle", "done", "list", "check", "evaluate"}
    <3>1. StepsLeft \in {0, Longest - COUNT, 4 * MAX_WAIT_RETRIES + 2, 1}
      BY <2>2 DEF StepsLeft
    <3> QED
      BY <2>0, <2>1, <3>1
  <2>3. CASE pc = "wait" \/ pc = "verify"
    <3>1. StepsLeft \in {4 * Rounds + 1, 4 * Rounds + 2}
      BY <2>3 DEF StepsLeft
    <3> QED
      BY <2>0, <2>1, <3>1
  <2>4. CASE pc = "spin"
    <3>1. StepsLeft \in {4 * Rounds + 3, 4 * Rounds + 4}
      BY <2>4 DEF StepsLeft
    <3>2. Rounds + 1 <= MAX_WAIT_RETRIES
      <4>1. WAIT_COUNT \in 0..MAX_WAIT_RETRIES /\ WAIT_COUNT # 0
        BY <2>4 DEF Stage, TypeOK
      <4> QED
        BY <2>0, <4>1 DEF Rounds
    <3> QED
      BY <2>0, <2>1, <3>1, <3>2
  <2> QED
    BY <2>2, <2>3, <2>4 DEF TypeOK, Labels
<1>2. TypeOK /\ Stage /\ TypeOK' /\ [Next]_vars =>
        /\ Call => StepsLeft' = Longest
        /\ Script \/ WaitEnds => StepsLeft' < StepsLeft
        /\ (\E p \in Pod : PodStep(p)) => StepsLeft' = StepsLeft
  <2> SUFFICES ASSUME TypeOK, Stage, TypeOK'
               PROVE  /\ Call => StepsLeft' = Longest
                      /\ Script \/ WaitEnds => StepsLeft' < StepsLeft
                      /\ (\E p \in Pod : PodStep(p)) => StepsLeft' = StepsLeft
    OBVIOUS
  <2>1. Call => StepsLeft' = Longest
    <3> SUFFICES ASSUME Call PROVE StepsLeft' = Longest
      OBVIOUS
    <3>1. StepsLeft' = Longest - 0
      BY DEF Call, Goto, StepsLeft, Longest
    <3> QED
      BY <3>1, WaitAssumption DEF Longest
  <2>2. (\E p \in Pod : PodStep(p)) => StepsLeft' = StepsLeft
    BY DEF PodStep, StepsLeft, Rounds, locals
  <2> QED
    BY <2>1, <2>2, StepsRunOut
<1> QED
  BY <1>1, <1>2, StageInit, StageNext, PTL DEF Spec
=============================================================================
