# autobox: TLA+ models, checks and proofs

autobox is a toolbox of shell scripts that install, check and remove
middleware on a workstation (`docker-compose`) or in a local Kubernetes cluster
(`kubectl`), together with sample programs that put load on what was installed.
There is no server of its own: the state is in the cluster, in the process
table and the kubeconfig file of the workstation, and in the shell that runs
`start.sh`. What is hard about it is that the scripts read this state with one
command and act on it with a later one, while pods, namespaces, disowned
processes and other terminals go on.

Paths below are relative to the root of the repository (`src/` here).

## 1. Inventory

| Part | State it keeps | Operations | Interacts with | What must be right |
|---|---|---|---|---|
| Namespace and resource helpers (`scripts/kubernetes/create-namespace.sh`, `create-resources.sh`, `delete-resources.sh`, `delete-namespace.sh`) | phase of each namespace, applied objects, current kubectl context, a `kubectl proxy`, the shell's EXIT trap and `set -e` | create_namespace, create_resources, delete_resources, delete_namespace | cluster's namespace controller; other terminals through kubeconfig and the proxy's port | objects go to the namespace that was asked for; no proxy is left behind; a run that ends well left an Active namespace; every wait ends, but for the deletions that have no time limit |
| Port forwards (`create-port-forward.sh`, `delete-port-forward.sh`) | disowned `kubectl port-forward` processes, listening ports | port_forward, delete_port_forward | pods coming and going, other programs on the same ports, earlier tools that left forwards | a port leads to the tool that forwarded it last, unless a forward that `lsof` could not show comes up on it; an uninstaller closes its forwards, the waiting ones too |
| Waiting for pods (`wait-pod-running.sh`, `spinner.sh`) | retry counters, the pod found, a background `kubectl wait` | wait_pod_running, run_with_spinner | pods that restart or are replaced | exit code 0 means the pod that was found was ready; the call ends; no child is left |
| ActiveMQ STOMP producers (`kubernetes/activemq/samples/python`) | semaphore, start times, latencies, two threads | acquire, register, send, on_receipt, drain, report | broker over STOMP | permits conserved, receipts counted once, bounded memory, the test ends |
| Kafka throughput producers (`kubernetes/confluent/samples`) | local queue of librdkafka, delivery reports, latencies | produce, poll, flush, report | client library and broker | every message accounted for, full queue relieved, complete report, the test ends |
| Solace persistent producers and consumers (`kubernetes/solace/samples/queue-tcp-persistent`) | pending messages, interval, session; the message in hand | queue check over SEMP, connect, publish, acknowledge, close; bind, print, acknowledge | broker, SEMP service, each other through the queue | the producer ends; pending messages are those without a verdict; an acknowledged message is stored or was printed; delivery at least once |
| Kafka topic (`performance-80MB-throughput-producer.js`, `performance-consumer.py`) | pending send, latencies, shutdown; offsets and count | await send, handleShutdown, report; poll, count, commit, close | kafkajs, librdkafka, broker, each other through the topic | one true report; what a stop or a kill costs is bounded; everything is read |
| Kubernetes dispatch and installers (`start.sh`, `scripts/kubernetes.sh`, `kubernetes/*/install.sh`, `uninstall.sh`) | the current directory, exit codes, what is installed | kube_install, kube_delete, kube_check | all the helpers above | what can be installed can be removed; a failing step is noticed |
| Status checks (`kubernetes/*/check.sh`, `check-*-status.sh`), Camel K | none; Camel K: registry, daemon.json, kits | read and print; Camel K rewrites and restarts | cluster, docker | the answer is about the right pod |
| Menus and compose actions (`scripts/menu.sh`, `docker.sh`, `builders/`) | selection, current directory | select_option, docker_compose_* | terminal, docker | the option shown is the action taken |
| Release pipeline (`scripts/azure.sh`, `git.sh`, `yarn.sh`, `push.sh`) and versions (`semver.sh`, `setup-semver.sh`) | run id, working tree, package.json | run_pipeline, poll, merge, push, tag, bump, compare | Azure DevOps, git | the poll ends with the run's result; precedence as in semver 2.0.0; a version never falls below a release |
| Others: message and colour helpers, vendored AMQP library, compose stacks, manifests | none of their own | | | not modelled: output, third-party code, configuration |

`PROJECT.json` lists the same parts with their files, and every hazard at its
line.

### Behaviours that are hard to test

* *Check, then act.* `lsof`, `ps`, `kubectl get` and `kill`, `apply`, `delete`
  are separate commands; the cluster and the process table change in between.
* *Background processes.* A forward is disowned and reports success before it
  has a port; a proxy lives until a trap kills it; a `kubectl wait` is watched
  and killed by the spinner.
* *State shared by terminals.* The kubectl context and local ports.
* *Settings that leak.* `set -eo pipefail` in one script changes how the next
  one ends.
* *Two threads, or a callback.* The producers' receipts and delivery reports
  race the loop that sends, a signal handler runs under a pending `await`, and
  the broker may reject or go away.
* *Restarts.* A consumer is interrupted or killed between reading a message and
  counting or acknowledging it, and starts again from what was committed.
* *Sequences.* Versions go up and down through pre-releases and releases for as
  long as somebody bumps them.

## 2. The modules

| Module | Models | State and actions |
|---|---|---|
| `InFlightWindow` | Abstract: what a producer with flow control promises. Each message is handed over once, at most `Window` are unanswered, each is settled once. | `inFlight`, `confirmed`, `failed`; `Send`, `Settle` (several answers at a time) |
| `StompProducer` | The three STOMP producers; `TimedAcquire` and `BatchTarget` choose the script. | `pc` walks the main thread (`StartBatch`, `Acquire`, `AcquireTimeout`, `Register`, `SendMessage`, `CountSent`, `StartDrain`, `EndDrain`, `Interrupt`, `Report`); `on_receipt` is the listener thread; broker: `Confirm`, `Reject`, `Drop` |
| `KafkaProducer` | The librdkafka scripts; `script` is chosen among `Scripts`. | `pc` walks the loop (`StartCycle`, `Produce`, `BufferFull`, `PollFull`, `Poll`, `StartFlush`, `Flush`, `EndFlush`, `Interrupt`, `Report`); `Serve` is what poll and flush do with the callback; library: `Deliver`, `Fail` |
| `Namespace` | The four namespace and resource scripts as one installer or uninstaller calls them, in any number of terminals. | one `pc` for each terminal and one action for each command that changes or reads the cluster; `Finalize` is the namespace controller |
| `PortForward` | port_forward and delete_port_forward as installers and uninstallers call them, in one terminal. | `proc` is the process table, `rivals` (history) the forwards that a look at their port could not show; `LookUp`, `CheckPort`, `Kill`, `Launch`, `ListForwards`, `Reap` are the commands; `Bind`, `Fail`, `PodUp`, `PodDown`, `Serve`, `Connect`, `Leave` are kubectl, pods and other programs |
| `WaitPod` | wait_pod_running and the spinner, over the pods that share a prefix. | `Found`, `NotFound`, `CheckReady`, `StartWait`, `SpinnerReturns`, `SpinnerKills`, `Verify`, `Evaluate`; `WaitEnds` is kubectl wait, `PodStep` the cluster |
| `Delivery` | Abstract: what a queue or topic and its consumer promise. The broker lets go of a message only when it was handled, up to `InHand` messages, and `LossPerStop` more for each stop. | `accepted`, `handled`, `removed`, `stops`; `Accept`, `Handle`, `Remove`, `Stop` |
| `SolaceProducer` | The python and the Node producer of the persistent queue. | `pc` from the SEMP check (`EnsurePython`, `EnsureNode`, `CreateQueue`) over `Connect` to the python loop (`Register`, `Publish`, `EndLoop`) or the interval (`Tick`, `TickThrows`, `TickEnd`) and the close; handlers `on_publish_receipt`, `Acknowledged`, `Rejected`; broker and library: `Store`, `Refuse`, `Drop`, `Retry`, and `HasRoom`, the publisher window |
| `SolaceConsumer` | Their consumers. | `Bind`, `BindFails`, `on_message`, `Ack`, `Stop`; library: `Reconnect`, `GiveUp`, after which the process lives on and hears nothing; broker: `Remove` |
| `SolaceQueue` | The composition: one producer and one consumer that share the queue. | `exists`, `spool`; a step of either |
| `KafkaJsProducer` | The kafkajs producer. | `pc` of the async function (`BeginSend`, `Confirmed`, `SendFails`, `CatchReturns`, `EndTest`), `shutdown` of the handler (`Signal`, `Disconnected`); library: `Write` (with a retry or without), `Reject` |
| `KafkaConsumer` | performance-consumer.py over all its processes. | `Start`, `Poll`, `Count`, `Stop`, `Close`, `Kill`; librdkafka: `AutoCommit` |
| `KafkaTopic` | The composition over one topic. | `log`; a step of either |
| `Semver` | compare and bump of `semver.sh`, as operators on versions, and the precedence of semver 2.0.0. The loops are recursive functions on the positions of a string, or its first position at which a turn returns (`Decided`). | none; `compare_version`, `command_bump`, `Precedes` |
| `SetupSemver` | The version in package.json under setup-semver and bumps by hand. | `file`, `highest` (history); `setup_new_version`, `BumpByHand` |
| `MC...` | values for the tables of the tools and for the versions | |
| `..._proofs` | theorems and their proofs | |

A step is one command of a script: everything another process can see or change
between two commands can happen between two steps. What a command reads it
reads at once. In the python producers a step is what runs between two points
at which the other thread or the library may act on the same data.

`StompProducer` and `KafkaProducer` both implement `InFlightWindow`
(`ImplementsWindow`): start times and semaphore, and queue and delivery reports,
are two ways to keep one promise. `SolaceQueue` and `KafkaTopic` both implement
`Delivery` (`ImplementsDelivery`), and the constants tell them apart: nothing is
lost between the Solace scripts, whose consumer acknowledges after it has
printed; the Kafka consumer may leave one record uncounted for each stop, since
poll notes the offset before the line that counts.

The Node script of `KafkaProducer` relies on a fact about its library:
node-rdkafka hands out delivery reports only from `poll()` (or
`setPollInterval()`) and from `flush()`, and librdkafka counts a message in
`queue.buffering.max.messages` until its report is handed out. The libraries of
the other modules are external in the same way: the Solace APIs keep a message
until the broker answered, send it again after a reconnection, give a
connection up after their retries, and refuse a message beyond the publisher
window, of which the Node script sets only the size (`HasRoom`; no property says
that the window is kept); kafkajs may
append a record twice when a request is retried; `consumer.close()` commits what
was noted; the broker removes only what was acknowledged, or moves only to what
was committed.

## 3. The runs

| Run | Question | Bounds | Result |
|---|---|---|---|
| `stomp_450` | Do two threads and an unreliable broker keep permits, receipts and statistics right, and does the script end? | window 2, batches of 2, 4 messages | holds |
| `stomp_80_reject` | `RejectionReported`: a script that waits for a permit while nothing is on the wire goes on to its report. | blocking acquire, broker that rejects | violated |
| `kafka_450` | Is every message accounted for, the full queue relieved and the report complete, in both python loops? | queue 2, batches of 3, poll every 2, 4 messages | holds |
| `kafka_rdkafka` | `PauseMakesRoom` for the Node script. | queue 2, 3 messages | violated |
| `namespace_one` | One terminal installs and removes confluent, klaw and keycloak in any order. | 3 tools, 4 namespaces, one of which may exist before | holds |
| `namespace_linkerd` | `NoOrphanProxy` for an uninstaller that deletes three namespaces. | 1 terminal, 3 namespaces | violated |
| `forward_install` | Do solace and confluent, which share local port 8088, get and close their forwards, also while forwards of earlier sessions wait for their pods? | 3 processes, 2 ports, 3 services | holds |
| `wait_pod` | Does exit code 0 mean that the pod it found was ready, in the last attempt, and does the call end? | 2 pods of one prefix, the script's 5 and 3 retries | holds |
| `solace_queue` | Are acknowledged messages safe, pending ones exactly those without a verdict, delivery at least once, and does the producer end? | both languages, 3 messages, window 1, 1 loss of the producer's connection, 2 stops or losses of the consumer | holds |
| `solace_python` | `AckMeansStored`: a receipt that the python producer prints as "ACK OK" means that the message is in the queue. | 2 messages | violated |
| `kafka_topic` | One true report whatever the moment of a signal; what do retries, interrupts and kills cost the reader, and is everything read? | 2 sends, 1 retry, 3 records, 2 stops | holds |
| `semver` | Does compare follow semver 2.0.0, and can bumps bring the version below a release? | 60 versions (15 pre-releases, 4 cores), 6 prototypes, 5 bumps, `MaxInt` 98 | holds |

### What the violated runs show

Each of them checks one statement of the scripts themselves against what they
do; `PROJECT.json` quotes the statement.

* `stomp_80_reject`: `on_error` gives no permit back and `acquire()` has no time
  limit, so two rejected messages stop the 80 MB script before the report that
  has a line for this very case.
* `kafka_rdkafka`: the Node script pauses when its queue is full, but nothing in
  the pause serves delivery reports; the queue stays full until the flush.
* `solace_python`: the python producer never creates the queue and does not look
  at what a receipt says, so a refused message is printed as acknowledged.
* `namespace_linkerd`: `PROXY_PID` is one variable and a trap replaces the one
  before, so of several proxies the shell kills only the last one it named.

### Known limits of the other runs

The passing runs and the theorems have assumptions that the code does not meet
everywhere. Where it does not, the property is false of the code:

* Two terminals (`OneShell`): a manifest that names no namespace goes to the one
  the context has when kubectl runs, which another terminal may have switched
  (create-resources.sh 21).
* Pods that share a prefix: the first one is taken, so the wait for `redis` can
  be satisfied by `redisinsight`, and the one for `solace` by the discovery
  agent (wait-pod-running.sh 16). `ReadyForItsPod` is about the pod that was
  taken, with others of its prefix beside it.
* Ports with clients (`Clients`): `lsof -i | tail -1` may name a client; the old
  forward keeps the port and the new one gives up after its success message
  (create-port-forward.sh 21-42).
* A forward that waits for its pod has no socket, so line 19 cannot find it; it
  may come up before the new forward, or take its place later. The model keeps
  such forwards in `rivals`, and `LastForwardWins` and `ReportComesTrue` except
  them: without the exception TLC finds the wrong service on the port.
* Deletions without a time limit: `kubectl delete` waits for finalizers, and
  delete-resources.sh 56 and 61-118 call it with neither `--timeout` nor the
  spinner. `SweepRest` has no fairness and `SessionsEnd` names it as the one
  place where a session may hang. The uninstallers of karavan (`kubectl delete -f`,
  line 7), n8n (line 21), eventcatalog, istio and linkerd (`| kubectl delete -f -`)
  have more such calls of their own, which are not modelled and can hang in the
  same way.
* A Solace consumer that hears nothing: the Node one if it was started before
  there was a queue, and either when the library gives up its connection
  (consumer-queue-tcp.py 56-57). `EventuallyHandled` says that there is no other
  way to leave a message in the queue.
* delete_namespace leaves `set -e` on, so a kill that fails ends the
  uninstaller instead of being reported (`Reap` to `exit1` in `PortForward`);
  `ClosedAtEnd` therefore speaks of an uninstaller that comes to its end.
* A failed bump empties the version in package.json and reports success
  (setup-semver.sh 38-49). It fails on a trailing number such as `08`, which the
  shell reads as octal and the regular expression admits (semver.sh 11) although
  the usage text does not (38-39). `ComparesBySpec` is about versions of the
  usage text (`Canonical`) and the C locale; `NeverBelowARelease` leaves out the
  empty version. The core fields grow as natural numbers: that `$(( ))` wraps
  around at 2^63 is not modelled.
* `bump prerel` makes `rc10` of `rc9`, which precedes it: without a dot before
  the number the identifiers are compared as strings, as semver 2.0.0 has it. So
  no property says that a bump is newer. A version with a build part is never
  replaced by setup-semver, since its `+` is a quantifier in the pattern of perl.

### Bounds, and why they are enough

* A window or queue of 2 is the smallest that can be full, partly free and
  empty; with 4 messages it is filled twice. Batches of 2 and 3 end both
  before and when the window is full.
* `PortForward`: sessions start at any moment, also while a forward waits for
  its pod. Three processes are a forward that holds the port, the one that is to
  replace it, and another program. Services of two tools on one port and a
  second port are what `tail -1` and the argument of delete_port_forward can
  confuse.
* Three tools cover the tables of `Namespace`: a namespace in every object of
  the manifest (confluent) or in the context, a namespace.yml that declares the
  name asked for or another one (keycloak's declares solace), an uninstaller that
  sweeps, and one that deletes the namespace again (klaw). A session installs or
  removes one tool; what several terminals do to each other is left to the
  theorems, where it is true. confluent's installer calls create_namespace twice;
  the second call finds what the first one made.
* Counters of the scripts (5 and 3 retries) have their real values.
* `SolaceQueue`: with three messages and a window of one, a send is refused by
  the window, one message is pending and one is still to come; one loss of the
  producer's connection falls at every point, and so do two of the consumer's
  ends, losses and surrenders, so that a deaf consumer can be started again and
  be stopped once more.
* `KafkaTopic`: two sends and one retry give up to three records, so a record
  can be duplicated before and after another one; two stops are an interrupt
  and a kill, or two of either, at every point of the loop.
* `semver`: pre-releases lie on both sides of the step from one digit to two,
  with and without a dot, with leading zeros, with identifiers of both kinds and
  of different lengths; five bumps mix every command. `MaxInt` is small so that
  a bump passes it.
* `MaxMessages` bounds the length of a test. When it is reached the script
  spends the rest of its time without sending (`Exhausted`). Time itself is two
  flags, the end of the test and the end of the drain.

### Fairness, and why the code justifies it

Only what runs by itself is fair. Shell commands and the script's own loop are
weakly fair (`Bounded`, `Command`, `Script`, `Main`): an API server answers or
refuses a read, an apply or a patch, and what waits for the cluster has a
`--timeout`, a number of retries or the spinner. The deletions of
delete_resources that have none of these (`SweepRest`) are not fair. The listener
thread, the
clock and, in `StompProducer`, a broker that is connected and has something to
answer are weakly fair; librdkafka settles every message because of
`message.timeout.ms`, and kafkajs every request because of `requestTimeout`. In
`SolaceQueue` the broker answers and the producer's library retries; in
`KafkaTopic` the background commit runs; a consumer that ended is started again,
by its user or by Kubernetes, which is what `EventuallyHandled` and
`EventuallyRead` rest on. Nobody has to stop a consumer that is alive and hears
nothing. A
forward whose pod runs comes to its port (`Bind`). Beyond that restart nothing
is assumed of users, of pods, of the namespace controller (a namespace may be
Terminating for ever) or of a connection. The broker's fairness is not
what makes `Terminates` hold in `stomp_450`: a broker may drop the connection
with everything unanswered.

Deadlock checking is off for the producers, alone and with their consumers,
which come to their end, and for `semver`, where the bumps are bounded. It is on
where a session can always be started again.

## 4. The proofs

TLC checks the instances above; the following hold for every value of the
constants that the assumptions admit.

| Theorem | Says | Under |
|---|---|---|
| `StompProducer_proofs`: `TypeCorrect`, `PermitsAreConserved`, `ReceiptsStayRegistered`, `ReceiptsCountOnce`, `WindowAlwaysHolds` | the safety of `stomp_450`, for any window, batch, broker and number of messages | `ProducerAssumption` |
| `StompProducer_proofs!Refinement` | the script implements `InFlightWindow` | same |
| `StompProducer_proofs!AcquireIsAnswered` | when acquire waits, a message is with the broker or its receipt is on the way | no `Faults`: a rejection or a lost connection breaks it, see `stomp_80_reject` |
| `StompProducer_proofs!TestRunsOut` | after the end of the test the main thread has at most `4 * BatchTarget + 3` steps left, each takes one away and no other thread adds one | `ProducerAssumption` |
| `KafkaProducer_proofs`: `TypeCorrect`, `EveryMessageIsAccounted`, `ReportsAreComplete` | each message is queued, counted or lost, in exactly one place; an uninterrupted python report covers all that was sent | `KafkaAssumption` |
| `KafkaProducer_proofs!BackpressureWorks` | a pause on a full queue makes room | `PollingScripts`: without the Node script, for which `kafka_rdkafka` refutes it |
| `KafkaProducer_proofs!Refinement` | the scripts implement `InFlightWindow` | `KafkaAssumption` |
| `KafkaProducer_proofs!WindowSettlesOnce` | what implements `InFlightWindow` holds its bound, settles each message once and takes no answer back | same |
| `KafkaProducer_proofs!TestRunsOut` | after the end of the test at most `6 + 2 * BatchTarget + QueueMax` steps are left, and no answer adds one | same |
| `Namespace_proofs!TypeCorrect` | typing, and that a deletion always knows the namespace it works on | `NamespaceAssumption` |
| `Namespace_proofs!ProxiesAreKilled` | `NoOrphanProxy`, for any number of terminals | `OwnNamespaceOnly`: each uninstaller deletes the one namespace its installer created (linkerd's does not, see `namespace_linkerd`) |
| `Namespace_proofs!ObjectsAreInPlace` | `AppliedWhereAsked` | `OwnNamespaceOnly` and `OneShell` (with two terminals it is false) |
| `Namespace_proofs!InstalledStaysActive` | `InstalledIsActive` | same |
| `Namespace_proofs!PinnedObjectsAreInPlace` | what remains of `AppliedWhereAsked` with any number of terminals: a manifest that names its namespace is applied there | `OwnNamespaceOnly` |
| `Namespace_proofs!SessionsRunOut` | each command of a session, when it ends, leaves fewer to run, and nothing else changes how many; so a session can only hang inside a command | `NamespaceAssumption` |
| `PortForward_proofs!TypeCorrect`, `ForwardsAreClosed` | an uninstaller that ends has closed its forwards, for any tools and programs | `ForwardAssumption` |
| `PortForward_proofs!LastForwardAlwaysWins` | a port without clients leads to the service of the last success message, but for a forward that was waiting, and so invisible, when a later call looked | `ForwardAssumption` |
| `PortForward_proofs!NobodyElseIsKilled` | a script kills only what has a socket on the port of its call, or a forward of a service its term names | `ForwardAssumption` |
| `WaitPod_proofs`: `TypeCorrect`, `NoChildIsLeft` | no `kubectl wait` is left behind | `WaitAssumption` |
| `WaitPod_proofs!ReadyIsSeen` | exit code 0 means that the pod the call chose was ready during its last attempt, with any pods beside it | `WaitAssumption` |
| `WaitPod_proofs!CallsRunOut` | a call takes at most `MAX_RETRIES + 4 * MAX_WAIT_RETRIES + 2` steps | `WaitAssumption` |
| `SolaceQueue_proofs`: `TypeCorrect`, `PendingMessagesAreUnanswered`, `AcknowledgedMessagesAreSafe` | the safety of `solace_queue`, for any number of messages, losses and stops | `SolaceAssumption` |
| `SolaceQueue_proofs!DeliveryRefinement` | queue and consumer implement `Delivery` without a loss | same |
| `SolaceQueue_proofs!NothingIsLost`, `VerdictsAreFinal` | what left the queue was printed and what was printed was stored; no message has two verdicts, and none is taken back | same |
| `SolaceQueue_proofs!ProducerRunsOut` | besides ticks that throw, a producer takes at most `2 * MaxCount + 7` steps | same |
| `KafkaTopic_proofs`: `TypeCorrect`, `ReportsAreTrue`, `DoubleCountsNeedKills` | the safety of `kafka_topic`, for any number of sends, retries, records and stops | `TopicAssumption` |
| `KafkaTopic_proofs!DeliveryRefinement` | topic and consumer implement `Delivery`, at most one record lost for each stop and one in hand | same |
| `KafkaTopic_proofs!DeliveryBoundsLosses` | what implements `Delivery` has lost at most one message and one more for each stop | same |
| `KafkaTopic_proofs!LossesNeedStops`, `CopiesAreRetries`, `OffsetsNeverGoBack` | the same of the code, and one less while nothing is in hand; a send is in the topic at most once more than it may be retried; the committed offset only grows, up to the end of the topic | same |
| `KafkaTopic_proofs!ProducerRunsOut` | after the end of the test or a signal at most `MaxRetries + 4` steps are left | same |
| `SetupSemver_proofs!VersionsNeverFallBehind` | `NeverBelowARelease`, for any versions and number of bumps | `SemverAssumption` |
| `SetupSemver_proofs!CompareIsPrecedence`, `CompareIsAnOrder` | compare prints the precedence of semver 2.0.0, which is an order | both versions follow the usage text (`Canonical`), with pre-releases of any length and numbers up to any `MaxInt` |
| `SetupSemver_proofs!ComparesAsSpecified` | `ComparesBySpec`, for any versions and number of bumps | `SemverAssumption` |
| `SetupSemver_proofs!NewVersionsComeAfter` | a patch, minor or major, and the release of a pre-release, come after the version setup-semver read | same |

The arguments:

* *StompProducer.* `IndInv` adds to the checked invariants that identifiers are
  handed out in order (`IdsInOrder`: the number of the message about to be
  registered is in use nowhere) and that a loop which sends has something left
  to send (`LoopCounters`). Without the first, a receipt could be that of an
  older message with the same number, and `CountedOnce` would not be inductive.
  `AcquireIsAnswered` rests on `OnTheWay`: without faults a pending message is
  the one about to leave, or with the broker, or its receipt is on the way. With
  no permit left and `PermitsConserved`, one of the last two is not empty.
* *KafkaProducer.* `Accounted` is almost inductive: `BatchLeft` types the
  batch, `QueueBounded` gives the refinement its window, and `Flushed` carries
  the empty queue from the end of flush to the report. The lemma
  `ServeAccounts` states once what a round of callbacks does; poll, poll on a
  full queue and flush cite it.
* *Namespace.* For the proxy: at most one shell has the live proxy in its trap
  (`OneOwner`), a shell has no trap before it deletes (`TrapsSet`), and it
  deletes one namespace (`OneLeft`), so no second call can overwrite the trap.
  For the objects: between set-context and apply the context is the tool's
  namespace (`ContextSet`), which is where a second terminal would interfere.
  A pinned manifest does not read the context, so `PinnedObjectsAreInPlace`
  needs neither `ContextSet` nor one terminal.
* *PortForward.* `CloseInv`: the terms already worked through have no forward
  left, and every forward of the current term is still in the list `ps`
  gave; a forward that binds meanwhile was in the list as a waiting one.
  `WinInv`: one listener on a port, and (`Accounted`) every forward that is no
  rival, the waiting ones too, is for the service claimed last; while a call
  works on its port it can only be what `lsof` found, and it is gone when the
  next one is launched. `Aimed`: what was found or listed is
  still what it was, or is gone. A PID that a script holds is not given to a new
  process; this is part of the model (`FreePid`), and all three need it.
* *WaitPod.* `Stage` relates the counters and the child to the command that
  runs; `Seen` says that what was printed as True is the chosen pod, ready since
  the attempt began.
* *SolaceQueue.* `Numbers` places every message relative to the next number, so
  an answer is never that of a later message; `Kept` chains stored, queue,
  acknowledgement and removal: what is removed was acknowledged and what is
  acknowledged was printed. A step of one side leaves the variables of the other
  alone (`ProducerSteps`, `ConsumerSteps`).
* *KafkaTopic.* `Phase` ties the report to where the async function stands.
  `Missed` counts what was noted or committed and never counted, against the
  stops and the record in hand (`Holding`); `Repeats` says that beyond the
  offset from which reading goes on a record was counted at most once for each
  kill. Both need `Offsets`, that what is committed was noted and what was noted
  was read. Three lemmas say how the cardinality of what is missed changes.
  For `CopiesAreRetries`, `Stored` adds what the topic holds of the send whose
  request is pending, against its retries, and that nothing is stored of a send
  that did not begin.
* *SetupSemver.* `BumpGoesUp`: a bump of a well-formed version is empty or has a
  core that is no smaller; with the transitivity of `CoreLess` the highest
  release stays below.
* *Semver.* compare works on strings of digits and precedence on numbers. Two
  facts bridge them, each by induction on a length or a number: the digits of
  `Decimal[n]` are a number without a leading zero and have the value n
  (`DecimalIsANumber`), and such numbers with the same value are the same string
  (`ValueDetermines`), so that two fields compare as equal only when they are.
  The loop of `compare_fields` stops at the least index of `Decided`, which is
  then the first at which the lists differ or one of them ends, the index the
  specification speaks of (`FieldsCompare`).

*The halves of termination.* `TestRunsOut` (twice), `ProducerRunsOut` (twice),
`CallsRunOut` and `SessionsRunOut` have one form: a number computed from the
state (`StepsLeft`, `CommandsLeft`), bounded by the constants, that each step of
the program makes smaller and that no step of its surroundings makes larger. What
they leave to TLC is that the steps are taken. They say where it matters how the
surroundings behave: a tick of the Node Solace producer that throws is no
progress, and a wait for a permit ends by an answer or by the time limit.

*Induction.* The theorems of the library that are named for induction take an
operator as a parameter and cannot be used here. `WFMin` of
`WellFoundedInduction` takes a set, and says that a set of numbers that is not
empty has a least element; so a lemma for all n is stated as Nat being a subset
of {n \in Nat : ...} (`SetInduction`). A recursive function is by definition a
choice among the functions that satisfy its equation: one exists
(`LoopHasARun`), and so the chosen one satisfies it.

*Only model-checked:* the liveness properties (`Terminates`, `SessionsEnd`,
`CallEnds`, `ReportComesTrue`, `EventuallyHandled`, `Ends`, `EventuallyRead`,
`ProducerExits`), which need fairness and `ENABLED`, out of the prover's reach
here. `PauseMakesRoom` is not proved of the Node script, for which it is false.
Every safety invariant and action property of the passing runs is a theorem,
under the assumptions of the table.


## 5. Not modelled

Percentiles, payloads, message texts, colours and terminal control are left out
because no property is about them. The remaining parts of the inventory, and why
they have no module:

* *Dispatch and installers.* An `install.sh` is a fixed sequence of calls to the
  helpers; the calls and each tool's namespaces, forwards and sweeps are in
  `Namespace`, `PortForward` and `WaitPod` with the tables of `MCNamespace` and
  `MCPortForward`. The sequence itself has nothing to choose. Two mistakes are
  seen by reading alone: `kube_delete` has no branch for tool 13, and
  `kubernetes/redis/install.sh` 9 calls `apply_resources`, which is defined
  nowhere. `PortForward` has one terminal.
* *Status checks, menus, compose actions.* They print, draw, or run one command
  for one key, and keep no state.
* *Camel K.* A fixed sequence around docker and the Camel K operator, whose
  behaviour is not in the repository.
* *Release pipeline.* No script calls `run_pipeline`, `setup_semver` or the
  functions of `git.sh`; their order belongs to whoever sources them. What
  setup-semver does to a version is in `SetupSemver`.
* *Other producers and consumers.* One message and one answer, or direct
  messages without acknowledgement.
* *Third-party code and configuration.* The vendored AMQP library, the compose
  stacks and the YAML manifests. `compose/confluent/samples/get-pip.py` is an
  encoded copy of pip: it is most of the python lines of the repository (28579
  of 30128), so the modelled share of the python code is small by count, while
  most of the scripts with state across messages are modelled.

## 6. Plan

What could be added next, in order of worth:

1. Two terminals in `PortForward`, and what remains true of `ClosedAtEnd` and
   `NobodyElseIsKilled` with two.
2. The installers as sequences over `Namespace`, `PortForward` and `WaitPod`,
   with an abstract tool that is absent, installed or half installed.
3. The release pipeline, if a caller comes into the repository.
