# CortexBrain: a formal model

CortexBrain observes the network and the tasks of a Kubernetes node. eBPF
programs write records into perf event arrays and look addresses up in a
blocklist; two loaders, `identity` and `metrics`, load and pin them and read the
records; the agent opens the pinned maps as well and serves what it reads over
gRPC; `cfcli` and an MCP server are what the user sees. This directory holds
TLA+ modules of the parts that keep state and interact, TLC runs of them on
small instances, and proofs for every instance. Paths are those of the
repository; `PROJECT.json` maps every definition to its lines.

## 1. Inventory

| Component | State | Operations | What is hard | What makes it correct |
|---|---|---|---|---|
| conntracker (eBPF: `tc.rs`, `tcp_analyzer.rs`, `veth_tracer.rs`) | maps `events_map`, `veth_identity_map`, `tcp_packet_registry`, `Blocklist` | classify a packet, drop it or write a record | runs on every CPU at once; byte order of the key | blocked addresses are dropped; a record is read by one process, in order |
| metrics_tracer (eBPF: `network.rs`, `cpu.rs`, `memory.rs`, `ssl.rs`) | `time_stamp_start`, `cpu_idle_last_state`, the SSL contexts, perf event arrays | probes of connects, packets, drops, idle states, allocations, SSL calls | entries that outlive their socket; a full map; a probe on another CPU than its ring | a measurement is of the connect it names, once; the gauge is the latest state |
| identity (loader) | the loaded maps, the blocklist, the tracked interfaces, links, rings | load, pin, list interfaces, populate, attach, track, read, stop | restarts at any step; a bad line on the list; interfaces that come and go during a start | the listed addresses are in the map before the classifier is attached; every listed interface gets it, and nobody is uncovered without a reason |
| metrics (loader) | the loaded maps, rings, `ServiceCache` | load, pin, attach, refresh, read and enrich, stop | a lock held across a request; process numbers used again | a record gets the name of its own pod, and gets recorded |
| common: maps, programs, buffers, consumers, metadata | scratch buffers, cache | `init_bpf_maps`, `map_pinner`, `fill_buffers`, `read_perf_buffer`, `enrich` | two processes on one array; pins replaced one by one | pins lead to the maps that programs write |
| agent (`core/api`) | four readers, four bounded channels, pinned maps | read, send, the gRPC calls | concurrent calls on one channel; full channels; readers that never yield | records in order, none lost or given twice; calls are answered |
| cfcli | none of its own; changes the ConfigMap, the map (through the agent), the deployments; reads pods and services through kubectl | policies, install, uninstall; logs, status, service list and describe | two halves of a command; overwritten updates; a failed step; pods that go between two calls | the list and the map agree where it matters; what is shown was there, and what was there is shown |
| MCP server | the discovered label, and the calls that wait for it | query the CPU, the latency, ... of a workload; list the workloads | discovery races the first series, and fails for one call while others wait; escaping | one label for all calls; an answer is of what was asked |
| manifests, Helm | ConfigMap, Deployments | install | the two names of the blocklist's pin | - |

The components interact through the kernel (maps opened by path under
`/sys/fs/bpf`, perf rings opened by CPU), through the Kubernetes API (the
ConfigMap `cortexbrain-client-config`, the list of pods), through gRPC (cfcli
and the agent), and inside the agent and `metrics` through tokio's channels,
tasks and locks. `PROJECT.json` lists every component with what is and is not
modelled of it, and every hazard at its line.

## 2. Modules

| Module | Models | State and actions against the code |
|---|---|---|
| `PerfEventArray` | one perf event array, used by the pipeline | `slot[c]` is the descriptor in entry c; `Open` replaces it (`fill_buffers`), `Close` is a process's end, `Output` drops where there is no ring or no room, `ReadEvents` takes one record (one scratch buffer) |
| `EventPipeline` | eBPF program, loader and agent on one array; the agent's channel and calls | `Start`/`OpenNext`/`Poll`/`Stop` are a process's life (`event_listener`, `read_perf_buffer`, `AgentApi::default`), a start's `OpenNext` takes entry after entry, `Consume` is a loader's consumer, `Skip`/`Send` a reader of the agent, `Request`/`TryRecv`/`Return` a call. A record is its CPU, its number and whether the reader forwards it |
| `Delivery` | what a user of the agent is promised | two actions: a record is written; a record that was written and is news is received |
| `Answers` | what a client of the MCP server is promised | a call is asked, the label is chosen once and for everybody, a query is answered with what is asked for at that moment, a listing after one look, or the call fails and names nothing |
| `AgentRuntime` | the agent's tasks on tokio's workers | a task is queued, running, asleep, waiting or idle; `Dispatch` puts any queued task on a free worker, since tokio's order (run queues, the slot for the task woken last, stealing) is left open; `Read`/`Send`/`SendWaits`/`Sleep` are a reader's steps up to its awaits, `TryRecv`/`Answer` a call's; records are only counted |
| `TcpLatency` | the connect latency probes | `OnConnect` is `on_connect` with the connect itself, `OnRcvStateProcess` is the probe with what the packet does to the socket, `Abandon` is the kernel freeing a socket |
| `CpuIdle` | the idle state tracer and its gauge | `cpu_idle` with its two branches; `EnterIdle`/`ExitIdle` are the kernel's events |
| `Attribution` | whose record it is: cache, refresher, consumers | `LockCache`/`ListPods`/`ListFails`/`InsertPods` are the refresher's steps between awaits, `FindCgroup`/`ReadPod`/`ReadProc`/`ReadContainer`/`Record` those of `enrich` and the instruments; `FindsPod` and `extract_pod_uid` say which cgroup paths a pod's uid is read from, by the kubelet's driver and the pod's QoS class; `Launch`/`Fork`/`Exit`/`Remove` are the node |
| `PinnedMaps` | loading, pinning, opening | `Load`, `RemovePin`, `Pin` (map by map), `Attach`, `Stop` of either loader; `AgentStart`, `OpenPin`, `Panic` of the agent; `Reboot` |
| `Blocklist` | cfcli, the agent's calls, the ConfigMap, identity's start, the classifier, install and uninstall | a command is `Command`, `CallAgent` or `CallPanics`, `ReadConfigs`, `UpdateConfigmap` or `GiveUp`; identity is `Start`, `Pin`, `ReadList`, `Populate` line by line, `AttachClassifier`; the installer is `InstallCortexflow`, `CreateConfigFile`, `ApplyComponent`, `InstallFails` |
| `VethTracking` | the interfaces identity covers | a start of identity is `Start`, `LoadTracer` twice, `get_veth_channels`, `Proceed` through the blocklist and the load, `Attach` interface by interface with `Track` (the map `tracked_veth`), `Proceed` to the rings, `OpenRings`; `End` is any failure or kill, `Reboot` the node's. `Register` is the entry of the kernel's `register_netdevice`, where the probe fires (`Report`), `Create` its end, when the interface can be listed; `MoveIn` is an interface from another namespace, which no probe sees; `Delete` ends either. `AgentOpens`/`AgentEnds` are an agent that takes the entries of `veth_identity_map`, and their owner is `entries` |
| `ClusterReads` | the commands of cfcli that read the cluster | one action per kubectl call: `CheckNamespace`, `SayMissing` (with the listing of the others), `SelectPods`, `NarrowToComponent`, `ShowLogs` pod by pod, `Status`, `ListServices`, `DescribePod`, each with its failure; `Appear`/`Vanish`/`ToggleNamespace` are the cluster |
| `PromQueries` | the MCP server's tool calls | `Begin` is a tool call up to the cell (`get_or_try_init`), whose waiters are `queue`; `Probe`/`ProbeFails` one request of `identity_label`, `Query` and `List` those of `run` and `list_workloads`, `RequestFails` a failed one; `escape_regex`, `escape_string`, `build_promql` and `parse_series` are operators, with Prometheus' reading of a literal beside them; `Ingest`/`Drop` are Prometheus |
| `MC*` | instances | constants and symmetry |
| `*Proofs` | theorems of the module of that name; `TracerProofs` has those of `TcpLatency`, `CpuIdle` and `VethTracking` | see section 4 |

`EventPipeline` extends `PerfEventArray`, so that one step of the pipeline is
one step of the array; it instantiates `Delivery` with `written <- emitted`
and `received <- popped`. `PromQueries` instantiates `Answers` with `label <- cell`
and a `state` computed from a call's `pc` and index: who queues, probes or has
still to send a request is asked, and a listing that has read the values of the
settled label has looked. The other modules stand alone: where two describe the
same code they look at it from different sides (`EventPipeline` follows the
records through a call, `AgentRuntime` the tasks that carry them out).

Operators introduced with "Fault:" are not part of a specification. They are
what a plausible mistake in the code would be, and each of the properties is
known to fail when its fault replaces the definition it belongs to.

## 3. Runs

Passing runs:

- **pipeline** (`MCEventPipeline.cfg`): two CPUs, rings of one record, a channel
  of two, three records, the loader started once and the agent twice, two calls. Enough for: an
  agent that takes over an array CPU by CPU while records are written, an exit
  that leaves entries empty, a full channel in the middle of a batch, and two
  calls that drain it in turns. Shows that, while a process polls and the other
  does too or was never started, every CPU's records go to one of them
  (`EveryCpuIsRead`), that order survives all of it (`DeliveredInOrder`),
  that a full channel loses nothing (`NothingLostInAgent`), that two calls share
  nothing (`RepliesDisjoint`) and leave nothing (`DrainedAtReturn`), and that
  the whole implements `Delivery`.
- **tcp_latency**: two socket addresses, a map of one entry, four connects,
  probes on two CPUs. The map is full when the second socket connects, and an
  entry that leaked is met by the next connect on its address.
- **blocklist**: two addresses and a malformed argument, a map of one entry,
  two commands at a time and three in all, two starts of identity, two
  installations or uninstallations, and an initial state with or without an
  installation by Helm, whose list may be empty, good, or bad. Enough for a lost update
  (`UpdateConfigmap` over another's), a list that no longer fits into the map, a restart between
  the halves of a command, a reinstallation under a command in progress.
- **runtime**: three readers, of which two never sleep, three workers, channels
  of one record. `CallsAnswered` and `ReadersResume` hold with one worker more
  than there are readers that never sleep, in whatever order queued tasks are
  taken.
- **attribution**: three pods, one without annotations and one of the QoS class
  Guaranteed, a container, one process number, one consumer, and either of the
  kubelet's cgroup drivers. Enough for a number that is used again between the
  record and `/proc`, and for a cached pod whose uid is not read off its path.
- **pinned_maps**: three starts of each loader, two stops of the agent or
  reboots. A start after a stop half-way through the pins, and one after that.
- **veth_tracking**: four names, one of which is ignored, and a map of two. An
  interface goes and another comes under its name between the listing and the
  attachment, the kernel refuses some, the map fills up over the restarts; a
  registration that began before the tracer or the rings ends after the
  listing, interfaces are moved in, agents take the entries and end.
  There is no bound on the number of starts: the state space is finite.
- **cluster_reads**: three pods, of which one is of the service, one of the
  component and one of both, and one service. One command at a time is enough,
  since commands change nothing. Pods come and go between all of a command's
  calls, and each call may fail.
- **mcp_queries**: two calls, three kinds of series (one with a container's
  name, one with a pod's and a namespace's, one with all three labels), nine
  requests: whole names, parts of names, nothing, a name with a dot where the
  series has a dash, an unknown mode, a range that begins at a fraction of a
  second, and the listing. One call probes while the other waits, series come
  and go between two probes, a probe fails while the other call waits. Two
  calls are enough, since a third can only queue behind the second. Shows that
  the label is well chosen (`SettlesOnPresent`), that a query is answered with
  what it asks for (`AnswersWhatIsAsked`), that every call ends (`CallsEnd`), and
  that the whole implements `Answers`: one label for all calls, and no answer
  that was not true at some moment of its call.

Violation runs, each one property that the repository's text states of the code
and the code does not keep (the findings quote the lines):

- **cpu_idle_gauge**: after its first exit a CPU is never reported again.
- **blocklist_classifier**: the key is the address with its bytes reversed.
- **mcp_substring**: a workload with a dash or a dot in its name cannot be
  found by a part of its name, the default mode: Prometheus refuses the query.

Bounds are constants named `Max...`; they end the behaviours, so most runs do not check
for deadlock. Nothing else in the guards depends on them. In `PinnedMaps` they
also make "both loaders go on running" reachable. `VethTracking`,
`ClusterReads` and `PromQueries` have none, and deadlock is checked.

### Fairness

Safety needs none. `AgentRuntime` assumes that a queued task is taken in the end
if workers become free again and again (strong fairness of each `Dispatch`:
tokio documents that much of its scheduler, whatever order it takes the tasks
in), that a running task is executed and that timers fire. It does not assume that a task which never awaits is taken off its
worker, because tokio does not do that; nor that records or calls come. A
call awaits nothing between its start and its answer: the receivers' lock is
`std::sync::Mutex` (`api.rs:12`), and `try_recv` does not wait.
`Attribution` assumes that tasks run, that the interval ticks, that a reader
gets tokio's first-come lock in its turn (strong fairness of a consumer, since the lock
is taken and given back meanwhile), and that an API asked again and again
answers in the end (strong fairness of `ListPods`). `PinnedMaps`
assumes that Kubernetes restarts the agent's pod and that the agent goes on
opening pins. `PromQueries` assumes weak fairness of each call's next step:
Prometheus answers or the connection breaks (the client sets no timeout of its
own), and the permit of the cell is given out first come, first served
(`queue`), so a call that waits is served after finitely many failures before
it. It does not assume that a probe ever succeeds. `ClusterReads` assumes that
a kubectl that was started returns.

### What the models assume

- `Blocklist`: whether `maps/blocklist_map` leads to `maps/Blocklist` is a
  constant, because nothing in the repository makes that link; the passing run
  takes it to be there, which is the favourable case. An address counts as
  *excused* when a command took it out of the map, when the map was full for
  it, when it was brought back by a command that had read the list before
  an uninstallation, and, for all addresses, when the node is rebooted in the middle
  of a command: in those cases the code promises nothing, and
  `ListedIsBlocked` says so. One installation runs at a time, and an
  uninstallation ends the agent's calls at once, while identity goes on until its pod is
  stopped. The roles and the metrics manifest are left out.
- `PinnedMaps`: for the maps of `metrics`, which are made anew, the agent is right
  only as long as metrics was loaded once since the boot;
  `AgentReadsWritten` says exactly that.
- `Attribution`: each record is taken by a consumer while its process still
  runs, the favourable case; all later steps may find the process gone.
  Only records with a cgroup id of a cached pod, whose uid can be read off its
  cgroup's path, are promised a name.
- `EventPipeline`: what the kernel drops for want of room is part of `Output`;
  how often that happens is a matter of rates.
- `AgentRuntime`: records come to an end (`MaxRecords`). A call drains its
  channel until it is empty, so a reader that fills it as fast keeps it from
  being answered; `TasksFinish` shows that an end of the records is all that
  it takes.
- `TcpLatency`: time may stand still between two steps; the clock is bounded.
- `VethTracking`: the kernel's links end with the process that holds them and
  with the interface; the rings are opened at once and drop nothing, since
  `EventPipeline` has both, so one process owns the map's entries at a time;
  how long a list the kernel gives is not bounded. `UnknownCameBetween` is
  about the time while identity owns them: from its rings to an agent's.
- `ClusterReads`: a kubectl answers from one moment, and no name is that of a
  pod and of a service; the pods of a listing are visited in any order.
- `PromQueries`: names and arguments have no quote, backslash or line break (a
  Kubernetes name cannot; for the others nothing is claimed), a name is a
  sequence of parts that are compared as a whole, and a label with an empty
  value is a label that is not there, as it is to Prometheus.

### Where the text and the code disagree, without a run

Seen while modelling, and left to this list because a run would only restate a
line, or because the model takes the code's side:

- `network.rs:213` writes a measurement into entry 0 of the array, the probe runs
  on whatever CPU the packet arrives on: elsewhere the write fails. `TcpLatency`
  keeps such measurements as `lost`.
- `metrics.md` (`src/Doc/docs/developer-guide`) says of the same measurements
  that the agent surfaces them from the perf buffers (lines 9 and 25) and that
  the metrics loader forwards them by OTLP (89 and 112, `latency_us`). They
  reach one of the two: opening an entry replaces the ring of whoever opened it
  before (`buffer_type.rs:359`). Once the agent has opened an array after its
  loader, the loader's consumers read no new record of it until the loader is
  started again, and then the agent does not: the theorem `TakenForGood`.
  `EveryCpuIsRead` is what remains true.
- The same holds of `veth_identity_map` (`api.rs:76` and 123): once an agent
  has started, identity is told of no interface any more.
- `identity/src/main.rs:223` attaches to the entry of `register_netdevice`: what
  is registered when the rings open is neither listed nor reported, nor is an
  interface that is moved in. `UnknownCameBetween` names these.
- `metadata.rs:242`-`250` reads a pod's uid off the slices of BestEffort and
  Burstable pods only. A Guaranteed pod's slice keeps its `kubepods-`, and
  cgroupfs' directories have no `-pod`, so these pods are never named by the
  cache that holds them: the theorem `UnreadableGoUnnamed`. `NamedOnceCached`
  is stated of the others.
- `api.rs:448` opens `blocklist_map`, identity pins `Blocklist`; see above.
- `api.rs:269`: two readers await nothing while their rings are empty. With no
  more than two workers no call is answered; the run `runtime` has three.
- `prometheus.rs:126`: a server that asks before the first series of the best
  label has arrived settles on a worse label for as long as it lives;
  `SettlesOnPresent` states what is nevertheless true.
- `prometheus.rs:276` aggregates a range vector, which Prometheus refuses, and
  reads the label at the top of the answer: the list of active workloads is
  always empty. `List` leaves it out.
- `prometheus.rs:413` reads a timestamp as an integer, so all samples of a range
  that begins at a fraction of a second are dropped; `AnswersWhatIsAsked` is
  stated for the others.
- `status.rs:92` and `service.rs:71` go on after they have said that the
  namespace is not there, where their comments say that they end; only `logs`
  does. `service.rs` prints the columns of `kubectl get svc` under STATUS,
  RESTARTS and AGE.
- `metrics/src/main.rs:205`: a failure of `event_listener` ends main before the
  exporter is shut down.
- Nothing ever takes a name out of `tracked_veth`: over the restarts it fills up
  with interfaces that are gone. `TrackedWasAttached` says what it still tells.

## 4. Proofs

`tlapm` checks all of these from nothing.

**`EventPipelineProofs`**, for any number of CPUs, calls, records and restarts.
`DeliveredInOrder` speaks of what the calls received, which is not inductive:
it depends on what is still on its way. `ChainInv` strengthens it along the chain
hands of the calls - channel - batch - ring - counter: each place holds a CPU's
records in order, and every place holds older ones than those that feed it.
A step moves the head of one place to the end of the next; the lemma `MoveHead`
says once that this preserves the chain, and each action cites it. From the
same invariant, with `ChanSendable` (only records the agent forwards are in
the channel), `RefinesDelivery` proves that the specification implements
`Delivery`: `Emit` is a `Write`, `TryRecv` is a `Receive`, all else a stutter.
A second invariant, `Apart`, says that the agent and the loader hold no record
both: a write gets into one ring (`EmitGivesToOne`), and every other step moves
records within a process or forgets them (`OthersMoveWithin`). From it and the
chain follows that the head of the channel is new to all calls (`HeadIsNew`),
whence `AnswersApart`. `Covered` is about the loops over the CPUs, in any order
of the processes: a CPU that every process started so far has passed has a
ring. `CpusCovered` follows from it. `TakenForGood` says what an open takes
from the other process: a CPU that a polling loader has lost never comes back
to it, whatever the agent does. `Kept` and `Owing` follow the
records of one agent, and of one call, to where they are received.

**`TracerProofs`**. *The latency tracer*, for any sockets, CPUs and capacity of the map:
`EntriesAreLatest` says that an entry of the map, leaked or not, is of the
latest connect of its socket's address, because an insert replaces an entry that
is there even when the map is full. With it a measurement is of its own
connect; that it is made once follows from `Fresh`: no measurement is of a connect that
still has an entry.

*The idle state tracer*, whose property the code does not keep: the theorem
`GaugeErrsAfterExit` says how far. The gauge is wrong of exactly the CPUs whose
exit is remembered and that have gone idle again, and nothing is recorded of
those any more; only CPUs that the map has no room for are recorded rightly.

*The interfaces*, for any of them and any capacity of the map. The
three properties are about different moments; `IInv` relates them through the
loop: what was listed is attached, refused or still to be attached
(`DealtWith`), and what is there was listed, ignored or came after the listing
(`Known`), each from the phase on where it becomes true. `Told` says which of
the latter identity knows of: while it owns the map's entries, those whose
registration began since it opened them.

**`AgentRuntimeProofs`**, for any readers, sleeping or not, any workers and any
capacity. `WaitsOnlyWhenFull` is not inductive alone: that a reader which was
woken fills the room it was woken for, and no more, needs `WokenFindsRoom`, and
that in turn that who sleeps holds no record (`SleepsEmpty`). From the same
invariant: a task on a worker has less left to do with every step
(`TasksFinish`), and fewer readers that never sleep than workers never hold all
workers (`WorkersEnough`). These two, and that a queued task is taken in the
end, are what `CallsAnswered` and `ReadersResume` rest on. `SpinnersStarve` is the converse:
once readers that never sleep hold all workers with nothing to read, only a
record for one of them changes anything - so the worker more in the run
`runtime` is needed, and not a matter of the instance.

**`PinnedMapsProofs`**: the invariant follows a loader through its pins: those
before `next` lead to its maps already, and a running loader has all of them.
What the agent holds of identity's maps is the one that is pinned by name.
`AgentCannotLoop` says that, while both loaders run, nothing but a stop from
outside keeps the agent from opening pin after pin.

**`AttributionProofs`**: a cache that only grows while the loader is up, and a
record of a cached pod that lives on, and whose uid can be read, never gets
onto the way through `/proc` (`ToBeNamed`). `UnreadableGoUnnamed` says how far
the others go: their records have no name but one that Docker's files tell.
`RecordsCannotLoop` counts the stages: a consumer's step brings its record nearer
to its end, nobody else's sets it back, and the refresher gives the lock back
after two steps.

**`BlocklistProofs`**: for any addresses, any number of commands at a time, any
capacity. `ListedIsBlocked` alone is not inductive, because a command in
progress holds a copy of the list that it will write back over whatever is there. `ListInv` adds that
the list and every such copy *agree on every address that is not in the map and
not excused* (`ListsAgree`), that a command only gets to the list after its
argument was put into the map or taken out (`ArgumentIsSafe`), and that what identity
has still to insert covers the rest of the list (`PendingIsRest`). An overwrite may thus
lose or bring back only addresses that are safe. The second invariant,
`DeployInv`, is about the order of the installer's steps.

**`ClusterReadsProofs`**, for any pods and services: `Bracket` puts the cluster
between `always` and `sometimes`, `OnlyWanted` and `AllWanted` say, phase by
phase, which listings are behind a command and that what they found is shown or
still to be shown, and `Reasons` keeps why a namespace was said to be missing.
`CommandsCannotLoop` counts the kubectl calls before a command, and the pods it
still lists: each step has fewer left, and the cluster's changes add none.

**`PromQueriesProofs`**, for any calls, labels, series and requests: `Queued`
says that the waiting calls are the queue and that only the first has an index,
`Labelled` that no call is past an empty cell, `Bracket` that every label
before the prober's index lacked series at some moment of this probing. The
answers rest on lemmas about escaping: where a pattern parses as a PromQL string
nothing in it was escaped, so it matches what contains the argument
(`PatternMatches`), an escaped plain argument matches itself alone
(`StringMatchesName`), and `parse_series` leaves the groups asked for
(`GroupsAreWanted`). `RefusedExactly` says which arguments `mcp_substring` is
about: those of a substring query with a character that `escape_regex` escapes,
no others, and none of an exact query.

`RefinesAnswers` proves that the server implements `Answers`, one lemma per
action: a probe that finds a label is `Settle`, one that finds none moves to
the next candidate unseen or, at the last, is a `Fail`; a request of a listing
is a `Look` if it is for the settled label, and a stutter otherwise. It needs
`Unnamed` (a call that waits for the label has been told nothing), and
`AnswersAgree` (all calls hold the label in the cell), which is part of the
inductive invariant: a second label would make the answers under the first false.
`PermitIsPassed` says that a call in the queue keeps its place or moves up, and
that the one with the permit has fewer candidates left with each probe.

The lemmas about lists (`RemovesNoOther`, `Appends`, `HeadAndTail`) say what
`NewConfigs` and `Populate` do to the set of the lines.

Assumptions of the proofs are the `ASSUME`s of the modules, which TLC evaluates
on the instances.

Every invariant, action property and refinement of the passing runs is proved.
Only model-checked is liveness (`CallsAnswered`, `ReadersResume`,
`RecordsGetRecorded`, `PodsGetCached`, `AgentComesUp`, `CallsEnd`,
`CommandsEnd`): it rests on fairness and thus on ENABLED, which the prover
does not reason about. What is proved of it is the safety part, that the measure
each of these arguments needs shrinks with the steps that are assumed fair and
grows with none but those a property excuses (`TasksFinish`, `WorkersEnough`,
`RecordsCannotLoop`, `AgentCannotLoop`, `PermitIsPassed`, `CommandsCannotLoop`).
The measures are numbers of steps left, and that a number
cannot shrink for ever is the one induction left to the reader.

## 5. Not modelled

- Cgroup paths, log lines, tables, JSON and YAML: wording and layout. Of a path
  the modules take the workload it names, and whether its driver and QoS class
  let a uid be read off it. Of PromQL only what decides which
  series are selected: `rate`, `avg_over_time` and the quantiles are
  Prometheus' own.
- Parsing of packets and of kernel structures in the eBPF programs: straight
  reads at fixed offsets whose errors drop the record.
- The probes of dropped packets, frequencies, scheduling and allocations, which
  keep no state, and those of SSL, which are planned.
- `cfcli monitoring`: one call to the agent, whose other end is in
  `EventPipeline` and `AgentRuntime`, and the printing of its answer.
- Generated gRPC code, reflection, the connection set-up of cfcli, the logger,
  the dead `batcher.rs`.
- `service_discovery.rs`, which only asks the Kubernetes API and serves
  identity's log lines.

## 6. Plan

Built, in this order: perf array and pipeline; latency probes; blocklist;
runtime; idle state; attribution; pins; delivery; installation; MCP queries;
reading commands; interfaces.

Next, the models:

1. `SslCalls` (`ssl.rs`): the context of a call, by thread, with nested and
   abandoned calls, and a full map.
2. The life of the exporter in `metrics` (`shutdown_opentelemetry` is not
   reached when the listener fails).
3. The sums of the agent's answers in 32 bits, and `update_cli`.

Then, the proofs: those of these models, and `GaugeIsLatest` of a
repaired `CpuIdle`, should the code be repaired.
