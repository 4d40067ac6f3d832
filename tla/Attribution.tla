----------------------------- MODULE Attribution -----------------------------
(***************************************************************************)
(* How the metrics loader finds out whose record it holds.  A consumer     *)
(* task takes a record of some process and resolves it: by the cgroup id   *)
(* in the record, through the cgroup file system, to a pod that the        *)
(* ServiceCache names; failing that by the tgid, through /proc, to the     *)
(* container of whatever process has that number by now.  A refresher task *)
(* fills the cache from the Kubernetes API every minute, and holds the     *)
(* cache's write lock while it waits for the answer.  The loader runs in a *)
(* cluster: Client::try_default finds its configuration.                   *)
(***************************************************************************)
EXTENDS FiniteSets

CONSTANTS
    Pods,         \* pods, by the uid (of a static pod: the hash) in the
                  \* names of their cgroups: none comes back once it is gone
    Annotated,    \* the pods whose metadata has annotations
    Guaranteed,   \* the pods of the QoS class Guaranteed
    Containers,   \* containers that belong to no pod
    Named,        \* those workloads whose name Docker's files tell
    Tgids,        \* process numbers, which are used again
    Consumers,    \* consumer tasks
    NoOne         \* nobody

Workloads == Pods \cup Containers

ASSUME AttributionAssumption ==
    /\ NoOne \notin Workloads
    /\ Annotated \cup Guaranteed \subseteq Pods
    /\ Named \subseteq Workloads

VARIABLES
    alive,      \* the workloads that run
    gone,       \* those that have run
    owner,      \* owner[t]: the workload whose process has number t
    driver,     \* the kubelet's cgroup driver: "systemd" or "cgroupfs"
    loader,     \* the metrics loader: "down", "starting" or "up"
    cache,      \* the pods in the service map
    refresher,  \* "sleeping", or, with the write lock, "listing" or "inserting"
    answer,     \* the pods the Kubernetes API has listed
    job         \* job[c]: what consumer c does with which record

nodeVars == <<alive, gone, owner, driver>>
cacheVars == <<cache, refresher, answer>>
vars == <<nodeVars, loader, cacheVars, job>>

(* A record is by a process of workload `of`, with or without its cgroup;  *)
(* `cached` and `lives` are history: whether the cache held that workload  *)
(* when the record was taken, and whether it has run ever since.           *)
Job == [at : {"cgroup", "pod", "proc", "container", "record"},
        of : Workloads, tgid : Tgids, cgroup : BOOLEAN,
        container : Workloads \cup {NoOne}, name : Workloads \cup {NoOne},
        cached : BOOLEAN, lives : BOOLEAN]

Idle == [at |-> "idle"]

Init ==
    /\ alive = {}
    /\ gone = {}
    /\ owner = [t \in Tgids |-> NoOne]
    /\ driver \in {"systemd", "cgroupfs"}
    /\ loader = "down"
    /\ cache = {}
    /\ refresher = "sleeping"
    /\ answer = {}
    /\ job = [c \in Consumers |-> Idle]

-----------------------------------------------------------------------------
(* The node *)

Launch(w) ==
    /\ w \notin alive \cup gone
    /\ alive' = alive \cup {w}
    /\ UNCHANGED <<gone, owner, driver, loader, cacheVars, job>>

Fork(t, w) ==
    /\ owner[t] = NoOne
    /\ w \in alive
    /\ owner' = [owner EXCEPT ![t] = w]
    /\ UNCHANGED <<alive, gone, driver, loader, cacheVars, job>>

Exit(t) ==
    /\ owner[t] # NoOne
    /\ owner' = [owner EXCEPT ![t] = NoOne]
    /\ UNCHANGED <<alive, gone, driver, loader, cacheVars, job>>

(* The workload's processes and its cgroup are removed with it. *)
Remove(w) ==
    /\ w \in alive
    /\ alive' = alive \ {w}
    /\ gone' = gone \cup {w}
    /\ owner' = [t \in Tgids |-> IF owner[t] = w THEN NoOne ELSE owner[t]]
    /\ job' = [c \in Consumers |->
                  IF job[c] # Idle /\ job[c].of = w THEN [job[c] EXCEPT !.lives = FALSE]
                                                   ELSE job[c]]
    /\ UNCHANGED <<driver, loader, cacheVars>>

-----------------------------------------------------------------------------
(* The loader's life *)

Start ==
    /\ loader = "down"
    /\ loader' = "starting"
    /\ UNCHANGED <<nodeVars, cacheVars, job>>

(* What a list of all pods adds to the map: a pod without annotations is   *)
(* passed over.                                                            *)
Listed == alive \cap Annotated

(* init_metrics_and_cache: the first list must succeed. *)
InitCache ==
    /\ loader = "starting"
    /\ loader' = "up"
    /\ cache' = Listed
    /\ UNCHANGED <<nodeVars, refresher, answer, job>>

(* That list fails, a task ends, or the process is killed: what it holds   *)
(* is gone.                                                                *)
Stop ==
    /\ loader # "down"
    /\ loader' = "down"
    /\ cache' = {}
    /\ refresher' = "sleeping"
    /\ answer' = {}
    /\ job' = [c \in Consumers |-> Idle]
    /\ UNCHANGED nodeVars

-----------------------------------------------------------------------------
(* The refresher *)

(* A tick of the interval.  No read section spans a step, so the write      *)
(* lock is free.                                                            *)
LockCache ==
    /\ loader = "up"
    /\ refresher = "sleeping"
    /\ refresher' = "listing"
    /\ UNCHANGED <<nodeVars, loader, cache, answer, job>>

(* Fault: a list of more than the pods. *)
ListAll ==
    /\ refresher = "listing"
    /\ refresher' = "inserting"
    /\ answer' = alive
    /\ UNCHANGED <<nodeVars, loader, cache, job>>

ListPods ==
    /\ refresher = "listing"
    /\ refresher' = "inserting"
    /\ answer' = Listed
    /\ UNCHANGED <<nodeVars, loader, cache, job>>

(* Fault: an error that costs the map what it held. *)
FailCleared ==
    /\ refresher = "listing"
    /\ refresher' = "sleeping"
    /\ cache' = {}
    /\ UNCHANGED <<nodeVars, loader, answer, job>>

(* The refresher logs the error and waits for the next tick. *)
ListFails ==
    /\ refresher = "listing"
    /\ refresher' = "sleeping"
    /\ UNCHANGED <<nodeVars, loader, cache, answer, job>>

(* Faults: the write lock is not given back; the list is not inserted. *)
KeepLock ==
    /\ refresher = "inserting"
    /\ cache' = cache \cup answer
    /\ UNCHANGED <<nodeVars, loader, refresher, answer, job>>

InsertNone ==
    /\ refresher = "inserting"
    /\ answer' = {}
    /\ refresher' = "sleeping"
    /\ UNCHANGED <<nodeVars, loader, cache, job>>

(* Entries are added; nothing is ever taken out. *)
InsertPods ==
    /\ refresher = "inserting"
    /\ cache' = cache \cup answer
    /\ answer' = {}
    /\ refresher' = "sleeping"
    /\ UNCHANGED <<nodeVars, loader, job>>

-----------------------------------------------------------------------------
(* The consumers *)

(* A record of a process that ran when the kernel wrote it.  Of the eight   *)
(* kinds of record some carry the cgroup id, some the tgid alone.           *)
Take(c, t, cgroup) ==
    /\ loader = "up"
    /\ job[c] = Idle
    /\ owner[t] # NoOne
    /\ job' = [job EXCEPT ![c] =
          [at |-> "cgroup", of |-> owner[t], tgid |-> t, cgroup |-> cgroup,
           container |-> NoOne, name |-> NoOne,
           cached |-> owner[t] \in cache, lives |-> TRUE]]
    /\ UNCHANGED <<nodeVars, loader, cacheVars>>

(* extract_pod_uid, of the path of w's cgroup.  It needs a part with "-pod" *)
(* in it: systemd's slices have one, cgroupfs' directories (pod<uid>) have *)
(* none.  From that part it trims the prefixes of the BestEffort and of the *)
(* Burstable pods.  A Guaranteed pod's slice has kubepods- alone before     *)
(* pod<uid>: nothing is trimmed, and the text is no pod's uid.              *)
HasPodPart(w) == w \in Pods /\ driver = "systemd"

extract_pod_uid(w) == IF w \in Guaranteed THEN NoOne ELSE w

(* find_cgroup_path_by_id: the cgroup is there as long as its workload. *)
FindsPod(c) ==
    /\ job[c].cgroup
    /\ job[c].of \in alive
    /\ HasPodPart(job[c].of)

FindCgroup(c) ==
    /\ job[c].at = "cgroup"
    /\ \/ FindsPod(c) /\ job' = [job EXCEPT ![c].at = "pod"]
       \/ ~FindsPod(c) /\ job' = [job EXCEPT ![c].at = "proc"]
    /\ UNCHANGED <<nodeVars, loader, cacheVars>>

(* cache.read().await waits while the refresher has the write lock. *)
Readable == refresher = "sleeping"

ReadPod(c) ==
    /\ job[c].at = "pod"
    /\ Readable
    /\ \/ /\ extract_pod_uid(job[c].of) \in cache
          /\ job' = [job EXCEPT ![c].at = "record", ![c].name = extract_pod_uid(job[c].of)]
       \/ /\ extract_pod_uid(job[c].of) \notin cache
          /\ job' = [job EXCEPT ![c].at = "proc"]
    /\ UNCHANGED <<nodeVars, loader, cacheVars>>

(* get_cgroup_info: of the process that has the number now, if any. *)
ReadProc(c) ==
    /\ job[c].at = "proc"
    /\ \/ /\ owner[job[c].tgid] = NoOne
          /\ job' = [job EXCEPT ![c].at = "record"]
       \/ /\ owner[job[c].tgid] # NoOne
          /\ job' = [job EXCEPT ![c].at = "container",
                                ![c].container = owner[job[c].tgid]]
    /\ UNCHANGED <<nodeVars, loader, cacheVars>>

(* The cache's keys are uids of pods, so the id of a container is not among *)
(* them, and Docker's files are asked.                                      *)
ReadContainer(c) ==
    /\ job[c].at = "container"
    /\ Readable
    /\ \/ /\ job[c].container \in Named
          /\ job' = [job EXCEPT ![c].at = "record", ![c].name = job[c].container]
       \/ /\ job[c].container \notin Named
          /\ job' = [job EXCEPT ![c].at = "record"]
    /\ UNCHANGED <<nodeVars, loader, cacheVars>>

(* The instruments of the record's kind, with what enrich found. *)
Record(c) ==
    /\ job[c].at = "record"
    /\ job' = [job EXCEPT ![c] = Idle]
    /\ UNCHANGED <<nodeVars, loader, cacheVars>>

-----------------------------------------------------------------------------
Refresher == LockCache \/ ListPods \/ ListFails \/ InsertPods

Consumer(c) ==
    FindCgroup(c) \/ ReadPod(c) \/ ReadProc(c) \/ ReadContainer(c) \/ Record(c)

Next ==
    \/ \E w \in Workloads : Launch(w)
    \/ \E t \in Tgids, w \in Workloads : Fork(t, w)
    \/ \E t \in Tgids : Exit(t)
    \/ \E w \in Workloads : Remove(w)
    \/ Start
    \/ InitCache
    \/ Stop
    \/ LockCache
    \/ ListPods
    \/ ListFails
    \/ InsertPods
    \/ \E c \in Consumers, t \in Tgids, cgroup \in BOOLEAN : Take(c, t, cgroup)
    \/ \E c \in Consumers : FindCgroup(c)
    \/ \E c \in Consumers : ReadPod(c)
    \/ \E c \in Consumers : ReadProc(c)
    \/ \E c \in Consumers : ReadContainer(c)
    \/ \E c \in Consumers : Record(c)

(* Tasks run, the interval ticks, and a request to the API ends.  A         *)
(* consumer that waits for the read lock gets it in its turn, as tokio's    *)
(* lock is first come, first served; and an API that is asked again and     *)
(* again answers in the end.                                                *)
Fairness ==
    /\ WF_vars(Refresher)
    /\ SF_vars(ListPods)
    /\ \A c \in Consumers : SF_vars(Consumer(c))

Spec == Init /\ [][Next]_vars /\ Fairness

-----------------------------------------------------------------------------
(* Type invariant. *)
TypeOK ==
    /\ alive \subseteq Workloads
    /\ gone \subseteq Workloads
    /\ alive \cap gone = {}
    /\ owner \in [Tgids -> alive \cup {NoOne}]
    /\ driver \in {"systemd", "cgroupfs"}
    /\ loader \in {"down", "starting", "up"}
    /\ cache \subseteq Pods
    /\ refresher \in {"sleeping", "listing", "inserting"}
    /\ answer \subseteq Pods
    /\ job \in [Consumers -> Job \cup {Idle}]

(* The pods whose uid extract_pod_uid reads off their cgroup's path. *)
UidReadable(w) == HasPodPart(w) /\ w \notin Guaranteed

(* What the cache once knew it goes on knowing: a record with a cgroup id   *)
(* of a pod that was in the cache, and whose uid can be read off its path,  *)
(* is recorded under that pod's name, whatever fails and whoever has the    *)
(* process number by then, as long as the pod runs.  It cannot be said of   *)
(* Guaranteed pods, nor of any under cgroupfs: they are in the cache, and   *)
(* their records go the way through /proc all the same.                     *)
NamedOnceCached ==
    \A c \in Consumers :
        /\ job[c].at = "record"
        /\ job[c].cgroup /\ job[c].cached /\ job[c].lives
        /\ UidReadable(job[c].of)
        => job[c].name = job[c].of

(* Every record that was taken is recorded, unless the loader goes down:   *)
(* the refresher's lock, held across a request to the API, delays the      *)
(* consumers but does not stop them.                                       *)
RecordsGetRecorded ==
    \A c \in Consumers : job[c] # Idle ~> job[c] = Idle

(* A pod that goes on running gets into the cache of a loader that does,    *)
(* if it has annotations.                                                   *)
PodsGetCached ==
    \A p \in Annotated : p \in alive /\ loader = "up"
                    ~> p \in cache \/ p \notin alive \/ loader # "up"
=============================================================================
