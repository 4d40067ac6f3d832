-------------------------- MODULE AttributionProofs --------------------------
(***************************************************************************)
(* Theorems of Attribution, for any pods, containers, process numbers and  *)
(* consumers.  What the consumers' work rests on, step by step, is that    *)
(* the cache loses nothing as long as the loader is up, and that a         *)
(* workload that has run ever since a record was taken can be found.       *)
(***************************************************************************)
EXTENDS Attribution, Naturals, TLAPS

(* Only a loader that is up has jobs, or a refresh that is under way. *)
QuietUnlessUp ==
    loader # "up" => \A c \in Consumers : job[c] = Idle

(* What was cached is cached, and what has lived lives. *)
HistoryHolds ==
    \A c \in Consumers : job[c] # Idle =>
        /\ job[c].cached => job[c].of \in cache
        /\ job[c].lives => job[c].of \in alive

(* A record that the cache is to name: it carries the cgroup id of a pod    *)
(* that was cached and lives, and whose uid can be read off its path.       *)
ToBeNamed(j) == j.cgroup /\ j.cached /\ j.lives /\ UidReadable(j.of)

(* Such a record does not get onto the way through /proc. *)
OnItsWay ==
    \A c \in Consumers : job[c] # Idle /\ ToBeNamed(job[c]) =>
        \/ job[c].at \in {"cgroup", "pod"}
        \/ job[c].at = "record" /\ job[c].name = job[c].of

IInv ==
    /\ TypeOK
    /\ QuietUnlessUp
    /\ HistoryHolds
    /\ OnItsWay

-----------------------------------------------------------------------------
(* The kinds of job do not overlap. *)
LEMMA IdleIsNoJob == Idle \notin Job /\ Idle.at = "idle"
BY DEF Idle, Job

LEMMA JobFields ==
    ASSUME NEW j \in Job
    PROVE  /\ j.at \in {"cgroup", "pod", "proc", "container", "record"}
           /\ j.of \in Workloads /\ j.tgid \in Tgids /\ j.cgroup \in BOOLEAN
           /\ j.container \in Workloads \cup {NoOne} /\ j.name \in Workloads \cup {NoOne}
           /\ j.cached \in BOOLEAN /\ j.lives \in BOOLEAN
BY DEF Job

(* A step that leaves the cache, the node and the loader alone, and takes   *)
(* one job from one stage to the next.                                      *)
LEMMA Advances ==
    ASSUME TypeOK, QuietUnlessUp, HistoryHolds,
           UNCHANGED <<nodeVars, loader, cacheVars>>,
           NEW c \in Consumers, job[c] \in Job,
           NEW j \in Job,
           j.of = job[c].of, j.tgid = job[c].tgid, j.cgroup = job[c].cgroup,
           j.cached = job[c].cached, j.lives = job[c].lives,
           job' = [job EXCEPT ![c] = j]
    PROVE  TypeOK' /\ QuietUnlessUp' /\ HistoryHolds'
<1> USE DEF nodeVars, cacheVars
<1>1. job \in [Consumers -> Job \cup {Idle}]
  BY DEF TypeOK
<1>2. job'[c] = j /\ \A d \in Consumers : d # c => job'[d] = job[d]
  BY <1>1
<1>3. job[c] # Idle /\ job'[c] # Idle
  BY <1>2, IdleIsNoJob
<1>4. TypeOK'
  BY <1>1 DEF TypeOK
<1>5. QuietUnlessUp'
  BY <1>3 DEF QuietUnlessUp
<1>6. HistoryHolds'
  BY <1>2, <1>3 DEF HistoryHolds
<1> QED BY <1>4, <1>5, <1>6

(* Such a step also keeps the record on its way, if it does so for job c. *)
LEMMA StaysOnItsWay ==
    ASSUME OnItsWay, NEW c \in Consumers, job \in [Consumers -> Job \cup {Idle}],
           NEW j, job' = [job EXCEPT ![c] = j], UNCHANGED driver,
           \/ j = Idle
           \/ ~ToBeNamed(j)
           \/ j.at \in {"cgroup", "pod"}
           \/ j.at = "record" /\ j.name = j.of
    PROVE  OnItsWay'
<1>1. job'[c] = j /\ \A d \in Consumers : d # c => job'[d] = job[d]
  OBVIOUS
<1> QED BY <1>1 DEF OnItsWay, ToBeNamed, UidReadable, HasPodPart

-----------------------------------------------------------------------------
(* The steps *)

LEMMA InitHolds == Init => IInv
BY AttributionAssumption
DEF Init, IInv, TypeOK, QuietUnlessUp, HistoryHolds, OnItsWay, Workloads

LEMMA NodeKeeps ==
    ASSUME IInv,
           \/ \E w \in Workloads : Launch(w)
           \/ \E t \in Tgids, w \in Workloads : Fork(t, w)
           \/ \E t \in Tgids : Exit(t)
    PROVE  IInv'
<1> USE DEF IInv
<1>1. UNCHANGED <<driver, loader, cacheVars, job>> /\ alive \subseteq alive'
  BY DEF Launch, Fork, Exit
<1>2. TypeOK'
  BY <1>1 DEF TypeOK, Launch, Fork, Exit, cacheVars
<1>3. QuietUnlessUp' /\ OnItsWay'
  BY <1>1 DEF QuietUnlessUp, OnItsWay, ToBeNamed, UidReadable, HasPodPart
<1>4. HistoryHolds'
  BY <1>1 DEF HistoryHolds, cacheVars
<1> QED BY <1>2, <1>3, <1>4

LEMMA RemoveKeeps ==
    ASSUME IInv, NEW w \in Workloads, Remove(w)
    PROVE  IInv'
<1> USE DEF IInv
<1>1. /\ alive' = alive \ {w} /\ gone' = gone \cup {w}
      /\ owner' = [t \in Tgids |-> IF owner[t] = w THEN NoOne ELSE owner[t]]
      /\ UNCHANGED <<driver, loader, cacheVars>>
  BY DEF Remove
<1>2. job \in [Consumers -> Job \cup {Idle}]
  BY DEF TypeOK
<1>3. ASSUME NEW c \in Consumers
      PROVE  \/ job[c] # Idle /\ job[c].of = w /\ job'[c] = [job[c] EXCEPT !.lives = FALSE]
             \/ (job[c] = Idle \/ job[c].of # w) /\ job'[c] = job[c]
  BY DEF Remove
<1>4. ASSUME NEW j \in Job
      PROVE  LET k == [j EXCEPT !.lives = FALSE] IN
             /\ k \in Job /\ k # Idle
             /\ k.of = j.of /\ k.cached = j.cached /\ k.lives = FALSE
  BY IdleIsNoJob DEF Job
<1>5. ASSUME NEW c \in Consumers
      PROVE  \/ job[c] = Idle /\ job'[c] = Idle
             \/ /\ job'[c] \in Job /\ job'[c].of = job[c].of
                /\ job'[c].cached = job[c].cached
                /\ job[c] # Idle /\ job'[c] # Idle
                /\ (job'[c] = job[c] /\ job[c].of # w) \/ job'[c].lives = FALSE
  BY <1>2, <1>3, <1>4
<1>6. job' \in [Consumers -> Job \cup {Idle}]
  <2>1. job' = [c \in Consumers |-> job'[c]]
    BY DEF Remove
  <2> QED BY <1>5, <2>1
<1>7. TypeOK'
  BY <1>1, <1>6 DEF TypeOK, cacheVars
<1>8. QuietUnlessUp'
  BY <1>1, <1>5 DEF QuietUnlessUp
<1>9. HistoryHolds'
  BY <1>1, <1>5 DEF HistoryHolds, cacheVars
<1>10. OnItsWay'
  BY <1>1, <1>5 DEF OnItsWay, ToBeNamed, UidReadable, HasPodPart
<1> QED BY <1>7, <1>8, <1>9, <1>10

LEMMA LoaderKeeps ==
    ASSUME IInv, Start \/ InitCache \/ Stop
    PROVE  IInv'
<1> USE DEF IInv
<1>1. \A c \in Consumers : job'[c] = Idle
  BY DEF Start, InitCache, Stop, QuietUnlessUp
<1>2. cache' \subseteq Pods /\ answer' \subseteq Pods
  BY AttributionAssumption DEF Start, InitCache, Stop, Listed, TypeOK, cacheVars
<1>3. TypeOK'
  BY <1>2 DEF TypeOK, Start, InitCache, Stop, nodeVars, cacheVars
<1>4. QuietUnlessUp' /\ HistoryHolds' /\ OnItsWay'
  BY <1>1 DEF QuietUnlessUp, HistoryHolds, OnItsWay
<1> QED BY <1>3, <1>4

LEMMA RefresherKeeps ==
    ASSUME IInv, Refresher
    PROVE  IInv'
<1> USE DEF IInv
<1>1. UNCHANGED <<nodeVars, loader, job>> /\ cache \subseteq cache'
  BY DEF Refresher, LockCache, ListPods, ListFails, InsertPods
<1>2. cache' \subseteq Pods /\ answer' \subseteq Pods
  BY AttributionAssumption
  DEF Refresher, LockCache, ListPods, ListFails, InsertPods, Listed, TypeOK
<1>3. refresher' \in {"sleeping", "listing", "inserting"}
  BY DEF Refresher, LockCache, ListPods, ListFails, InsertPods
<1>4. TypeOK'
  BY <1>1, <1>2, <1>3 DEF TypeOK, nodeVars
<1>5. QuietUnlessUp' /\ HistoryHolds' /\ OnItsWay'
  BY <1>1 DEF QuietUnlessUp, HistoryHolds, OnItsWay, nodeVars, ToBeNamed, UidReadable, HasPodPart
<1> QED BY <1>4, <1>5

LEMMA TakeKeeps ==
    ASSUME IInv, NEW c \in Consumers, NEW t \in Tgids, NEW cgroup \in BOOLEAN,
           Take(c, t, cgroup)
    PROVE  IInv'
<1> USE DEF IInv
<1> DEFINE j == [at |-> "cgroup", of |-> owner[t], tgid |-> t, cgroup |-> cgroup,
                 container |-> NoOne, name |-> NoOne,
                 cached |-> owner[t] \in cache, lives |-> TRUE]
<1>1. /\ loader = "up" /\ owner[t] # NoOne
      /\ job' = [job EXCEPT ![c] = j]
      /\ UNCHANGED <<nodeVars, loader, cacheVars>>
  BY DEF Take
<1>2. job \in [Consumers -> Job \cup {Idle}] /\ owner[t] \in alive /\ alive \subseteq Workloads
  BY <1>1 DEF TypeOK
<1>3. j \in Job
  BY <1>2 DEF Job
<1>4. j.at = "cgroup" /\ j.of \in alive /\ (j.cached <=> j.of \in cache)
  BY <1>2
<1> HIDE DEF j
<1>5. job'[c] = j /\ \A d \in Consumers : d # c => job'[d] = job[d]
  BY <1>1, <1>2
<1>6. TypeOK'
  BY <1>1, <1>2, <1>3 DEF TypeOK, nodeVars, cacheVars
<1>7. QuietUnlessUp'
  BY <1>1 DEF QuietUnlessUp
<1>8. HistoryHolds'
  BY <1>1, <1>4, <1>5 DEF HistoryHolds, nodeVars, cacheVars
<1>9. OnItsWay'
  BY <1>1, <1>2, <1>4, StaysOnItsWay DEF nodeVars
<1> QED BY <1>6, <1>7, <1>8, <1>9

LEMMA FindCgroupKeeps ==
    ASSUME IInv, NEW c \in Consumers, FindCgroup(c)
    PROVE  IInv'
<1> USE DEF IInv
<1>1. /\ job \in [Consumers -> Job \cup {Idle}] /\ job[c] \in Job /\ job[c] # Idle
      /\ job[c].at = "cgroup"
      /\ UNCHANGED <<nodeVars, loader, cacheVars>>
  BY IdleIsNoJob DEF FindCgroup, TypeOK
<1>2. CASE FindsPod(c) /\ job' = [job EXCEPT ![c].at = "pod"]
  <2> DEFINE j == [job[c] EXCEPT !.at = "pod"]
  <2>1. /\ j \in Job /\ j.at = "pod"
        /\ j.of = job[c].of /\ j.tgid = job[c].tgid /\ j.cgroup = job[c].cgroup
        /\ j.cached = job[c].cached /\ j.lives = job[c].lives
    BY <1>1 DEF Job
  <2>2. job' = [job EXCEPT ![c] = j]
    BY <1>2
  <2> HIDE DEF j
  <2> QED BY <1>1, <2>1, <2>2, Advances, StaysOnItsWay DEF nodeVars
<1>3. CASE ~FindsPod(c) /\ job' = [job EXCEPT ![c].at = "proc"]
  <2> DEFINE j == [job[c] EXCEPT !.at = "proc"]
  <2>1. /\ j \in Job
        /\ j.of = job[c].of /\ j.tgid = job[c].tgid /\ j.cgroup = job[c].cgroup
        /\ j.cached = job[c].cached /\ j.lives = job[c].lives
    BY <1>1 DEF Job
  <2>2. job' = [job EXCEPT ![c] = j]
    BY <1>3
  <2>3. ToBeNamed(job[c]) => FindsPod(c)
    BY <1>1 DEF HistoryHolds, FindsPod, ToBeNamed, UidReadable
  <2>4. ~ToBeNamed(j)
    BY <1>3, <2>1, <2>3 DEF ToBeNamed
  <2> HIDE DEF j
  <2> QED BY <1>1, <2>1, <2>2, <2>4, Advances, StaysOnItsWay DEF nodeVars
<1> QED BY <1>2, <1>3 DEF FindCgroup

LEMMA ReadPodKeeps ==
    ASSUME IInv, NEW c \in Consumers, ReadPod(c)
    PROVE  IInv'
<1> USE DEF IInv
<1>1. /\ job \in [Consumers -> Job \cup {Idle}] /\ job[c] \in Job /\ job[c] # Idle
      /\ UNCHANGED <<nodeVars, loader, cacheVars>>
  BY IdleIsNoJob DEF ReadPod, TypeOK
<1>2. CASE /\ extract_pod_uid(job[c].of) \in cache
           /\ job' = [job EXCEPT ![c].at = "record", ![c].name = extract_pod_uid(job[c].of)]
  <2> DEFINE j == [job[c] EXCEPT !.at = "record", !.name = extract_pod_uid(job[c].of)]
  <2>0. extract_pod_uid(job[c].of) = job[c].of
    BY <1>2, AttributionAssumption DEF TypeOK, extract_pod_uid, Workloads
  <2>1. /\ j \in Job /\ j.at = "record" /\ j.name = j.of
        /\ j.of = job[c].of /\ j.tgid = job[c].tgid /\ j.cgroup = job[c].cgroup
        /\ j.cached = job[c].cached /\ j.lives = job[c].lives
    BY <1>1, <2>0 DEF Job
  <2>2. job' = [job EXCEPT ![c] = j]
    BY <1>1, <1>2
  <2> HIDE DEF j
  <2> QED BY <1>1, <2>1, <2>2, Advances, StaysOnItsWay DEF nodeVars
<1>3. CASE extract_pod_uid(job[c].of) \notin cache /\ job' = [job EXCEPT ![c].at = "proc"]
  <2> DEFINE j == [job[c] EXCEPT !.at = "proc"]
  <2>1. /\ j \in Job
        /\ j.of = job[c].of /\ j.tgid = job[c].tgid /\ j.cgroup = job[c].cgroup
        /\ j.cached = job[c].cached /\ j.lives = job[c].lives
    BY <1>1 DEF Job
  <2>2. job' = [job EXCEPT ![c] = j]
    BY <1>3
  <2>3. ~ToBeNamed(j)
    BY <1>1, <1>3, <2>1 DEF HistoryHolds, ToBeNamed, UidReadable, extract_pod_uid
  <2> HIDE DEF j
  <2> QED BY <1>1, <2>1, <2>2, <2>3, Advances, StaysOnItsWay DEF nodeVars
<1> QED BY <1>2, <1>3 DEF ReadPod

(* Past this point the record is not one of those that are kept on their way. *)
LEMMA ReadProcKeeps ==
    ASSUME IInv, NEW c \in Consumers, ReadProc(c) \/ ReadContainer(c)
    PROVE  IInv'
<1> USE DEF IInv
<1>1. /\ job \in [Consumers -> Job \cup {Idle}] /\ job[c] \in Job /\ job[c] # Idle
      /\ job[c].at \in {"proc", "container"}
      /\ UNCHANGED <<nodeVars, loader, cacheVars>>
  BY IdleIsNoJob DEF ReadProc, ReadContainer, TypeOK
<1>2. ~ToBeNamed(job[c])
  BY <1>1 DEF OnItsWay
<1>3. job[c].container \in Workloads \cup {NoOne}
  BY <1>1, JobFields
<1>4. ASSUME NEW a \in {"container", "record"},
             NEW k \in Workloads \cup {NoOne}, NEW n \in Workloads \cup {NoOne},
             job' = [job EXCEPT ![c] = [job[c] EXCEPT !.at = a, !.container = k, !.name = n]]
      PROVE  IInv'
  <2> DEFINE j == [job[c] EXCEPT !.at = a, !.container = k, !.name = n]
  <2>1. /\ j \in Job
        /\ j.of = job[c].of /\ j.tgid = job[c].tgid /\ j.cgroup = job[c].cgroup
        /\ j.cached = job[c].cached /\ j.lives = job[c].lives
    BY <1>1 DEF Job
  <2>2. job' = [job EXCEPT ![c] = j]
    BY <1>4
  <2>3. ~ToBeNamed(j)
    BY <1>2, <2>1 DEF ToBeNamed
  <2> HIDE DEF j
  <2> QED BY <1>1, <2>1, <2>2, <2>3, Advances, StaysOnItsWay DEF nodeVars
<1>5. CASE ReadProc(c)
  <2>1. owner[job[c].tgid] \in Workloads \cup {NoOne} /\ job[c].name \in Workloads \cup {NoOne}
    BY <1>1, JobFields DEF TypeOK
  <2>2. CASE job' = [job EXCEPT ![c].at = "record"]
    <3>1. [job[c] EXCEPT !.at = "record"]
            = [job[c] EXCEPT !.at = "record", !.container = job[c].container, !.name = job[c].name]
      BY <1>1 DEF Job
    <3> QED BY <1>3, <1>4, <2>1, <2>2, <3>1
  <2>3. CASE job' = [job EXCEPT ![c].at = "container", ![c].container = owner[job[c].tgid]]
    <3>1. [job[c] EXCEPT !.at = "container", !.container = owner[job[c].tgid]]
            = [job[c] EXCEPT !.at = "container", !.container = owner[job[c].tgid],
                             !.name = job[c].name]
      BY <1>1 DEF Job
    <3>2. job' = [job EXCEPT ![c] =
                     [job[c] EXCEPT !.at = "container", !.container = owner[job[c].tgid]]]
      BY <1>1, <2>3
    <3> QED BY <1>4, <2>1, <3>1, <3>2
  <2> QED BY <1>5, <2>2, <2>3 DEF ReadProc
<1>6. CASE ReadContainer(c)
  <2>1. job[c].name \in Workloads \cup {NoOne}
    BY <1>1, JobFields
  <2>2. CASE job' = [job EXCEPT ![c].at = "record"]
    <3>1. [job[c] EXCEPT !.at = "record"]
            = [job[c] EXCEPT !.at = "record", !.container = job[c].container, !.name = job[c].name]
      BY <1>1 DEF Job
    <3> QED BY <1>3, <1>4, <2>1, <2>2, <3>1
  <2>3. CASE job' = [job EXCEPT ![c].at = "record", ![c].name = job[c].container]
    <3>1. [job[c] EXCEPT !.at = "record", !.name = job[c].container]
            = [job[c] EXCEPT !.at = "record", !.container = job[c].container,
                             !.name = job[c].container]
      BY <1>1 DEF Job
    <3>2. job' = [job EXCEPT ![c] =
                     [job[c] EXCEPT !.at = "record", !.name = job[c].container]]
      BY <1>1, <2>3
    <3> QED BY <1>3, <1>4, <3>1, <3>2
  <2> QED BY <1>6, <2>2, <2>3 DEF ReadContainer
<1> QED BY <1>5, <1>6

LEMMA RecordKeeps ==
    ASSUME IInv, NEW c \in Consumers, Record(c)
    PROVE  IInv'
<1> USE DEF IInv
<1>1. /\ job \in [Consumers -> Job \cup {Idle}]
      /\ job' = [job EXCEPT ![c] = Idle]
      /\ UNCHANGED <<nodeVars, loader, cacheVars>>
  BY DEF Record, TypeOK
<1>2. job'[c] = Idle /\ \A d \in Consumers : d # c => job'[d] = job[d]
  BY <1>1
<1>3. TypeOK'
  BY <1>1 DEF TypeOK, nodeVars, cacheVars
<1>4. QuietUnlessUp' /\ HistoryHolds'
  BY <1>1, <1>2 DEF QuietUnlessUp, HistoryHolds, nodeVars, cacheVars
<1>5. OnItsWay'
  BY <1>1, StaysOnItsWay DEF nodeVars
<1> QED BY <1>3, <1>4, <1>5

LEMMA StutterKeeps ==
    ASSUME IInv, UNCHANGED vars
    PROVE  IInv'
BY DEF IInv, vars, nodeVars, cacheVars, TypeOK, QuietUnlessUp, HistoryHolds, OnItsWay, ToBeNamed,
       UidReadable, HasPodPart

(* In every state the cache holds what it held when the records at work     *)
(* were taken, and those that it can name are on their way to their name.   *)
THEOREM AttributionInvariant == Spec => []IInv
<1>1. ASSUME IInv, [Next]_vars
      PROVE  IInv'
  <2>1. CASE \/ \E w \in Workloads : Launch(w)
             \/ \E t \in Tgids, w \in Workloads : Fork(t, w)
             \/ \E t \in Tgids : Exit(t)
    BY <1>1, <2>1, NodeKeeps
  <2>2. ASSUME NEW w \in Workloads, Remove(w) PROVE IInv'
    BY <1>1, <2>2, RemoveKeeps
  <2>3. CASE Start \/ InitCache \/ Stop
    BY <1>1, <2>3, LoaderKeeps
  <2>4. CASE LockCache \/ ListPods \/ ListFails \/ InsertPods
    BY <1>1, <2>4, RefresherKeeps DEF Refresher
  <2>5. ASSUME NEW c \in Consumers, NEW t \in Tgids, NEW cgroup \in BOOLEAN,
               Take(c, t, cgroup)
        PROVE  IInv'
    BY <1>1, <2>5, TakeKeeps
  <2>6. ASSUME NEW c \in Consumers, FindCgroup(c) PROVE IInv'
    BY <1>1, <2>6, FindCgroupKeeps
  <2>7. ASSUME NEW c \in Consumers, ReadPod(c) PROVE IInv'
    BY <1>1, <2>7, ReadPodKeeps
  <2>8. ASSUME NEW c \in Consumers, ReadProc(c) \/ ReadContainer(c) PROVE IInv'
    BY <1>1, <2>8, ReadProcKeeps
  <2>9. ASSUME NEW c \in Consumers, Record(c) PROVE IInv'
    BY <1>1, <2>9, RecordKeeps
  <2>10. CASE UNCHANGED vars
    BY <1>1, <2>10, StutterKeeps
  <2> QED
    BY <1>1, <2>1, <2>2, <2>3, <2>4, <2>5, <2>6, <2>7, <2>8, <2>9, <2>10 DEF Next
<1> QED BY InitHolds, <1>1, PTL DEF Spec

-----------------------------------------------------------------------------
(* Every variable keeps its type. *)
THEOREM TypeCorrect == Spec => []TypeOK
<1>1. IInv => TypeOK
  BY DEF IInv
<1> QED BY <1>1, AttributionInvariant, PTL

(* A record with a cgroup id of a pod that was in the cache is recorded     *)
(* under that pod's name as long as the pod runs, whatever refreshes fail   *)
(* and whatever process numbers are used again.                             *)
THEOREM NamedAsCached == Spec => []NamedOnceCached
<1>1. IInv => NamedOnceCached
  BY IdleIsNoJob DEF IInv, OnItsWay, ToBeNamed, NamedOnceCached
<1> QED BY <1>1, AttributionInvariant, PTL

(* What a record may be named: nothing before its last stage, and its pod   *)
(* by the cache only if the uid can be read off the path.                   *)
MayBeNamed(j) ==
    /\ j.at \in {"cgroup", "pod", "proc"} => j.name = NoOne
    /\ j.at = "pod" => HasPodPart(j.of)
    /\ ~UidReadable(j.of) => j.name \in Named \cup {NoOne}

OnlyReadableNamed == \A c \in Consumers : job[c] # Idle => MayBeNamed(job[c])

(* How far the divergence goes that extract_pod_uid makes: whether a        *)
(* Guaranteed pod, or a pod under cgroupfs, is in the cache or not, a       *)
(* record of it has no name but one that Docker's files tell, of whoever    *)
(* has the process number.                                                  *)
THEOREM UnreadableGoUnnamed == Spec => []OnlyReadableNamed
<1>1. Init => OnlyReadableNamed
  BY DEF Init, OnlyReadableNamed
<1>2. TypeOK /\ OnlyReadableNamed /\ [Next]_vars => OnlyReadableNamed'
  <2> SUFFICES ASSUME TypeOK, OnlyReadableNamed, [Next]_vars PROVE OnlyReadableNamed'
    OBVIOUS
  <2>1. driver' = driver
    BY DEF Next, vars, nodeVars, Launch, Fork, Exit, Remove, Start, InitCache, Stop, LockCache,
           ListPods, ListFails, InsertPods, Take, FindCgroup, ReadPod, ReadProc, ReadContainer,
           Record
  <2>2. ASSUME NEW c \in Consumers, job'[c] # Idle PROVE MayBeNamed(job'[c])
    <3>1. job \in [Consumers -> Job \cup {Idle}] /\ (job[c] # Idle => job[c] \in Job)
      BY DEF TypeOK
    <3>2. job[c] # Idle => MayBeNamed(job[c])
      BY DEF OnlyReadableNamed
    <3>3. CASE UNCHANGED job
      BY <2>2, <3>2, <3>3
    <3>4. ASSUME NEW w \in Workloads, Remove(w) PROVE MayBeNamed(job'[c])
      <4>1. \/ job'[c] = job[c]
            \/ /\ job[c] # Idle /\ job'[c].of = job[c].of /\ job'[c].at = job[c].at
               /\ job'[c].name = job[c].name
        BY <3>1, <3>4 DEF Remove, Job
      <4> QED BY <2>2, <3>2, <4>1 DEF MayBeNamed
    <3>5. CASE Stop
      BY <2>2, <3>5 DEF Stop
    <3>6. ASSUME NEW d \in Consumers, NEW t \in Tgids, NEW cgroup \in BOOLEAN, Take(d, t, cgroup)
          PROVE  MayBeNamed(job'[c])
      <4>1. job'[c] = job[c] \/ (job'[c].at = "cgroup" /\ job'[c].name = NoOne)
        BY <3>1, <3>6 DEF Take
      <4> QED BY <2>2, <3>2, <4>1 DEF MayBeNamed
    <3>7. ASSUME NEW d \in Consumers, d # c, Consumer(d) PROVE MayBeNamed(job'[c])
      <4>1. job'[c] = job[c]
        BY <3>1, <3>7 DEF Consumer, FindCgroup, ReadPod, ReadProc, ReadContainer, Record
      <4> QED BY <2>2, <3>2, <4>1
    <3>8. CASE FindCgroup(c)
      <4>1. /\ job[c] # Idle /\ job[c] \in Job /\ job[c].at = "cgroup"
            /\ job'[c].of = job[c].of /\ job'[c].name = job[c].name
            /\ (FindsPod(c) /\ job'[c].at = "pod") \/ job'[c].at = "proc"
        BY <3>1, <3>8, IdleIsNoJob DEF FindCgroup, Job
      <4> QED BY <3>2, <4>1 DEF MayBeNamed, FindsPod
    <3>9. CASE ReadPod(c)
      <4>1. job[c] # Idle /\ job[c] \in Job /\ job[c].at = "pod"
        BY <3>1, <3>9, IdleIsNoJob DEF ReadPod
      <4>2. CASE /\ extract_pod_uid(job[c].of) \in cache
                 /\ job' = [job EXCEPT ![c].at = "record", ![c].name = extract_pod_uid(job[c].of)]
        <5>1. job'[c].of = job[c].of /\ job'[c].at = "record"
          BY <3>1, <4>1, <4>2 DEF Job
        <5>2. UidReadable(job[c].of)
          BY <3>2, <4>1, <4>2, AttributionAssumption
          DEF MayBeNamed, UidReadable, extract_pod_uid, TypeOK, Workloads
        <5> QED BY <5>1, <5>2 DEF MayBeNamed
      <4>3. CASE job' = [job EXCEPT ![c].at = "proc"]
        <5>1. job'[c].of = job[c].of /\ job'[c].at = "proc" /\ job'[c].name = job[c].name
          BY <3>1, <4>1, <4>3 DEF Job
        <5> QED BY <3>2, <4>1, <5>1 DEF MayBeNamed
      <4> QED BY <3>9, <4>2, <4>3 DEF ReadPod
    <3>10. CASE ReadProc(c)
      <4>1. /\ job[c] # Idle /\ job[c] \in Job /\ job[c].at = "proc"
            /\ job'[c].of = job[c].of /\ job'[c].at \in {"container", "record"}
            /\ job'[c].name = job[c].name
        BY <3>1, <3>10, IdleIsNoJob DEF ReadProc, Job
      <4> QED BY <3>2, <4>1 DEF MayBeNamed
    <3>11. CASE ReadContainer(c)
      <4>1. job[c] # Idle /\ job[c] \in Job /\ job[c].at = "container"
        BY <3>1, <3>11, IdleIsNoJob DEF ReadContainer
      <4>2. /\ job'[c].of = job[c].of /\ job'[c].at = "record"
            /\ job'[c].name = job[c].name \/ job'[c].name \in Named
        BY <3>1, <3>11, <4>1 DEF ReadContainer, Job
      <4> QED BY <3>2, <4>1, <4>2 DEF MayBeNamed
    <3>12. CASE Record(c)
      BY <2>2, <3>1, <3>12 DEF Record
    <3> QED
      BY <3>3, <3>4, <3>5, <3>6, <3>7, <3>8, <3>9, <3>10, <3>11, <3>12
      DEF Next, Consumer, vars, Launch, Fork, Exit, Start, InitCache, LockCache, ListPods,
          ListFails, InsertPods
  <2> QED BY <2>1, <2>2 DEF OnlyReadableNamed, MayBeNamed, UidReadable, HasPodPart
<1> QED BY <1>1, <1>2, TypeCorrect, PTL DEF Spec

-----------------------------------------------------------------------------
(* How far a job is from its end, and the refresher from giving the lock   *)
(* back.                                                                   *)
Stage == [cgroup |-> 5, pod |-> 4, proc |-> 3, container |-> 2, record |-> 1, idle |-> 0]
Hold == [listing |-> 2, inserting |-> 1, sleeping |-> 0]

(* A loader that is not up has neither a cache nor a refresh under way.    *)
ColdUnlessUp == loader # "up" => cache = {} /\ refresher = "sleeping"

(* A record's consumer brings it nearer to its end with each step, and     *)
(* nobody else sets it back or changes it, but for the end of its          *)
(* workload; the lock is given back after two steps of its holder; and a   *)
(* loader that does not go down forgets no pod.                            *)
RecordsGetOn ==
    [][/\ \A c \in Consumers : job[c] # Idle =>
             \/ Stage[job'[c].at] < Stage[job[c].at]
             \/ ~Consumer(c) /\ job'[c] \in {job[c], [job[c] EXCEPT !.lives = FALSE]}
       /\ refresher # "sleeping" =>
             \/ Hold[refresher'] < Hold[refresher]
             \/ ~Refresher /\ refresher' = refresher
       /\ loader' # "down" => cache \subseteq cache']_vars

(* Before the loader is up and after it went down, nothing is cached or    *)
(* locked.                                                                 *)
THEOREM StartsCold == Spec => []ColdUnlessUp
<1>1. Init => ColdUnlessUp
  BY DEF Init, ColdUnlessUp
<1>2. ColdUnlessUp /\ [Next]_vars => ColdUnlessUp'
  BY DEF ColdUnlessUp, Next, vars, nodeVars, cacheVars, Launch, Fork, Exit, Remove, Start,
         InitCache, Stop, LockCache, ListPods, ListFails, InsertPods, Take, FindCgroup,
         ReadPod, ReadProc, ReadContainer, Record
<1> QED BY <1>1, <1>2, PTL DEF Spec

(* What a step of consumer c does to its job, and to no other. *)
LEMMA ConsumerAdvances ==
    ASSUME TypeOK, NEW c \in Consumers, Consumer(c)
    PROVE  /\ Stage[job'[c].at] < Stage[job[c].at]
           /\ \A d \in Consumers : d # c => job'[d] = job[d]
           /\ UNCHANGED <<loader, cacheVars>>
<1>1. /\ job \in [Consumers -> Job \cup {Idle}] /\ Idle.at = "idle"
      /\ job[c] \in Job \cup {Idle}
  BY DEF TypeOK, Idle
<1>2. job[c].at # "idle" => job[c] \in Job
  BY <1>1
<1>3. CASE FindCgroup(c)
  <2>1. job[c].at = "cgroup" /\ job[c] \in Job
    BY <1>2, <1>3 DEF FindCgroup
  <2>2. job'[c].at \in {"pod", "proc"} /\ \A d \in Consumers : d # c => job'[d] = job[d]
    BY <1>1, <1>3, <2>1 DEF FindCgroup, Job
  <2> QED BY <1>3, <2>1, <2>2 DEF Stage, FindCgroup
<1>4. CASE ReadPod(c)
  <2>1. job[c].at = "pod" /\ job[c] \in Job
    BY <1>2, <1>4 DEF ReadPod
  <2>2. job'[c].at \in {"record", "proc"} /\ \A d \in Consumers : d # c => job'[d] = job[d]
    BY <1>1, <1>4, <2>1 DEF ReadPod, Job
  <2> QED BY <1>4, <2>1, <2>2 DEF Stage, ReadPod
<1>5. CASE ReadProc(c)
  <2>1. job[c].at = "proc" /\ job[c] \in Job
    BY <1>2, <1>5 DEF ReadProc
  <2>2. job'[c].at \in {"record", "container"} /\ \A d \in Consumers : d # c => job'[d] = job[d]
    BY <1>1, <1>5, <2>1 DEF ReadProc, Job
  <2> QED BY <1>5, <2>1, <2>2 DEF Stage, ReadProc
<1>6. CASE ReadContainer(c)
  <2>1. job[c].at = "container" /\ job[c] \in Job
    BY <1>2, <1>6 DEF ReadContainer
  <2>2. job'[c].at = "record" /\ \A d \in Consumers : d # c => job'[d] = job[d]
    BY <1>1, <1>6, <2>1 DEF ReadContainer, Job
  <2> QED BY <1>6, <2>1, <2>2 DEF Stage, ReadContainer
<1>7. CASE Record(c)
  <2>1. job[c].at = "record" /\ job[c] \in Job
    BY <1>2, <1>7 DEF Record
  <2>2. job'[c].at = "idle" /\ \A d \in Consumers : d # c => job'[d] = job[d]
    BY <1>1, <1>7, <2>1 DEF Record
  <2> QED BY <1>7, <2>1, <2>2 DEF Stage, Record
<1> QED BY <1>3, <1>4, <1>5, <1>6, <1>7 DEF Consumer

(* The safety part of what gets every record recorded and every pod        *)
(* cached: with a scheduler that lets the tasks run and an API that        *)
(* answers, nothing that was reached is undone but by the loader's end.    *)
THEOREM RecordsCannotLoop == Spec => RecordsGetOn
<1> DEFINE JobGetsOn(c) ==
             job[c] # Idle =>
                \/ Stage[job'[c].at] < Stage[job[c].at]
                \/ ~Consumer(c) /\ job'[c] \in {job[c], [job[c] EXCEPT !.lives = FALSE]}
           LockGetsFree ==
             refresher # "sleeping" => \/ Hold[refresher'] < Hold[refresher]
                                       \/ ~Refresher /\ refresher' = refresher
           Remembers == loader' # "down" => cache \subseteq cache'
<1>1. IInv /\ ColdUnlessUp /\ [Next]_vars
         => [(\A c \in Consumers : JobGetsOn(c)) /\ LockGetsFree /\ Remembers]_vars
  <2> SUFFICES ASSUME IInv, ColdUnlessUp, Next
               PROVE  (\A c \in Consumers : JobGetsOn(c)) /\ LockGetsFree /\ Remembers
    OBVIOUS
  <2>1. ASSUME NEW c \in Consumers PROVE JobGetsOn(c)
    <3> SUFFICES ASSUME job[c] # Idle, ~Consumer(c)
                 PROVE  \/ Stage[job'[c].at] < Stage[job[c].at]
                        \/ job'[c] \in {job[c], [job[c] EXCEPT !.lives = FALSE]}
      BY ConsumerAdvances DEF IInv
    <3>1. /\ job \in [Consumers -> Job \cup {Idle}] /\ job[c] \in Job
          /\ job[c].at \in {"cgroup", "pod", "proc", "container", "record"}
      BY JobFields DEF IInv, TypeOK
    <3>2. CASE UNCHANGED job
      BY <3>2
    <3>3. ASSUME NEW w \in Workloads, Remove(w)
          PROVE  job'[c] \in {job[c], [job[c] EXCEPT !.lives = FALSE]}
      BY <3>1, <3>3 DEF Remove
    <3>4. CASE Stop
      <4>1. job'[c].at = "idle"
        BY <3>4 DEF Stop, Idle
      <4> QED BY <3>1, <4>1 DEF Stage
    <3>5. ASSUME NEW d \in Consumers, NEW t \in Tgids, NEW cgroup \in BOOLEAN, Take(d, t, cgroup)
          PROVE  job'[c] = job[c]
      BY <3>1, <3>5 DEF Take
    <3>6. ASSUME NEW d \in Consumers, Consumer(d)
          PROVE  job'[c] = job[c]
      BY <3>6, ConsumerAdvances DEF IInv
    <3> QED BY <3>2, <3>3, <3>4, <3>5, <3>6
         DEF Next, Consumer, Launch, Fork, Exit, Start, InitCache, LockCache, ListPods,
             ListFails, InsertPods
  <2>2. LockGetsFree
    <3>1. CASE Refresher
      BY <3>1 DEF Refresher, LockCache, ListPods, ListFails, InsertPods, Hold
    <3>2. CASE Stop
      BY <3>2 DEF Stop, Hold, IInv, TypeOK
    <3>3. ASSUME NEW c \in Consumers, Consumer(c) PROVE refresher' = refresher
      BY <3>3, ConsumerAdvances DEF IInv, cacheVars
    <3>4. ASSUME \/ \E w \in Workloads : Launch(w) \/ Remove(w)
                 \/ \E t \in Tgids, w \in Workloads : Fork(t, w)
                 \/ \E t \in Tgids : Exit(t)
                 \/ Start \/ InitCache
                 \/ \E c \in Consumers, t \in Tgids, cgroup \in BOOLEAN : Take(c, t, cgroup)
          PROVE  refresher' = refresher
      BY <3>4 DEF Launch, Remove, Fork, Exit, Start, InitCache, Take, cacheVars
    <3>5. CASE Refresher \/ Stop
      BY <3>1, <3>2, <3>5
    <3>6. CASE ~Refresher /\ ~Stop
      <4>1. refresher' = refresher
        BY <3>3, <3>4, <3>6 DEF Next, Refresher, Consumer
      <4> QED BY <3>6, <4>1, Zenon
    <3> QED BY <3>5, <3>6
  <2>3. Remembers
    <3>1. ASSUME NEW c \in Consumers, Consumer(c) PROVE cache' = cache
      BY <3>1, ConsumerAdvances DEF IInv, cacheVars
    <3>2. CASE InitCache \/ Stop \/ InsertPods
      BY <3>2 DEF InitCache, Stop, InsertPods, ColdUnlessUp
    <3>3. CASE \/ \E w \in Workloads : Launch(w) \/ Remove(w)
               \/ \E t \in Tgids, w \in Workloads : Fork(t, w)
               \/ \E t \in Tgids : Exit(t)
               \/ Start \/ LockCache \/ ListPods \/ ListFails
               \/ \E c \in Consumers, t \in Tgids, cgroup \in BOOLEAN : Take(c, t, cgroup)
      BY <3>3 DEF Launch, Remove, Fork, Exit, Start, LockCache, ListPods, ListFails, Take,
                  cacheVars
    <3> QED BY <3>1, <3>2, <3>3 DEF Next, Consumer
  <2> QED BY <2>1, <2>2, <2>3
<1> QED BY <1>1, AttributionInvariant, StartsCold, PTL DEF Spec, RecordsGetOn
=============================================================================
