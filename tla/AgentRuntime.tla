---------------------------- MODULE AgentRuntime ----------------------------
(***************************************************************************)
(* The agent's tasks on the tokio runtime: four reader tasks, each feeding *)
(* a bounded mpsc channel from a perf event array, and the gRPC calls that *)
(* drain the channels.  A worker thread runs one task until it awaits      *)
(* something that is not ready.  Two readers sleep after every pass over   *)
(* their rings; the other two (latency and veth) have no such await, and   *)
(* give their worker back only when a send has to wait or has used up the  *)
(* task's budget.  The calls await nothing: they drain their channel under *)
(* a lock of the standard library.  In which order the runtime takes       *)
(* the tasks that are queued (its run queues, the slot for the task woken  *)
(* last, the stealing between workers) is left open.                       *)
(***************************************************************************)
EXTENDS Naturals, FiniteSets

CONSTANTS
    Readers,       \* the reader tasks
    Spinning,      \* those that never sleep
    Workers,       \* worker threads of the runtime: the CPUs it may use
    ChanCapacity,  \* capacity of a channel
    MaxRecords,    \* bound: records that arrive in the rings of all readers
    MaxRequests    \* bound: calls of the clients

(* Fault: a reader without the sleep at the end of its pass. *)
NoneSleeps == {}

Sleepy == Readers \ Spinning

(* The call that drains the channel of reader r. *)
CallOf(r) == <<"call", r>>

Tasks == Readers \cup {CallOf(r) : r \in Readers}

ASSUME RuntimeAssumption ==
    /\ IsFiniteSet(Readers)
    /\ \A r \in Readers : CallOf(r) \notin Readers
    /\ Spinning \subseteq Readers
    /\ Workers \in Nat \ {0}
    /\ ChanCapacity \in Nat \ {0}
    /\ MaxRecords \in Nat
    /\ MaxRequests \in Nat

VARIABLES
    task,      \* task[t]: "idle", "asleep", "queued", "running" or "waiting"
    arrived,   \* records that have arrived so far
    ring,      \* ring[r]: those for reader r that it has not read yet
    held,      \* held[r]: r has read a record it has not sent yet
    chan,      \* chan[r]: records in r's channel
    requests   \* calls made so far

vars == <<task, arrived, ring, held, chan, requests>>

(* The readers are spawned by the constructor of the API. *)
Init ==
    /\ task = [t \in Tasks |-> IF t \in Readers THEN "queued" ELSE "idle"]
    /\ arrived = 0
    /\ ring = [r \in Readers |-> 0]
    /\ held = [r \in Readers |-> FALSE]
    /\ chan = [r \in Readers |-> 0]
    /\ requests = 0

Running == {t \in Tasks : task[t] = "running"}

(* Task t becomes runnable. *)
Schedule(t) == task' = [task EXCEPT ![t] = "queued"]

-----------------------------------------------------------------------------
(* The runtime *)

(* Fault: a task given to a runtime whose workers are all busy. *)
DispatchAlways(t) ==
    /\ task[t] = "queued"
    /\ task' = [task EXCEPT ![t] = "running"]
    /\ UNCHANGED <<arrived, ring, held, chan, requests>>

Dispatch(t) ==
    /\ task[t] = "queued"
    /\ Cardinality(Running) < Workers
    /\ task' = [task EXCEPT ![t] = "running"]
    /\ UNCHANGED <<arrived, ring, held, chan, requests>>

Timer(r) ==
    /\ task[r] = "asleep"
    /\ Schedule(r)
    /\ UNCHANGED <<arrived, ring, held, chan, requests>>

-----------------------------------------------------------------------------
(* The world: eBPF programs and clients *)

Arrive(r) ==
    /\ arrived < MaxRecords
    /\ arrived' = arrived + 1
    /\ ring' = [ring EXCEPT ![r] = @ + 1]
    /\ UNCHANGED <<task, held, chan, requests>>

Request(r) ==
    /\ requests < MaxRequests
    /\ task[CallOf(r)] = "idle"
    /\ requests' = requests + 1
    /\ Schedule(CallOf(r))
    /\ UNCHANGED <<arrived, ring, held, chan>>

-----------------------------------------------------------------------------
(* The readers *)

Read(r) ==
    /\ task[r] = "running"
    /\ ~held[r]
    /\ ring[r] > 0
    /\ ring' = [ring EXCEPT ![r] = @ - 1]
    /\ held' = [held EXCEPT ![r] = TRUE]
    /\ UNCHANGED <<task, arrived, chan, requests>>

(* There is room in the channel; the send may use up the task's budget, and *)
(* the task then yields.                                                    *)
Send(r) ==
    /\ task[r] = "running"
    /\ held[r]
    /\ chan[r] < ChanCapacity
    /\ chan' = [chan EXCEPT ![r] = @ + 1]
    /\ held' = [held EXCEPT ![r] = FALSE]
    /\ Schedule(r) \/ UNCHANGED task
    /\ UNCHANGED <<arrived, ring, requests>>

(* The channel is full: the task waits, off its worker. *)
SendWaits(r) ==
    /\ task[r] = "running"
    /\ held[r]
    /\ chan[r] = ChanCapacity
    /\ task' = [task EXCEPT ![r] = "waiting"]
    /\ UNCHANGED <<arrived, ring, held, chan, requests>>

(* The end of a pass over the rings.  A spinning reader has no counterpart: *)
(* with nothing to read it goes around its loop and changes nothing.        *)
Sleep(r) ==
    /\ task[r] = "running"
    /\ ~held[r]
    /\ task' = [task EXCEPT ![r] = "asleep"]
    /\ UNCHANGED <<arrived, ring, held, chan, requests>>

-----------------------------------------------------------------------------
(* The calls *)

(* Fault: a receive that wakes nobody. *)
TryRecvSilently(r) ==
    /\ task[CallOf(r)] = "running"
    /\ chan[r] > 0
    /\ chan' = [chan EXCEPT ![r] = @ - 1]
    /\ UNCHANGED <<task, arrived, ring, held, requests>>

(* try_recv takes a record; the reader that waits for room is woken. *)
TryRecv(r) ==
    /\ task[CallOf(r)] = "running"
    /\ chan[r] > 0
    /\ chan' = [chan EXCEPT ![r] = @ - 1]
    /\ \/ task[r] = "waiting" /\ Schedule(r)
       \/ task[r] # "waiting" /\ UNCHANGED task
    /\ UNCHANGED <<arrived, ring, held, requests>>

Answer(r) ==
    /\ task[CallOf(r)] = "running"
    /\ chan[r] = 0
    /\ task' = [task EXCEPT ![CallOf(r)] = "idle"]
    /\ UNCHANGED <<arrived, ring, held, chan, requests>>

-----------------------------------------------------------------------------
Reader(r) ==
    \/ Read(r)
    \/ Send(r)
    \/ SendWaits(r)
    \/ r \in Sleepy /\ Sleep(r)

Call(r) == TryRecv(r) \/ Answer(r)

Next ==
    \/ \E t \in Tasks : Dispatch(t)
    \/ \E r \in Sleepy : Timer(r)
    \/ \E r \in Readers : Arrive(r)
    \/ \E r \in Readers : Request(r)
    \/ \E r \in Readers : Read(r)
    \/ \E r \in Readers : Send(r)
    \/ \E r \in Readers : SendWaits(r)
    \/ \E r \in Sleepy : Sleep(r)
    \/ \E r \in Readers : TryRecv(r)
    \/ \E r \in Readers : Answer(r)

(* A task on a worker is executed, a task that is queued while workers get *)
(* free again and again is taken in the end, and timers fire.  Nothing is  *)
(* assumed of the eBPF programs and the clients.                           *)
Fairness ==
    /\ \A t \in Tasks : SF_vars(Dispatch(t))
    /\ \A r \in Sleepy : WF_vars(Timer(r))
    /\ \A r \in Readers : WF_vars(Reader(r)) /\ WF_vars(Call(r))

Spec == Init /\ [][Next]_vars /\ Fairness

-----------------------------------------------------------------------------
(* Type invariant. *)
TypeOK ==
    /\ task \in [Tasks -> {"idle", "asleep", "queued", "running", "waiting"}]
    /\ Cardinality(Running) =< Workers
    /\ arrived \in 0 .. MaxRecords
    /\ ring \in [Readers -> 0 .. MaxRecords]
    /\ held \in [Readers -> BOOLEAN]
    /\ chan \in [Readers -> 0 .. ChanCapacity]
    /\ requests \in 0 .. MaxRequests

(* No wake-up is lost: a reader waits for room only while there is none. *)
WaitsOnlyWhenFull ==
    \A r \in Readers : task[r] = "waiting" => held[r] /\ chan[r] = ChanCapacity

(* What the documentation says of a call, that it returns the events that  *)
(* are queued: every call a client makes is answered.                      *)
CallsAnswered == \A r \in Readers : task[CallOf(r)] # "idle" ~> task[CallOf(r)] = "idle"

(* A call that drains a channel gets the reader that waits for room going   *)
(* again.                                                                   *)
ReadersResume ==
    \A r \in Readers :
        task[r] = "waiting" /\ task[CallOf(r)] # "idle" ~> task[r] = "running"
=============================================================================
