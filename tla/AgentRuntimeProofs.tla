------------------------- MODULE AgentRuntimeProofs -------------------------
(***************************************************************************)
(* Theorems of AgentRuntime, for any readers, whether they sleep or not,   *)
(* any number of workers and any capacity of the channels: what the tasks  *)
(* may rely on, and when the workers can all be taken.                     *)
(***************************************************************************)
EXTENDS AgentRuntime, FiniteSetTheorems, TLAPS

(* The tasks, and where each of the two kinds can be. *)
Placed ==
    /\ task \in [Tasks -> {"idle", "asleep", "queued", "running", "waiting"}]
    /\ \A r \in Readers : task[r] # "idle" /\ task[CallOf(r)] \notin {"asleep", "waiting"}

(* No ring holds more than what arrived. *)
Counted ==
    /\ arrived \in 0 .. MaxRecords
    /\ requests \in 0 .. MaxRequests
    /\ ring \in [Readers -> 0 .. arrived]
    /\ held \in [Readers -> BOOLEAN]
    /\ chan \in [Readers -> 0 .. ChanCapacity]

WorkersSuffice == Cardinality(Running) =< Workers

(* A reader sleeps with empty hands, and one that is woken with a record in *)
(* its hands has room for it.                                               *)
SleepsEmpty == \A r \in Readers : task[r] = "asleep" => ~held[r]

WokenFindsRoom ==
    \A r \in Readers : task[r] = "queued" /\ held[r] => chan[r] < ChanCapacity

IInv ==
    /\ Placed
    /\ Counted
    /\ WorkersSuffice
    /\ SleepsEmpty
    /\ WokenFindsRoom
    /\ WaitsOnlyWhenFull

-----------------------------------------------------------------------------
(* There are finitely many tasks. *)
LEMMA RunningFinite == IsFiniteSet(Tasks) /\ IsFiniteSet(Running) /\ IsFiniteSet(Spinning)
<1>3. IsFiniteSet(Readers)
  BY RuntimeAssumption
<1>4. IsFiniteSet({CallOf(r) : r \in Readers})
  <2> DEFINE g == [r \in Readers |-> CallOf(r)]
  <2>1. g \in Surjection(Readers, {CallOf(r) : r \in Readers})
    BY DEF Surjection
  <2> QED BY <1>3, <2>1, FS_Surjection
<1>5. IsFiniteSet(Tasks)
  BY <1>3, <1>4, FS_Union DEF Tasks
<1>6. Running \subseteq Tasks /\ Spinning \subseteq Readers
  BY RuntimeAssumption DEF Running
<1> QED BY <1>3, <1>5, <1>6, FS_Subset

(* A step that lets at most the tasks on the workers stay there needs no   *)
(* other worker.                                                           *)
LEMMA FewerRunning ==
    ASSUME WorkersSuffice, Running' \subseteq Running
    PROVE  WorkersSuffice'
<1>1. Cardinality(Running') =< Cardinality(Running) /\ Cardinality(Running') \in Nat
      /\ Cardinality(Running) \in Nat
  BY RunningFinite, FS_Subset, FS_CardinalityType
<1> QED BY <1>1, RuntimeAssumption DEF WorkersSuffice

(* What Schedule does to a task that is not queued, and what a step does   *)
(* that takes task t off its worker, or lets it sleep, wait or be idle.    *)
LEMMA MovesKeep ==
    ASSUME IInv, NEW t \in Tasks, NEW to \in {"idle", "asleep", "queued", "waiting"},
           task' = [task EXCEPT ![t] = to]
    PROVE  /\ WorkersSuffice'
           /\ task' \in [Tasks -> {"idle", "asleep", "queued", "running", "waiting"}]
<1>1. task \in [Tasks -> {"idle", "asleep", "queued", "running", "waiting"}]
  BY DEF IInv, Placed
<1>2. Running' \subseteq Running
  BY <1>1 DEF Running
<1> QED BY <1>1, <1>2, FewerRunning DEF IInv

-----------------------------------------------------------------------------
(* Each action keeps what holds of the tasks and the workers.              *)
LEMMA InitHolds == Init => IInv
<1> SUFFICES ASSUME Init PROVE IInv
  OBVIOUS
<1> USE RuntimeAssumption
<1>3. Readers \subseteq Tasks /\ \A r \in Readers : CallOf(r) \in Tasks
  BY DEF Tasks
<1>4. Placed
  BY <1>3 DEF Init, Placed
<1>6. Running = {}
  BY <1>3 DEF Init, Running
<1>7. WorkersSuffice
  BY <1>6, FS_EmptySet DEF WorkersSuffice
<1>8. Counted /\ SleepsEmpty /\ WokenFindsRoom /\ WaitsOnlyWhenFull
  BY <1>3 DEF Init, Counted, SleepsEmpty, WokenFindsRoom, WaitsOnlyWhenFull
<1> QED BY <1>4, <1>7, <1>8 DEF IInv

LEMMA DispatchKeeps ==
    ASSUME IInv, NEW t \in Tasks, Dispatch(t)
    PROVE  IInv'
<1>1. /\ task \in [Tasks -> {"idle", "asleep", "queued", "running", "waiting"}]
      /\ task[t] = "queued" /\ task' = [task EXCEPT ![t] = "running"]
      /\ Cardinality(Running) < Workers
      /\ UNCHANGED <<arrived, ring, held, chan, requests>>
  BY DEF IInv, Placed, Dispatch
<1>2. WorkersSuffice'
  <2>1. Running' = Running \cup {t} /\ t \notin Running
    BY <1>1 DEF Running
  <2>2. Cardinality(Running') = Cardinality(Running) + 1
    BY <2>1, RunningFinite, FS_AddElement
  <2>3. Cardinality(Running) \in Nat
    BY RunningFinite, FS_CardinalityType
  <2> QED BY <1>1, <2>2, <2>3, RuntimeAssumption DEF WorkersSuffice
<1>3. Placed'
  BY <1>1 DEF IInv, Placed, Tasks
<1>4. Counted' /\ SleepsEmpty' /\ WokenFindsRoom' /\ WaitsOnlyWhenFull'
  <2>1. \A r \in Readers : r \in Tasks
    BY DEF Tasks
  <2> QED BY <1>1, <2>1 DEF IInv, Counted, SleepsEmpty, WokenFindsRoom, WaitsOnlyWhenFull
<1> QED BY <1>2, <1>3, <1>4 DEF IInv

LEMMA WorldKeeps ==
    ASSUME IInv, NEW r \in Readers, Timer(r) \/ Arrive(r) \/ Request(r)
    PROVE  IInv'
<1> USE DEF Counted, SleepsEmpty, WokenFindsRoom, WaitsOnlyWhenFull
<1>1. r \in Tasks /\ CallOf(r) \in Tasks /\ \A s \in Readers : s \in Tasks /\ CallOf(r) # s
      /\ CallOf(s) \in Tasks
  BY RuntimeAssumption DEF Tasks
<1>2. CASE Timer(r)
  <2>1. task[r] = "asleep" /\ Schedule(r) /\ UNCHANGED <<arrived, ring, held, chan, requests>>
    BY <1>2 DEF Timer
  <2>2. /\ WorkersSuffice' /\ task' = [task EXCEPT ![r] = "queued"]
        /\ task' \in [Tasks -> {"idle", "asleep", "queued", "running", "waiting"}]
    BY <1>1, <2>1, MovesKeep DEF Schedule
  <2>3. Placed'
    BY <1>1, <2>2 DEF IInv, Placed
  <2>4. SleepsEmpty' /\ WokenFindsRoom' /\ WaitsOnlyWhenFull' /\ Counted'
    BY <1>1, <2>1, <2>2 DEF IInv, Placed
  <2> QED BY <2>2, <2>3, <2>4 DEF IInv
<1>3. CASE Arrive(r)
  <2>1. UNCHANGED task /\ UNCHANGED <<held, chan, requests>>
    BY <1>3 DEF Arrive
  <2>2. Placed' /\ WorkersSuffice' /\ SleepsEmpty' /\ WokenFindsRoom'
        /\ WaitsOnlyWhenFull'
    BY <2>1 DEF IInv, Placed, WorkersSuffice, Running
  <2>3. arrived' = arrived + 1 /\ arrived < MaxRecords /\ ring' = [ring EXCEPT ![r] = @ + 1]
    BY <1>3 DEF Arrive
  <2>4. Counted'
    BY <2>1, <2>3, RuntimeAssumption DEF IInv
  <2> QED BY <2>2, <2>4 DEF IInv
<1>4. CASE Request(r)
  <2>1. /\ task[CallOf(r)] = "idle" /\ Schedule(CallOf(r)) /\ UNCHANGED <<arrived, ring, held, chan>>
        /\ requests < MaxRequests /\ requests' = requests + 1
    BY <1>4 DEF Request
  <2>2. /\ WorkersSuffice' /\ task' = [task EXCEPT ![CallOf(r)] = "queued"]
        /\ task' \in [Tasks -> {"idle", "asleep", "queued", "running", "waiting"}]
    BY <1>1, <2>1, MovesKeep DEF Schedule
  <2>3. \A s \in Readers : task'[s] = task[s]
    BY <1>1, <2>2 DEF IInv, Placed
  <2>4. Placed'
    BY <1>1, <2>2, <2>3 DEF IInv, Placed
  <2>5. SleepsEmpty' /\ WokenFindsRoom' /\ WaitsOnlyWhenFull'
    BY <2>1, <2>3 DEF IInv
  <2>6. Counted'
    BY <2>1, RuntimeAssumption DEF IInv
  <2> QED BY <2>2, <2>4, <2>5, <2>6 DEF IInv
<1> QED BY <1>2, <1>3, <1>4

LEMMA ReaderKeeps ==
    ASSUME IInv, NEW r \in Readers, Read(r) \/ Send(r) \/ SendWaits(r) \/ Sleep(r)
    PROVE  IInv'
<1> USE DEF Counted, SleepsEmpty, WokenFindsRoom, WaitsOnlyWhenFull
<1>1. r \in Tasks /\ \A s \in Readers : s \in Tasks /\ CallOf(s) \in Tasks /\ CallOf(s) # r
  BY RuntimeAssumption DEF Tasks
<1>2. task[r] = "running" /\ UNCHANGED <<arrived, requests>>
  BY DEF Read, Send, SendWaits, Sleep
<1>3. CASE Read(r)
  <2>1. UNCHANGED <<task, chan>> /\ held' = [held EXCEPT ![r] = TRUE]
        /\ ring[r] > 0 /\ ring' = [ring EXCEPT ![r] = @ - 1]
    BY <1>3 DEF Read
  <2>2. Placed' /\ WorkersSuffice'
    BY <2>1 DEF IInv, Placed, WorkersSuffice, Running
  <2>3. Counted'
    BY <1>2, <2>1, RuntimeAssumption DEF IInv
  <2>4. SleepsEmpty' /\ WokenFindsRoom' /\ WaitsOnlyWhenFull'
    BY <1>2, <2>1 DEF IInv
  <2> QED BY <2>2, <2>3, <2>4 DEF IInv
<1>4. CASE Send(r)
  <2>1. /\ chan[r] < ChanCapacity /\ chan' = [chan EXCEPT ![r] = @ + 1]
        /\ held' = [held EXCEPT ![r] = FALSE] /\ UNCHANGED ring
        /\ Schedule(r) \/ UNCHANGED task
    BY <1>4 DEF Send
  <2>2. Counted'
    BY <1>2, <2>1, RuntimeAssumption DEF IInv
  <2>3. CASE Schedule(r)
    <3>1. /\ WorkersSuffice' /\ task' = [task EXCEPT ![r] = "queued"]
          /\ task' \in [Tasks -> {"idle", "asleep", "queued", "running", "waiting"}]
      BY <1>1, <1>2, <2>3, MovesKeep DEF Schedule
    <3>2. Placed'
      BY <1>1, <3>1 DEF IInv, Placed
    <3>3. SleepsEmpty' /\ WokenFindsRoom' /\ WaitsOnlyWhenFull'
      BY <1>1, <2>1, <3>1 DEF IInv, Placed
    <3> QED BY <2>2, <3>1, <3>2, <3>3 DEF IInv
  <2>4. CASE UNCHANGED task
    <3>1. Placed' /\ WorkersSuffice'
      BY <2>4 DEF IInv, Placed, WorkersSuffice, Running
    <3>2. SleepsEmpty' /\ WokenFindsRoom' /\ WaitsOnlyWhenFull'
      BY <1>2, <2>1, <2>4 DEF IInv
    <3> QED BY <2>2, <3>1, <3>2 DEF IInv
  <2> QED BY <2>1, <2>3, <2>4
<1>5. CASE SendWaits(r)
  <2>1. /\ held[r] /\ chan[r] = ChanCapacity /\ task' = [task EXCEPT ![r] = "waiting"]
        /\ UNCHANGED <<ring, held, chan>>
    BY <1>5 DEF SendWaits
  <2>2. /\ WorkersSuffice'
        /\ task' \in [Tasks -> {"idle", "asleep", "queued", "running", "waiting"}]
    BY <1>1, <1>2, <2>1, MovesKeep
  <2>3. Placed'
    BY <1>1, <2>1, <2>2 DEF IInv, Placed
  <2>4. SleepsEmpty' /\ WokenFindsRoom' /\ WaitsOnlyWhenFull' /\ Counted'
    BY <1>1, <1>2, <2>1 DEF IInv, Placed
  <2> QED BY <2>2, <2>3, <2>4 DEF IInv
<1>6. CASE Sleep(r)
  <2>1. /\ ~held[r] /\ task' = [task EXCEPT ![r] = "asleep"]
        /\ UNCHANGED <<ring, held, chan>>
    BY <1>6 DEF Sleep
  <2>2. /\ WorkersSuffice'
        /\ task' \in [Tasks -> {"idle", "asleep", "queued", "running", "waiting"}]
    BY <1>1, <1>2, <2>1, MovesKeep
  <2>3. Placed'
    BY <1>1, <2>1, <2>2 DEF IInv, Placed
  <2>4. SleepsEmpty' /\ WokenFindsRoom' /\ WaitsOnlyWhenFull' /\ Counted'
    BY <1>1, <1>2, <2>1 DEF IInv, Placed
  <2> QED BY <2>2, <2>3, <2>4 DEF IInv
<1> QED BY <1>3, <1>4, <1>5, <1>6

LEMMA CallKeeps ==
    ASSUME IInv, NEW r \in Readers, TryRecv(r) \/ Answer(r)
    PROVE  IInv'
<1> USE DEF Counted, SleepsEmpty, WokenFindsRoom, WaitsOnlyWhenFull
<1>1. r \in Tasks /\ CallOf(r) \in Tasks
      /\ \A s \in Readers : s \in Tasks /\ CallOf(s) \in Tasks /\ CallOf(s) # r /\ CallOf(r) # s
  BY RuntimeAssumption DEF Tasks
<1>2. task[CallOf(r)] = "running" /\ UNCHANGED <<arrived, ring, held, requests>>
  BY DEF TryRecv, Answer
<1>3. CASE TryRecv(r)
  <2>1. /\ chan[r] > 0 /\ chan' = [chan EXCEPT ![r] = @ - 1]
        /\ \/ task[r] = "waiting" /\ Schedule(r)
           \/ task[r] # "waiting" /\ UNCHANGED task
    BY <1>3 DEF TryRecv
  <2>2. Counted'
    BY <1>2, <2>1, RuntimeAssumption DEF IInv
  <2>3. CASE task[r] = "waiting" /\ Schedule(r)
    <3>1. /\ WorkersSuffice' /\ task' = [task EXCEPT ![r] = "queued"]
          /\ task' \in [Tasks -> {"idle", "asleep", "queued", "running", "waiting"}]
      BY <1>1, <2>3, MovesKeep DEF Schedule
    <3>2. Placed'
      BY <1>1, <3>1 DEF IInv, Placed
    <3>3. chan'[r] < ChanCapacity
      BY <2>1, RuntimeAssumption DEF IInv
    <3>4. SleepsEmpty' /\ WokenFindsRoom' /\ WaitsOnlyWhenFull'
      BY <1>1, <1>2, <2>1, <3>1, <3>3 DEF IInv, Placed
    <3> QED BY <2>2, <3>1, <3>2, <3>4 DEF IInv
  <2>4. CASE task[r] # "waiting" /\ UNCHANGED task
    <3>1. Placed' /\ WorkersSuffice'
      BY <2>4 DEF IInv, Placed, WorkersSuffice, Running
    <3>2. SleepsEmpty' /\ WokenFindsRoom' /\ WaitsOnlyWhenFull'
      BY <1>2, <2>1, <2>4, RuntimeAssumption DEF IInv
    <3> QED BY <2>2, <3>1, <3>2 DEF IInv
  <2> QED BY <2>1, <2>3, <2>4
<1>4. CASE Answer(r)
  <2>1. task' = [task EXCEPT ![CallOf(r)] = "idle"] /\ UNCHANGED chan
    BY <1>4 DEF Answer
  <2>2. /\ WorkersSuffice'
        /\ task' \in [Tasks -> {"idle", "asleep", "queued", "running", "waiting"}]
    BY <1>1, <1>2, <2>1, MovesKeep
  <2>3. \A s \in Readers : task'[s] = task[s]
    BY <1>1, <2>1 DEF IInv, Placed
  <2>4. Placed'
    BY <1>1, <2>1, <2>2, <2>3 DEF IInv, Placed
  <2>5. SleepsEmpty' /\ WokenFindsRoom' /\ WaitsOnlyWhenFull' /\ Counted'
    BY <1>2, <2>1, <2>3 DEF IInv
  <2> QED BY <2>2, <2>4, <2>5 DEF IInv
<1> QED BY <1>3, <1>4

LEMMA NextKeeps == IInv /\ [Next]_vars => IInv'
<1> SUFFICES ASSUME IInv, [Next]_vars PROVE IInv'
  OBVIOUS
<1>1. CASE UNCHANGED vars
  BY <1>1 DEF vars, IInv, Placed, Counted, WorkersSuffice, SleepsEmpty,
              WokenFindsRoom, WaitsOnlyWhenFull, Running
<1>2. Sleepy \subseteq Readers
  BY DEF Sleepy
<1> QED BY <1>1, <1>2, DispatchKeeps, WorldKeeps, ReaderKeeps, CallKeeps DEF Next

(* Every state has its type, and the parts of IInv, however the runtime    *)
(* interleaves the readers and the calls.                                  *)
THEOREM RuntimeInvariant == Spec => []IInv
<1> QED BY InitHolds, NextKeeps, PTL DEF Spec

(* Every variable keeps its type, and no more tasks run than there are     *)
(* workers, in whatever order the runtime takes them.                      *)
THEOREM TypeCorrect == Spec => []TypeOK
<1>1. IInv => TypeOK
  <2> SUFFICES ASSUME IInv PROVE TypeOK
    OBVIOUS
  <2>2. ring \in [Readers -> 0 .. MaxRecords]
    BY RuntimeAssumption DEF IInv, Counted
  <2> QED BY <2>2 DEF IInv, Placed, Counted, WorkersSuffice, TypeOK
<1> QED BY <1>1, RuntimeInvariant, PTL

(* No wake-up is lost: a reader that waits for room in its channel holds a *)
(* record and finds the channel full, whichever calls drain it meanwhile.  *)
THEOREM NoLostWakeUp == Spec => []WaitsOnlyWhenFull
<1>1. IInv => WaitsOnlyWhenFull
  BY DEF IInv
<1> QED BY <1>1, RuntimeInvariant, PTL

(* Nor is one given in vain: between the wake-up and the reader's turn on  *)
(* a worker nobody takes the room, so that a send waits at most once.      *)
THEOREM NoIdleWakeUp == Spec => []WokenFindsRoom
<1>1. IInv => WokenFindsRoom
  BY DEF IInv
<1> QED BY <1>1, RuntimeInvariant, PTL

-----------------------------------------------------------------------------
(* How much reader r, and the call that drains its channel, have still to  *)
(* do: a record is read, then sent, then received.                         *)
ToRead(r) == MaxRecords - arrived + ring[r]

InHand(r) == IF held[r] THEN 1 ELSE 0

ReaderLeft(r) == 2 * ToRead(r) + InHand(r)

CallLeft(r) == ToRead(r) + InHand(r) + chan[r]

(* Each step of a task on a worker uses up some of it, or takes the task   *)
(* off its worker, and no step of another adds to it.                      *)
StepsUseUp ==
    [][\A r \in Readers :
          /\ ReaderLeft(r)' =< ReaderLeft(r) /\ CallLeft(r)' =< CallLeft(r)
          /\ Reader(r) => task'[r] # "running" \/ ReaderLeft(r)' < ReaderLeft(r)
          /\ Call(r) => task'[CallOf(r)] # "running" \/ CallLeft(r)' < CallLeft(r)]_vars

(* The safety part of what answers every call and lets every reader go on: *)
(* the tasks have less left to do with each of their steps, so that one    *)
(* that keeps its worker has done it all after finitely many.              *)
THEOREM TasksFinish == Spec => StepsUseUp
<1> DEFINE Used(r) ==
      /\ ReaderLeft(r)' =< ReaderLeft(r) /\ CallLeft(r)' =< CallLeft(r)
      /\ Reader(r) => task'[r] # "running" \/ ReaderLeft(r)' < ReaderLeft(r)
      /\ Call(r) => task'[CallOf(r)] # "running" \/ CallLeft(r)' < CallLeft(r)
<1>1. IInv /\ [Next]_vars => [\A r \in Readers : Used(r)]_vars
  <2> SUFFICES ASSUME IInv, Next, NEW r \in Readers PROVE Used(r)
    OBVIOUS
  <2> USE RuntimeAssumption DEF ToRead, InHand, ReaderLeft, CallLeft
  <2>1. /\ arrived \in Nat /\ MaxRecords \in Nat /\ arrived =< MaxRecords
        /\ ring \in [Readers -> Nat] /\ held \in [Readers -> BOOLEAN]
        /\ chan \in [Readers -> Nat]
        /\ task \in [Tasks -> {"idle", "asleep", "queued", "running", "waiting"}]
    BY DEF IInv, Counted, Placed
  <2>2. r \in Tasks /\ CallOf(r) \in Tasks
    BY DEF Tasks
  <2> DEFINE NotMore == ReaderLeft(r)' =< ReaderLeft(r) /\ CallLeft(r)' =< CallLeft(r)
  <2>3. NotMore
    <3>1. CASE UNCHANGED <<arrived, ring, held, chan>>
      BY <2>1, <3>1
    <3>2. ASSUME NEW s \in Readers, Arrive(s) PROVE NotMore
      BY <2>1, <3>2 DEF Arrive
    <3>3. ASSUME NEW s \in Readers, Read(s) PROVE NotMore
      BY <2>1, <3>3 DEF Read
    <3>4. ASSUME NEW s \in Readers, Send(s) PROVE NotMore
      BY <2>1, <3>4 DEF Send
    <3>5. ASSUME NEW s \in Readers, TryRecv(s) PROVE NotMore
      BY <2>1, <3>5 DEF TryRecv
    <3> QED BY <3>1, <3>2, <3>3, <3>4, <3>5
            DEF Next, Dispatch, Timer, Request, SendWaits, Sleep, Answer, Sleepy
  <2>4. Reader(r) => task'[r] # "running" \/ ReaderLeft(r)' < ReaderLeft(r)
    <3>1. CASE Read(r)
      BY <2>1, <3>1 DEF Read
    <3>2. CASE Send(r)
      BY <2>1, <2>2, <3>2 DEF Send, Schedule
    <3>3. CASE SendWaits(r) \/ Sleep(r)
      BY <2>1, <2>2, <3>3 DEF SendWaits, Sleep
    <3> QED BY <3>1, <3>2, <3>3 DEF Reader
  <2>5. Call(r) => task'[CallOf(r)] # "running" \/ CallLeft(r)' < CallLeft(r)
    <3>1. CASE TryRecv(r)
      BY <2>1, <3>1 DEF TryRecv
    <3>2. CASE Answer(r)
      BY <2>1, <2>2, <3>2 DEF Answer
    <3> QED BY <3>1, <3>2 DEF Call
  <2> QED BY <2>3, <2>4, <2>5
<1> QED BY <1>1, RuntimeInvariant, PTL DEF Spec, StepsUseUp

-----------------------------------------------------------------------------
(* All workers are taken by readers that never sleep and have nothing to   *)
(* read or to send.                                                        *)
Starved ==
    /\ Cardinality(Running) = Workers
    /\ Running \subseteq Spinning
    /\ \A r \in Running : ~held[r] /\ ring[r] = 0

(* While no record arrives for one of the readers on the workers, it stays *)
(* so, and every other task stays off the workers.                         *)
StarvedStays ==
    [][Starved /\ (\A r \in Running : ring'[r] = 0)
          => Starved' /\ Running' = Running]_vars

(* One worker more than the readers that never sleep is enough: the        *)
(* workers are never all taken by such readers, so that a queued task      *)
(* waits at most for a task that gives its worker back.                    *)
THEOREM WorkersEnough ==
    ASSUME Cardinality(Spinning) < Workers
    PROVE  Spec => [](/\ Running \subseteq Spinning => Cardinality(Running) < Workers
                      /\ ~Starved)
<1>1. Running \subseteq Spinning => Cardinality(Running) < Workers
  <2> SUFFICES ASSUME Running \subseteq Spinning PROVE Cardinality(Running) < Workers
    OBVIOUS
  <2>1. /\ Cardinality(Running) =< Cardinality(Spinning)
        /\ Cardinality(Running) \in Nat /\ Cardinality(Spinning) \in Nat
    BY RunningFinite, FS_Subset, FS_CardinalityType
  <2> QED BY <2>1, RuntimeAssumption
<1>2. Cardinality(Running) \in Nat
  BY RunningFinite, FS_CardinalityType
<1>3. Cardinality(Running) < Workers => Cardinality(Running) # Workers
  BY <1>2, RuntimeAssumption
<1>4. ~Starved
  BY <1>1, <1>3 DEF Starved
<1> QED BY <1>1, <1>4, PTL

(* And one is needed: once the readers that never sleep hold all workers   *)
(* and have nothing to do, no call is answered until a record arrives for  *)
(* one of them - neither a call, a timer nor a record for another reader   *)
(* makes a difference.                                                     *)
THEOREM SpinnersStarve == Spec => StarvedStays
<1> DEFINE Stays ==
      Starved /\ (\A r \in Running : ring'[r] = 0) => Starved' /\ Running' = Running
<1>1. IInv /\ [Next]_vars => [Stays]_vars
  <2> SUFFICES ASSUME IInv, Next, Starved, \A r \in Running : ring'[r] = 0
               PROVE  Starved' /\ Running' = Running
    OBVIOUS
  <2>1. /\ task \in [Tasks -> {"idle", "asleep", "queued", "running", "waiting"}]
        /\ \A r \in Running : task[r] = "running" /\ r \in Readers /\ r \notin Sleepy
        /\ \A r \in Readers : r \in Tasks /\ CallOf(r) \in Tasks /\ CallOf(r) \notin Readers
        /\ \A t \in Tasks : task[t] = "running" <=> t \in Running
        /\ Sleepy \subseteq Readers
    BY RuntimeAssumption DEF IInv, Placed, Starved, Running, Sleepy, Tasks
  <2> DEFINE Same == Running' = Running /\ \A r \in Running : held'[r] = held[r]
  <2>2. Same
    <3>1. ASSUME NEW t \in Tasks, Dispatch(t) PROVE FALSE
      <4>1. Cardinality(Running) \in Nat /\ Cardinality(Running) = Workers
        BY RunningFinite, FS_CardinalityType DEF Starved
      <4> QED BY <3>1, <4>1 DEF Dispatch
    <3>2. ASSUME NEW t \in Tasks, task[t] # "running", Schedule(t) PROVE Running' = Running
      BY <2>1, <3>2 DEF Schedule, Running
    <3>3. ASSUME NEW r \in Sleepy, Timer(r) PROVE Same
      BY <2>1, <3>2, <3>3 DEF Timer
    <3>4. ASSUME NEW r \in Readers, Arrive(r) PROVE Same
      BY <3>4 DEF Arrive, Running
    <3>5. ASSUME NEW r \in Readers, Request(r) PROVE Same
      BY <2>1, <3>2, <3>5 DEF Request
    <3>6. ASSUME NEW r \in Readers, Read(r) \/ Send(r) \/ SendWaits(r) PROVE FALSE
      <4>1. r \in Running /\ (held[r] \/ ring[r] > 0)
        BY <2>1, <3>6 DEF Read, Send, SendWaits
      <4> QED BY <4>1 DEF Starved
    <3>7. ASSUME NEW r \in Sleepy, Sleep(r) PROVE FALSE
      BY <2>1, <3>7 DEF Sleep
    <3>8. ASSUME NEW r \in Readers, TryRecv(r) \/ Answer(r) PROVE FALSE
      BY <2>1, <3>8 DEF TryRecv, Answer
    <3> QED BY <3>1, <3>3, <3>4, <3>5, <3>6, <3>7, <3>8 DEF Next
  <2>3. Starved'
    BY <2>2 DEF Starved
  <2> QED BY <2>2, <2>3
<1> QED BY <1>1, RuntimeInvariant, PTL DEF Spec, StarvedStays
=============================================================================
