---------------------------- MODULE EventPipeline ----------------------------
(***************************************************************************)
(* The path of one kind of record from an eBPF program to the user: the    *)
(* perf event array, the loader's consumer task (read_perf_buffer of       *)
(* core/common, run by identity and metrics), the agent's reader task, its *)
(* bounded mpsc channel and the gRPC calls that drain it (core/api).       *)
(* The loader and the agent are separate processes: each starts, opens     *)
(* the map entry by entry, polls, and may stop or be restarted, in any     *)
(* order with the other.  A loader that restarts finds its map again when  *)
(* the map is pinned by name, as those of identity are; for the maps of    *)
(* metrics, which are made anew, a behaviour is one life of the loader.    *)
(***************************************************************************)
EXTENDS PerfEventArray

CONSTANTS
    Loader, Agent,   \* the two readers of the map
    Calls,           \* the gRPC calls that may be in progress at once
    ChanCapacity,    \* capacity of the mpsc channel
    MaxEmitted,      \* bound: records written by the eBPF program
    MaxStarts        \* bound: MaxStarts[r], times process r is started

ASSUME PipelineAssumption ==
    /\ Readers = {Loader, Agent}
    /\ Loader # Agent
    /\ ChanCapacity \in Nat \ {0}
    /\ MaxEmitted \in Nat
    /\ MaxStarts \in [Readers -> Nat]

VARIABLES
    emitted,    \* records written so far: record number n is the n-th
    starts,     \* starts[r]: times r was started
    phase,      \* phase[r]: "down", "opening" or "polling"
    cursor,     \* cursor[r]: the CPU r opens or polls next
    batch,      \* batch[r]: records read from a ring and not handled yet
    chan,       \* the agent's mpsc channel
    call,       \* call[q]: "idle" or "draining"
    reply,      \* reply[q]: the records call q has aggregated
    observed,   \* history: numbers of the records the loader handled
    popped,     \* history: the records all the calls received, in order
    taken,      \* history: numbers of the sendable records this agent read
    owed        \* history: numbers of the records queued when q was made

readerVars == <<starts, phase, cursor, batch>>
callVars   == <<call, reply, popped, owed>>
vars == <<perfVars, emitted, readerVars, chan, callVars, observed, taken>>

(* A record carries the CPU that wrote it and whether the agent's reader  *)
(* forwards it: it drops a connection of an unknown protocol and a socket *)
(* without drops.                                                         *)
Record == [id : Nat, cpu : Cpus, sendable : BOOLEAN]

Ids(s) == {s[i].id : i \in DOMAIN s}

SendableIds(s) == {s[i].id : i \in {j \in DOMAIN s : s[j].sendable}}

Init ==
    /\ PerfInit
    /\ emitted = 0
    /\ starts = [r \in Readers |-> 0]
    /\ phase = [r \in Readers |-> "down"]
    /\ cursor = [r \in Readers |-> 0]
    /\ batch = [r \in Readers |-> <<>>]
    /\ chan = <<>>
    /\ call = [q \in Calls |-> "idle"]
    /\ reply = [q \in Calls |-> <<>>]
    /\ observed = {}
    /\ popped = <<>>
    /\ taken = {}
    /\ owed = [q \in Calls |-> {}]

-----------------------------------------------------------------------------
(* Kernel *)

(* The loader attaches the eBPF program after it has pinned the map and     *)
(* before it opens the entries.  A TC filter outlives a loader that is      *)
(* killed, on kernels without tcx links; a kprobe does not: records may,    *)
(* and need not, be written while the loader is down.                       *)
Emit(c, sendable) ==
    /\ starts[Loader] > 0
    /\ emitted < MaxEmitted
    /\ emitted' = emitted + 1
    /\ Output(c, [id |-> emitted + 1, cpu |-> c, sendable |-> sendable])
    /\ UNCHANGED <<readerVars, chan, callVars, observed, taken>>

-----------------------------------------------------------------------------
(* Both readers *)

Start(r) ==
    /\ phase[r] = "down"
    /\ starts[r] < MaxStarts[r]
    /\ starts' = [starts EXCEPT ![r] = @ + 1]
    /\ phase' = [phase EXCEPT ![r] = "opening"]
    /\ cursor' = [cursor EXCEPT ![r] = 0]
    /\ UNCHANGED <<perfVars, emitted, batch, chan, callVars, observed, taken>>

(* Fault: a loop that ends before the last of the CPUs. *)
OpenAllButLast(r) ==
    /\ phase[r] = "opening"
    /\ starts[Loader] > 0
    /\ Open(r, cursor[r])
    /\ \/ /\ cursor[r] + 2 < NumCpus
          /\ cursor' = [cursor EXCEPT ![r] = @ + 1]
          /\ UNCHANGED phase
       \/ /\ cursor[r] + 2 >= NumCpus
          /\ cursor' = [cursor EXCEPT ![r] = 0]
          /\ phase' = [phase EXCEPT ![r] = "polling"]
    /\ UNCHANGED <<emitted, starts, batch, chan, callVars, observed, taken>>

(* One turn of the loop over the online CPUs; after the last one the task *)
(* that polls the rings is spawned.  The agent finds no pinned map before *)
(* the loader's first start, and panics.                                  *)
OpenNext(r) ==
    /\ phase[r] = "opening"
    /\ starts[Loader] > 0
    /\ Open(r, cursor[r])
    /\ \/ /\ cursor[r] + 1 < NumCpus
          /\ cursor' = [cursor EXCEPT ![r] = @ + 1]
          /\ UNCHANGED phase
       \/ /\ cursor[r] + 1 = NumCpus
          /\ cursor' = [cursor EXCEPT ![r] = 0]
          /\ phase' = [phase EXCEPT ![r] = "polling"]
    /\ UNCHANGED <<emitted, starts, batch, chan, callVars, observed, taken>>

(* read_events on the next ring; the sleep at the end of a pass over the  *)
(* rings takes time and changes nothing.                                  *)
Poll(r) ==
    /\ phase[r] = "polling"
    /\ batch[r] = <<>>
    /\ ReadEvents(r, cursor[r])
    /\ batch' = [batch EXCEPT ![r] = Taken(r, cursor[r])]
    /\ cursor' = [cursor EXCEPT ![r] = (@ + 1) % NumCpus]
    /\ \/ /\ r = Agent
          /\ taken' = taken \cup SendableIds(Taken(r, cursor[r]))
       \/ /\ r # Agent
          /\ UNCHANGED taken
    /\ UNCHANGED <<emitted, starts, phase, chan, callVars, observed>>

(* The process exits or is killed; what it held in memory is gone, and so *)
(* are, for the agent, the channel and the calls in progress.             *)
Stop(r) ==
    /\ phase[r] # "down"
    /\ Close(r)
    /\ phase' = [phase EXCEPT ![r] = "down"]
    /\ cursor' = [cursor EXCEPT ![r] = 0]
    /\ batch' = [batch EXCEPT ![r] = <<>>]
    /\ \/ /\ r = Agent
          /\ chan' = <<>>
          /\ call' = [q \in Calls |-> "idle"]
          /\ reply' = [q \in Calls |-> <<>>]
          /\ owed' = [q \in Calls |-> {}]
          /\ taken' = {}
          /\ UNCHANGED popped
       \/ /\ r # Agent
          /\ UNCHANGED <<chan, callVars, taken>>
    /\ UNCHANGED <<emitted, starts, observed>>

-----------------------------------------------------------------------------
(* The loader's consumer: log the record, or enrich it and record it with *)
(* the OpenTelemetry instruments.                                         *)
Consume ==
    /\ batch[Loader] # <<>>
    /\ observed' = observed \cup {Head(batch[Loader]).id}
    /\ batch' = [batch EXCEPT ![Loader] = Tail(@)]
    /\ UNCHANGED <<perfVars, emitted, starts, phase, cursor, chan, callVars, taken>>

-----------------------------------------------------------------------------
(* The agent's reader task *)

Skip ==
    /\ batch[Agent] # <<>>
    /\ ~Head(batch[Agent]).sendable
    /\ batch' = [batch EXCEPT ![Agent] = Tail(@)]
    /\ UNCHANGED <<perfVars, emitted, starts, phase, cursor, chan, callVars,
                   observed, taken>>

(* Faults: an unbounded channel, and try_send instead of send. *)
SendUnbounded ==
    /\ batch[Agent] # <<>>
    /\ Head(batch[Agent]).sendable
    /\ chan' = Append(chan, Head(batch[Agent]))
    /\ batch' = [batch EXCEPT ![Agent] = Tail(@)]
    /\ UNCHANGED <<perfVars, emitted, starts, phase, cursor, callVars, observed, taken>>

SendOrDrop ==
    /\ batch[Agent] # <<>>
    /\ Head(batch[Agent]).sendable
    /\ IF Len(chan) < ChanCapacity THEN chan' = Append(chan, Head(batch[Agent]))
                                   ELSE UNCHANGED chan
    /\ batch' = [batch EXCEPT ![Agent] = Tail(@)]
    /\ UNCHANGED <<perfVars, emitted, starts, phase, cursor, callVars, observed, taken>>

(* Fault: a reader that forwards every record. *)
SendAny ==
    /\ batch[Agent] # <<>>
    /\ Len(chan) < ChanCapacity
    /\ chan' = Append(chan, Head(batch[Agent]))
    /\ batch' = [batch EXCEPT ![Agent] = Tail(@)]
    /\ UNCHANGED <<perfVars, emitted, starts, phase, cursor, callVars, observed, taken>>

(* tx.send(..).await waits while the channel is full. *)
Send ==
    /\ batch[Agent] # <<>>
    /\ Head(batch[Agent]).sendable
    /\ Len(chan) < ChanCapacity
    /\ chan' = Append(chan, Head(batch[Agent]))
    /\ batch' = [batch EXCEPT ![Agent] = Tail(@)]
    /\ UNCHANGED <<perfVars, emitted, starts, phase, cursor, callVars, observed, taken>>

-----------------------------------------------------------------------------
(* The gRPC calls.  The loop takes the receiver's lock anew for every     *)
(* try_recv, so concurrent calls interleave record by record.             *)

Request(q) ==
    /\ phase[Agent] = "polling"
    /\ call[q] = "idle"
    /\ call' = [call EXCEPT ![q] = "draining"]
    /\ reply' = [reply EXCEPT ![q] = <<>>]
    /\ owed' = [owed EXCEPT ![q] = Ids(chan)]
    /\ UNCHANGED <<perfVars, emitted, readerVars, chan, popped, observed, taken>>

(* Faults: a call that takes the newest record, and one that leaves what it *)
(* read in the channel.                                                     *)
TryRecvNewest(q) ==
    /\ call[q] = "draining"
    /\ chan # <<>>
    /\ reply' = [reply EXCEPT ![q] = Append(@, chan[Len(chan)])]
    /\ popped' = Append(popped, chan[Len(chan)])
    /\ chan' = SubSeq(chan, 1, Len(chan) - 1)
    /\ UNCHANGED <<perfVars, emitted, readerVars, call, owed, observed, taken>>

Peek(q) ==
    /\ call[q] = "draining"
    /\ chan # <<>>
    /\ reply' = [reply EXCEPT ![q] = Append(@, Head(chan))]
    /\ popped' = Append(popped, Head(chan))
    /\ UNCHANGED <<chan, perfVars, emitted, readerVars, call, owed, observed, taken>>

TryRecv(q) ==
    /\ call[q] = "draining"
    /\ chan # <<>>
    /\ reply' = [reply EXCEPT ![q] = Append(@, Head(chan))]
    /\ popped' = Append(popped, Head(chan))
    /\ chan' = Tail(chan)
    /\ UNCHANGED <<perfVars, emitted, readerVars, call, owed, observed, taken>>

(* Fault: a call that returns after the first batch. *)
ReturnEarly(q) ==
    /\ call[q] = "draining"
    /\ call' = [call EXCEPT ![q] = "idle"]
    /\ UNCHANGED <<perfVars, emitted, readerVars, chan, reply, popped, owed,
                   observed, taken>>

Return(q) ==
    /\ call[q] = "draining"
    /\ chan = <<>>
    /\ call' = [call EXCEPT ![q] = "idle"]
    /\ UNCHANGED <<perfVars, emitted, readerVars, chan, reply, popped, owed,
                   observed, taken>>

-----------------------------------------------------------------------------
Next ==
    \/ \E c \in Cpus, sendable \in BOOLEAN : Emit(c, sendable)
    \/ \E r \in Readers : Start(r)
    \/ \E r \in Readers : OpenNext(r)
    \/ \E r \in Readers : Poll(r)
    \/ \E r \in Readers : Stop(r)
    \/ Consume
    \/ Skip
    \/ Send
    \/ \E q \in Calls : Request(q)
    \/ \E q \in Calls : TryRecv(q)
    \/ \E q \in Calls : Return(q)

Spec == Init /\ [][Next]_vars

-----------------------------------------------------------------------------
(* Type invariant. *)
TypeOK ==
    /\ slot \in [Cpus -> Readers \cup {NoReader}]
    /\ ring \in [Readers -> [Cpus -> Seq(Record)]]
    /\ emitted \in Nat
    /\ starts \in [Readers -> Nat]
    /\ phase \in [Readers -> {"down", "opening", "polling"}]
    /\ cursor \in [Readers -> Cpus]
    /\ batch \in [Readers -> Seq(Record)]
    /\ chan \in Seq(Record)
    /\ Len(chan) =< ChanCapacity
    /\ call \in [Calls -> {"idle", "draining"}]
    /\ reply \in [Calls -> Seq(Record)]
    /\ observed \subseteq Nat
    /\ popped \in Seq(Record)
    /\ taken \subseteq Nat
    /\ owed \in [Calls -> SUBSET Nat]

(* The records of one CPU are in the order in which it wrote them, without *)
(* a repetition.                                                           *)
Sorted(s) ==
    \A i, j \in DOMAIN s : i < j /\ s[i].cpu = s[j].cpu => s[i].id < s[j].id

(* Across restarts of either process and concurrent calls, the users of    *)
(* the agent receive the records of a CPU in the order the eBPF program    *)
(* wrote them, and none of them twice.                                     *)
DeliveredInOrder == Sorted(popped)

Promise == INSTANCE Delivery WITH written <- emitted, received <- popped

(* The whole path, with both processes, the batches, the channel and the   *)
(* concurrent calls, does what Delivery promises: whatever happens, the    *)
(* calls receive nothing, or one more record that was written, is to be    *)
(* forwarded, and is newer than all they have of its CPU.                  *)
ImplementsDelivery == Promise!Spec

(* Each process opens the map CPU by CPU and takes the entries it finds     *)
(* there: once both have gone through, or one of them alone, no CPU writes  *)
(* its records to nobody, in whatever order their opens, exits and restarts *)
(* came.  Who reads a CPU is the one that opened it last: see the README.   *)
EveryCpuIsRead ==
    \A r \in Readers :
        /\ phase[r] = "polling"
        /\ \A o \in Readers \ {r} : starts[o] = 0 \/ phase[o] = "polling"
        => \A c \in Cpus : slot[c] \in Readers

(* A full channel delays, it loses nothing: what this agent read from a    *)
(* ring and forwards is still in its hands or was received by a call.      *)
NothingLostInAgent ==
    taken \subseteq
        Ids(popped) \cup Ids(chan) \cup Ids(batch[Agent])

(* Two calls that drain the channel at once split it: no record is in the  *)
(* answers of both.                                                        *)
RepliesDisjoint ==
    \A p, q \in Calls : p # q => Ids(reply[p]) \cap Ids(reply[q]) = {}

(* A call that returns leaves nothing behind of what was queued when it    *)
(* was made: it, or a concurrent call, has received it.                    *)
DrainedAtReturn ==
    [][\A q \in Calls :
          call[q] = "draining" /\ call'[q] = "idle" /\ phase'[Agent] # "down"
              => owed[q] \subseteq Ids(popped)]_vars
=============================================================================
