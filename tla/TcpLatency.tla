----------------------------- MODULE TcpLatency -----------------------------
(***************************************************************************)
(* The latency tracer of metrics_tracer: kprobes on tcp_v4_connect and     *)
(* tcp_v6_connect note when a socket starts to connect, in a hash map      *)
(* keyed by the socket's address; a kprobe on tcp_rcv_state_process looks  *)
(* the socket up, reports the time that went by and removes the entry.     *)
(*                                                                         *)
(* The kernel frees sockets without any probe running and hands their      *)
(* addresses out again: an entry may outlive the connection it is about.   *)
(***************************************************************************)
EXTENDS Naturals, FiniteSets, Functions

CONSTANTS
    Socks,        \* addresses of sockets
    Cpus,         \* CPUs the probes run on; 0 is one of them
    MaxEntries,   \* capacity of the map time_stamp_start (4096)
    MaxConnects,  \* bound: calls of tcp_v4_connect or tcp_v6_connect
    MaxTime       \* bound: the clock

ASSUME LatencyAssumption ==
    /\ 0 \in Cpus
    /\ MaxEntries \in Nat \ {0}
    /\ MaxConnects \in Nat
    /\ MaxTime \in Nat

VARIABLES
    now,       \* bpf_ktime_get_ns
    state,     \* state[s]: "closed", "syn_sent" or "established"
    connects,  \* connects so far: connect number n is the n-th
    began,     \* history: began[s]: number and time of the latest connect of s
    start,     \* the map: the socket's address to number and time of a connect
    events,    \* history: the measurements written to the perf event array
    lost       \* history: the measurements the kernel refused to write

latencyVars == <<now, state, connects, began, start, events, lost>>

(* What on_connect stores: the connect's number stands for the thread group, *)
(* command and cgroup of the task that made it.                              *)
StartInfo == [connect : Nat, ts : Nat]

(* What on_rcv_state_process writes (sock, connect, delta), and, as history, *)
(* the connect the packet that triggered it belongs to, and its age.         *)
Event == [sock : Socks, connect : Nat, delta : Nat, ofConnect : Nat, age : Nat]

LatencyInit ==
    /\ now = 0
    /\ state = [s \in Socks |-> "closed"]
    /\ connects = 0
    /\ began = [s \in Socks |-> [connect |-> 0, ts |-> 0]]
    /\ start = <<>>
    /\ events = {}
    /\ lost = {}

(* Fault: BPF_NOEXIST, which leaves an existing entry alone. *)
InsertIfAbsent(s, info) ==
    IF s \in DOMAIN start \/ Cardinality(DOMAIN start) >= MaxEntries
        THEN UNCHANGED start
        ELSE start' = [t \in DOMAIN start \cup {s} |-> IF t = s THEN info ELSE start[t]]

(* BPF_ANY: an existing entry is replaced, a new one needs room. *)
Insert(s, info) ==
    \/ /\ s \in DOMAIN start \/ Cardinality(DOMAIN start) < MaxEntries
       /\ start' = [t \in DOMAIN start \cup {s} |-> IF t = s THEN info ELSE start[t]]
    \/ /\ s \notin DOMAIN start /\ Cardinality(DOMAIN start) >= MaxEntries
       /\ UNCHANGED start

(* Fault: an entry that stays after it was measured. *)
Keep(s) == s \in Socks /\ UNCHANGED start

Remove(s) == start' = Restrict(start, DOMAIN start \ {s})

-----------------------------------------------------------------------------
Tick ==
    /\ now < MaxTime
    /\ now' = now + 1
    /\ UNCHANGED <<state, connects, began, start, events, lost>>

(* The probe runs first; the connect itself sends a SYN or fails at once. *)
OnConnect(s) ==
    /\ state[s] = "closed"
    /\ connects < MaxConnects
    /\ connects' = connects + 1
    /\ began' = [began EXCEPT ![s] = [connect |-> connects + 1, ts |-> now]]
    /\ Insert(s, [connect |-> connects + 1, ts |-> now])
    /\ \E outcome \in {"syn_sent", "closed"} : state' = [state EXCEPT ![s] = outcome]
    /\ UNCHANGED <<now, events, lost>>

(* The timer gives up, or the owner closes the socket: no probe runs. *)
Abandon(s) ==
    /\ state[s] # "closed"
    /\ state' = [state EXCEPT ![s] = "closed"]
    /\ UNCHANGED <<now, connects, began, start, events, lost>>

(* bpf_perf_event_output is called with flags 0, which names entry 0 of the *)
(* array; the kernel refuses to write the ring of another CPU.              *)
Output(c, ev) ==
    \/ /\ c = 0
       /\ events' = events \cup {ev}
       /\ UNCHANGED lost
    \/ /\ c # 0
       /\ lost' = lost \cup {ev}
       /\ UNCHANGED events

(* Fault: the operands of the subtraction swapped. *)
SwappedMeasurement(s) ==
    [sock |-> s, connect |-> start[s].connect, delta |-> start[s].ts - now,
     ofConnect |-> began[s].connect, age |-> began[s].ts - now]

Measurement(s) ==
    [sock |-> s, connect |-> start[s].connect, delta |-> now - start[s].ts,
     ofConnect |-> began[s].connect, age |-> now - began[s].ts]

(* No entry, or a read of the socket fails: an error, nothing changes. *)
NotMeasured(s) == UNCHANGED <<start, events, lost>>

TooShort(s) ==
    /\ s \in DOMAIN start
    /\ now - start[s].ts =< 0
    /\ Remove(s)
    /\ UNCHANGED <<events, lost>>

Measured(s, c) ==
    /\ s \in DOMAIN start
    /\ now - start[s].ts > 0
    /\ Output(c, Measurement(s))
    /\ Remove(s)

(* The probe on CPU c, then what the packet does to a socket in SYN_SENT. *)
OnRcvStateProcess(s, c) ==
    /\ state[s] = "syn_sent"
    /\ NotMeasured(s) \/ TooShort(s) \/ Measured(s, c)
    /\ \E next \in {"syn_sent", "established", "closed"} :
          state' = [state EXCEPT ![s] = next]
    /\ UNCHANGED <<now, connects, began>>

LatencyNext ==
    \/ Tick
    \/ \E s \in Socks : OnConnect(s)
    \/ \E s \in Socks : Abandon(s)
    \/ \E s \in Socks, c \in Cpus : OnRcvStateProcess(s, c)

LatencySpec == LatencyInit /\ [][LatencyNext]_latencyVars

-----------------------------------------------------------------------------
(* Type invariant. *)
LatencyTypeOK ==
    /\ now \in Nat
    /\ state \in [Socks -> {"closed", "syn_sent", "established"}]
    /\ connects \in Nat
    /\ began \in [Socks -> StartInfo]
    /\ DOMAIN start \subseteq Socks
    /\ \A s \in DOMAIN start : start[s] \in StartInfo
    /\ events \subseteq Event
    /\ lost \subseteq Event

(* An entry that outlives its connection is never taken for the start of   *)
(* the next one on the same address: what is measured is the age of the    *)
(* connect the packet belongs to, and it names the task that made it.      *)
MeasuresOwnConnect ==
    \A ev \in events \cup lost : ev.connect = ev.ofConnect /\ ev.delta = ev.age

(* However many packets a socket receives while it connects, and whether or *)
(* not its entry leaked, a connect is measured at most once.                *)
MeasuredOnce ==
    \A e1, e2 \in events \cup lost : e1.ofConnect = e2.ofConnect => e1 = e2
=============================================================================
