--------------------------- MODULE PerfEventArray ---------------------------
(***************************************************************************)
(* One BPF_MAP_TYPE_PERF_EVENT_ARRAY of CortexBrain (events_map,           *)
(* veth_identity_map, net_metrics or time_stamp_events).  An eBPF program  *)
(* running on CPU c writes its record to the ring whose descriptor sits in *)
(* entry c of the map.  Two processes open the same pinned map: the loader *)
(* that created it (identity or metrics) and the agent.  Opening an entry  *)
(* stores the opener's ring in it, over the ring of whoever opened it      *)
(* before, and the kernel clears the entries of a process that goes away.  *)
(*                                                                         *)
(* The map itself lives in the kernel: the operators below are modelled    *)
(* from how core/common (fill_buffers), core/src/components/identity       *)
(* (event_listener) and the eBPF programs use it.                          *)
(***************************************************************************)
EXTENDS Naturals, Sequences

CONSTANTS
    NumCpus,       \* number of online CPUs
    Readers,       \* the processes that open the map
    NoReader,      \* an entry of the map that holds no descriptor
    RingCapacity   \* records one ring can hold (two pages by default)

ASSUME PerfAssumption ==
    /\ NumCpus \in Nat \ {0}
    /\ RingCapacity \in Nat \ {0}
    /\ NoReader \notin Readers

VARIABLES
    slot,   \* slot[c]: the reader whose ring the kernel writes on CPU c
    ring    \* ring[r][c]: the records that wait in reader r's ring of CPU c

perfVars == <<slot, ring>>

Cpus == 0 .. NumCpus - 1

NoRecords == [c \in Cpus |-> <<>>]

PerfInit ==
    /\ slot = [c \in Cpus |-> NoReader]
    /\ ring = [r \in Readers |-> NoRecords]

-----------------------------------------------------------------------------
(* PerfEventArray::open(c): a fresh ring of r replaces what entry c held. *)
Open(r, c) ==
    /\ slot' = [slot EXCEPT ![c] = r]
    /\ ring' = [ring EXCEPT ![r][c] = <<>>]

(* The process r is gone: its rings are unmapped, and the kernel clears *)
(* the entries that still point at them, and only those.                *)
Close(r) ==
    /\ slot' = [c \in Cpus |-> IF slot[c] = r THEN NoReader ELSE slot[c]]
    /\ ring' = [ring EXCEPT ![r] = NoRecords]

(* A record written on CPU c lands in a ring only when entry c holds one *)
(* that has room; otherwise bpf_perf_event_output drops it.              *)
Writable(c) ==
    /\ slot[c] # NoReader
    /\ Len(ring[slot[c]][c]) < RingCapacity

Output(c, record) ==
    /\ \/ /\ Writable(c)
          /\ ring' = [ring EXCEPT ![slot[c]][c] = Append(@, record)]
       \/ /\ ~Writable(c)
          /\ UNCHANGED ring
    /\ UNCHANGED slot

(* PerfEventArrayBuffer::read_events fills at most one record per scratch *)
(* buffer, and BufferSize::set_buffer allocates one scratch buffer: it    *)
(* takes len() of the iterator over the Result of online_cpus(), not of   *)
(* the list of CPUs in it.                                                *)
Taken(r, c) == IF ring[r][c] = <<>> THEN <<>> ELSE <<Head(ring[r][c])>>

Left(r, c) == IF ring[r][c] = <<>> THEN <<>> ELSE Tail(ring[r][c])

ReadEvents(r, c) ==
    /\ ring' = [ring EXCEPT ![r][c] = Left(r, c)]
    /\ UNCHANGED slot
=============================================================================
