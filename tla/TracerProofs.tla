---------------------------- MODULE TracerProofs ----------------------------
(***************************************************************************)
(* Theorems of the tracers: of the latency tracer (TcpLatency), for any    *)
(* sockets, CPUs, map size and bounds, of the idle state tracer (CpuIdle), *)
(* for any CPUs and states, and of which interfaces identity watches       *)
(* (VethTracking), for any interfaces, any capacity of the map and any     *)
(* number of restarts.                                                     *)
(***************************************************************************)
EXTENDS TcpLatency, CpuIdle, VethTracking, FiniteSetTheorems, TLAPS

(***************************************************************************)
(* The latency tracer.  An entry is never older than the socket's latest   *)
(* connect (EntriesAreLatest), because a connect overwrites the entry a    *)
(* lost one left behind, and finds no entry when the map has no room for   *)
(* its own.  That no connect is measured twice needs in addition that the  *)
(* entries and the measurements are of different connects (Fresh).         *)
(***************************************************************************)
EntriesAreLatest == \A s \in DOMAIN start : start[s] = began[s]

Measurements == events \cup lost

Fresh ==
    /\ \A s \in DOMAIN start : start[s].connect =< connects
    /\ \A s, t \in DOMAIN start : start[s].connect = start[t].connect => s = t
    /\ \A ev \in Measurements : ev.ofConnect =< connects
    /\ \A s \in DOMAIN start, ev \in Measurements : ev.ofConnect # start[s].connect

LatencyInv == LatencyTypeOK /\ EntriesAreLatest /\ MeasuresOwnConnect

-----------------------------------------------------------------------------
LEMMA InsertEffect ==
    ASSUME NEW s, NEW info, Insert(s, info)
    PROVE  /\ DOMAIN start' \subseteq DOMAIN start \cup {s}
           /\ \A t \in DOMAIN start' :
                 \/ t = s /\ start'[t] = info
                 \/ t # s /\ t \in DOMAIN start /\ start'[t] = start[t]
  BY DEF Insert

LEMMA RemoveEffect ==
    ASSUME NEW s, Remove(s)
    PROVE  /\ DOMAIN start' = DOMAIN start \ {s}
           /\ \A t \in DOMAIN start' : start'[t] = start[t]
  BY DEF Remove, Restrict

(* What a step of tcp_rcv_state_process does: nothing, dropping an entry,  *)
(* or turning it into a measurement.                                       *)
LEMMA ReceiveEffect ==
    ASSUME NEW s \in Socks, NEW c \in Cpus, OnRcvStateProcess(s, c)
    PROVE  /\ UNCHANGED <<now, connects, began>>
           /\ \/ UNCHANGED <<start, events, lost>>
              \/ Remove(s) /\ UNCHANGED <<events, lost>>
              \/ /\ s \in DOMAIN start
                 /\ now - start[s].ts > 0
                 /\ Remove(s)
                 /\ Measurements' = Measurements \cup {Measurement(s)}
                 /\ \/ events' = events \cup {Measurement(s)} /\ UNCHANGED lost
                    \/ lost' = lost \cup {Measurement(s)} /\ UNCHANGED events
  BY DEF OnRcvStateProcess, NotMeasured, TooShort, Measured, Output, Measurements

(* Every state has its type, and what is measured belongs to the connect it *)
(* is reported for, whatever sockets the kernel freed and handed out again. *)
THEOREM LatencyInvariant == LatencySpec => []LatencyInv
<1>1. LatencyInit => LatencyInv
  BY DEF LatencyInit, LatencyInv, LatencyTypeOK, EntriesAreLatest, MeasuresOwnConnect, StartInfo
<1>2. LatencyInv /\ [LatencyNext]_latencyVars => LatencyInv'
  <2> SUFFICES ASSUME LatencyInv, [LatencyNext]_latencyVars PROVE LatencyInv'
    OBVIOUS
  <2>1. CASE Tick
    BY <2>1 DEF Tick, LatencyInv, LatencyTypeOK, EntriesAreLatest, MeasuresOwnConnect
  <2>2. ASSUME NEW s \in Socks, OnConnect(s) PROVE LatencyInv'
    <3> DEFINE info == [connect |-> connects + 1, ts |-> now]
    <3>1. info \in StartInfo
      BY DEF LatencyInv, LatencyTypeOK, StartInfo
    <3>2. Insert(s, info) /\ began' = [began EXCEPT ![s] = info]
      BY <2>2 DEF OnConnect
    <3>3. /\ DOMAIN start' \subseteq DOMAIN start \cup {s}
          /\ \A t \in DOMAIN start' :
                \/ t = s /\ start'[t] = info
                \/ t # s /\ t \in DOMAIN start /\ start'[t] = start[t]
      BY <3>2, InsertEffect
    <3> HIDE DEF info
    <3>4. began' \in [Socks -> StartInfo]
      BY <3>1, <3>2 DEF LatencyInv, LatencyTypeOK
    <3>5. EntriesAreLatest'
      BY <3>2, <3>3 DEF LatencyInv, LatencyTypeOK, EntriesAreLatest
    <3>6. DOMAIN start' \subseteq Socks /\ \A t \in DOMAIN start' : start'[t] \in StartInfo
      BY <3>1, <3>3 DEF LatencyInv, LatencyTypeOK
    <3>7. /\ connects' \in Nat
          /\ state' \in [Socks -> {"closed", "syn_sent", "established"}]
          /\ UNCHANGED <<now, events, lost>>
      BY <2>2 DEF OnConnect, LatencyInv, LatencyTypeOK
    <3>8. MeasuresOwnConnect'
      BY <3>7 DEF LatencyInv, MeasuresOwnConnect
    <3> QED BY <3>4, <3>5, <3>6, <3>7, <3>8 DEF LatencyInv, LatencyTypeOK
  <2>3. ASSUME NEW s \in Socks, Abandon(s) PROVE LatencyInv'
    BY <2>3 DEF Abandon, LatencyInv, LatencyTypeOK, EntriesAreLatest, MeasuresOwnConnect
  <2>4. ASSUME NEW s \in Socks, NEW c \in Cpus, OnRcvStateProcess(s, c) PROVE LatencyInv'
    <3>1. state' \in [Socks -> {"closed", "syn_sent", "established"}]
      BY <2>4 DEF OnRcvStateProcess, LatencyInv, LatencyTypeOK
    <3>2. UNCHANGED <<now, connects, began>>
      BY <2>4, ReceiveEffect
    <3>3. /\ DOMAIN start' \subseteq DOMAIN start
          /\ \A t \in DOMAIN start' : start'[t] = start[t]
      BY <2>4, ReceiveEffect, RemoveEffect
    <3>4. EntriesAreLatest' /\ DOMAIN start' \subseteq Socks
          /\ \A t \in DOMAIN start' : start'[t] \in StartInfo
      BY <3>2, <3>3 DEF LatencyInv, LatencyTypeOK, EntriesAreLatest
    <3>5. ASSUME s \in DOMAIN start, now - start[s].ts > 0
          PROVE  /\ Measurement(s) \in Event
                 /\ Measurement(s).connect = Measurement(s).ofConnect
                 /\ Measurement(s).delta = Measurement(s).age
      <4>1. start[s] = began[s] /\ start[s] \in StartInfo /\ now \in Nat
        BY <3>5 DEF LatencyInv, LatencyTypeOK, EntriesAreLatest
      <4>2. start[s].connect \in Nat /\ start[s].ts \in Nat
        BY <4>1 DEF StartInfo
      <4>3. now - start[s].ts \in Nat
        BY <3>5, <4>1, <4>2
      <4> QED BY <4>1, <4>2, <4>3 DEF Measurement, Event
    <3>6. events' \subseteq Event /\ lost' \subseteq Event /\ MeasuresOwnConnect'
      <4>1. CASE UNCHANGED <<events, lost>>
        BY <4>1 DEF LatencyInv, LatencyTypeOK, MeasuresOwnConnect
      <4>2. CASE /\ s \in DOMAIN start /\ now - start[s].ts > 0
                 /\ \/ events' = events \cup {Measurement(s)} /\ UNCHANGED lost
                    \/ lost' = lost \cup {Measurement(s)} /\ UNCHANGED events
        BY <3>5, <4>2 DEF LatencyInv, LatencyTypeOK, MeasuresOwnConnect
      <4> QED BY <2>4, <4>1, <4>2, ReceiveEffect
    <3> QED BY <3>1, <3>2, <3>4, <3>6 DEF LatencyInv, LatencyTypeOK
  <2>5. CASE UNCHANGED latencyVars
    BY <2>5 DEF latencyVars, LatencyInv, LatencyTypeOK, EntriesAreLatest, MeasuresOwnConnect
  <2> QED BY <2>1, <2>2, <2>3, <2>4, <2>5 DEF LatencyNext
<1> QED BY <1>1, <1>2, PTL DEF LatencySpec

(* The probes keep the types: the map is keyed by sockets, and what they   *)
(* write into it and into the perf event array are whole records.          *)
THEOREM LatencyTypeCorrect == LatencySpec => []LatencyTypeOK
<1>1. LatencyInv => LatencyTypeOK
  BY DEF LatencyInv
<1> QED BY <1>1, LatencyInvariant, PTL

(* What a measurement reports is the age of the connection the packet       *)
(* belongs to, never the time since an earlier use of the socket's address. *)
THEOREM OwnConnect == LatencySpec => []MeasuresOwnConnect
<1>1. LatencyInv => MeasuresOwnConnect
  BY DEF LatencyInv
<1> QED BY <1>1, LatencyInvariant, PTL

(* No connect is measured twice: a measurement takes the entry with it. *)
THEOREM Once == LatencySpec => []MeasuredOnce
<1> DEFINE OnceInv == Fresh /\ MeasuredOnce
<1>1. LatencyInit => OnceInv
  BY DEF LatencyInit, Fresh, MeasuredOnce, Measurements
<1>2. LatencyInv /\ OnceInv /\ [LatencyNext]_latencyVars => OnceInv'
  <2> SUFFICES ASSUME LatencyInv, OnceInv, [LatencyNext]_latencyVars PROVE OnceInv'
    OBVIOUS
  <2> USE DEF Measurements
  <2>0. /\ connects \in Nat
        /\ \A s \in DOMAIN start : start[s].connect \in Nat
        /\ \A ev \in Measurements : ev.ofConnect \in Nat
    BY DEF LatencyInv, LatencyTypeOK, StartInfo, Event
  <2>1. CASE UNCHANGED <<connects, start, events, lost>>
    BY <2>1 DEF Fresh, MeasuredOnce
  <2>2. ASSUME NEW s \in Socks, OnConnect(s) PROVE OnceInv'
    <3> DEFINE info == [connect |-> connects + 1, ts |-> now]
    <3>1. \A t \in DOMAIN start' :
             \/ t = s /\ start'[t] = info
             \/ t # s /\ t \in DOMAIN start /\ start'[t] = start[t]
      BY <2>2, InsertEffect DEF OnConnect
    <3>2. connects' = connects + 1 /\ UNCHANGED <<events, lost>>
      BY <2>2 DEF OnConnect
    <3>3. info.connect = connects + 1
      OBVIOUS
    <3> HIDE DEF info
    <3>4. \A t \in DOMAIN start' :
             \/ t = s /\ start'[t].connect = connects + 1
             \/ t # s /\ t \in DOMAIN start /\ start'[t].connect = start[t].connect
      BY <3>1, <3>3
    <3>5. Fresh'
      BY <2>0, <3>2, <3>4 DEF Fresh
    <3>6. MeasuredOnce'
      BY <3>2 DEF MeasuredOnce
    <3> QED BY <3>5, <3>6
  <2>3. ASSUME NEW s \in Socks, NEW c \in Cpus, OnRcvStateProcess(s, c) PROVE OnceInv'
    <3>1. CASE UNCHANGED <<start, events, lost>>
      BY <2>1, <2>3, <3>1, ReceiveEffect
    <3>2. CASE Remove(s) /\ UNCHANGED <<events, lost>>
      <4>1. /\ DOMAIN start' = DOMAIN start \ {s}
            /\ \A t \in DOMAIN start' : start'[t] = start[t]
        BY <3>2, RemoveEffect
      <4>2. connects' = connects /\ Measurements' = Measurements
        BY <2>3, <3>2, ReceiveEffect
      <4>3. MeasuredOnce'
        BY <3>2 DEF MeasuredOnce
      <4> HIDE DEF Measurements
      <4>4. Fresh'
        BY <4>1, <4>2 DEF Fresh
      <4> QED BY <4>3, <4>4
    <3>3. CASE /\ s \in DOMAIN start /\ Remove(s)
               /\ Measurements' = Measurements \cup {Measurement(s)}
      <4> DEFINE m == Measurement(s)
      <4>1. m.ofConnect = start[s].connect
        BY <3>3 DEF LatencyInv, EntriesAreLatest, Measurement
      <4>2. /\ DOMAIN start' = DOMAIN start \ {s}
            /\ \A t \in DOMAIN start' : start'[t] = start[t]
        BY <3>3, RemoveEffect
      <4>3. connects' = connects
        BY <2>3, ReceiveEffect
      <4> HIDE DEF m, Measurements
      <4>4. Measurements' = Measurements \cup {m}
        BY <3>3 DEF m
      <4>5. Fresh'
        BY <3>3, <4>1, <4>2, <4>3, <4>4 DEF Fresh
      <4>6. \A e1, e2 \in Measurements' : e1.ofConnect = e2.ofConnect => e1 = e2
        <5>1. \A e1, e2 \in Measurements : e1.ofConnect = e2.ofConnect => e1 = e2
          BY DEF MeasuredOnce, Measurements
        <5>2. \A ev \in Measurements : ev.ofConnect # m.ofConnect
          BY <3>3, <4>1 DEF Fresh
        <5> QED BY <4>4, <5>1, <5>2
      <4>7. MeasuredOnce'
        BY <4>6 DEF MeasuredOnce, Measurements
      <4> QED BY <4>5, <4>7
    <3> QED BY <2>3, <3>1, <3>2, <3>3, ReceiveEffect
  <2>4. Tick => UNCHANGED <<connects, start, events, lost>>
    BY DEF Tick
  <2>5. \A s \in Socks : Abandon(s) => UNCHANGED <<connects, start, events, lost>>
    BY DEF Abandon
  <2> QED BY <2>1, <2>2, <2>3, <2>4, <2>5 DEF LatencyNext, latencyVars
<1>3. OnceInv => MeasuredOnce
  OBVIOUS
<1> QED BY <1>1, <1>2, <1>3, LatencyInvariant, PTL DEF LatencySpec

-----------------------------------------------------------------------------
(***************************************************************************)
(* The watched interfaces.                                                 *)
(***************************************************************************)

(* The parts of TypeOK, and that the map is a finite set. *)
Phased ==
    /\ phase \in Phases
    /\ probes \subseteq {"creation", "deletion"}
    /\ unlisted \in BOOLEAN
    /\ phase = "down" => ifaces \cup attached \cup refused \cup reported = {}

Named ==
    /\ present \subseteq Interfaces
    /\ coming \subseteq Interfaces \ present
    /\ ifaces \subseteq Interfaces \ Ignored
    /\ attached \cup refused \cup listed \cup late \subseteq present
    /\ reported \cup since \subseteq present \cup coming
    /\ full \subseteq Interfaces /\ once \subseteq Interfaces

Fits ==
    /\ tracked \subseteq Interfaces
    /\ IsFiniteSet(tracked)
    /\ Cardinality(tracked) <= MAX_TRACKED

(* From the listing to the end of the loop, what was listed is dealt with  *)
(* or still to be.                                                         *)
DealtWith == AfterListing => listed \subseteq attached \cup refused \cup ifaces

(* Nor is any other interface out of sight: it came after the listing.     *)
Known ==
    AfterListing /\ ~unlisted =>
        present \subseteq attached \cup refused \cup ifaces \cup Ignored \cup late

(* identity is told of every registration that begins while the entries    *)
(* are its own.  Nobody gives them back to it before its next start.        *)
Told ==
    /\ entries \in {"none", "nobody", "agent", "identity"}
    /\ entries = "identity" => phase = "up" /\ since \subseteq reported
    /\ phase # "up" => since = {}

LoopIsOver == phase \in {"registry", "open", "up"} => ifaces = {}

TracersFirst == phase \notin {"down", "creation"} => "creation" \in probes

IInv ==
    /\ Phased
    /\ Named
    /\ Fits
    /\ DealtWith
    /\ Known
    /\ Told
    /\ LoopIsOver
    /\ TracersFirst
    /\ TrackedWasAttached

-----------------------------------------------------------------------------
(* The entry of a name does not overrun the map, whatever is in it. *)
LEMMA TrackFits ==
    ASSUME Fits, NEW n \in Interfaces, Track(n)
    PROVE  /\ Fits'
           /\ tracked \cup full \cup {n} \subseteq tracked' \cup full'
           /\ tracked' \subseteq tracked \cup {n}
           /\ full' \subseteq full \cup {n}
<1>1. CASE n \in tracked /\ tracked' = tracked \cup {n} /\ UNCHANGED full
  <2>1. tracked' = tracked
    BY <1>1
  <2> QED BY <1>1, <2>1 DEF Fits
<1>2. CASE /\ n \notin tracked /\ Cardinality(tracked) < MAX_TRACKED
           /\ tracked' = tracked \cup {n} /\ UNCHANGED full
  <2>1. IsFiniteSet(tracked') /\ Cardinality(tracked') = Cardinality(tracked) + 1
    BY <1>2, FS_AddElement DEF Fits
  <2>2. Cardinality(tracked) \in Nat
    BY FS_CardinalityType DEF Fits
  <2>3. Cardinality(tracked') <= MAX_TRACKED
    BY <1>2, <2>1, <2>2, VethAssumption
  <2> QED BY <1>2, <2>1, <2>3 DEF Fits
<1>3. CASE full' = full \cup {n} /\ UNCHANGED tracked
  BY <1>3 DEF Fits
<1> QED BY <1>1, <1>2, <1>3 DEF Track

(* The invariant holds when the node is booted. *)
LEMMA InitIInv == Init => IInv
<1> SUFFICES ASSUME Init PROVE IInv
  OBVIOUS
<1>1. Fits
  BY FS_EmptySet, VethAssumption DEF Init, Fits
<1> QED BY <1>1 DEF Init, IInv, Phased, Named, Phases, DealtWith, Known, Told, AfterListing,
        LoopIsOver, TracersFirst, TrackedWasAttached

(* Interfaces that come and go leave it true: what comes while identity is *)
(* at it is among the late ones, and what begins to come while identity    *)
(* has the entries is reported.                                            *)
LEMMA KernelKeepsIInv ==
    ASSUME IInv, NEW n \in Interfaces, Register(n) \/ Create(n) \/ MoveIn(n) \/ Delete(n)
    PROVE  IInv'
<1>1. CASE Register(n)
  <2>1. Phased' /\ Fits' /\ LoopIsOver' /\ TracersFirst' /\ TrackedWasAttached'
    BY <1>1 DEF IInv, Phased, Fits, LoopIsOver, TracersFirst, TrackedWasAttached, Register, Report,
                Told
  <2>2. Named' /\ DealtWith' /\ Known'
    BY <1>1 DEF IInv, Named, DealtWith, Known, AfterListing, Register, Report
  <2>3. Told'
    BY <1>1 DEF IInv, Told, TracersFirst, Register, Report
  <2> QED BY <2>1, <2>2, <2>3 DEF IInv
<1>2. CASE Create(n) \/ MoveIn(n)
  <2>1. Phased' /\ Fits' /\ LoopIsOver' /\ TracersFirst' /\ TrackedWasAttached' /\ Told'
    BY <1>2 DEF IInv, Phased, Fits, LoopIsOver, TracersFirst, TrackedWasAttached, Told, Create,
                MoveIn, Appears
  <2>2. Named'
    BY <1>2 DEF IInv, Named, Create, MoveIn, Appears
  <2>3. DealtWith' /\ Known'
    BY <1>2 DEF IInv, DealtWith, Known, AfterListing, Create, MoveIn, Appears
  <2> QED BY <2>1, <2>2, <2>3 DEF IInv
<1>3. CASE Delete(n)
  <2>1. Phased' /\ Fits' /\ LoopIsOver' /\ TracersFirst' /\ Told'
    BY <1>3 DEF IInv, Phased, Fits, LoopIsOver, TracersFirst, Told, Delete
  <2>2. Named' /\ TrackedWasAttached'
    BY <1>3 DEF IInv, Named, TrackedWasAttached, Delete
  <2>3. DealtWith' /\ Known'
    BY <1>3 DEF IInv, DealtWith, Known, AfterListing, Delete
  <2> QED BY <2>1, <2>2, <2>3 DEF IInv
<1> QED BY <1>1, <1>2, <1>3

(* An agent only takes the entries from identity. *)
LEMMA AgentKeepsIInv ==
    ASSUME IInv, AgentOpens \/ AgentEnds
    PROVE  IInv'
<1>1. /\ UNCHANGED <<present, coming, phase, probes, ifaces, attached, tracked, known, once>>
      /\ entries' \in {"agent", "nobody"}
  BY DEF AgentOpens, AgentEnds
<1> QED BY <1>1 DEF IInv, Phased, Named, Fits, DealtWith, Known, Told, AfterListing, LoopIsOver,
        TracersFirst, TrackedWasAttached, known

(* A start, up to the listing and after it, leaves it true. *)
LEMMA StartKeepsIInv ==
    ASSUME IInv, Start \/ LoadTracer \/ Proceed \/ OpenRings
    PROVE  IInv'
<1>1. UNCHANGED <<present, coming, ifaces, attached, tracked, known, once>>
  BY DEF Start, LoadTracer, Proceed, OpenRings, kernelVars
<1>2. Phased' /\ LoopIsOver' /\ TracersFirst'
  BY <1>1 DEF IInv, Phased, Phases, LoopIsOver, TracersFirst, Start, LoadTracer, Proceed, OpenRings,
              known
<1>3. Named' /\ Fits' /\ TrackedWasAttached'
  BY <1>1 DEF IInv, Named, Fits, TrackedWasAttached, known
<1>4. AfterListing' => AfterListing
  BY DEF Start, LoadTracer, Proceed, OpenRings, AfterListing
<1>5. DealtWith' /\ Known'
  BY <1>1, <1>4 DEF IInv, DealtWith, Known, known
<1>6. Told'
  BY <1>1 DEF IInv, Told, Start, LoadTracer, Proceed, OpenRings, known, kernelVars
<1> QED BY <1>2, <1>3, <1>5, <1>6 DEF IInv

(* The listing begins what DealtWith and Known follow. *)
LEMMA ListingKeepsIInv ==
    ASSUME IInv, get_veth_channels
    PROVE  IInv'
<1>1. Phased' /\ Fits' /\ LoopIsOver' /\ TracersFirst' /\ TrackedWasAttached'
  BY DEF IInv, Phased, Phases, Fits, LoopIsOver, TracersFirst, TrackedWasAttached,
         get_veth_channels, kernelVars
<1>2. Named' /\ Told'
  BY DEF IInv, Named, Told, get_veth_channels, ignore_iface, kernelVars
<1>3. DealtWith' /\ Known'
  BY DEF IInv, Named, DealtWith, Known, get_veth_channels, ignore_iface, kernelVars
<1> QED BY <1>1, <1>2, <1>3 DEF IInv

(* One interface is attached, refused, or gone. *)
LEMMA AttachKeepsIInv ==
    ASSUME IInv, NEW n \in Interfaces, Attach(n)
    PROVE  IInv'
<1>1. n \in Interfaces \ Ignored
  BY DEF IInv, Named, Attach
<1>2. Fits' /\ full' \subseteq full \cup {n} /\ tracked \cup full \subseteq tracked' \cup full'
  <2>1. CASE Track(n)
    BY <2>1, TrackFits DEF IInv
  <2>2. CASE UNCHANGED <<tracked, full>>
    BY <2>2 DEF IInv, Fits
  <2> QED BY <2>1, <2>2 DEF Attach
<1>3. Phased' /\ LoopIsOver' /\ TracersFirst' /\ Told'
  BY DEF IInv, Phased, LoopIsOver, TracersFirst, Told, Attach, kernelVars
<1>4. Named'
  BY <1>1, <1>2 DEF IInv, Named, Attach, kernelVars
<1>5. DealtWith'
  BY DEF IInv, Named, DealtWith, AfterListing, Attach, kernelVars
<1>6. Known'
  BY DEF IInv, Known, AfterListing, Attach, kernelVars
<1>7. TrackedWasAttached'
  <2>1. CASE attached' = attached \cup {n} /\ once' = once \cup {n} /\ Track(n)
    BY <1>1, <2>1, TrackFits DEF IInv, TrackedWasAttached
  <2>2. CASE UNCHANGED <<attached, tracked, full, once>>
    BY <2>2 DEF IInv, TrackedWasAttached
  <2> QED BY <2>1, <2>2 DEF Attach
<1> QED BY <1>2, <1>3, <1>4, <1>5, <1>6, <1>7 DEF IInv

(* After an end only the map is left, and after a reboot nothing. *)
LEMMA EndKeepsIInv ==
    ASSUME IInv, End \/ Reboot
    PROVE  IInv'
<1>1. Fits'
  BY FS_EmptySet, VethAssumption DEF IInv, Fits, End, Reboot
<1>2. Phased' /\ LoopIsOver' /\ TracersFirst' /\ DealtWith' /\ Known'
  BY DEF Phased, Phases, LoopIsOver, TracersFirst, DealtWith, Known, AfterListing, End, Reboot,
         Cleared
<1>3. Named' /\ TrackedWasAttached'
  BY DEF IInv, Named, TrackedWasAttached, End, Reboot, Cleared
<1>4. Told'
  BY DEF IInv, Told, End, Reboot, Cleared
<1> QED BY <1>1, <1>2, <1>3, <1>4 DEF IInv

(* Every interface is dealt with, still to be, or came after the listing;  *)
(* what began to come while identity had the entries is reported; and the  *)
(* map holds what was attached: the inductive invariant.                   *)
THEOREM WatchInvariant == Spec => []IInv
<1>1. IInv /\ [Next]_vars => IInv'
  <2> SUFFICES ASSUME IInv, [Next]_vars PROVE IInv'
    OBVIOUS
  <2>1. ASSUME NEW n \in Interfaces, Register(n) \/ Create(n) \/ MoveIn(n) \/ Delete(n)
        PROVE  IInv'
    BY <2>1, KernelKeepsIInv
  <2>2. CASE Start \/ LoadTracer \/ Proceed \/ OpenRings
    BY <2>2, StartKeepsIInv
  <2>3. CASE get_veth_channels
    BY <2>3, ListingKeepsIInv
  <2>4. ASSUME NEW n \in Interfaces, Attach(n) PROVE IInv'
    BY <2>4, AttachKeepsIInv
  <2>5. CASE End \/ Reboot
    BY <2>5, EndKeepsIInv
  <2>6. CASE UNCHANGED vars
    BY <2>6 DEF IInv, Phased, Named, Fits, DealtWith, Known, Told, AfterListing, LoopIsOver,
       TracersFirst, TrackedWasAttached, vars, known, kernelVars
  <2>7. CASE AgentOpens \/ AgentEnds
    BY <2>7, AgentKeepsIInv
  <2> QED BY <2>1, <2>2, <2>3, <2>4, <2>5, <2>6, <2>7 DEF Next, Identity
<1> QED BY <1>1, InitIInv, PTL DEF Spec

-----------------------------------------------------------------------------
(* Every variable keeps its type, and the map its capacity. *)
THEOREM TypeCorrect == Spec => []TypeOK
<1>1. IInv => TypeOK
  BY DEF IInv, Phased, Named, Fits, Told, TypeOK
<1> QED BY <1>1, WatchInvariant, PTL

(* Once init_tc_classifier is over, every interface that was listed and    *)
(* still is there has the classifier, unless the kernel refused it.        *)
THEOREM ListedGetsAttached == Spec => []ListedIsAttached
<1>1. IInv => ListedIsAttached
  BY DEF IInv, DealtWith, AfterListing, LoopIsOver, ListedIsAttached
<1> QED BY <1>1, WatchInvariant, PTL

(* The only interfaces that an identity which is up, and from which no     *)
(* agent took the reports, neither watches nor knows of appeared after its *)
(* listing, and their registration began before its rings were open, or    *)
(* they were moved in.                                                     *)
THEOREM OnlyBetweenUnknown == Spec => []UnknownCameBetween
<1>1. IInv => UnknownCameBetween
  BY DEF IInv, Named, Known, Told, AfterListing, LoopIsOver, UnknownCameBetween
<1> QED BY <1>1, WatchInvariant, PTL

(* The map tracked_veth holds every interface with the classifier for      *)
(* which it had room, and none that never had it.                          *)
THEOREM MapHoldsAttached == Spec => []TrackedWasAttached
<1>1. IInv => TrackedWasAttached
  BY DEF IInv
<1> QED BY <1>1, WatchInvariant, PTL

-----------------------------------------------------------------------------
(***************************************************************************)
(* The idle state tracer.  What is remembered of a CPU was recorded, and   *)
(* is its present state unless it is the exit; of a CPU for which the map  *)
(* had no room, what was recorded is.                                      *)
(***************************************************************************)
IdleInv ==
    /\ current \in [IdleCpus -> States]
    /\ DOMAIN lastState \subseteq DOMAIN gauge /\ DOMAIN gauge \subseteq IdleCpus
    /\ \A c \in DOMAIN lastState :
          /\ gauge[c] = lastState[c]
          /\ lastState[c] \in {PWR_EVENT_EXIT, current[c]}
    /\ \A c \in DOMAIN gauge \ DOMAIN lastState : gauge[c] = current[c]

(* An event is passed over, or it becomes what is recorded and, if there   *)
(* is room, remembered of its CPU.                                         *)
LEMMA EventEffect ==
    ASSUME NEW c, NEW s, cpu_idle(c, s)
    PROVE  \/ Skipped(c, s) /\ UNCHANGED <<lastState, gauge>>
           \/ /\ ~Skipped(c, s)
              /\ DOMAIN gauge' = DOMAIN gauge \cup {c}
              /\ \A d \in DOMAIN gauge' : gauge'[d] = IF d = c THEN s ELSE gauge[d]
              /\ \/ /\ DOMAIN lastState' = DOMAIN lastState \cup {c}
                    /\ \A d \in DOMAIN lastState' :
                          lastState'[d] = IF d = c THEN s ELSE lastState[d]
                 \/ c \notin DOMAIN lastState /\ UNCHANGED lastState
  BY DEF cpu_idle, Remember, Put

(* Once a CPU's exit is remembered, it is remembered for good, and nothing *)
(* is recorded of that CPU.                                                *)
GaugeStops ==
    [][\A c \in DOMAIN lastState : lastState[c] = PWR_EVENT_EXIT =>
          /\ c \in DOMAIN lastState' /\ lastState'[c] = PWR_EVENT_EXIT
          /\ gauge'[c] = gauge[c]]_idleVars

(* What is recorded of a CPU is not its state exactly if its exit is       *)
(* remembered and it has gone idle again.                                  *)
WrongExactlyAfterExit ==
    \A c \in DOMAIN gauge :
        gauge[c] # current[c] <=> /\ c \in DOMAIN lastState
                                  /\ lastState[c] = PWR_EVENT_EXIT
                                  /\ current[c] # PWR_EVENT_EXIT

LEMMA EventKeepsIdleInv ==
    ASSUME IdleInv, NEW c \in IdleCpus, NEW s \in States, cpu_idle(c, s),
           current' = [current EXCEPT ![c] = s],
           s # PWR_EVENT_EXIT => current[c] = PWR_EVENT_EXIT
    PROVE  /\ IdleInv'
           /\ \A d \in DOMAIN lastState : lastState[d] = PWR_EVENT_EXIT =>
                 /\ d \in DOMAIN lastState' /\ lastState'[d] = PWR_EVENT_EXIT
                 /\ gauge'[d] = gauge[d]
<1>1. /\ current \in [IdleCpus -> States] /\ current' \in [IdleCpus -> States]
      /\ \A d \in IdleCpus : current'[d] = IF d = c THEN s ELSE current[d]
  BY DEF IdleInv
<1>2. CASE Skipped(c, s) /\ UNCHANGED <<lastState, gauge>>
  <2>1. c \in DOMAIN lastState /\ lastState[c] \in {s, PWR_EVENT_EXIT}
    BY <1>2 DEF Skipped
  <2> QED BY <1>1, <1>2, <2>1 DEF IdleInv
<1>3. CASE ~(Skipped(c, s) /\ UNCHANGED <<lastState, gauge>>)
  <2>1. /\ ~Skipped(c, s)
        /\ DOMAIN gauge' = DOMAIN gauge \cup {c}
        /\ \A d \in DOMAIN gauge' : gauge'[d] = IF d = c THEN s ELSE gauge[d]
        /\ \/ /\ DOMAIN lastState' = DOMAIN lastState \cup {c}
              /\ \A d \in DOMAIN lastState' :
                    lastState'[d] = IF d = c THEN s ELSE lastState[d]
           \/ c \notin DOMAIN lastState /\ UNCHANGED lastState
    BY <1>3, EventEffect
  <2>2. c \in DOMAIN lastState => lastState[c] # PWR_EVENT_EXIT
    BY <2>1 DEF Skipped
  <2> QED BY <1>1, <2>1, <2>2 DEF IdleInv
<1> QED BY <1>2, <1>3

(* The inductive invariant of the idle state tracer, for any CPUs, states  *)
(* and capacity of its map.                                                *)
THEOREM IdleInvariant == IdleSpec => []IdleInv
<1>1. IdleInit => IdleInv
  BY DEF IdleInit, IdleInv, States
<1>2. IdleInv /\ [IdleNext]_idleVars => IdleInv'
  <2> SUFFICES ASSUME IdleInv, [IdleNext]_idleVars PROVE IdleInv'
    OBVIOUS
  <2>1. ASSUME NEW c \in IdleCpus, EnterIdle(c) PROVE IdleInv'
    BY <2>1, EventKeepsIdleInv DEF EnterIdle, States
  <2>2. ASSUME NEW c \in IdleCpus, ExitIdle(c) PROVE IdleInv'
    BY <2>2, EventKeepsIdleInv DEF ExitIdle, States
  <2>3. CASE UNCHANGED idleVars
    BY <2>3 DEF idleVars, IdleInv
  <2> QED BY <2>1, <2>2, <2>3 DEF IdleNext
<1> QED BY <1>1, <1>2, PTL DEF IdleSpec

(* How far the gauge is from the latest state: it is wrong of exactly the  *)
(* CPUs whose exit is remembered and that have gone idle again, and of     *)
(* these nothing is ever recorded again - only the CPUs that the map has   *)
(* no room for are recorded as they should be.                             *)
THEOREM GaugeErrsAfterExit == IdleSpec => []WrongExactlyAfterExit /\ GaugeStops
<1>1. IdleInv => WrongExactlyAfterExit
  BY DEF IdleInv, WrongExactlyAfterExit
<1> DEFINE Stops == \A c \in DOMAIN lastState : lastState[c] = PWR_EVENT_EXIT =>
                       /\ c \in DOMAIN lastState' /\ lastState'[c] = PWR_EVENT_EXIT
                       /\ gauge'[c] = gauge[c]
<1>2. IdleInv /\ [IdleNext]_idleVars => [Stops]_idleVars
  <2> SUFFICES ASSUME IdleInv, IdleNext PROVE Stops
    OBVIOUS
  <2>1. ASSUME NEW c \in IdleCpus, EnterIdle(c) PROVE Stops
    BY <2>1, EventKeepsIdleInv DEF EnterIdle, States
  <2>2. ASSUME NEW c \in IdleCpus, ExitIdle(c) PROVE Stops
    BY <2>2, EventKeepsIdleInv DEF ExitIdle, States
  <2> QED BY <2>1, <2>2 DEF IdleNext
<1> QED BY <1>1, <1>2, IdleInvariant, PTL DEF IdleSpec, GaugeStops
=============================================================================
