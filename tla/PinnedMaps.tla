------------------------------ MODULE PinnedMaps ------------------------------
(***************************************************************************)
(* How the agent gets at the loaders' maps.  A loader makes its maps when  *)
(* it loads its eBPF object, or finds those of identity again, which are   *)
(* pinned by name; it pins each under its own directory, over the pin of   *)
(* an earlier life, and then attaches its programs, which write into the   *)
(* maps it loaded.  The agent opens the four pins it needs, one by one,    *)
(* and panics where one is missing; it is restarted then.                  *)
(***************************************************************************)
EXTENDS Naturals, Sequences

CONSTANTS
    MaxLoads,   \* bound: times a loader is started
    MaxStops    \* bound: times the agent is stopped from outside

Loaders == {"identity", "metrics"}

(* The perf event arrays among the maps that a loader pins, in its order. *)
MapData(l) ==
    IF l = "identity" THEN <<"events_map", "veth_identity_map">>
                      ELSE <<"time_stamp_events", "net_metrics">>

MapsOf(l) == {MapData(l)[i] : i \in DOMAIN MapData(l)}

Maps == UNION {MapsOf(l) : l \in Loaders}

(* Fault: maps that are not found again. *)
NoneByName == {}

(* #[map(pinning = "by_name")] *)
ByName == MapsOf("identity")

(* The order in which AgentApi::default opens the pins. *)
Opened == <<"events_map", "net_metrics", "time_stamp_events", "veth_identity_map">>

ASSUME PinnedMapsAssumption == MaxLoads \in Nat /\ MaxStops \in Nat

VARIABLES
    made,    \* made[m]: how many maps were made of that name
    named,   \* named[m]: the one that is pinned by name, 0 for none
    pin,     \* pin[m]: the one pinned in the loader's directory, 0 for none
    own,     \* own[m]: the one its loader has loaded, 0 for none
    phase,   \* phase[l]: "down", "pinning", "pinned" or "running"
    next,    \* next[l]: which of its maps l pins next
    loads,   \* loads[l]: times l was started
    lives,   \* lives[l]: those since the node was booted
    agent,   \* "down", "opening" or "up"
    opened,  \* how many pins the agent has opened
    held,    \* held[m]: the map the agent has opened, 0 for none
    stops    \* times the agent was stopped from outside

loaderVars == <<made, named, pin, own, phase, next, loads, lives>>
agentVars == <<agent, opened, held, stops>>
vars == <<loaderVars, agentVars>>

Nothing == [m \in Maps |-> 0]

Init ==
    /\ made = Nothing
    /\ named = Nothing
    /\ pin = Nothing
    /\ own = Nothing
    /\ phase = [l \in Loaders |-> "down"]
    /\ next = [l \in Loaders |-> 1]
    /\ loads = [l \in Loaders |-> 0]
    /\ lives = [l \in Loaders |-> 0]
    /\ agent = "down"
    /\ opened = 0
    /\ held = Nothing
    /\ stops = 0

-----------------------------------------------------------------------------
(* The loaders *)

(* Ebpf::load, and init_bpf_maps takes the maps out of the object. *)
Found(m) == m \in ByName /\ named[m] # 0

Loaded(m) == IF Found(m) THEN named[m] ELSE made[m] + 1

Load(l) ==
    /\ phase[l] = "down"
    /\ loads[l] < MaxLoads
    /\ loads' = [loads EXCEPT ![l] = @ + 1]
    /\ lives' = [lives EXCEPT ![l] = @ + 1]
    /\ phase' = [phase EXCEPT ![l] = "pinning"]
    /\ next' = [next EXCEPT ![l] = 1]
    /\ own' = [m \in Maps |-> IF m \in MapsOf(l) THEN Loaded(m) ELSE own[m]]
    /\ named' = [m \in Maps |-> IF m \in MapsOf(l) \cap ByName THEN Loaded(m) ELSE named[m]]
    /\ made' = [m \in Maps |-> IF m \in MapsOf(l) /\ ~Found(m) THEN made[m] + 1 ELSE made[m]]
    /\ UNCHANGED <<pin, agentVars>>

(* map_pinner removes the file that is there ... *)
RemovePin(l) ==
    /\ phase[l] = "pinning"
    /\ pin[MapData(l)[next[l]]] # 0
    /\ pin' = [pin EXCEPT ![MapData(l)[next[l]]] = 0]
    /\ UNCHANGED <<made, named, own, phase, next, loads, lives, agentVars>>

(* Fault: the step to the next map is taken after the last one, too. *)
PinnedOnward(l) ==
    /\ next' = [next EXCEPT ![l] = @ + 1]
    /\ phase' = [phase EXCEPT ![l] = IF next[l] = Len(MapData(l)) THEN "pinned" ELSE @]

Pinned(l) ==
    \/ /\ next[l] < Len(MapData(l))
       /\ next' = [next EXCEPT ![l] = @ + 1]
       /\ UNCHANGED phase
    \/ /\ next[l] = Len(MapData(l))
       /\ phase' = [phase EXCEPT ![l] = "pinned"]
       /\ UNCHANGED next

(* Faults: an earlier pin that is left alone, and a last map that is not    *)
(* pinned.                                                                  *)
PinIfAbsent(l) ==
    /\ phase[l] = "pinning"
    /\ pin' = [pin EXCEPT ![MapData(l)[next[l]]] =
                  IF @ = 0 THEN own[MapData(l)[next[l]]] ELSE @]
    /\ Pinned(l)
    /\ UNCHANGED <<made, named, own, loads, lives, agentVars>>

PinAllButLast(l) ==
    /\ phase[l] = "pinning"
    /\ pin[MapData(l)[next[l]]] = 0
    /\ pin' = [pin EXCEPT ![MapData(l)[next[l]]] =
                  IF next[l] = Len(MapData(l)) THEN @ ELSE own[MapData(l)[next[l]]]]
    /\ Pinned(l)
    /\ UNCHANGED <<made, named, own, loads, lives, agentVars>>

(* ... and pins the map, as long as there is a next one. *)
Pin(l) ==
    /\ phase[l] = "pinning"
    /\ pin[MapData(l)[next[l]]] = 0
    /\ pin' = [pin EXCEPT ![MapData(l)[next[l]]] = own[MapData(l)[next[l]]]]
    /\ Pinned(l)
    /\ UNCHANGED <<made, named, own, loads, lives, agentVars>>

(* load_program and its like, and the event listener. *)
Attach(l) ==
    /\ phase[l] = "pinned"
    /\ phase' = [phase EXCEPT ![l] = "running"]
    /\ UNCHANGED <<made, named, pin, own, next, loads, lives, agentVars>>

(* An error of any of these steps, a task that ends, or a kill: the pins    *)
(* stay.                                                                    *)
Stop(l) ==
    /\ phase[l] # "down"
    /\ phase' = [phase EXCEPT ![l] = "down"]
    /\ own' = [m \in Maps |-> IF m \in MapsOf(l) THEN 0 ELSE own[m]]
    /\ UNCHANGED <<made, named, pin, next, loads, lives, agentVars>>

-----------------------------------------------------------------------------
(* The agent *)

AgentStart ==
    /\ agent = "down"
    /\ agent' = "opening"
    /\ opened' = 0
    /\ held' = Nothing
    /\ UNCHANGED <<loaderVars, stops>>

(* load_perf_event_array_from_mapdata on the next pin. *)
OpenPin ==
    /\ agent = "opening"
    /\ pin[Opened[opened + 1]] # 0
    /\ held' = [held EXCEPT ![Opened[opened + 1]] = pin[Opened[opened + 1]]]
    /\ opened' = opened + 1
    /\ agent' = IF opened + 1 = Len(Opened) THEN "up" ELSE "opening"
    /\ UNCHANGED <<loaderVars, stops>>

Down ==
    /\ agent' = "down"
    /\ opened' = 0
    /\ held' = Nothing

(* The unwrap of a pin that is not there. *)
Panic ==
    /\ agent = "opening"
    /\ pin[Opened[opened + 1]] = 0
    /\ Down
    /\ UNCHANGED <<loaderVars, stops>>

AgentStop ==
    /\ agent # "down"
    /\ stops < MaxStops
    /\ stops' = stops + 1
    /\ Down
    /\ UNCHANGED loaderVars

(* The BPF file system is gone, with all that runs on the node. *)
Reboot ==
    /\ \E l \in Loaders : loads[l] > 0 /\ loads[l] < MaxLoads
    /\ stops < MaxStops
    /\ stops' = stops + 1
    /\ named' = Nothing
    /\ pin' = Nothing
    /\ own' = Nothing
    /\ phase' = [l \in Loaders |-> "down"]
    /\ lives' = [l \in Loaders |-> 0]
    /\ Down
    /\ UNCHANGED <<made, next, loads>>

Next ==
    \/ \E l \in Loaders : Load(l)
    \/ \E l \in Loaders : RemovePin(l)
    \/ \E l \in Loaders : Pin(l)
    \/ \E l \in Loaders : Attach(l)
    \/ \E l \in Loaders : Stop(l)
    \/ AgentStart
    \/ OpenPin
    \/ Panic
    \/ AgentStop
    \/ Reboot

(* The agent's pod is restarted whenever it ends, and the agent goes on. *)
Fairness == WF_vars(AgentStart) /\ WF_vars(OpenPin)

Spec == Init /\ [][Next]_vars /\ Fairness

-----------------------------------------------------------------------------
(* Type invariant. *)
TypeOK ==
    /\ made \in [Maps -> Nat]
    /\ named \in [Maps -> Nat] /\ \A m \in Maps : named[m] =< made[m]
    /\ pin \in [Maps -> Nat] /\ \A m \in Maps : pin[m] =< made[m]
    /\ own \in [Maps -> Nat] /\ \A m \in Maps : own[m] =< made[m]
    /\ held \in [Maps -> Nat] /\ \A m \in Maps : held[m] =< made[m]
    /\ phase \in [Loaders -> {"down", "pinning", "pinned", "running"}]
    /\ \A l \in Loaders : next[l] \in DOMAIN MapData(l)
    /\ loads \in [Loaders -> Nat]
    /\ lives \in [Loaders -> Nat]
    /\ agent \in {"down", "opening", "up"}
    /\ opened \in 0 .. Len(Opened)
    /\ stops \in Nat

(* While a loader's programs run, its pins lead to the maps they write:    *)
(* no restart, and no stop half-way through the pins, leaves one of an     *)
(* earlier life in place.                                                  *)
PinnedIsWritten ==
    \A l \in Loaders : phase[l] = "running" => \A m \in MapsOf(l) : pin[m] = own[m]

(* An agent that is up reads the maps that the programs write, however it  *)
(* and the loaders were restarted: those of identity always, those of      *)
(* metrics as long as metrics was loaded once since the node was booted.   *)
AgentReadsWritten ==
    agent = "up" =>
        \A l \in Loaders : \A m \in MapsOf(l) :
            phase[l] = "running" /\ (l = "identity" \/ lives[l] = 1) => held[m] = own[m]

(* Whatever the order in which the three are started: once both loaders    *)
(* run and go on running, the agent comes up and stays up.                 *)
AgentComesUp ==
    <>[](\A l \in Loaders : phase[l] = "running") => <>[](agent = "up")
=============================================================================
