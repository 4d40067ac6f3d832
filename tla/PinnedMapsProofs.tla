--------------------------- MODULE PinnedMapsProofs ---------------------------
(***************************************************************************)
(* Theorems of PinnedMaps: which maps the pins, the loaders and the agent  *)
(* can hold, for any number of starts, stops and reboots.                  *)
(***************************************************************************)
EXTENDS PinnedMaps, TLAPS

(* What is pinned, owned or held is one of the maps that were made. *)
Counts ==
    /\ made \in [Maps -> Nat]
    /\ named \in [Maps -> Nat] /\ \A m \in Maps : named[m] =< made[m]
    /\ pin \in [Maps -> Nat] /\ \A m \in Maps : pin[m] =< made[m]
    /\ own \in [Maps -> Nat] /\ \A m \in Maps : own[m] =< made[m]
    /\ held \in [Maps -> Nat] /\ \A m \in Maps : held[m] =< made[m]

Controls ==
    /\ phase \in [Loaders -> {"down", "pinning", "pinned", "running"}]
    /\ next \in [Loaders -> {1, 2}]
    /\ loads \in [Loaders -> Nat]
    /\ lives \in [Loaders -> Nat]
    /\ agent \in {"down", "opening", "up"}
    /\ opened \in 0 .. 4
    /\ agent = "opening" => opened < 4
    /\ stops \in Nat

(* A loader that is not down has loaded its maps, in this life of the node, *)
(* and has pinned those it is past.                                         *)
Owned ==
    \A l \in Loaders : phase[l] # "down" =>
        /\ lives[l] > 0
        /\ \A m \in MapsOf(l) : own[m] # 0

PinnedSoFar ==
    \A l \in Loaders :
        /\ phase[l] = "pinning" /\ next[l] = 2 => pin[MapData(l)[1]] = own[MapData(l)[1]]
        /\ phase[l] \in {"pinned", "running"} =>
              \A m \in MapsOf(l) : pin[m] = own[m]

(* The map that is pinned by name is the only one of its name in use. *)
OneByName ==
    \A m \in ByName :
        /\ pin[m] \in {0, named[m]}
        /\ own[m] \in {0, named[m]}
        /\ held[m] \in {0, named[m]}

(* So is, of the other maps, the latest one, until the loader is started a  *)
(* second time.                                                             *)
OneLife ==
    /\ lives["metrics"] = 0 => \A m \in MapsOf("metrics") :
          pin[m] = 0 /\ own[m] = 0 /\ held[m] = 0
    /\ lives["metrics"] = 1 => \A m \in MapsOf("metrics") :
          /\ pin[m] \in {0, made[m]}
          /\ own[m] \in {0, made[m]}
          /\ held[m] \in {0, made[m]}

(* The agent holds what it has opened. *)
Holds ==
    /\ \A i \in 1 .. opened : held[Opened[i]] # 0
    /\ agent = "up" => opened = 4

IInv ==
    /\ Counts
    /\ Controls
    /\ Owned
    /\ PinnedSoFar
    /\ OneByName
    /\ OneLife
    /\ Holds

-----------------------------------------------------------------------------
(* The maps of the loaders, written out. *)

LEMMA TwoEach ==
    ASSUME NEW l \in Loaders
    PROVE  /\ Len(MapData(l)) = 2
           /\ DOMAIN MapData(l) = {1, 2}
           /\ MapData(l)[1] # MapData(l)[2]
           /\ MapsOf(l) = {MapData(l)[1], MapData(l)[2]}
           /\ MapsOf(l) \subseteq Maps
<1>1. CASE l = "identity"
  <2>1. MapData(l) = <<"events_map", "veth_identity_map">>
    BY <1>1 DEF MapData
  <2>2. Len(MapData(l)) = 2 /\ DOMAIN MapData(l) = {1, 2}
    BY <2>1
  <2>3. MapData(l)[1] = "events_map" /\ MapData(l)[2] = "veth_identity_map"
    BY <2>1
  <2> QED BY <2>2, <2>3 DEF MapsOf, Maps
<1>2. CASE l = "metrics"
  <2>1. MapData(l) = <<"time_stamp_events", "net_metrics">>
    BY <1>2 DEF MapData
  <2>2. Len(MapData(l)) = 2 /\ DOMAIN MapData(l) = {1, 2}
    BY <2>1
  <2>3. MapData(l)[1] = "time_stamp_events" /\ MapData(l)[2] = "net_metrics"
    BY <2>1
  <2> QED BY <2>2, <2>3 DEF MapsOf, Maps
<1> QED BY <1>1, <1>2 DEF Loaders

LEMMA MapsNamed ==
    /\ MapsOf("identity") = {"events_map", "veth_identity_map"}
    /\ MapsOf("metrics") = {"time_stamp_events", "net_metrics"}
    /\ Maps = {"events_map", "veth_identity_map", "time_stamp_events", "net_metrics"}
    /\ ByName = {"events_map", "veth_identity_map"}
<1>1. MapsOf("identity") = {"events_map", "veth_identity_map"}
  <2>1. MapData("identity") = <<"events_map", "veth_identity_map">>
    BY DEF MapData
  <2> QED BY <2>1, TwoEach DEF Loaders
<1>2. MapsOf("metrics") = {"time_stamp_events", "net_metrics"}
  <2>1. MapData("metrics") = <<"time_stamp_events", "net_metrics">>
    BY DEF MapData
  <2> QED BY <2>1, TwoEach DEF Loaders
<1> QED BY <1>1, <1>2 DEF Maps, Loaders, ByName

(* No map is of both loaders. *)
LEMMA Apart ==
    ASSUME NEW l \in Loaders, NEW k \in Loaders, NEW m \in MapsOf(l), l # k
    PROVE  m \notin MapsOf(k)
BY MapsNamed DEF Loaders

(* The agent opens every map, and each once. *)
LEMMA OpensEach ==
    /\ Len(Opened) = 4
    /\ \A i \in 1 .. 4 : Opened[i] \in Maps
    /\ Maps = {Opened[i] : i \in 1 .. 4}
    /\ \A i, j \in 1 .. 4 : Opened[i] = Opened[j] => i = j
BY MapsNamed DEF Opened

(* What a loader loads is named, if it is of those that are. *)
LEMMA LoadedMap ==
    ASSUME Counts, NEW m \in Maps
    PROVE  /\ Loaded(m) \in Nat \ {0}
           /\ Found(m) => Loaded(m) = named[m]
           /\ ~Found(m) => Loaded(m) = made[m] + 1
BY DEF Counts, Loaded, Found

-----------------------------------------------------------------------------
(* The invariant holds at the start and is kept by every step. *)

LEMMA InitHolds == Init => IInv
<1> SUFFICES ASSUME Init PROVE IInv
  OBVIOUS
<1>1. \A m \in Maps : Nothing[m] = 0
  BY DEF Nothing
<1>2. Nothing \in [Maps -> Nat]
  BY DEF Nothing
<1>3. ByName \subseteq Maps /\ MapsOf("metrics") \subseteq Maps
  BY MapsNamed
<1>4. Counts
  BY <1>1, <1>2 DEF Init, Counts
<1>5. Controls
  BY DEF Init, Controls
<1>6. Owned /\ PinnedSoFar
  BY DEF Init, Owned, PinnedSoFar
<1>7. OneByName /\ OneLife
  BY <1>1, <1>3 DEF Init, OneByName, OneLife
<1>8. Holds
  BY DEF Init, Holds
<1> QED BY <1>4, <1>5, <1>6, <1>7, <1>8 DEF IInv

LEMMA LoadKeeps ==
    ASSUME IInv, NEW l \in Loaders, Load(l)
    PROVE  IInv'
<1> USE DEF IInv
<1>1. /\ \A m \in Maps : Loaded(m) \in Nat \ {0}
      /\ \A m \in Maps : Found(m) => Loaded(m) = named[m]
      /\ \A m \in Maps : ~Found(m) => Loaded(m) = made[m] + 1
  BY LoadedMap
<1>2. ByName \subseteq Maps /\ ByName = MapsOf("identity")
  BY MapsNamed DEF ByName
<1>3. \A k \in Loaders : MapsOf(k) \subseteq Maps
  BY TwoEach
<1>4. \A k \in Loaders : \A m \in MapsOf(k) : k # l => m \notin MapsOf(l)
  BY Apart
<1>5. Counts'
  BY <1>1, <1>2, <1>3 DEF Load, Counts, agentVars
<1>6. Controls'
  BY DEF Load, Controls, agentVars
<1>7. Owned'
  BY <1>1, <1>3, <1>4 DEF Load, Owned, Controls, Counts
<1>8. PinnedSoFar'
  <2>1. ASSUME NEW k \in Loaders, k # l
        PROVE  /\ phase'[k] = phase[k] /\ next'[k] = next[k]
               /\ \A m \in MapsOf(k) : own'[m] = own[m]
    BY <2>1, <1>3, <1>4 DEF Load, Controls, Counts
  <2>2. phase'[l] = "pinning" /\ next'[l] = 1 /\ pin' = pin
    BY DEF Load, Controls
  <2>3. \A k \in Loaders : MapData(k)[1] \in MapsOf(k)
    BY TwoEach
  <2> QED BY <2>1, <2>2, <2>3 DEF PinnedSoFar
<1>9. OneByName'
  <2> SUFFICES ASSUME NEW m \in ByName
               PROVE  (/\ pin[m] \in {0, named[m]}
                       /\ own[m] \in {0, named[m]}
                       /\ held[m] \in {0, named[m]})'
    BY DEF OneByName, ByName
  <2>1. pin' = pin /\ held' = held
    BY DEF Load, agentVars
  <2>2. pin[m] \in {0, named[m]} /\ own[m] \in {0, named[m]} /\ held[m] \in {0, named[m]}
    BY DEF OneByName
  <2>3. CASE m \in MapsOf(l)
    <3>1. named'[m] = Loaded(m) /\ own'[m] = Loaded(m)
      BY <2>3, <1>2 DEF Load
    <3>2. named[m] = 0 \/ named'[m] = named[m]
      BY <3>1, <1>1, <1>2 DEF Found
    <3> QED BY <2>1, <2>2, <3>1, <3>2
  <2>4. CASE m \notin MapsOf(l)
    <3>1. named'[m] = named[m] /\ own'[m] = own[m]
      BY <2>4, <1>2 DEF Load
    <3> QED BY <2>1, <2>2, <3>1
  <2> QED BY <2>3, <2>4
<1>10. OneLife'
  <2>1. pin' = pin /\ held' = held
    BY DEF Load, agentVars
  <2>2. "metrics" \in Loaders
    BY DEF Loaders
  <2>3. CASE l = "metrics"
    <3>1. lives'["metrics"] = lives["metrics"] + 1 /\ lives["metrics"] \in Nat
      BY <2>2, <2>3 DEF Load, Controls
    <3>2. ASSUME NEW m \in MapsOf("metrics")
          PROVE  own'[m] = made[m] + 1 /\ made'[m] = made[m] + 1
      <4>1. m \in Maps /\ m \in MapsOf(l) /\ ~Found(m)
        BY <3>2, <2>2, <2>3, <1>3, MapsNamed DEF Found
      <4> QED BY <4>1, <1>1 DEF Load
    <3> QED BY <2>1, <3>1, <3>2 DEF OneLife
  <2>4. CASE l # "metrics"
    <3>1. lives'["metrics"] = lives["metrics"]
      BY <2>2, <2>4 DEF Load, Controls
    <3>2. ASSUME NEW m \in MapsOf("metrics")
          PROVE  own'[m] = own[m] /\ made'[m] = made[m]
      BY <3>2, <2>2, <2>4, <1>3, <1>4 DEF Load
    <3> QED BY <2>1, <3>1, <3>2 DEF OneLife
  <2> QED BY <2>3, <2>4
<1>11. Holds'
  BY DEF Load, Holds, agentVars
<1> QED BY <1>5, <1>6, <1>7, <1>8, <1>9, <1>10, <1>11

LEMMA RemovePinKeeps ==
    ASSUME IInv, NEW l \in Loaders, RemovePin(l)
    PROVE  IInv'
<1> USE DEF IInv
<1> DEFINE m0 == MapData(l)[next[l]]
<1>1. next[l] \in {1, 2} /\ m0 \in MapsOf(l) /\ m0 \in Maps
  BY TwoEach DEF Controls
<1>2. /\ pin' = [pin EXCEPT ![m0] = 0]
      /\ UNCHANGED <<made, named, own, phase, next, loads, lives, agentVars>>
  BY DEF RemovePin
<1>3. pin \in [Maps -> Nat]
  BY DEF Counts
<1>4. \A m \in Maps : pin'[m] \in {0, pin[m]}
  BY <1>2, <1>3
<1>5. Counts'
  BY <1>1, <1>2 DEF Counts, agentVars
<1>6. Controls' /\ Owned' /\ Holds'
  BY <1>2 DEF Controls, Owned, Holds, agentVars
<1>7. PinnedSoFar'
  <2>1. \A k \in Loaders : \A m \in MapsOf(k) : m # m0 => pin'[m] = pin[m]
    BY <1>2, <1>3, TwoEach
  <2>2. \A k \in Loaders : k # l => m0 \notin MapsOf(k)
    BY <1>1, Apart
  <2>3. phase[l] = "pinning"
    BY DEF RemovePin
  <2>4. next[l] = 2 => MapData(l)[1] # m0
    BY TwoEach
  <2>5. \A k \in Loaders : MapData(k)[1] \in MapsOf(k)
    BY TwoEach
  <2> QED BY <1>2, <2>1, <2>2, <2>3, <2>4, <2>5 DEF PinnedSoFar
<1>8. OneByName'
  <2>1. ByName \subseteq Maps
    BY MapsNamed
  <2> QED BY <1>2, <1>4, <2>1 DEF OneByName, agentVars, ByName
<1>9. OneLife'
  <2>1. MapsOf("metrics") \subseteq Maps
    BY MapsNamed
  <2> QED BY <1>2, <1>4, <2>1 DEF OneLife, agentVars
<1> QED BY <1>5, <1>6, <1>7, <1>8, <1>9

LEMMA PinKeeps ==
    ASSUME IInv, NEW l \in Loaders, Pin(l)
    PROVE  IInv'
<1> USE DEF IInv
<1> DEFINE m0 == MapData(l)[next[l]]
<1>1. next[l] \in {1, 2} /\ m0 \in MapsOf(l) /\ m0 \in Maps
  BY TwoEach DEF Controls
<1>2. /\ phase[l] = "pinning"
      /\ pin' = [pin EXCEPT ![m0] = own[m0]]
      /\ UNCHANGED <<made, named, own, loads, lives, agentVars>>
  BY DEF Pin
<1>3. pin \in [Maps -> Nat] /\ own \in [Maps -> Nat]
  BY DEF Counts
<1>4. \A m \in Maps : pin'[m] \in {pin[m], own[m]}
  BY <1>2, <1>3
<1>5. /\ next[l] = 1 => next' = [next EXCEPT ![l] = 2] /\ phase' = phase
      /\ next[l] = 2 => next' = next /\ phase' = [phase EXCEPT ![l] = "pinned"]
  <2>1. Len(MapData(l)) = 2
    BY TwoEach
  <2>2. Pinned(l)
    BY DEF Pin
  <2>3. CASE next[l] = 1
    BY <2>1, <2>2, <2>3 DEF Pinned
  <2>4. CASE next[l] = 2
    BY <2>1, <2>2, <2>4 DEF Pinned
  <2> QED BY <1>1, <2>3, <2>4
<1>6. Counts'
  BY <1>1, <1>2, <1>3 DEF Counts, agentVars
<1>7. Controls'
  BY <1>1, <1>2, <1>5 DEF Controls, agentVars
<1>8. Owned' /\ Holds'
  BY <1>1, <1>2, <1>5 DEF Controls, Owned, Holds, agentVars
<1>9. PinnedSoFar'
  <2>1. \A k \in Loaders : \A m \in MapsOf(k) : m # m0 => pin'[m] = pin[m]
    BY <1>2, <1>3, TwoEach
  <2>2. \A k \in Loaders : k # l => m0 \notin MapsOf(k)
    BY <1>1, Apart
  <2>3. pin'[m0] = own[m0]
    BY <1>1, <1>2, <1>3
  <2>4. \A k \in Loaders : MapData(k)[1] \in MapsOf(k)
    BY TwoEach
  <2>5. ASSUME NEW k \in Loaders, k # l
        PROVE  phase'[k] = phase[k] /\ next'[k] = next[k]
    BY <1>1, <1>5, <2>5 DEF Controls
  <2>6. CASE next[l] = 1
    <3>1. phase'[l] = "pinning" /\ pin'[MapData(l)[1]] = own[MapData(l)[1]]
      BY <1>2, <1>5, <2>3, <2>6
    <3> QED BY <1>2, <2>1, <2>2, <2>4, <2>5, <3>1 DEF PinnedSoFar
  <2>7. CASE next[l] = 2
    <3>1. phase'[l] = "pinned"
      BY <1>5, <2>7 DEF Controls
    <3>2. pin'[MapData(l)[1]] = own[MapData(l)[1]]
      BY <1>2, <2>1, <2>4, <2>7, TwoEach DEF PinnedSoFar
    <3>3. \A m \in MapsOf(l) : pin'[m] = own[m]
      BY <2>3, <2>7, <3>2, TwoEach
    <3> QED BY <1>2, <2>1, <2>2, <2>4, <2>5, <3>1, <3>3 DEF PinnedSoFar
  <2> QED BY <1>1, <2>6, <2>7
<1>10. OneByName'
  <2>1. ByName \subseteq Maps
    BY MapsNamed
  <2> QED BY <1>2, <1>4, <2>1 DEF OneByName, agentVars, ByName
<1>11. OneLife'
  <2>1. MapsOf("metrics") \subseteq Maps
    BY MapsNamed
  <2> QED BY <1>2, <1>4, <2>1 DEF OneLife, agentVars
<1> QED BY <1>6, <1>7, <1>8, <1>9, <1>10, <1>11

LEMMA AttachKeeps ==
    ASSUME IInv, NEW l \in Loaders, Attach(l)
    PROVE  IInv'
<1> USE DEF IInv
<1>1. /\ phase[l] = "pinned"
      /\ phase' = [phase EXCEPT ![l] = "running"]
      /\ UNCHANGED <<made, named, pin, own, next, loads, lives, agentVars>>
  BY DEF Attach
<1>2. Counts' /\ OneLife' /\ Holds'
  BY <1>1 DEF Counts, OneLife, Holds, agentVars
<1>3. OneByName'
  BY <1>1 DEF OneByName, agentVars, ByName
<1>4. Controls' /\ Owned' /\ PinnedSoFar'
  BY <1>1 DEF Controls, Owned, PinnedSoFar, agentVars
<1> QED BY <1>2, <1>3, <1>4

LEMMA StopKeeps ==
    ASSUME IInv, NEW l \in Loaders, Stop(l)
    PROVE  IInv'
<1> USE DEF IInv
<1>1. /\ phase' = [phase EXCEPT ![l] = "down"]
      /\ own' = [m \in Maps |-> IF m \in MapsOf(l) THEN 0 ELSE own[m]]
      /\ UNCHANGED <<made, named, pin, next, loads, lives, agentVars>>
  BY DEF Stop
<1>2. \A m \in Maps : own'[m] \in {0, own[m]}
  BY <1>1
<1>3. ByName \subseteq Maps /\ MapsOf("metrics") \subseteq Maps
  BY MapsNamed
<1>4. ASSUME NEW k \in Loaders, k # l
      PROVE  /\ phase'[k] = phase[k]
             /\ \A m \in MapsOf(k) : own'[m] = own[m]
  BY <1>1, <1>4, Apart, TwoEach DEF Controls
<1>5. phase'[l] = "down"
  BY <1>1 DEF Controls
<1>6. Counts'
  BY <1>1 DEF Counts, agentVars
<1>7. Controls' /\ Holds'
  BY <1>1 DEF Controls, Holds, agentVars
<1>8. Owned'
  BY <1>1, <1>4, <1>5 DEF Owned
<1>9. PinnedSoFar'
  <2>1. \A k \in Loaders : MapData(k)[1] \in MapsOf(k)
    BY TwoEach
  <2> QED BY <1>1, <1>4, <1>5, <2>1 DEF PinnedSoFar
<1>10. OneByName'
  BY <1>1, <1>2, <1>3 DEF OneByName, agentVars, ByName
<1>11. OneLife'
  BY <1>1, <1>2, <1>3 DEF OneLife, agentVars
<1> QED BY <1>6, <1>7, <1>8, <1>9, <1>10, <1>11

LEMMA AgentKeeps ==
    ASSUME IInv, AgentStart \/ Panic \/ AgentStop
    PROVE  IInv'
<1> USE DEF IInv
<1>1. /\ UNCHANGED loaderVars
      /\ held' = Nothing /\ opened' = 0
      /\ agent' \in {"down", "opening"}
      /\ stops' \in {stops, stops + 1}
  BY DEF AgentStart, Panic, AgentStop, Down
<1>2. \A m \in Maps : held'[m] = 0
  BY <1>1 DEF Nothing
<1>3. held' \in [Maps -> Nat]
  BY <1>1 DEF Nothing
<1>4. ByName \subseteq Maps /\ MapsOf("metrics") \subseteq Maps
  BY MapsNamed
<1>5. Counts'
  BY <1>1, <1>2, <1>3 DEF Counts, loaderVars
<1>6. Controls'
  BY <1>1 DEF Controls, loaderVars
<1>7. Owned' /\ PinnedSoFar'
  BY <1>1 DEF Owned, PinnedSoFar, loaderVars
<1>8. OneByName'
  BY <1>1, <1>2, <1>4 DEF OneByName, loaderVars, ByName
<1>9. OneLife'
  BY <1>1, <1>2, <1>4 DEF OneLife, loaderVars
<1>10. Holds'
  BY <1>1 DEF Holds
<1> QED BY <1>5, <1>6, <1>7, <1>8, <1>9, <1>10

LEMMA OpenPinKeeps ==
    ASSUME IInv, OpenPin
    PROVE  IInv'
<1> USE DEF IInv
<1> DEFINE m0 == Opened[opened + 1]
<1>1. agent = "opening" /\ opened \in 0 .. 3
  BY DEF OpenPin, Controls
<1>2. m0 \in Maps
  BY <1>1, OpensEach
<1>3. /\ pin[m0] # 0
      /\ held' = [held EXCEPT ![m0] = pin[m0]]
      /\ opened' = opened + 1
      /\ agent' = IF opened + 1 = 4 THEN "up" ELSE "opening"
      /\ UNCHANGED <<loaderVars, stops>>
  BY OpensEach DEF OpenPin
<1>4. held \in [Maps -> Nat] /\ pin \in [Maps -> Nat]
  BY DEF Counts
<1>5. \A m \in Maps : held'[m] = IF m = m0 THEN pin[m] ELSE held[m]
  BY <1>3, <1>4
<1>6. ByName \subseteq Maps /\ MapsOf("metrics") \subseteq Maps
  BY MapsNamed
<1>7. Counts'
  BY <1>2, <1>3, <1>4 DEF Counts, loaderVars
<1>8. Controls'
  BY <1>1, <1>3 DEF Controls, loaderVars
<1>9. Owned' /\ PinnedSoFar'
  BY <1>3 DEF Owned, PinnedSoFar, loaderVars
<1>10. OneByName'
  BY <1>3, <1>5, <1>6 DEF OneByName, loaderVars, ByName
<1>11. OneLife'
  BY <1>3, <1>5, <1>6 DEF OneLife, loaderVars
<1>12. Holds'
  <2>1. ASSUME NEW i \in 1 .. opened + 1
        PROVE  held'[Opened[i]] # 0
    <3>1. Opened[i] \in Maps
      BY <1>1, <2>1, OpensEach
    <3>2. CASE i = opened + 1
      BY <1>2, <1>3, <1>5, <3>2
    <3>3. CASE i \in 1 .. opened
      <4>1. held[Opened[i]] # 0
        BY <3>3 DEF Holds
      <4>2. Opened[i] # m0
        BY <1>1, <3>3, OpensEach
      <4> QED BY <1>5, <3>1, <4>1, <4>2
    <3> QED BY <1>1, <2>1, <3>2, <3>3
  <2>2. agent' = "up" => opened' = 4
    BY <1>3
  <2> QED BY <1>3, <2>1, <2>2 DEF Holds
<1> QED BY <1>7, <1>8, <1>9, <1>10, <1>11, <1>12

LEMMA RebootKeeps ==
    ASSUME IInv, Reboot
    PROVE  IInv'
<1> USE DEF IInv
<1>1. /\ named' = Nothing /\ pin' = Nothing /\ own' = Nothing /\ held' = Nothing
      /\ phase' = [l \in Loaders |-> "down"]
      /\ lives' = [l \in Loaders |-> 0]
      /\ agent' = "down" /\ opened' = 0 /\ stops' = stops + 1
      /\ UNCHANGED <<made, next, loads>>
  BY DEF Reboot, Down
<1>2. \A m \in Maps : Nothing[m] = 0
  BY DEF Nothing
<1>3. Nothing \in [Maps -> Nat]
  BY DEF Nothing
<1>4. ByName \subseteq Maps /\ MapsOf("metrics") \subseteq Maps /\ "metrics" \in Loaders
  BY MapsNamed DEF Loaders
<1>5. Counts'
  BY <1>1, <1>2, <1>3 DEF Counts
<1>6. Controls'
  BY <1>1 DEF Controls
<1>7. Owned' /\ PinnedSoFar'
  BY <1>1 DEF Owned, PinnedSoFar
<1>8. OneByName'
  BY <1>1, <1>2, <1>4 DEF OneByName, ByName
<1>9. OneLife'
  BY <1>1, <1>2, <1>4 DEF OneLife
<1>10. Holds'
  BY <1>1 DEF Holds
<1> QED BY <1>5, <1>6, <1>7, <1>8, <1>9, <1>10

LEMMA StutterKeeps ==
    ASSUME IInv, UNCHANGED vars
    PROVE  IInv'
<1> USE DEF vars, loaderVars, agentVars
<1>1. Counts' /\ Controls' /\ Owned' /\ PinnedSoFar' /\ OneLife' /\ Holds'
  BY DEF IInv, Counts, Controls, Owned, PinnedSoFar, OneLife, Holds
<1>2. OneByName'
  BY DEF IInv, OneByName, ByName
<1> QED BY <1>1, <1>2 DEF IInv

(* In every state, what is pinned, loaded or held under one of identity's  *)
(* names is the one map of that name, and what is so of metrics is the map *)
(* of its only life, as long as it had one: whatever the order of          *)
(* init_bpf_maps, map_pinner, AgentApi::default, failures and restarts.    *)
THEOREM PinsInvariant == Spec => []IInv
<1>1. ASSUME IInv, [Next]_vars
      PROVE  IInv'
  <2>1. ASSUME NEW l \in Loaders, Load(l) PROVE IInv'
    BY <1>1, <2>1, LoadKeeps
  <2>2. ASSUME NEW l \in Loaders, RemovePin(l) PROVE IInv'
    BY <1>1, <2>2, RemovePinKeeps
  <2>3. ASSUME NEW l \in Loaders, Pin(l) PROVE IInv'
    BY <1>1, <2>3, PinKeeps
  <2>4. ASSUME NEW l \in Loaders, Attach(l) PROVE IInv'
    BY <1>1, <2>4, AttachKeeps
  <2>5. ASSUME NEW l \in Loaders, Stop(l) PROVE IInv'
    BY <1>1, <2>5, StopKeeps
  <2>6. CASE AgentStart \/ Panic \/ AgentStop
    BY <1>1, <2>6, AgentKeeps
  <2>7. CASE OpenPin
    BY <1>1, <2>7, OpenPinKeeps
  <2>8. CASE Reboot
    BY <1>1, <2>8, RebootKeeps
  <2>9. CASE UNCHANGED vars
    BY <1>1, <2>9, StutterKeeps
  <2> QED BY <1>1, <2>1, <2>2, <2>3, <2>4, <2>5, <2>6, <2>7, <2>8, <2>9 DEF Next
<1> QED BY InitHolds, <1>1, PTL DEF Spec

-----------------------------------------------------------------------------
(* Every variable keeps its type. *)
THEOREM TypeCorrect == Spec => []TypeOK
<1>1. IInv => TypeOK
  <2> SUFFICES ASSUME IInv PROVE TypeOK
    OBVIOUS
  <2>1. \A l \in Loaders : next[l] \in DOMAIN MapData(l)
    BY TwoEach DEF IInv, Controls
  <2>2. Len(Opened) = 4
    BY OpensEach
  <2> QED BY <2>1, <2>2 DEF IInv, Counts, Controls, TypeOK
<1> QED BY <1>1, PinsInvariant, PTL

(* While the programs of a loader run, the pins under its directory lead   *)
(* to the maps they write.                                                 *)
THEOREM PinsLeadToWritten == Spec => []PinnedIsWritten
<1>1. IInv => PinnedIsWritten
  BY DEF IInv, PinnedSoFar, PinnedIsWritten
<1> QED BY <1>1, PinsInvariant, PTL

(* An agent that is up reads the maps that are written: those of identity  *)
(* whatever restarts, those of metrics in its first life since the node    *)
(* was booted.                                                             *)
THEOREM ReadsWritten == Spec => []AgentReadsWritten
<1>1. IInv => AgentReadsWritten
  <2> SUFFICES ASSUME IInv, agent = "up", NEW l \in Loaders, NEW m \in MapsOf(l),
                      phase[l] = "running", l = "identity" \/ lives[l] = 1
               PROVE  held[m] = own[m]
    BY DEF AgentReadsWritten
  <2>1. m \in Maps
    BY TwoEach
  <2>2. held[m] # 0
    BY <2>1, OpensEach DEF IInv, Holds
  <2>3. own[m] # 0
    BY DEF IInv, Owned
  <2>4. CASE l = "identity"
    <3>1. m \in ByName
      BY <2>4 DEF ByName
    <3> QED BY <2>2, <2>3, <3>1 DEF IInv, OneByName
  <2>5. CASE l = "metrics" /\ lives[l] = 1
    BY <2>2, <2>3, <2>5 DEF IInv, OneLife
  <2> QED BY <2>4, <2>5 DEF Loaders
<1> QED BY <1>1, PinsInvariant, PTL

-----------------------------------------------------------------------------
(* How far the agent is from being up: a start, and a pin each. *)
Ahead == IF agent = "up" THEN 0 ELSE IF agent = "opening" THEN 4 - opened ELSE 5

(* While both loaders run, a pin that the agent comes to is there, and     *)
(* whatever happens is a step that brings it nearer to being up, or a stop *)
(* from outside.                                                           *)
OpensPinByPin ==
    [][(\A l \in Loaders : phase[l] = "running" /\ phase'[l] = "running") =>
          /\ agent = "opening" => pin[Opened[opened + 1]] # 0
          /\ pin' = pin
          /\ \/ Ahead' < Ahead
             \/ stops < MaxStops /\ stops' = stops + 1]_vars

(* The safety part of what brings the agent up: it cannot go round between *)
(* its start and a panic, whatever it was started before, and whatever     *)
(* pins of earlier lives there were.                                       *)
THEOREM AgentCannotLoop == Spec => OpensPinByPin
<1> DEFINE GetsOn ==
      (\A l \in Loaders : phase[l] = "running" /\ phase'[l] = "running") =>
          /\ agent = "opening" => pin[Opened[opened + 1]] # 0
          /\ pin' = pin
          /\ \/ Ahead' < Ahead
             \/ stops < MaxStops /\ stops' = stops + 1
<1>1. IInv /\ [Next]_vars => [GetsOn]_vars
  <2> SUFFICES ASSUME IInv, Next,
                      \A l \in Loaders : phase[l] = "running" /\ phase'[l] = "running"
               PROVE  GetsOn
    OBVIOUS
  <2>1. \A m \in Maps : pin[m] # 0
    <3>1. ASSUME NEW l \in Loaders, NEW m \in MapsOf(l) PROVE pin[m] # 0
      BY <3>1 DEF IInv, Owned, PinnedSoFar
    <3> QED BY <3>1 DEF Maps
  <2>2. /\ agent \in {"down", "opening", "up"} /\ opened \in 0 .. 4
        /\ agent = "opening" => opened \in 0 .. 3
    BY DEF IInv, Controls
  <2>3. agent = "opening" => pin[Opened[opened + 1]] # 0
    BY <2>1, <2>2, OpensEach
  <2>4. AgentStart \/ OpenPin \/ AgentStop
    <3>1. \A l \in Loaders : ~Load(l) /\ ~RemovePin(l) /\ ~Pin(l) /\ ~Attach(l)
      BY DEF Load, RemovePin, Pin, Attach
    <3>2. \A l \in Loaders : ~Stop(l)
      BY DEF Stop, IInv, Controls
    <3>3. ~Reboot
      BY DEF Reboot, Loaders
    <3>4. ~Panic
      BY <2>3 DEF Panic
    <3> QED BY <3>1, <3>2, <3>3, <3>4 DEF Next
  <2>5. pin' = pin
    BY <2>4 DEF AgentStart, OpenPin, AgentStop, loaderVars
  <2>6. CASE AgentStart
    <3>1. agent = "down" /\ agent' = "opening" /\ opened' = 0
      BY <2>6 DEF AgentStart
    <3> QED BY <2>3, <2>5, <3>1 DEF Ahead
  <2>7. CASE OpenPin
    <3>1. /\ agent = "opening" /\ opened \in 0 .. 3 /\ opened' = opened + 1
          /\ agent' = IF opened + 1 = 4 THEN "up" ELSE "opening"
      BY <2>2, <2>7, OpensEach DEF OpenPin
    <3> QED BY <2>3, <2>5, <3>1 DEF Ahead
  <2>8. CASE AgentStop
    BY <2>3, <2>5, <2>8 DEF AgentStop
  <2> QED BY <2>4, <2>6, <2>7, <2>8
<1> QED BY <1>1, PinsInvariant, PTL DEF Spec, OpensPinByPin
=============================================================================
