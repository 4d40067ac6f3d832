------------------------------ MODULE Blocklist ------------------------------
(***************************************************************************)
(* The blocklist.  It lives in two places: the kernel's hash map           *)
(* Blocklist, which the TC classifier reads, and the ConfigMap             *)
(* cortexbrain-client-config, from which identity fills the map whenever   *)
(* it starts.  cfcli changes both, one after the other: the map through a  *)
(* gRPC call of the agent, the ConfigMap by reading it from the Kubernetes *)
(* API and writing it back.  cfcli, or Helm, also makes the ConfigMap and  *)
(* deploys identity and the agent, and cfcli removes them; the kernel map, *)
(* pinned on the node, stays.                                              *)
(*                                                                         *)
(* identity pins the map as maps/Blocklist; the agent opens                *)
(* maps/blocklist_map.  Only a link made by the deployment, which nothing  *)
(* in the repository makes, leads from one to the other.                   *)
(***************************************************************************)
EXTENDS Naturals, FiniteSets, SequencesExt

CONSTANTS
    Addresses,   \* IPv4 addresses, as the tuples of their bytes
    Malformed,   \* other arguments a user may give to cfcli
    Clis,        \* invocations of cfcli that may be in progress at once
    Charts,      \* the lists with which Helm may install the ConfigMap
    Links,       \* whether the deployment makes that link: TRUE, FALSE or both
    MapCapacity, \* capacity of the kernel map (1024)
    MaxCommands, \* bound: commands given to cfcli
    MaxStarts,   \* bound: starts of identity
    MaxInstalls  \* bound: installations and uninstallations by cfcli

ASSUME BlocklistAssumption ==
    /\ Addresses \cap Malformed = {}
    /\ Charts \subseteq Seq(Addresses \cup Malformed)
    /\ Links \subseteq BOOLEAN
    /\ MapCapacity \in Nat \ {0}
    /\ MaxCommands \in Nat
    /\ MaxStarts \in Nat
    /\ MaxInstalls \in Nat

VARIABLES
    linked,    \* maps/blocklist_map leads to maps/Blocklist
    blocked,   \* the keys of the kernel map
    listed,    \* the ConfigMap's list, line by line; empty if there is none
    configmap, \* there is a ConfigMap
    namespace, \* of all that is deployed: "absent", "active" or "terminating"
    deployed,  \* which of "identity" and "agent" are deployed
    installer, \* what cfcli install does next: "idle", "config", "identity"
               \* or "agent"
    installs,  \* installations and uninstallations so far
    cli,       \* cli[c]: what c is doing, with which argument, what it read
    identity,  \* "down", "loading", "pinned", "populating", "up", or "failed"
               \* on a malformed line, or on a missing ConfigMap
    pending,   \* the addresses identity still has to insert
    commands,  \* commands given so far
    starts,    \* starts of identity so far
    pinned,    \* the kernel map is pinned as maps/Blocklist
    excused    \* history: the addresses that were taken out of the map or found
               \* it full; all of them after a reboot in the middle of a command,
               \* those a command writes back after an uninstallation

kernelVars == <<blocked, pinned, excused>>
identityVars == <<identity, pending, starts>>
cliVars == <<cli, commands>>
clusterVars == <<linked, namespace, deployed, installer, installs>>
listVars == <<configmap, listed>>
vars == <<kernelVars, listVars, clusterVars, identityVars, cliVars>>

Inputs == Addresses \cup Malformed

Idle == [at |-> "idle"]
Commands == {"add", "delete"}
Job == [at : {"call", "read", "write", "error"}, command : Commands, ip : Inputs,
        ips : Seq(Inputs)]

Init ==
    /\ linked \in Links
    /\ blocked = {}
    /\ \/ /\ configmap = TRUE /\ listed \in Charts
          /\ namespace = "active" /\ deployed = {"identity", "agent"}
       \/ /\ configmap = FALSE /\ listed = <<>>
          /\ namespace = "absent" /\ deployed = {}
    /\ installer = "idle"
    /\ installs = 0
    /\ cli = [c \in Clis |-> Idle]
    /\ identity = "down"
    /\ pending = <<>>
    /\ commands = 0
    /\ starts = 0
    /\ pinned = FALSE
    /\ excused = {}

Done(c) == cli' = [cli EXCEPT ![c] = Idle]

-----------------------------------------------------------------------------
(* The agent's handlers.  Where they unwrap an error they panic, and the    *)
(* call ends in an error.                                                   *)

(* Fault: a map without a capacity. *)
RoomForAll(ip) == ip \in Addresses

HasRoom(ip) == ip \in blocked \/ Cardinality(blocked) < MapCapacity

Insert(ip) ==
    /\ blocked' = blocked \cup {ip}
    /\ excused' = excused \ {ip}

AgentRuns == "agent" \in deployed

(* MapData::from_pin finds the map. *)
Opens == pinned /\ linked

(* What ends a handler before it changes the map. *)
Panics(command, ip) ==
    \/ ~Opens
    \/ ip \notin Addresses
    \/ command = "add" /\ ~HasRoom(ip)

(* Fault: an argument that is stored without being parsed. *)
add_unparsed(ip) == HasRoom(ip) /\ Insert(ip)

add_ip_to_blocklist(ip) ==
    /\ ip \in Addresses
    /\ HasRoom(ip)
    /\ Insert(ip)

(* The outcome of the map's remove is ignored. *)
rm_ip_from_blocklist(ip) ==
    /\ ip \in Addresses
    /\ blocked' = blocked \ {ip}
    /\ excused' = excused \cup {ip}

Handler(command, ip) ==
    \/ command = "add" /\ add_ip_to_blocklist(ip)
    \/ command = "delete" /\ rm_ip_from_blocklist(ip)

-----------------------------------------------------------------------------
(* cfcli *)

Command(c, command, ip) ==
    /\ cli[c] = Idle
    /\ commands < MaxCommands
    /\ commands' = commands + 1
    /\ cli' = [cli EXCEPT ![c] = [at |-> "call", command |-> command, ip |-> ip,
                                  ips |-> <<>>]]
    /\ UNCHANGED <<kernelVars, listVars, clusterVars, identityVars>>

(* A call the agent carries out; its answer may be lost. *)
CallAgent(c) ==
    /\ cli[c].at = "call"
    /\ AgentRuns /\ Opens
    /\ Handler(cli[c].command, cli[c].ip)
    /\ \E next \in {"read", "error"} : cli' = [cli EXCEPT ![c].at = next]
    /\ UNCHANGED <<pinned, listVars, clusterVars, identityVars, commands>>

(* A call that ends in an error and changes nothing. *)
CallPanics(c) ==
    /\ cli[c].at = "call"
    /\ AgentRuns /\ Panics(cli[c].command, cli[c].ip)
    /\ cli' = [cli EXCEPT ![c].at = "error"]
    /\ UNCHANGED <<kernelVars, listVars, clusterVars, identityVars, commands>>

(* The first half of update_config_metadata: read_configs. *)
ReadConfigs(c) ==
    /\ cli[c].at = "read"
    /\ configmap
    /\ cli' = [cli EXCEPT ![c].at = "write", ![c].ips = listed]
    /\ UNCHANGED <<kernelVars, listVars, clusterVars, identityVars, commands>>

(* Add pushes the address; delete removes its first occurrence. *)
NewConfigs(command, ip, ips) ==
    IF command = "add" THEN Append(ips, ip)
                       ELSE RemoveFirst(ips, ip)

(* The second half: the patch, an apply, replaces the list, whatever it is  *)
(* by now, and makes the ConfigMap if there is none.                        *)
UpdateConfigmap(c) ==
    /\ cli[c].at = "write"
    /\ namespace = "active"
    /\ cli[c].command = "delete" => Contains(cli[c].ips, cli[c].ip)
    /\ configmap' = TRUE
    /\ listed' = NewConfigs(cli[c].command, cli[c].ip, cli[c].ips)
    /\ Done(c)
    /\ UNCHANGED <<kernelVars, clusterVars, identityVars, commands>>

(* An error of the agent, of the network, of the Kubernetes API or of the  *)
(* search for the address, what is not there, or the end of the process:   *)
(* cfcli returns, and what was done stays done.                            *)
GiveUp(c) ==
    /\ cli[c] # Idle
    /\ Done(c)
    /\ UNCHANGED <<kernelVars, listVars, clusterVars, identityVars, commands>>

-----------------------------------------------------------------------------
(* cfcli install and uninstall, one at a time *)

Installing ==
    /\ installs < MaxInstalls
    /\ installs' = installs + 1
    /\ UNCHANGED <<linked, kernelVars, identityVars, cliVars>>

(* Fault: the manifests are applied before the ConfigMap is made. *)
InstallManifestsFirst ==
    /\ Installing
    /\ installer = "idle"
    /\ installer' = "identity"
    /\ namespace' = IF namespace = "absent" THEN "active" ELSE namespace
    /\ UNCHANGED <<listVars, deployed>>

(* Whether the namespace can be made is not asked. *)
InstallCortexflow ==
    /\ Installing
    /\ installer = "idle"
    /\ installer' = "config"
    /\ namespace' = IF namespace = "absent" THEN "active" ELSE namespace
    /\ UNCHANGED <<listVars, deployed>>

(* create_config_file makes a ConfigMap with an empty list, and fails if    *)
(* there is one.                                                            *)
NewConfigmap ==
    /\ namespace = "active"
    /\ ~configmap
    /\ configmap' = TRUE
    /\ listed' = <<>>

CreateConfigFile ==
    /\ installer = "config"
    /\ NewConfigmap
    /\ installer' = "identity"
    /\ UNCHANGED <<linked, kernelVars, namespace, deployed, installs, identityVars, cliVars>>

(* Of the manifests, identity's comes before the agent's. *)
ApplyComponent ==
    /\ installer \in {"identity", "agent"}
    /\ namespace = "active"
    /\ deployed' = deployed \cup {installer}
    /\ installer' = IF installer = "identity" THEN "agent" ELSE "idle"
    /\ UNCHANGED <<linked, kernelVars, listVars, namespace, installs, identityVars, cliVars>>

(* Any step may fail; what was made stays. *)
InstallFails ==
    /\ installer # "idle"
    /\ installer' = "idle"
    /\ UNCHANGED <<linked, kernelVars, listVars, namespace, deployed, installs,
                   identityVars, cliVars>>

(* cfcli install blocklist: the ConfigMap alone. *)
InstallBlocklist ==
    /\ Installing
    /\ NewConfigmap
    /\ UNCHANGED <<namespace, deployed, installer>>

(* The addresses that commands in progress have read and will write back. *)
ReadBefore == UNION {ToSet(cli[c].ips) : c \in {d \in Clis : cli[d].at = "write"}}

(* The namespace is deleted with all that is in it; the pod of identity is  *)
(* stopped some time later.                                                 *)
UninstallAll ==
    /\ installs < MaxInstalls
    /\ installs' = installs + 1
    /\ namespace = "active"
    /\ namespace' = "terminating"
    /\ configmap' = FALSE
    /\ listed' = <<>>
    /\ deployed' = {}
    /\ excused' = excused \cup (ReadBefore \cap Addresses)
    /\ UNCHANGED <<linked, blocked, pinned, installer, identityVars, cliVars>>

NamespaceGone ==
    /\ namespace = "terminating"
    /\ identity = "down"
    /\ namespace' = "absent"
    /\ UNCHANGED <<linked, kernelVars, listVars, deployed, installer, installs,
                   identityVars, cliVars>>

UninstallIdentity ==
    /\ Installing
    /\ "identity" \in deployed
    /\ deployed' = deployed \ {"identity"}
    /\ UNCHANGED <<listVars, namespace, installer>>

-----------------------------------------------------------------------------
(* The TC classifier, compiled for a little-endian target. *)

(* load::<u32> copies the four bytes of the packet into an integer of the  *)
(* machine; to_be_bytes lists that integer's bytes from the highest one.   *)
SourceKey(src) == Reverse(src)

try_identity_classifier(src) ==
    IF SourceKey(src) \in blocked THEN "TC_ACT_SHOT" ELSE "TC_ACT_OK"

-----------------------------------------------------------------------------
(* identity *)

(* Loading the object opens the map that is pinned by name, with what it    *)
(* holds, or makes a new one; map_pinner then removes maps/Blocklist ...    *)
Start ==
    /\ identity = "down"
    /\ "identity" \in deployed
    /\ starts < MaxStarts
    /\ starts' = starts + 1
    /\ identity' = "loading"
    /\ pinned' = FALSE
    /\ UNCHANGED <<blocked, excused, listVars, clusterVars, pending, cliVars>>

(* ... and pins the map there. *)
Pin ==
    /\ identity = "loading"
    /\ identity' = "pinned"
    /\ pinned' = TRUE
    /\ UNCHANGED <<blocked, excused, listVars, clusterVars, pending, starts, cliVars>>

(* populate_blocklist reads the ConfigMap, then inserts line by line. *)
ReadList ==
    /\ identity = "pinned"
    /\ configmap
    /\ identity' = "populating"
    /\ pending' = listed
    /\ UNCHANGED <<kernelVars, listVars, clusterVars, starts, cliVars>>

(* Without a ConfigMap populate_blocklist, and main, ends in an error ... *)
ReadListFails ==
    /\ identity = "pinned"
    /\ ~configmap
    /\ identity' = "failed"
    /\ UNCHANGED <<kernelVars, listVars, clusterVars, pending, starts, cliVars>>

(* An insert that fails is ignored. *)
Populate ==
    /\ identity = "populating"
    /\ pending # <<>>
    /\ Head(pending) \in Addresses
    /\ \/ /\ HasRoom(Head(pending))
          /\ Insert(Head(pending))
       \/ /\ ~HasRoom(Head(pending))
          /\ excused' = excused \cup {Head(pending)}
          /\ UNCHANGED blocked
    /\ pending' = Tail(pending)
    /\ UNCHANGED <<pinned, listVars, clusterVars, identity, starts, cliVars>>

(* ... and so it does on a line that is not an address: the classifier is   *)
(* never attached.                                                          *)
PopulateFails ==
    /\ identity = "populating"
    /\ pending # <<>>
    /\ Head(pending) \notin Addresses
    /\ identity' = "failed"
    /\ UNCHANGED <<kernelVars, listVars, clusterVars, pending, starts, cliVars>>

(* Fault: the classifier attached before the list is inserted. *)
AttachAtOnce ==
    /\ identity = "populating"
    /\ identity' = "up"
    /\ UNCHANGED <<kernelVars, listVars, clusterVars, pending, starts, cliVars>>

AttachClassifier ==
    /\ identity = "populating"
    /\ pending = <<>>
    /\ identity' = "up"
    /\ UNCHANGED <<kernelVars, listVars, clusterVars, pending, starts, cliVars>>

(* The pod is restarted; the pinned map stays. *)
Stop ==
    /\ identity # "down"
    /\ identity' = "down"
    /\ pending' = <<>>
    /\ UNCHANGED <<kernelVars, listVars, clusterVars, starts, cliVars>>

(* The node is rebooted: the BPF file system and its maps are gone.  cfcli *)
(* runs elsewhere and goes on.                                             *)
Reboot ==
    /\ starts > 0
    /\ identity' = "down"
    /\ pending' = <<>>
    /\ blocked' = {}
    /\ pinned' = FALSE
    /\ \/ /\ \A c \in Clis : cli[c] = Idle
          /\ UNCHANGED excused
       \/ /\ \E c \in Clis : cli[c] # Idle
          /\ excused' = Addresses
    /\ UNCHANGED <<listVars, clusterVars, starts, cliVars>>

Next ==
    \/ \E c \in Clis, command \in Commands, ip \in Inputs : Command(c, command, ip)
    \/ \E c \in Clis : CallAgent(c)
    \/ \E c \in Clis : CallPanics(c)
    \/ \E c \in Clis : ReadConfigs(c)
    \/ \E c \in Clis : UpdateConfigmap(c)
    \/ \E c \in Clis : GiveUp(c)
    \/ InstallCortexflow
    \/ CreateConfigFile
    \/ ApplyComponent
    \/ InstallFails
    \/ InstallBlocklist
    \/ UninstallAll
    \/ NamespaceGone
    \/ UninstallIdentity
    \/ Start
    \/ Pin
    \/ ReadList
    \/ ReadListFails
    \/ Populate
    \/ PopulateFails
    \/ AttachClassifier
    \/ Stop
    \/ Reboot

Spec == Init /\ [][Next]_vars

-----------------------------------------------------------------------------
(* Type invariant. *)
TypeOK ==
    /\ linked \in Links
    /\ blocked \subseteq Addresses
    /\ Cardinality(blocked) =< MapCapacity
    /\ configmap \in BOOLEAN /\ listed \in Seq(Inputs)
    /\ namespace \in {"absent", "active", "terminating"}
    /\ deployed \subseteq {"identity", "agent"}
    /\ installer \in {"idle", "config", "identity", "agent"}
    /\ installs \in Nat
    /\ cli \in [Clis -> Job \cup {Idle}]
    /\ identity \in {"down", "loading", "pinned", "populating", "up", "failed"}
    /\ pending \in Seq(Inputs)
    /\ commands \in Nat
    /\ starts \in Nat
    /\ pinned \in BOOLEAN
    /\ excused \subseteq Addresses

(* Whatever commands interleave, fail half-way or overwrite each other's   *)
(* list, and whatever is lost with the kernel map, an identity that is up  *)
(* blocks every address on the list, but those a command took out of the   *)
(* map again, those it was too full for, those it read from a ConfigMap    *)
(* that was then uninstalled and, when the node is rebooted in the middle  *)
(* of a command, those that were not inserted since.                       *)
ListedIsBlocked ==
    identity = "up" => ToSet(listed) \cap Addresses \subseteq blocked \cup excused

(* Whatever installations fail, are repeated or undone, identity is never   *)
(* deployed where it would find no list and end in an error at every start. *)
ListBeforeIdentity == "identity" \in deployed => configmap

(* A line that would end every later start of identity never comes from a  *)
(* command's argument, which the agent refuses before the list is written. *)
(* A command may only bring one back that it read before an uninstallation. *)
CommandsListAddresses ==
    [][ToSet(listed') \ ToSet(listed) \subseteq Addresses \cup ReadBefore]_vars

(* What the comment above try_identity_classifier says of the blocklist,   *)
(* that the addresses in it are blocked.                                   *)
BlockedIsDropped ==
    identity = "up" =>
        \A src \in blocked : try_identity_classifier(src) = "TC_ACT_SHOT"
=============================================================================
