---------------------------- MODULE VethTracking ----------------------------
(***************************************************************************)
(* Which interfaces identity watches.  A start of identity loads the       *)
(* tracers of created and deleted interfaces, lists the interfaces there   *)
(* are, fills the blocklist, attaches the classifier to the listed ones,   *)
(* one by one, and opens its rings at last.  Interfaces come and go all    *)
(* the while, and their names are used again.  What was attached is noted  *)
(* in the map tracked_veth, which is pinned by name and outlives identity. *)
(*                                                                         *)
(* The tracer of the creations is a probe at the entry of the kernel's     *)
(* register_netdevice: it fires before the interface is there to be        *)
(* listed, and not at all for one that is moved in from another network    *)
(* namespace.  What it reports goes to whoever opened the map of the       *)
(* reports last.  That is identity, until an agent opens the same map.     *)
(*                                                                         *)
(* The kernel's links end with the process that holds them, and with the   *)
(* interface.  That the rings are opened CPU by CPU, and what they drop,   *)
(* is in EventPipeline: here all are opened at once and drop nothing.      *)
(***************************************************************************)
EXTENDS Naturals, FiniteSets

CONSTANTS
    Interfaces,   \* names of interfaces
    Ignored,      \* those of eth0, docker0, tunl0 and lo
    MAX_TRACKED   \* entries of tracked_veth (1024)

ASSUME VethAssumption == MAX_TRACKED \in Nat

VARIABLES
    present,   \* the interfaces there are, which a listing finds
    coming,    \* those whose registration has begun and not ended
    phase,     \* where main is
    probes,    \* the tracers that are attached
    entries,   \* who reads veth_identity_map: "identity", "agent", "nobody";
               \* "none" if there is no such map yet
    ifaces,    \* interfaces of the listing that are still to be attached
    attached,  \* those with the classifier
    tracked,   \* the names in the map tracked_veth
    refused,   \* interfaces there are, to which the kernel did not attach it
    reported,  \* interfaces whose registration identity was told of
    since,     \* those whose registration began when identity was up
    listed,    \* interfaces there are, ever since the listing
    late,      \* interfaces there are, only since after the listing
    full,      \* names that did not get into the map in this life
    unlisted,  \* the listing failed in this life
    once       \* names that were attached since the node was booted

kernelVars == <<present, coming, entries>>
known == <<refused, reported, since, listed, late, full, unlisted>>
vars == <<kernelVars, phase, probes, ifaces, attached, tracked, known, once>>

Phases == {"down", "creation", "deletion", "list", "populate", "load", "attach",
           "registry", "open", "up"}

(* Fault: no interface is ignored. *)
ignore_none(n) == FALSE

ignore_iface(n) == n \in Ignored

Init ==
    /\ present \in SUBSET Interfaces
    /\ coming = {} /\ entries = "none"
    /\ phase = "down"
    /\ probes = {} /\ ifaces = {} /\ attached = {} /\ tracked = {}
    /\ refused = {} /\ reported = {} /\ since = {} /\ listed = {} /\ late = {} /\ full = {}
    /\ unlisted = FALSE
    /\ once = {}

----------------------------------------------------------------------------
(* The kernel's interfaces.  What identity does with the report of a       *)
(* deletion is to log it.                                                  *)
Report(n) ==
    reported' = IF "creation" \in probes /\ entries = "identity"
                THEN reported \cup {n} ELSE reported

(* register_netdevice is entered. *)
Register(n) ==
    /\ n \notin present \cup coming
    /\ coming' = coming \cup {n}
    /\ Report(n)
    /\ since' = IF phase = "up" THEN since \cup {n} ELSE since
    /\ UNCHANGED <<present, entries, phase, probes, ifaces, attached, tracked, refused, listed,
                   late, full, unlisted, once>>

AfterListing == phase \in {"populate", "load", "attach", "registry", "open", "up"}

Appears(n) ==
    /\ present' = present \cup {n}
    /\ late' = IF AfterListing THEN late \cup {n} ELSE late
    /\ UNCHANGED <<entries, phase, probes, ifaces, attached, tracked, refused, reported, since,
                   listed, full, unlisted, once>>

(* The registration is over, and the interface there. *)
Create(n) ==
    /\ n \in coming
    /\ coming' = coming \ {n}
    /\ Appears(n)

(* It comes from another namespace. *)
MoveIn(n) ==
    /\ n \notin present \cup coming
    /\ Appears(n)
    /\ UNCHANGED coming

(* It is deleted or moved away, or its registration fails. *)
Delete(n) ==
    /\ n \in present \cup coming
    /\ present' = present \ {n} /\ coming' = coming \ {n}
    /\ attached' = attached \ {n} /\ refused' = refused \ {n}
    /\ reported' = reported \ {n} /\ since' = since \ {n}
    /\ listed' = listed \ {n} /\ late' = late \ {n}
    /\ UNCHANGED <<entries, phase, probes, ifaces, tracked, full, unlisted, once>>

----------------------------------------------------------------------------
(* An agent that starts opens the map for itself, if it is pinned, and      *)
(* whoever read it is told of nothing any more.  When the agent ends,       *)
(* nobody is.                                                               *)
AgentOpens ==
    /\ entries \in {"nobody", "identity"}
    /\ entries' = "agent"
    /\ UNCHANGED <<present, coming, phase, probes, ifaces, attached, tracked, known, once>>

AgentEnds ==
    /\ entries = "agent"
    /\ entries' = "nobody"
    /\ UNCHANGED <<present, coming, phase, probes, ifaces, attached, tracked, known, once>>

----------------------------------------------------------------------------
(* A start of identity.  Any step may fail, and ends it.                   *)
(* The maps are made, or found again, and pinned. *)
Start ==
    /\ phase = "down"
    /\ phase' = "creation"
    /\ entries' = IF entries = "none" THEN "nobody" ELSE entries
    /\ UNCHANGED <<present, coming, probes, ifaces, attached, tracked, known, once>>

(* Fault: the tracers are loaded and not attached. *)
LoadWithoutAttach ==
    /\ phase \in {"creation", "deletion"}
    /\ phase' = IF phase = "creation" THEN "deletion" ELSE "list"
    /\ UNCHANGED <<kernelVars, probes, ifaces, attached, tracked, known, once>>

(* init_veth_tracer *)
LoadTracer ==
    /\ phase \in {"creation", "deletion"}
    /\ probes' = probes \cup {phase}
    /\ phase' = IF phase = "creation" THEN "deletion" ELSE "list"
    /\ UNCHANGED <<kernelVars, ifaces, attached, tracked, known, once>>

(* A listing that fails is an empty one. *)
get_veth_channels ==
    /\ phase = "list"
    /\ \/ /\ ifaces' = {n \in present : ~ignore_iface(n)}
          /\ listed' = ifaces'
          /\ unlisted' = FALSE
       \/ /\ ifaces' = {} /\ listed' = {}
          /\ unlisted' = TRUE
    /\ phase' = "populate"
    /\ UNCHANGED <<kernelVars, probes, attached, tracked, refused, reported, since, late, full, once>>

(* populate_blocklist, the classifier's load, init_tcp_registry *)
Proceed ==
    /\ \/ phase = "populate" /\ phase' = "load"
       \/ phase = "load" /\ phase' = "attach"
       \/ phase = "attach" /\ ifaces = {} /\ phase' = "registry"
       \/ phase = "registry" /\ phase' = "open"
    /\ UNCHANGED <<kernelVars, probes, ifaces, attached, tracked, known, once>>

(* event_listener opens the rings, whoever had opened them before. *)
OpenRings ==
    /\ phase = "open"
    /\ phase' = "up"
    /\ entries' = "identity"
    /\ UNCHANGED <<present, coming, probes, ifaces, attached, tracked, known, once>>

(* The name is entered into the map, unless the map is full. *)
Track(n) ==
    \/ /\ n \in tracked \/ Cardinality(tracked) < MAX_TRACKED
       /\ tracked' = tracked \cup {n}
       /\ UNCHANGED full
    \/ /\ n \notin tracked /\ Cardinality(tracked) >= MAX_TRACKED
       /\ full' = full \cup {n}
       /\ UNCHANGED tracked

(* Fault: the first interface that cannot be attached ends the loop. *)
AttachAllOrStop(n) ==
    /\ phase = "attach" /\ n \in ifaces
    /\ \/ /\ n \in present
          /\ ifaces' = ifaces \ {n}
          /\ attached' = attached \cup {n}
          /\ once' = once \cup {n}
          /\ Track(n)
          /\ UNCHANGED refused
       \/ /\ ifaces' = {}
          /\ refused' = refused \cup ({n} \cap present)
          /\ UNCHANGED <<attached, tracked, full, once>>
    /\ UNCHANGED <<kernelVars, phase, probes, reported, since, listed, late, unlisted>>

(* Fault: the name is entered before the classifier is attached. *)
TrackAndAttach(n) ==
    /\ phase = "attach" /\ n \in ifaces
    /\ ifaces' = ifaces \ {n}
    /\ Track(n)
    /\ \/ /\ n \in present
          /\ attached' = attached \cup {n}
          /\ once' = once \cup {n}
          /\ UNCHANGED refused
       \/ /\ refused' = refused \cup ({n} \cap present)
          /\ UNCHANGED <<attached, once>>
    /\ UNCHANGED <<kernelVars, phase, probes, reported, since, listed, late, unlisted>>

(* One round of init_tc_classifier's loop.  The name is looked up anew: it *)
(* may be another interface's by now, or nobody's.  An interface that is   *)
(* not attached is logged and passed over.                                 *)
Attach(n) ==
    /\ phase = "attach" /\ n \in ifaces
    /\ ifaces' = ifaces \ {n}
    /\ \/ /\ n \in present
          /\ attached' = attached \cup {n}
          /\ once' = once \cup {n}
          /\ Track(n)
          /\ UNCHANGED refused
       \/ /\ refused' = refused \cup ({n} \cap present)
          /\ UNCHANGED <<attached, tracked, full, once>>
    /\ UNCHANGED <<kernelVars, phase, probes, reported, since, listed, late, unlisted>>

Cleared ==
    /\ phase' = "down"
    /\ probes' = {} /\ ifaces' = {} /\ attached' = {}
    /\ refused' = {} /\ reported' = {} /\ since' = {} /\ listed' = {} /\ late' = {} /\ full' = {}
    /\ unlisted' = FALSE

(* identity ends: a step failed, a consumer ended, it was killed.  What it *)
(* knew goes with it; the maps do not.                                     *)
End ==
    /\ phase # "down"
    /\ Cleared
    /\ entries' = IF entries = "identity" THEN "nobody" ELSE entries
    /\ UNCHANGED <<present, coming, tracked, once>>

(* The node is booted: no map is left, and no interface. *)
Reboot ==
    /\ Cleared
    /\ entries' = "none"
    /\ present' = {} /\ coming' = {} /\ tracked' = {} /\ once' = {}

Identity ==
    \/ Start
    \/ LoadTracer
    \/ get_veth_channels
    \/ Proceed
    \/ \E n \in Interfaces : Attach(n)
    \/ OpenRings

Next ==
    \/ \E n \in Interfaces : Register(n) \/ Create(n) \/ MoveIn(n) \/ Delete(n)
    \/ AgentOpens \/ AgentEnds
    \/ Identity
    \/ End
    \/ Reboot

Spec == Init /\ [][Next]_vars
----------------------------------------------------------------------------
(* What is noted of interfaces is noted of interfaces there are, and the   *)
(* map does not hold more than its entries.                                *)
TypeOK ==
    /\ present \subseteq Interfaces
    /\ phase \in Phases
    /\ probes \subseteq {"creation", "deletion"}
    /\ ifaces \subseteq Interfaces \ Ignored
    /\ attached \cup refused \cup listed \cup late \subseteq present
    /\ coming \subseteq Interfaces \ present
    /\ reported \cup since \subseteq present \cup coming
    /\ entries \in {"none", "nobody", "agent", "identity"}
    /\ tracked \subseteq Interfaces /\ Cardinality(tracked) <= MAX_TRACKED
    /\ unlisted \in BOOLEAN
    /\ full \subseteq Interfaces /\ once \subseteq Interfaces
    /\ phase = "down" => ifaces \cup attached \cup refused \cup reported = {}
    /\ entries = "identity" => phase = "up"

(* Once the loop is over, every interface that was there at the listing    *)
(* and still is has the classifier, unless the kernel refused it: that     *)
(* other interfaces went away meanwhile, came back under their names or    *)
(* were refused makes no difference.                                       *)
ListedIsAttached ==
    phase \in {"registry", "open", "up"} => listed \subseteq attached \cup refused

(* While identity is up and no agent has taken its reports from it, the    *)
(* interfaces that neither have the classifier nor were reported to it are *)
(* those that it ignores, and those that were not there yet at the         *)
(* listing, and whose registration had begun before the rings were open or *)
(* that were moved in - as long as the listing did not fail.  Nothing of   *)
(* the kind can be said once an agent has opened the map.                  *)
UnknownCameBetween ==
    phase = "up" /\ entries = "identity" /\ ~unlisted =>
        present \subseteq attached \cup refused \cup reported \cup Ignored \cup (late \ since)

(* tracked_veth, which the agent reads: it holds every interface that has  *)
(* the classifier, unless it was full, and none that never had it since    *)
(* the node was booted, however often identity was restarted.              *)
TrackedWasAttached ==
    /\ attached \subseteq tracked \cup full
    /\ tracked \subseteq once \ Ignored
=============================================================================
