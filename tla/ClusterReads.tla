---------------------------- MODULE ClusterReads ----------------------------
(***************************************************************************)
(* The commands of cfcli that read the cluster: logs, status, service list *)
(* and service describe.  A command is a sequence of kubectl calls - is    *)
(* the namespace there, which pods, then one call a pod - and the cluster  *)
(* changes between any two of them.  A kubectl that fails is, to most of   *)
(* these steps, an empty answer.                                           *)
(*                                                                         *)
(* kubectl answers from the state of the cluster at one moment.  Commands  *)
(* change nothing, so one process that runs them one after the other shows *)
(* all that several would.  The pods of a listing are visited in any       *)
(* order.                                                                  *)
(***************************************************************************)
EXTENDS FiniteSets

CONSTANTS
    Pods, Services,  \* what the namespace may hold; no name is used twice
    OfService,       \* the pods with the label app=<service>
    OfComponent,     \* the pods with the label component=<component>
    Described        \* the pods that the name given to describe stands for

ASSUME ClusterAssumption ==
    /\ OfService \subseteq Pods /\ OfComponent \subseteq Pods /\ Described \subseteq Pods
    /\ Pods \cap Services = {}

VARIABLES
    namespace,  \* whether it exists
    things,     \* the pods and the services there are
    command,    \* what was asked for
    pc,         \* the next kubectl call, or how the command ended
    missing,    \* the command has said that the namespace is not there
    todo,       \* the pods whose logs are still to be shown
    shown,      \* the pods and services that were shown
    broken,     \* a kubectl call failed
    always,     \* what was there at every moment since the command began
    sometimes,  \* what was there at some moment since
    absent      \* there was a moment without the namespace

cluster == <<namespace, things>>
told == <<missing, todo, shown, broken>>
witnesses == <<always, sometimes, absent>>
vars == <<cluster, command, pc, told, witnesses>>

Commands ==
    [kind : {"logs"}, service : BOOLEAN, component : BOOLEAN]
        \cup [kind : {"status", "list", "describe"}]

Ended == {"ok", "err", "exit"}
Phases == {"check", "available", "select", "component", "logs",
           "pods", "services", "svc", "recheck", "available2", "describe"}

(* The pods that a logs command selects. *)
Selected(m) ==
    {p \in Pods : (m.service => p \in OfService) /\ (m.component => p \in OfComponent)}

(* What a command is to show. *)
Wanted(m) ==
    CASE m.kind = "logs" -> Selected(m)
      [] m.kind = "status" -> Pods \cup Services
      [] m.kind = "list" -> Services
      [] m.kind = "describe" -> Services \cup Described

Init ==
    /\ namespace \in BOOLEAN
    /\ things = {}
    /\ command \in [kind : {"list"}] /\ pc = "ok"
    /\ missing = FALSE /\ todo = {} /\ shown = {} /\ broken = FALSE
    /\ always = {} /\ sometimes = {} /\ absent = FALSE

----------------------------------------------------------------------------
(* The cluster.  Kubernetes removes what a namespace holds before the      *)
(* namespace itself.                                                       *)
Running == pc \notin Ended

Watch ==
    IF Running
    THEN /\ always' = always \cap things'
         /\ sometimes' = sometimes \cup things'
         /\ absent' = (absent \/ ~namespace')
    ELSE UNCHANGED witnesses

Appear(x) ==
    /\ namespace /\ x \notin things
    /\ things' = things \cup {x}
    /\ UNCHANGED <<namespace, command, pc, told>>
    /\ Watch

Vanish(x) ==
    /\ x \in things
    /\ things' = things \ {x}
    /\ UNCHANGED <<namespace, command, pc, told>>
    /\ Watch

ToggleNamespace ==
    /\ things = {}
    /\ namespace' = ~namespace
    /\ UNCHANGED <<things, command, pc, told>>
    /\ Watch

----------------------------------------------------------------------------
Begin(m) ==
    /\ ~Running
    /\ command' = m
    /\ pc' = "check"
    /\ missing' = FALSE /\ todo' = {} /\ shown' = {} /\ broken' = FALSE
    /\ always' = things /\ sometimes' = things /\ absent' = ~namespace
    /\ UNCHANGED cluster

Goto(l) == pc' = l /\ UNCHANGED <<command, cluster, witnesses>>

(* The helpers connect anew before they call kubectl; if that fails, the   *)
(* command ends, and status displays nothing.                              *)
ConnectFails ==
    /\ pc \in {"check", "available", "select", "component", "pods", "services",
               "recheck", "available2"}
    /\ Goto("err")
    /\ shown' = IF command.kind = "status" THEN {} ELSE shown
    /\ UNCHANGED <<missing, todo, broken>>

AfterCheck == CASE command.kind = "logs" -> "select"
                [] command.kind = "status" -> "pods"
                [] OTHER -> IF pc \in {"recheck", "available2"} THEN "describe" ELSE "svc"

(* check_namespace_exists: a kubectl that fails is a namespace that is not *)
(* there.                                                                  *)
CheckNamespace ==
    /\ pc \in {"check", "recheck"}
    /\ \/ /\ namespace
          /\ Goto(AfterCheck)
          /\ UNCHANGED told
       \/ \E fails \in BOOLEAN :
          /\ fails \/ ~namespace
          /\ Goto(IF pc = "check" THEN "available" ELSE "available2")
          /\ broken' = (broken \/ fails)
          /\ UNCHANGED <<missing, todo, shown>>

(* Fault: logs goes on as the other commands do. *)
SayMissingAndGoOn ==
    /\ pc \in {"available", "available2"}
    /\ Goto(AfterCheck)
    /\ missing' = TRUE
    /\ UNCHANGED <<todo, shown, broken>>

(* The namespace is said not to be there, and the others are listed.  Only *)
(* logs leaves it at that.                                                 *)
SayMissing ==
    /\ pc \in {"available", "available2"}
    /\ Goto(IF command.kind = "logs" THEN "exit" ELSE AfterCheck)
    /\ missing' = TRUE
    /\ UNCHANGED <<todo, shown, broken>>

(* A listing, empty if kubectl fails: what is done with it is the caller's. *)
Listed(S) == things \cap S

(* Fault: the listing by component takes the place of that by service. *)
NarrowToAll ==
    /\ pc = "component"
    /\ \/ /\ todo' = Listed(OfComponent)
          /\ UNCHANGED broken
       \/ /\ todo' = {}
          /\ broken' = TRUE
    /\ Goto("logs")
    /\ UNCHANGED <<missing, shown>>

(* get_pods_for_service, get_pods_for_component or get_all_pods. *)
SelectPods ==
    /\ pc = "select"
    /\ \/ /\ todo' = Listed(IF command.service THEN OfService
                            ELSE IF command.component THEN OfComponent ELSE Pods)
          /\ UNCHANGED broken
       \/ /\ todo' = {}
          /\ broken' = TRUE
    /\ Goto(IF command.service /\ command.component THEN "component" ELSE "logs")
    /\ UNCHANGED <<missing, shown>>

(* With both, the pods of the first listing that are in a second one. *)
NarrowToComponent ==
    /\ pc = "component"
    /\ \/ /\ todo' = todo \cap Listed(OfComponent)
          /\ UNCHANGED broken
       \/ /\ todo' = {}
          /\ broken' = TRUE
    /\ Goto("logs")
    /\ UNCHANGED <<missing, shown>>

(* Fault: a pod whose logs cannot be had is passed over. *)
PassOver(p) ==
    /\ pc = "logs" /\ p \in todo
    /\ todo' = todo \ {p}
    /\ \/ p \in things /\ shown' = shown \cup {p}
       \/ UNCHANGED shown
    /\ Goto("logs")
    /\ UNCHANGED <<missing, broken>>

(* Fault: kubectl is called again until the pod's logs can be had. *)
Insist(p) ==
    /\ pc = "logs" /\ p \in todo
    /\ p \in things
    /\ todo' = todo \ {p} /\ shown' = shown \cup {p}
    /\ Goto("logs")
    /\ UNCHANGED <<missing, broken>>

(* Fault: a pod whose logs were shown stays among those to be shown. *)
ShowAndKeep(p) ==
    /\ pc = "logs" /\ p \in todo
    /\ p \in things
    /\ shown' = shown \cup {p}
    /\ Goto("logs")
    /\ UNCHANGED <<missing, todo, broken>>

(* kubectl logs, which fails if the pod is gone or has not begun: the      *)
(* command ends with the pods that remain.                                 *)
ShowLogs(p) ==
    /\ pc = "logs" /\ p \in todo
    /\ \/ /\ p \in things
          /\ todo' = todo \ {p} /\ shown' = shown \cup {p}
          /\ Goto("logs")
          /\ UNCHANGED <<missing, broken>>
       \/ /\ Goto("err")
          /\ UNCHANGED told

EndLogs ==
    /\ pc = "logs" /\ todo = {}
    /\ Goto("ok")
    /\ UNCHANGED told

(* get_pods_status and get_services_status, and then the display. *)
Status ==
    /\ pc \in {"pods", "services"}
    /\ \/ /\ shown' = shown \cup Listed(IF pc = "pods" THEN Pods ELSE Services)
          /\ UNCHANGED broken
       \/ /\ UNCHANGED shown
          /\ broken' = TRUE
    /\ Goto(IF pc = "pods" THEN "services" ELSE "ok")
    /\ UNCHANGED <<missing, todo>>

(* list_services, with which describe_service begins. *)
ListServices ==
    /\ pc = "svc"
    /\ \/ /\ shown' = shown \cup Listed(Services)
          /\ Goto(IF command.kind = "describe" THEN "recheck" ELSE "ok")
       \/ /\ UNCHANGED shown
          /\ Goto("err")
    /\ UNCHANGED <<missing, todo, broken>>

(* kubectl describe pod, which fails if there is none of that name. *)
DescribePod ==
    /\ pc = "describe"
    /\ \/ /\ Listed(Described) # {}
          /\ shown' = shown \cup Listed(Described)
          /\ Goto("ok")
       \/ /\ UNCHANGED shown
          /\ Goto("err")
    /\ UNCHANGED <<missing, todo, broken>>

Step ==
    \/ ConnectFails \/ CheckNamespace \/ SayMissing
    \/ SelectPods \/ NarrowToComponent \/ EndLogs \/ (\E p \in Pods : ShowLogs(p))
    \/ Status \/ ListServices \/ DescribePod

Next ==
    \/ \E x \in Pods \cup Services : Appear(x) \/ Vanish(x)
    \/ ToggleNamespace
    \/ \E m \in Commands : Begin(m)
    \/ Step

Spec == Init /\ [][Next]_vars /\ WF_vars(Step)
----------------------------------------------------------------------------
TypeOK ==
    /\ namespace \in BOOLEAN
    /\ things \subseteq Pods \cup Services /\ (things # {} => namespace)
    /\ command \in Commands
    /\ pc \in Phases \cup Ended
    /\ missing \in BOOLEAN /\ broken \in BOOLEAN /\ absent \in BOOLEAN
    /\ todo \subseteq Pods
    /\ shown \subseteq Pods \cup Services /\ shown \cap todo = {}
    /\ todo # {} => pc \in {"component", "logs", "err"}
    /\ always \subseteq sometimes /\ sometimes \subseteq Pods \cup Services

(* What a command shows was there while the command ran, and is what it    *)
(* was asked for, though it is shown from listings of different moments:   *)
(* a pod of another service or component is never shown, nor one that was  *)
(* gone before the command began.                                          *)
ShownWasThere ==
    /\ shown \cup todo \subseteq sometimes
    /\ shown \subseteq Wanted(command)

(* A command that ends well, and whose kubectl calls all succeeded, has    *)
(* shown everything it was asked for that was there all the time: nothing  *)
(* is passed over because a pod before it is gone.                         *)
NothingPassedOver ==
    pc = "ok" /\ ~broken => always \cap Wanted(command) \subseteq shown

(* A namespace is said to be missing only if there was a moment without    *)
(* it, or kubectl failed; and a logs command that says so shows nothing.   *)
MissingForAReason ==
    missing => /\ absent \/ broken
               /\ command.kind = "logs" => pc = "exit" /\ shown = {}

(* Every command ends, though the pods it lists go away meanwhile: kubectl *)
(* returns.                                                                *)
CommandsEnd == Running ~> ~Running
=============================================================================
