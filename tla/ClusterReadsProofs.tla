-------------------------- MODULE ClusterReadsProofs --------------------------
(***************************************************************************)
(* Theorems of ClusterReads: what a command of cfcli may show and leave    *)
(* out, for any pods, services and labels, and any changes of the cluster  *)
(* between its kubectl calls.                                              *)
(***************************************************************************)
EXTENDS ClusterReads, Naturals, FiniteSetTheorems, TLAPS

Typed ==
    /\ namespace \in BOOLEAN
    /\ things \subseteq Pods \cup Services /\ (things # {} => namespace)
    /\ command \in Commands
    /\ pc \in Phases \cup Ended
    /\ missing \in BOOLEAN /\ broken \in BOOLEAN /\ absent \in BOOLEAN
    /\ todo \subseteq Pods /\ shown \subseteq Pods \cup Services
    /\ always \subseteq sometimes /\ sometimes \subseteq Pods \cup Services

(* Which command gets to which call, and what it holds by then. *)
Route ==
    /\ pc \in {"check", "available"} => shown = {}
    /\ pc = "select" => command.kind = "logs" /\ shown = {}
    /\ pc = "component" => /\ command.kind = "logs" /\ shown = {}
                           /\ command.service /\ command.component
    /\ pc = "logs" => command.kind = "logs"
    /\ pc \in {"pods", "services"} => command.kind = "status"
    /\ pc = "svc" => command.kind \in {"list", "describe"}
    /\ pc \in {"recheck", "available2", "describe"} => command.kind = "describe"
    /\ todo # {} => pc \in {"component", "logs", "err"}

(* What is remembered of the cluster brackets what there is. *)
Bracket ==
    Running => /\ always \subseteq things /\ things \subseteq sometimes
               /\ ~namespace => absent

(* Only what is wanted is shown, or next to be. *)
OnlyWanted ==
    /\ shown \cup todo \subseteq sometimes
    /\ shown \subseteq Wanted(command)
    /\ shown \cap todo = {}
    /\ pc = "component" => todo \subseteq OfService
    /\ pc = "logs" => todo \subseteq Wanted(command)

(* What was there all the time is shown or next to be, unless kubectl      *)
(* failed.                                                                 *)
AllWanted ==
    ~broken =>
        /\ pc \in {"component", "logs"} => always \cap Wanted(command) \subseteq shown \cup todo
        /\ pc = "services" => always \cap Pods \subseteq shown
        /\ pc \in {"recheck", "available2", "describe"} => always \cap Services \subseteq shown
        /\ pc = "ok" => always \cap Wanted(command) \subseteq shown

(* The namespace was missed for a reason, before that is said. *)
Reasons ==
    /\ pc \in {"available", "available2"} \/ missing => absent \/ broken
    /\ missing /\ command.kind = "logs" => pc = "exit" /\ shown = {}

IInv ==
    /\ Typed
    /\ Route
    /\ Bracket
    /\ OnlyWanted
    /\ AllWanted
    /\ Reasons

-----------------------------------------------------------------------------
(* What each command is to show, written out. *)
LEMMA WantedIs ==
    ASSUME NEW m \in Commands
    PROVE  /\ m.kind \in {"logs", "status", "list", "describe"}
           /\ m.kind = "logs" =>
                 /\ m.service \in BOOLEAN /\ m.component \in BOOLEAN
                 /\ Wanted(m) = {p \in Pods : (m.service => p \in OfService)
                                              /\ (m.component => p \in OfComponent)}
           /\ m.kind = "status" => Wanted(m) = Pods \cup Services
           /\ m.kind = "list" => Wanted(m) = Services
           /\ m.kind = "describe" => Wanted(m) = Services \cup Described
<1>1. CASE m \in [kind : {"logs"}, service : BOOLEAN, component : BOOLEAN]
  BY <1>1 DEF Wanted, Selected
<1>2. CASE m \in [kind : {"status", "list", "describe"}]
  BY <1>2 DEF Wanted
<1> QED BY <1>1, <1>2 DEF Commands

(* A command that has shown nothing has shown nothing wrong. *)
LEMMA InitIInv == Init => IInv
<1> SUFFICES ASSUME Init PROVE IInv
  OBVIOUS
<1>1. command \in Commands
  BY DEF Init, Commands
<1>2. Typed /\ Route /\ Bracket /\ Reasons
  BY <1>1 DEF Init, Typed, Route, Bracket, Reasons, Phases, Ended, Running
<1>3. OnlyWanted /\ AllWanted
  BY DEF Init, OnlyWanted, AllWanted
<1> QED BY <1>2, <1>3 DEF IInv

(* A change of the cluster moves only the bracket: what was there all the  *)
(* time shrinks, what was there at some time grows.                        *)
LEMMA ClusterKeepsIInv ==
    ASSUME IInv,
           (\E x \in Pods \cup Services : Appear(x) \/ Vanish(x)) \/ ToggleNamespace
    PROVE  IInv'
<1>1. /\ UNCHANGED <<command, pc, told>> /\ Watch
      /\ things' \subseteq Pods \cup Services /\ namespace' \in BOOLEAN
      /\ things' # {} => namespace'
  <2>1. CASE \E x \in Pods \cup Services : Appear(x) \/ Vanish(x)
    BY <2>1 DEF IInv, Typed, Appear, Vanish
  <2>2. CASE ToggleNamespace
    BY <2>2 DEF IInv, Typed, ToggleNamespace
  <2> QED BY <2>1, <2>2
<1>2. /\ always' \subseteq always /\ sometimes \subseteq sometimes'
      /\ absent => absent'
      /\ always' \subseteq sometimes' /\ sometimes' \subseteq Pods \cup Services
      /\ absent' \in BOOLEAN
      /\ Bracket'
  BY <1>1 DEF IInv, Typed, Bracket, Watch, Running, witnesses
<1>3. Typed' /\ Route'
  BY <1>1, <1>2 DEF IInv, Typed, Route, told
<1>4. Wanted(command') = Wanted(command)
  BY <1>1
<1>5. OnlyWanted' /\ AllWanted' /\ Reasons'
  BY <1>1, <1>2, <1>4 DEF IInv, OnlyWanted, AllWanted, Reasons, told
<1> QED BY <1>2, <1>3, <1>5 DEF IInv

(* A command begins with nothing shown. *)
LEMMA BeginKeepsIInv ==
    ASSUME IInv, NEW m \in Commands, Begin(m)
    PROVE  IInv'
<1>1. Typed' /\ Route' /\ Bracket' /\ Reasons'
  BY DEF IInv, Typed, Route, Bracket, Reasons, Begin, Phases, Ended, Running, cluster
<1>2. OnlyWanted' /\ AllWanted'
  BY DEF OnlyWanted, AllWanted, Begin
<1> QED BY <1>1, <1>2 DEF IInv

(* The steps of a command, of which each leaves the cluster as it is. *)
LEMMA BracketStays ==
    ASSUME IInv, NEW l, Goto(l), Running
    PROVE  /\ Bracket' /\ Wanted(command') = Wanted(command)
           /\ command' = command /\ UNCHANGED <<namespace, things, always, sometimes, absent>>
           /\ pc' = l
BY DEF IInv, Bracket, Goto, Running, cluster, witnesses

LEMMA NamespaceKeepsIInv ==
    ASSUME IInv, ConnectFails \/ CheckNamespace \/ SayMissing
    PROVE  IInv'
<1>1. Running
  BY DEF ConnectFails, CheckNamespace, SayMissing, Running, Ended
<1>2. PICK l \in Phases \cup Ended : Goto(l)
  <2>1. AfterCheck \in Phases
    BY DEF AfterCheck, Phases
  <2> QED BY <2>1 DEF ConnectFails, CheckNamespace, SayMissing, Phases, Ended
<1>3. /\ Bracket' /\ Wanted(command') = Wanted(command) /\ command' = command
      /\ UNCHANGED <<namespace, things, always, sometimes, absent>> /\ pc' = l
  BY <1>1, <1>2, BracketStays
<1> USE DEF IInv
<1>4. CASE ConnectFails
  <2>1. pc' = "err" /\ shown' \subseteq shown /\ UNCHANGED <<missing, todo, broken>>
    BY <1>4 DEF ConnectFails, Goto
  <2>2. missing => command.kind # "logs"
    BY <1>4 DEF Reasons, ConnectFails
  <2>3. Typed' /\ Route' /\ Reasons'
    BY <1>3, <2>1, <2>2 DEF Typed, Route, Reasons, Ended
  <2>4. OnlyWanted' /\ AllWanted'
    BY <1>3, <2>1 DEF OnlyWanted, AllWanted
  <2> QED BY <1>3, <2>3, <2>4
<1>5. CASE CheckNamespace /\ namespace /\ pc' = AfterCheck /\ UNCHANGED told
  <2>1. pc' \in {"select", "pods", "svc", "describe"} /\ pc \in {"check", "recheck"}
    BY <1>5 DEF AfterCheck, CheckNamespace
  <2>2. pc = "check" =>
           /\ command.kind = "logs" => pc' = "select"
           /\ command.kind = "status" => pc' = "pods"
           /\ command.kind \in {"list", "describe"} => pc' = "svc"
    BY <1>5 DEF AfterCheck
  <2>3. pc = "recheck" => pc' = "describe" /\ command.kind = "describe"
    BY <1>5 DEF AfterCheck, Route
  <2>4. command.kind \in {"logs", "status", "list", "describe"}
    BY WantedIs DEF Typed
  <2>5. Typed' /\ Route' /\ Reasons'
    BY <1>3, <1>5, <2>1, <2>2, <2>3, <2>4 DEF Typed, Route, Reasons, Phases, told
  <2>6. OnlyWanted' /\ AllWanted'
    BY <1>3, <1>5, <2>1, <2>2, <2>3, <2>4 DEF OnlyWanted, AllWanted, told, Route
  <2> QED BY <1>3, <2>5, <2>6
<1>6. CASE \E fails \in BOOLEAN :
              /\ pc \in {"check", "recheck"} /\ (fails \/ ~namespace)
              /\ pc' = (IF pc = "check" THEN "available" ELSE "available2")
              /\ broken' = (broken \/ fails)
              /\ UNCHANGED <<missing, todo, shown>>
  <2>1. broken' \in BOOLEAN /\ (broken => broken') /\ (absent \/ broken')
    BY <1>6, <1>1 DEF Typed, Bracket
  <2>2. Typed' /\ Route' /\ Reasons'
    BY <1>3, <1>6, <2>1 DEF Typed, Route, Reasons, Phases
  <2>3. OnlyWanted' /\ AllWanted'
    BY <1>3, <1>6, <2>1 DEF OnlyWanted, AllWanted, Route
  <2> QED BY <1>3, <2>2, <2>3
<1>7. CASE SayMissing
  <2>1. /\ pc = "available" =>
              /\ command.kind = "logs" => pc' = "exit"
              /\ command.kind = "status" => pc' = "pods"
              /\ command.kind \in {"list", "describe"} => pc' = "svc"
        /\ pc = "available2" => pc' = "describe" /\ command.kind = "describe"
        /\ pc \in {"available", "available2"} /\ missing'
        /\ UNCHANGED <<todo, shown, broken>>
    BY <1>7 DEF SayMissing, Goto, AfterCheck, Route
  <2>2. command.kind \in {"logs", "status", "list", "describe"}
    BY WantedIs DEF Typed
  <2>3. missing' \in BOOLEAN
    BY <1>7 DEF SayMissing
  <2>4. Typed' /\ Route' /\ Reasons'
    BY <1>3, <2>1, <2>2, <2>3 DEF Typed, Route, Reasons, Phases, Ended
  <2>5. OnlyWanted' /\ AllWanted'
    BY <1>3, <2>1, <2>2 DEF OnlyWanted, AllWanted, Route
  <2> QED BY <1>3, <2>4, <2>5
<1> QED BY <1>4, <1>5, <1>6, <1>7 DEF CheckNamespace, Goto

(* The pods are selected, narrowed, and shown one by one. *)
LEMMA LogsKeepsIInv ==
    ASSUME IInv,
           SelectPods \/ NarrowToComponent \/ EndLogs \/ (\E p \in Pods : ShowLogs(p))
    PROVE  IInv'
<1>1. Running /\ command.kind = "logs" /\ ~missing
  BY DEF IInv, Route, Reasons, SelectPods, NarrowToComponent, EndLogs, ShowLogs, Running, Ended
<1>2. /\ command.service \in BOOLEAN /\ command.component \in BOOLEAN
      /\ Wanted(command) = {p \in Pods : (command.service => p \in OfService)
                                         /\ (command.component => p \in OfComponent)}
  BY <1>1, WantedIs DEF IInv, Typed
<1>3. PICK l \in {"component", "logs", "ok", "err"} : Goto(l)
  BY DEF SelectPods, NarrowToComponent, EndLogs, ShowLogs
<1>4. /\ Bracket' /\ Wanted(command') = Wanted(command) /\ command' = command
      /\ UNCHANGED <<namespace, things, always, sometimes, absent>> /\ pc' = l
  BY <1>1, <1>3, BracketStays
<1> USE DEF IInv
<1>5. CASE SelectPods
  <2>1. /\ pc' = (IF command.service /\ command.component THEN "component" ELSE "logs")
        /\ UNCHANGED <<missing, shown>> /\ shown = {}
        /\ broken => broken'
        /\ broken' \in BOOLEAN
    BY <1>5 DEF SelectPods, Goto, Route, Typed
  <2>2. /\ todo' \subseteq things \cap Pods
        /\ command.service => todo' \subseteq OfService
        /\ ~command.service /\ command.component => todo' \subseteq OfComponent
        /\ ~broken' => things \cap Wanted(command) \subseteq todo'
    BY <1>2, <1>5, ClusterAssumption DEF SelectPods, Listed
  <2>3. Typed' /\ Route' /\ Reasons'
    BY <1>1, <1>4, <2>1, <2>2 DEF Typed, Route, Reasons, Phases
  <2>4. OnlyWanted' /\ AllWanted'
    BY <1>1, <1>2, <1>4, <2>1, <2>2 DEF OnlyWanted, AllWanted, Bracket
  <2> QED BY <1>4, <2>3, <2>4
<1>6. CASE NarrowToComponent
  <2>1. /\ pc = "component" /\ pc' = "logs" /\ command.service /\ command.component
        /\ UNCHANGED <<missing, shown>> /\ shown = {}
        /\ broken => broken'
        /\ broken' \in BOOLEAN
        /\ todo' \subseteq todo \cap OfComponent
        /\ ~broken' => todo' = todo \cap things \cap OfComponent
    BY <1>6 DEF NarrowToComponent, Listed, Goto, Route, Typed
  <2>2. Typed' /\ Route' /\ Reasons'
    BY <1>1, <1>4, <2>1 DEF Typed, Route, Reasons, Phases
  <2>3. OnlyWanted' /\ AllWanted'
    BY <1>1, <1>2, <1>4, <2>1 DEF OnlyWanted, AllWanted, Bracket, Typed
  <2> QED BY <1>4, <2>2, <2>3
<1>7. CASE EndLogs
  <2>1. pc = "logs" /\ pc' = "ok" /\ todo = {} /\ UNCHANGED told
    BY <1>7 DEF EndLogs, Goto
  <2> QED BY <1>1, <1>4, <2>1
       DEF Typed, Route, Reasons, OnlyWanted, AllWanted, Ended, told
<1>8. ASSUME NEW p \in Pods, ShowLogs(p) PROVE IInv'
  <2>1. CASE pc' = "logs" /\ p \in things /\ todo' = todo \ {p} /\ shown' = shown \cup {p}
             /\ UNCHANGED <<missing, broken>>
    <3>1. pc = "logs" /\ p \in todo /\ p \in sometimes /\ p \in Wanted(command)
      BY <1>1, <1>8, <2>1 DEF ShowLogs, OnlyWanted
    <3> QED BY <1>1, <1>4, <2>1, <3>1
         DEF Typed, Route, Reasons, OnlyWanted, AllWanted, Phases
  <2>2. CASE pc' = "err" /\ UNCHANGED told
    BY <1>1, <1>4, <2>2
       DEF Typed, Route, Reasons, OnlyWanted, AllWanted, Ended, told
  <2> QED BY <1>8, <2>1, <2>2 DEF ShowLogs, Goto
<1> QED BY <1>5, <1>6, <1>7, <1>8

(* status adds the two listings up; list and describe go on from the one   *)
(* of the services.                                                        *)
LEMMA ListingsKeepIInv ==
    ASSUME IInv, Status \/ ListServices \/ DescribePod
    PROVE  IInv'
<1>1. Running /\ command.kind \in {"status", "list", "describe"}
  BY DEF IInv, Route, Status, ListServices, DescribePod, Running, Ended
<1>2. /\ command.kind = "status" => Wanted(command) = Pods \cup Services
      /\ command.kind = "list" => Wanted(command) = Services
      /\ command.kind = "describe" => Wanted(command) = Services \cup Described
  BY WantedIs DEF IInv, Typed
<1>3. PICK l \in {"services", "recheck", "ok", "err"} : Goto(l)
  BY DEF Status, ListServices, DescribePod
<1>4. /\ Bracket' /\ Wanted(command') = Wanted(command) /\ command' = command
      /\ UNCHANGED <<namespace, things, always, sometimes, absent>> /\ pc' = l
  BY <1>1, <1>3, BracketStays
<1>5. todo = {}
  BY DEF IInv, Route, Status, ListServices, DescribePod
<1> USE DEF IInv
<1>6. CASE Status
  <2>1. /\ pc \in {"pods", "services"} /\ command.kind = "status"
        /\ pc' = (IF pc = "pods" THEN "services" ELSE "ok")
        /\ UNCHANGED <<missing, todo>>
        /\ broken' \in BOOLEAN /\ (broken => broken')
        /\ shown \subseteq shown' /\ shown' \subseteq shown \cup things
        /\ ~broken' /\ pc = "pods" => things \cap Pods \subseteq shown'
        /\ ~broken' /\ pc = "services" => things \cap Services \subseteq shown'
    <3>1. pc \in {"pods", "services"} /\ command.kind = "status" /\ broken \in BOOLEAN
      BY <1>6 DEF Status, Route, Typed
    <3>2. CASE pc = "pods"
      BY <1>6, <3>1, <3>2 DEF Status, Listed, Goto
    <3>3. CASE pc = "services"
      BY <1>6, <3>1, <3>3 DEF Status, Listed, Goto
    <3> QED BY <3>1, <3>2, <3>3
  <2>2. Typed' /\ Route' /\ Reasons'
    BY <1>4, <1>5, <2>1 DEF Typed, Route, Reasons, Phases, Ended
  <2>3. OnlyWanted' /\ AllWanted'
    BY <1>1, <1>2, <1>4, <1>5, <2>1 DEF OnlyWanted, AllWanted, Bracket, Typed
  <2> QED BY <1>4, <2>2, <2>3
<1>7. CASE ListServices
  <2>1. /\ pc = "svc" /\ command.kind \in {"list", "describe"}
        /\ UNCHANGED <<missing, todo, broken>>
        /\ \/ pc' = "err" /\ shown' = shown
           \/ /\ pc' = (IF command.kind = "describe" THEN "recheck" ELSE "ok")
              /\ shown' = shown \cup (things \cap Services)
    BY <1>7 DEF ListServices, Listed, Goto, Route
  <2>2. Typed' /\ Route' /\ Reasons'
    BY <1>4, <1>5, <2>1 DEF Typed, Route, Reasons, Phases, Ended
  <2>3. OnlyWanted' /\ AllWanted'
    BY <1>1, <1>2, <1>4, <1>5, <2>1 DEF OnlyWanted, AllWanted, Bracket, Typed
  <2> QED BY <1>4, <2>2, <2>3
<1>8. CASE DescribePod
  <2>1. /\ pc = "describe" /\ command.kind = "describe"
        /\ UNCHANGED <<missing, todo, broken>>
        /\ \/ pc' = "err" /\ shown' = shown
           \/ pc' = "ok" /\ shown' = shown \cup (things \cap Described)
    BY <1>8 DEF DescribePod, Listed, Goto, Route
  <2>2. Typed' /\ Route' /\ Reasons'
    BY <1>4, <1>5, <2>1, ClusterAssumption DEF Typed, Route, Reasons, Phases, Ended
  <2>3. OnlyWanted' /\ AllWanted'
    BY <1>1, <1>2, <1>4, <1>5, <2>1 DEF OnlyWanted, AllWanted, Bracket, Typed
  <2> QED BY <1>4, <2>2, <2>3
<1> QED BY <1>6, <1>7, <1>8

(* What a command has shown and is next to show is bracketed by what was   *)
(* there all the time and what was there at some time: the inductive       *)
(* invariant.                                                              *)
THEOREM ReadsInvariant == Spec => []IInv
<1>1. IInv /\ [Next]_vars => IInv'
  <2> SUFFICES ASSUME IInv, [Next]_vars PROVE IInv'
    OBVIOUS
  <2>1. CASE (\E x \in Pods \cup Services : Appear(x) \/ Vanish(x)) \/ ToggleNamespace
    BY <2>1, ClusterKeepsIInv
  <2>2. ASSUME NEW m \in Commands, Begin(m) PROVE IInv'
    BY <2>2, BeginKeepsIInv
  <2>3. CASE ConnectFails \/ CheckNamespace \/ SayMissing
    BY <2>3, NamespaceKeepsIInv
  <2>4. CASE SelectPods \/ NarrowToComponent \/ EndLogs \/ (\E p \in Pods : ShowLogs(p))
    BY <2>4, LogsKeepsIInv
  <2>5. CASE Status \/ ListServices \/ DescribePod
    BY <2>5, ListingsKeepIInv
  <2>6. CASE UNCHANGED vars
    <3>1. /\ UNCHANGED <<namespace, things, command, pc, missing, todo, shown, broken>>
          /\ UNCHANGED <<always, sometimes, absent>>
      BY <2>6 DEF vars, cluster, told, witnesses
    <3> QED BY <3>1
         DEF IInv, Typed, Route, Bracket, Running, OnlyWanted, AllWanted, Reasons
  <2> QED BY <2>1, <2>2, <2>3, <2>4, <2>5, <2>6 DEF Next, Step
<1> QED BY <1>1, InitIInv, PTL DEF Spec

-----------------------------------------------------------------------------
(* Every variable keeps its type. *)
THEOREM TypeCorrect == Spec => []TypeOK
<1>1. IInv => TypeOK
  BY DEF IInv, Typed, Route, OnlyWanted, TypeOK
<1> QED BY <1>1, ReadsInvariant, PTL

(* A command shows only what it was asked for and what was there while it  *)
(* ran.                                                                    *)
THEOREM ShowsWhatWasThere == Spec => []ShownWasThere
<1>1. IInv => ShownWasThere
  BY DEF IInv, OnlyWanted, ShownWasThere
<1> QED BY <1>1, ReadsInvariant, PTL

(* A command that ends well after kubectl calls that all succeeded leaves  *)
(* nothing out.                                                            *)
THEOREM PassesNothingOver == Spec => []NothingPassedOver
<1>1. IInv => NothingPassedOver
  BY DEF IInv, AllWanted, NothingPassedOver
<1> QED BY <1>1, ReadsInvariant, PTL

(* A namespace is said to be missing only when it was, or kubectl failed.  *)
THEOREM MissesForAReason == Spec => []MissingForAReason
<1>1. IInv => MissingForAReason
  BY DEF IInv, Reasons, MissingForAReason
<1> QED BY <1>1, ReadsInvariant, PTL

-----------------------------------------------------------------------------
(* How many kubectl calls, at most, lie before each one of a command, those *)
(* for the logs of one pod counted once.                                    *)
Rank == [check |-> 6, available |-> 5, select |-> 4, component |-> 3, logs |-> 2,
         pods |-> 4, services |-> 3, svc |-> 4, recheck |-> 3, available2 |-> 2,
         describe |-> 1, ok |-> 0, err |-> 0, exit |-> 0]

(* Each step of a command brings it nearer to its end, or to the end of    *)
(* the pods it lists; the cluster's changes do not set it back.            *)
CommandsGetOn ==
    [][/\ Step => \/ Rank[pc'] < Rank[pc]
                  \/ /\ pc = "logs" /\ pc' = "logs"
                     /\ Cardinality(todo') < Cardinality(todo)
       /\ Running /\ ~Step => UNCHANGED <<pc, todo>>]_vars

(* The safety part of what ends every command: none can go round in        *)
(* circles, whatever pods come and go while it runs.                       *)
THEOREM CommandsCannotLoop ==
    ASSUME IsFiniteSet(Pods)
    PROVE  Spec => CommandsGetOn
<1> DEFINE Nearer == \/ Rank[pc'] < Rank[pc]
                     \/ /\ pc = "logs" /\ pc' = "logs"
                        /\ Cardinality(todo') < Cardinality(todo)
           GetsOn == (Step => Nearer) /\ (Running /\ ~Step => UNCHANGED <<pc, todo>>)
<1>1. IInv /\ [Next]_vars => [GetsOn]_vars
  <2> SUFFICES ASSUME IInv, Next PROVE GetsOn
    OBVIOUS
  <2>1. command.kind \in {"logs", "status", "list", "describe"} /\ pc \in Phases \cup Ended
    BY DEF IInv, Typed, Commands
  <2>2. ASSUME Step PROVE Nearer
    <3>a. /\ pc \in {"recheck", "available2"} => AfterCheck = "describe"
          /\ pc \in {"check", "available"} => AfterCheck \in {"select", "pods", "svc"}
      <4>1. pc \in {"recheck", "available2"} => command.kind = "describe"
        BY DEF IInv, Route
      <4> QED BY <4>1, <2>1 DEF AfterCheck
    <3>1. CASE ConnectFails
      BY <3>1 DEF ConnectFails, Goto, Rank
    <3>2. CASE CheckNamespace
      <4>1. pc \in {"check", "recheck"}
            /\ (pc' = AfterCheck \/ pc' = IF pc = "check" THEN "available" ELSE "available2")
        BY <3>2 DEF CheckNamespace, Goto
      <4>2. CASE pc = "check"
        <5>1. pc' \in {"select", "pods", "svc", "available"}
          BY <4>1, <4>2, <3>a
        <5> QED BY <4>2, <5>1 DEF Rank
      <4>3. CASE pc = "recheck"
        <5>1. pc' \in {"describe", "available2"}
          BY <4>1, <4>3, <3>a
        <5> QED BY <4>3, <5>1 DEF Rank
      <4> QED BY <4>1, <4>2, <4>3
    <3>3. CASE SayMissing
      <4>1. pc \in {"available", "available2"} /\ (pc' = AfterCheck \/ pc' = "exit")
        BY <3>3 DEF SayMissing, Goto
      <4>2. CASE pc = "available"
        <5>1. pc' \in {"select", "pods", "svc", "exit"}
          BY <4>1, <4>2, <3>a
        <5> QED BY <4>2, <5>1 DEF Rank
      <4>3. CASE pc = "available2"
        <5>1. pc' \in {"describe", "exit"}
          BY <4>1, <4>3, <3>a
        <5> QED BY <4>3, <5>1 DEF Rank
      <4> QED BY <4>1, <4>2, <4>3
    <3>4. CASE SelectPods \/ NarrowToComponent \/ EndLogs
      BY <3>4 DEF SelectPods, NarrowToComponent, EndLogs, Goto, Rank
    <3>5. ASSUME NEW p \in Pods, ShowLogs(p) PROVE Nearer
      <4>1. CASE todo' = todo \ {p} /\ Goto("logs")
        <5>1. IsFiniteSet(todo) /\ p \in todo /\ pc = "logs"
          BY <3>5, FS_Subset DEF IInv, Typed, ShowLogs
        <5>2. Cardinality(todo') = Cardinality(todo) - 1 /\ Cardinality(todo) \in Nat
          BY <4>1, <5>1, FS_RemoveElement, FS_CardinalityType
        <5> QED BY <4>1, <5>1, <5>2 DEF Goto
      <4>2. CASE Goto("err")
        BY <3>5, <4>2 DEF ShowLogs, Goto, Rank
      <4> QED BY <3>5, <4>1, <4>2 DEF ShowLogs
    <3>6. CASE Status \/ ListServices \/ DescribePod
      BY <3>6 DEF Status, ListServices, DescribePod, Goto, Rank
    <3> QED BY <2>2, <3>1, <3>2, <3>3, <3>4, <3>5, <3>6 DEF Step
  <2>3. ASSUME Running, ~Step PROVE UNCHANGED <<pc, todo>>
    BY <2>3 DEF Next, Appear, Vanish, ToggleNamespace, Begin, told
  <2> QED BY <2>2, <2>3
<1> QED BY <1>1, ReadsInvariant, PTL DEF Spec, CommandsGetOn
=============================================================================
