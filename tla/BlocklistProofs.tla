--------------------------- MODULE BlocklistProofs ---------------------------
(***************************************************************************)
(* Theorems of Blocklist, for any addresses, invocations of cfcli and      *)
(* capacity of the map, and any number of commands, starts, installations  *)
(* and reboots.                                                            *)
(***************************************************************************)
EXTENDS Blocklist, FiniteSetTheorems, SequenceTheorems, TLAPS

(* A set of numbers that is not empty has a smallest. *)
LEMMA Smallest ==
    ASSUME NEW I \in SUBSET Nat, I # {}
    PROVE  Min(I) \in I
<1> DEFINE R == OpToRel(<, Nat)
<1>1. PICK x \in I : \A y \in I : <<y, x>> \notin R
  <2> HIDE DEF R
  <2>1. IsWellFoundedOn(R, Nat)
    BY NatLessThanWellFounded DEF R
  <2> QED BY <2>1, WFMin
<1>2. \A y \in I : x =< y
  <2> SUFFICES ASSUME NEW y \in I, ~(x =< y) PROVE FALSE
    OBVIOUS
  <2>1. x \in Nat /\ y \in Nat /\ y < x
    OBVIOUS
  <2>2. <<y, x>> \in R
    BY <2>1 DEF OpToRel
  <2> QED BY <2>2, <1>1
<1> QED BY <1>2 DEF Min

(* Removing the first occurrence of e leaves everything but e in its list. *)
LEMMA RemovesNoOther ==
    ASSUME NEW S, NEW s \in Seq(S), NEW e
    PROVE  /\ RemoveFirst(s, e) \in Seq(S)
           /\ \A x : x # e => (x \in ToSet(RemoveFirst(s, e)) <=> x \in ToSet(s))
<1>1. CASE ~ \E i \in 1..Len(s) : s[i] = e
  BY <1>1 DEF RemoveFirst
<1>2. CASE \E i \in 1..Len(s) : s[i] = e
  <2> DEFINE I == {i \in 1..Len(s) : s[i] = e}
             m == Min(I)
             a == SubSeq(s, 1, m - 1)
             b == SubSeq(s, m + 1, Len(s))
  <2>1. m \in I
    <3>1. I \in SUBSET Nat /\ I # {}
      BY <1>2
    <3> HIDE DEF I
    <3> QED BY <3>1, Smallest
  <2>2. RemoveFirst(s, e) = a \o b
    BY <1>2 DEF RemoveFirst, RemoveAt, SelectInSeq
  <2> HIDE DEF m
  <2>3. m \in 1..Len(s) /\ s[m] = e /\ Len(s) \in Nat
    BY <2>1
  <2>4. a \in Seq(S) /\ Len(a) = m - 1 /\ \A i \in 1..(m - 1) : a[i] = s[i]
    BY <2>3
  <2>5. b \in Seq(S) /\ Len(b) = Len(s) - m /\ \A i \in 1..(Len(s) - m) : b[i] = s[m + i]
    BY <2>3
  <2> HIDE DEF a, b
  <2>6. /\ a \o b \in Seq(S) /\ Len(a \o b) = Len(s) - 1
        /\ \A i \in 1..(m - 1) : (a \o b)[i] = s[i]
        /\ \A i \in m..(Len(s) - 1) : (a \o b)[i] = s[i + 1]
    <3>1. /\ a \o b \in Seq(S) /\ Len(a \o b) = Len(a) + Len(b)
          /\ \A i \in 1..(Len(a) + Len(b)) :
                (a \o b)[i] = IF i =< Len(a) THEN a[i] ELSE b[i - Len(a)]
      BY <2>4, <2>5, ConcatProperties
    <3>2. \A i \in 1..(m - 1) : (a \o b)[i] = s[i]
      BY <2>3, <2>4, <2>5, <3>1
    <3>3. ASSUME NEW i \in m..(Len(s) - 1)
          PROVE  (a \o b)[i] = s[i + 1]
      <4>1. i - (m - 1) \in 1..(Len(s) - m) /\ m + (i - (m - 1)) = i + 1
        BY <2>3
      <4>2. (a \o b)[i] = b[i - (m - 1)]
        BY <2>3, <2>4, <2>5, <3>1
      <4> QED BY <2>5, <4>1, <4>2
    <3> QED BY <2>3, <2>4, <2>5, <3>1, <3>2, <3>3
  <2> DEFINE t == a \o b
  <2>8. /\ Len(t) = Len(s) - 1 /\ t \in Seq(S)
        /\ \A i \in 1..(m - 1) : t[i] = s[i]
        /\ \A i \in m..(Len(s) - 1) : t[i] = s[i + 1]
    BY <2>6
  <2> HIDE DEF t
  <2>7. ASSUME NEW x, x # e
        PROVE  x \in ToSet(t) <=> x \in ToSet(s)
    <3>0. DOMAIN s = 1..Len(s) /\ DOMAIN t = 1..(Len(s) - 1)
      BY <2>8
    <3>1. ASSUME NEW i \in 1..(Len(s) - 1)
          PROVE  t[i] \in ToSet(s)
      <4>1. CASE i < m
        <5>1. i \in 1..(m - 1) /\ i \in 1..Len(s)
          BY <2>3, <4>1
        <5>2. t[i] = s[i]
          BY <2>8, <5>1
        <5> QED BY <3>0, <5>1, <5>2 DEF ToSet
      <4>2. CASE ~(i < m)
        <5>1. i \in m..(Len(s) - 1) /\ i + 1 \in 1..Len(s)
          BY <2>3, <4>2
        <5>2. t[i] = s[i + 1]
          BY <2>3, <2>8, <5>1
        <5> QED BY <3>0, <5>1, <5>2 DEF ToSet
      <4> QED BY <4>1, <4>2
    <3>2. ASSUME NEW i \in 1..Len(s), s[i] = x
          PROVE  x \in ToSet(t)
      <4>1. i # m
        BY <2>3, <2>7, <3>2
      <4>2. CASE i < m
        BY <2>3, <2>8, <3>0, <3>2, <4>2 DEF ToSet
      <4>3. CASE i > m
        <5>1. i - 1 \in m..(Len(s) - 1) /\ (i - 1) + 1 = i
          BY <2>3, <4>3
        <5>2. t[i - 1] = s[(i - 1) + 1]
          BY <2>3, <2>8, <5>1
        <5>3. t[i - 1] = x
          BY <3>2, <5>1, <5>2
        <5> QED BY <2>3, <2>8, <3>0, <5>1, <5>3 DEF ToSet
      <4> QED BY <2>3, <4>1, <4>2, <4>3
    <3> QED BY <3>1, <3>2, <3>0 DEF ToSet
  <2> QED BY <2>2, <2>6, <2>7 DEF t
<1> QED BY <1>1, <1>2

(* What adding one more to a list does. *)
LEMMA Appends ==
    ASSUME NEW S, NEW s \in Seq(S), NEW e \in S
    PROVE  /\ Append(s, e) \in Seq(S)
           /\ ToSet(Append(s, e)) = ToSet(s) \cup {e}
<1>1. /\ Append(s, e) \in Seq(S) /\ Len(Append(s, e)) = Len(s) + 1
      /\ \A i \in 1..Len(s) : Append(s, e)[i] = s[i]
      /\ Append(s, e)[Len(s) + 1] = e
  BY AppendProperties
<1>2. DOMAIN s = 1..Len(s) /\ DOMAIN Append(s, e) = 1..(Len(s) + 1) /\ Len(s) \in Nat
  BY <1>1
<1> QED BY <1>1, <1>2 DEF ToSet

(* What is on a list but its first. *)
LEMMA HeadAndTail ==
    ASSUME NEW S, NEW s \in Seq(S), s # <<>>
    PROVE  /\ Head(s) \in S /\ Tail(s) \in Seq(S)
           /\ ToSet(s) = ToSet(Tail(s)) \cup {Head(s)}
<1>1. /\ Head(s) \in S /\ Tail(s) \in Seq(S) /\ Len(Tail(s)) = Len(s) - 1
      /\ \A i \in 1..Len(Tail(s)) : Tail(s)[i] = s[i + 1]
  BY HeadTailProperties
<1>2. Len(s) \in Nat /\ Len(s) # 0 /\ Head(s) = s[1]
  OBVIOUS
<1>3. DOMAIN s = 1..Len(s) /\ DOMAIN Tail(s) = 1..(Len(s) - 1)
  BY <1>1
<1>4. ASSUME NEW i \in 1..Len(s)
      PROVE  s[i] \in ToSet(Tail(s)) \cup {Head(s)}
  <2>1. CASE i = 1
    BY <1>2, <2>1
  <2>2. CASE i # 1
    <3>1. i - 1 \in 1..(Len(s) - 1) /\ (i - 1) + 1 = i
      BY <1>2, <2>2
    <3>2. Tail(s)[i - 1] = s[i]
      BY <1>1, <3>1
    <3> QED BY <1>3, <3>1, <3>2 DEF ToSet
  <2> QED BY <2>1, <2>2
<1>5. ASSUME NEW i \in 1..(Len(s) - 1)
      PROVE  Tail(s)[i] \in ToSet(s)
  BY <1>1, <1>2, <1>3 DEF ToSet
<1>6. Head(s) \in ToSet(s)
  BY <1>2, <1>3 DEF ToSet
<1> QED BY <1>1, <1>3, <1>4, <1>5, <1>6 DEF ToSet

-----------------------------------------------------------------------------
(* identity and the ConfigMap are in one namespace, and the installer gets  *)
(* to identity only over the ConfigMap.                                     *)
DeployInv ==
    /\ "identity" \in deployed => configmap = TRUE /\ namespace = "active"
    /\ installer = "identity" /\ namespace = "active" => configmap = TRUE

LEMMA DeployStep == DeployInv /\ [Next]_vars => DeployInv'
<1> SUFFICES ASSUME DeployInv, [Next]_vars PROVE DeployInv'
  OBVIOUS
<1> USE DEF DeployInv
<1>1. ASSUME UNCHANGED <<listVars, clusterVars>> PROVE DeployInv'
  BY <1>1 DEF listVars, clusterVars
<1>2. CASE \E c \in Clis : UpdateConfigmap(c)
  BY <1>2 DEF UpdateConfigmap, clusterVars
<1>3. CASE InstallCortexflow
  BY <1>3 DEF InstallCortexflow, listVars
<1>4. CASE CreateConfigFile
  BY <1>4 DEF CreateConfigFile, NewConfigmap
<1>5. CASE ApplyComponent
  BY <1>5 DEF ApplyComponent, listVars
<1>6. CASE InstallFails
  BY <1>6 DEF InstallFails, listVars
<1>7. CASE InstallBlocklist
  BY <1>7 DEF InstallBlocklist, NewConfigmap
<1>8. CASE UninstallAll
  BY <1>8 DEF UninstallAll
<1>9. CASE NamespaceGone
  BY <1>9 DEF NamespaceGone, listVars
<1>10. CASE UninstallIdentity
  BY <1>10 DEF UninstallIdentity, listVars
<1>11. CASE \E c \in Clis, command \in Commands, ip \in Inputs : Command(c, command, ip)
  BY <1>1, <1>11 DEF Command
<1>12. CASE \E c \in Clis : CallAgent(c)
  BY <1>1, <1>12 DEF CallAgent
<1>13. CASE \E c \in Clis : CallPanics(c)
  BY <1>1, <1>13 DEF CallPanics
<1>14. CASE \E c \in Clis : ReadConfigs(c)
  BY <1>1, <1>14 DEF ReadConfigs
<1>15. CASE \E c \in Clis : GiveUp(c)
  BY <1>1, <1>15 DEF GiveUp
<1>16. CASE Start
  BY <1>1, <1>16 DEF Start
<1>17. CASE Pin
  BY <1>1, <1>17 DEF Pin
<1>18. CASE ReadList
  BY <1>1, <1>18 DEF ReadList
<1>19. CASE ReadListFails
  BY <1>1, <1>19 DEF ReadListFails
<1>20. CASE Populate
  BY <1>1, <1>20 DEF Populate
<1>21. CASE PopulateFails
  BY <1>1, <1>21 DEF PopulateFails
<1>22. CASE AttachClassifier
  BY <1>1, <1>22 DEF AttachClassifier
<1>23. CASE Stop
  BY <1>1, <1>23 DEF Stop
<1>24. CASE Reboot
  BY <1>1, <1>24 DEF Reboot
<1>25. CASE UNCHANGED vars
  BY <1>1, <1>25 DEF vars
<1> QED BY <1>2, <1>3, <1>4, <1>5, <1>6, <1>7, <1>8, <1>9, <1>10, <1>11, <1>12, <1>13,
           <1>14, <1>15, <1>16, <1>17, <1>18, <1>19, <1>20, <1>21, <1>22, <1>23, <1>24, <1>25 DEF Next

(* The inductive invariant of the deployment. *)
THEOREM DeployInvariant == Spec => []DeployInv
<1>1. Init => DeployInv
  BY DEF Init, DeployInv
<1> QED BY <1>1, DeployStep, PTL DEF Spec

(* identity is never deployed without the ConfigMap that install_cortexflow *)
(* and create_config_file make, whatever fails, is repeated or is undone.   *)
THEOREM ListFirst == Spec => []ListBeforeIdentity
<1>1. DeployInv => ListBeforeIdentity
  BY DEF DeployInv, ListBeforeIdentity
<1> QED BY <1>1, DeployInvariant, PTL

-----------------------------------------------------------------------------
(* The addresses no promise is owed for any more. *)
Safe == blocked \cup excused

NoConfigmapNoList == configmap = FALSE => listed = <<>>

(* What a command has still to write was put into the map, or out of it. *)
ArgumentIsSafe ==
    \A c \in Clis : cli[c].at \in {"read", "write"} => cli[c].ip \in Safe

(* The list and the copies of it that are still to be written back agree on *)
(* what is not in the map.                                                  *)
ListsAgree ==
    \A c \in Clis : cli[c].at = "write" =>
        \A x \in Addresses \ Safe : x \in ToSet(cli[c].ips) <=> x \in ToSet(listed)

(* What identity has still to insert is what is not in the map. *)
PendingIsRest ==
    identity = "populating" => ToSet(listed) \cap Addresses \subseteq Safe \cup ToSet(pending)

ListInv ==
    /\ TypeOK
    /\ IsFiniteSet(blocked)
    /\ NoConfigmapNoList
    /\ ArgumentIsSafe
    /\ ListsAgree
    /\ PendingIsRest
    /\ ListedIsBlocked

-----------------------------------------------------------------------------
(* A command in progress, and the change of one. *)
LEMMA JobFields ==
    ASSUME NEW j \in Job \cup {Idle}, j.at # "idle"
    PROVE  /\ j \in Job /\ j # Idle
           /\ j.at \in {"call", "read", "write", "error"} /\ j.command \in Commands
           /\ j.ip \in Inputs /\ j.ips \in Seq(Inputs)
BY DEF Job, Idle

LEMMA IdleIsNoJob == Idle.at = "idle" /\ Idle \notin Job
BY DEF Idle, Job

LEMMA NextStage ==
    ASSUME NEW j \in Job, NEW s \in {"call", "read", "write", "error"}
    PROVE  LET k == [j EXCEPT !.at = s]
           IN  k \in Job /\ k.at = s /\ k.command = j.command /\ k.ip = j.ip /\ k.ips = j.ips
BY DEF Job

LEMMA OneCli ==
    ASSUME TypeOK, NEW c \in Clis, NEW j \in Job \cup {Idle},
           cli' = [cli EXCEPT ![c] = j]
    PROVE  /\ cli' \in [Clis -> Job \cup {Idle}]
           /\ cli'[c] = j
           /\ \A d \in Clis : d # c => cli'[d] = cli[d]
BY DEF TypeOK

(* A step of one command that changes no list and no map. *)
LEMMA CliStep ==
    ASSUME ListInv, UNCHANGED <<kernelVars, listVars, clusterVars, identityVars>>,
           commands' \in Nat,
           NEW c \in Clis, NEW j \in Job \cup {Idle}, cli' = [cli EXCEPT ![c] = j],
           j.at \in {"read", "write"} => j.ip \in Safe,
           j.at = "write" =>
               \A x \in Addresses \ Safe : x \in ToSet(j.ips) <=> x \in ToSet(listed)
    PROVE  ListInv'
<1> USE DEF ListInv
<1>1. /\ cli' \in [Clis -> Job \cup {Idle}] /\ cli'[c] = j
      /\ \A d \in Clis : d # c => cli'[d] = cli[d]
  BY OneCli
<1>2. /\ blocked' = blocked /\ listed' = listed /\ configmap' = configmap
      /\ identity' = identity /\ pending' = pending /\ excused' = excused /\ Safe' = Safe
  BY DEF kernelVars, listVars, identityVars, Safe
<1>3. TypeOK'
  BY <1>1, <1>2 DEF TypeOK, kernelVars, listVars, clusterVars, identityVars
<1>4. ArgumentIsSafe'
  BY <1>1, <1>2 DEF ArgumentIsSafe
<1>5. ListsAgree'
  BY <1>1, <1>2 DEF ListsAgree
<1> QED BY <1>2, <1>3, <1>4, <1>5 DEF NoConfigmapNoList, PendingIsRest, ListedIsBlocked, Safe

(* A step of identity, which knows no command and writes no list. *)
LEMMA IdentityStep ==
    ASSUME ListInv, UNCHANGED <<listVars, clusterVars, cliVars>>,
           TypeOK', IsFiniteSet(blocked'), Safe \subseteq Safe',
           PendingIsRest', ListedIsBlocked'
    PROVE  ListInv'
<1> USE DEF ListInv
<1>1. cli' = cli /\ listed' = listed /\ configmap' = configmap
  BY DEF listVars, cliVars
<1>2. ArgumentIsSafe'
  BY <1>1 DEF ArgumentIsSafe
<1>3. ListsAgree'
  BY <1>1 DEF ListsAgree
<1> QED BY <1>1, <1>2, <1>3 DEF NoConfigmapNoList

(* A step of the cluster that leaves the list and the commands alone. *)
LEMMA ClusterStep ==
    ASSUME ListInv, UNCHANGED <<kernelVars, listed, identityVars, cliVars>>,
           TypeOK', configmap' = FALSE => configmap = FALSE
    PROVE  ListInv'
<1> USE DEF ListInv
<1>1. /\ cli' = cli /\ listed' = listed /\ blocked' = blocked /\ Safe' = Safe
      /\ identity' = identity /\ pending' = pending /\ excused' = excused
  BY DEF kernelVars, identityVars, cliVars, Safe
<1> QED BY <1>1 DEF NoConfigmapNoList, ArgumentIsSafe, ListsAgree, PendingIsRest,
                    ListedIsBlocked, Safe

(* An insertion into a map with room for it. *)
LEMMA Inserts ==
    ASSUME TypeOK, IsFiniteSet(blocked), NEW ip \in Addresses, HasRoom(ip), Insert(ip)
    PROVE  /\ blocked' \subseteq Addresses /\ IsFiniteSet(blocked')
           /\ Cardinality(blocked') =< MapCapacity
           /\ excused' \subseteq Addresses
           /\ Safe \subseteq Safe' /\ ip \in Safe'
<1>1. blocked' = blocked \cup {ip}
  BY DEF Insert
<1>2. /\ IsFiniteSet(blocked \cup {ip})
      /\ Cardinality(blocked \cup {ip}) =
            IF ip \in blocked THEN Cardinality(blocked) ELSE Cardinality(blocked) + 1
  BY FS_AddElement
<1>3. Cardinality(blocked) \in Nat /\ MapCapacity \in Nat
  BY FS_CardinalityType, BlocklistAssumption
<1>4. Cardinality(blocked \cup {ip}) =< MapCapacity
  BY <1>2, <1>3 DEF TypeOK, HasRoom
<1> QED BY <1>1, <1>2, <1>4 DEF TypeOK, Insert, Safe

LEMMA Removes ==
    ASSUME TypeOK, IsFiniteSet(blocked), NEW ip, rm_ip_from_blocklist(ip)
    PROVE  /\ blocked' \subseteq Addresses /\ IsFiniteSet(blocked')
           /\ Cardinality(blocked') =< MapCapacity
           /\ excused' \subseteq Addresses
           /\ Safe \subseteq Safe' /\ ip \in Safe'
<1>1. blocked' = blocked \ {ip} /\ ip \in Addresses /\ excused' = excused \cup {ip}
  BY DEF rm_ip_from_blocklist
<1>2. /\ IsFiniteSet(blocked \ {ip})
      /\ Cardinality(blocked \ {ip}) =
            IF ip \in blocked THEN Cardinality(blocked) - 1 ELSE Cardinality(blocked)
  BY FS_RemoveElement
<1>3. Cardinality(blocked) \in Nat /\ MapCapacity \in Nat
  BY FS_CardinalityType, BlocklistAssumption
<1>4. Cardinality(blocked \ {ip}) =< MapCapacity
  BY <1>2, <1>3 DEF TypeOK
<1> QED BY <1>1, <1>2, <1>4 DEF TypeOK, Safe

-----------------------------------------------------------------------------
(* The commands. *)
LEMMA StepCommand ==
    ASSUME ListInv, NEW c \in Clis, NEW command \in Commands, NEW ip \in Inputs,
           Command(c, command, ip)
    PROVE  ListInv'
<1> DEFINE j == [at |-> "call", command |-> command, ip |-> ip, ips |-> <<>>]
<1>1. j \in Job /\ j.at = "call"
  BY DEF Job
<1>2. commands' \in Nat
  BY DEF Command, ListInv, TypeOK
<1> HIDE DEF j
<1> QED BY <1>1, <1>2, CliStep DEF Command, j

LEMMA StepCallAgent ==
    ASSUME ListInv, NEW c \in Clis, CallAgent(c)
    PROVE  ListInv'
<1> USE DEF ListInv
<1>1. cli[c] \in Job /\ cli[c].ip \in Inputs
  BY JobFields DEF CallAgent, TypeOK
<1>2. PICK next \in {"read", "error"} : cli' = [cli EXCEPT ![c].at = next]
  BY DEF CallAgent
<1> DEFINE j == [cli[c] EXCEPT !.at = next]
<1>3. j \in Job /\ j.at = next /\ j.ip = cli[c].ip
  <2>1. next \in {"call", "read", "write", "error"}
    OBVIOUS
  <2> QED BY <1>1, <2>1, NextStage
<1>4. cli' = [cli EXCEPT ![c] = j]
  BY <1>2
<1> HIDE DEF j
<1>5. /\ cli' \in [Clis -> Job \cup {Idle}] /\ cli'[c] = j
      /\ \A d \in Clis : d # c => cli'[d] = cli[d]
  BY <1>3, <1>4, OneCli
<1>6. /\ blocked' \subseteq Addresses /\ IsFiniteSet(blocked')
      /\ Cardinality(blocked') =< MapCapacity /\ excused' \subseteq Addresses
      /\ Safe \subseteq Safe' /\ cli[c].ip \in Safe'
  <2>1. CASE add_ip_to_blocklist(cli[c].ip)
    BY <2>1, Inserts DEF add_ip_to_blocklist
  <2>2. CASE rm_ip_from_blocklist(cli[c].ip)
    BY <2>2, Removes
  <2> QED BY <2>1, <2>2 DEF CallAgent, Handler
<1>7. UNCHANGED <<pinned, listVars, clusterVars, identityVars, commands>>
  BY DEF CallAgent
<1>8. TypeOK'
  BY <1>5, <1>6, <1>7 DEF TypeOK, listVars, clusterVars, identityVars
<1>9. listed' = listed /\ configmap' = configmap /\ identity' = identity /\ pending' = pending
  BY <1>7 DEF listVars, identityVars
<1>10. ArgumentIsSafe'
  BY <1>3, <1>5, <1>6 DEF ArgumentIsSafe
<1>11. ListsAgree'
  BY <1>2, <1>3, <1>5, <1>6, <1>9 DEF ListsAgree
<1>12. PendingIsRest' /\ ListedIsBlocked'
  BY <1>6, <1>9 DEF PendingIsRest, ListedIsBlocked, Safe
<1> QED BY <1>6, <1>8, <1>9, <1>10, <1>11, <1>12 DEF NoConfigmapNoList

LEMMA StepCallPanics ==
    ASSUME ListInv, NEW c \in Clis, CallPanics(c)
    PROVE  ListInv'
<1> DEFINE j == [cli[c] EXCEPT !.at = "error"]
<1>1. cli[c] \in Job
  BY JobFields DEF CallPanics, ListInv, TypeOK
<1>2. j \in Job /\ j.at = "error"
  BY <1>1, NextStage
<1>3. cli' = [cli EXCEPT ![c] = j]
  BY DEF CallPanics
<1>4. commands' \in Nat
  BY DEF CallPanics, ListInv, TypeOK
<1> HIDE DEF j
<1> QED BY <1>2, <1>3, <1>4, CliStep DEF CallPanics

LEMMA StepReadConfigs ==
    ASSUME ListInv, NEW c \in Clis, ReadConfigs(c)
    PROVE  ListInv'
<1> DEFINE j == [cli[c] EXCEPT !.at = "write", !.ips = listed]
<1>1. cli[c] \in Job /\ listed \in Seq(Inputs)
  BY JobFields DEF ReadConfigs, ListInv, TypeOK
<1>2. j \in Job /\ j.at = "write" /\ j.ip = cli[c].ip /\ j.ips = listed
  BY <1>1 DEF Job
<1>3. cli' = [cli EXCEPT ![c] = j]
  BY DEF ReadConfigs
<1>4. commands' \in Nat
  BY DEF ReadConfigs, ListInv, TypeOK
<1>5. j.ip \in Safe
  BY <1>2 DEF ReadConfigs, ListInv, ArgumentIsSafe
<1> HIDE DEF j
<1> QED BY <1>2, <1>3, <1>4, <1>5, CliStep DEF ReadConfigs

(* What is written back agrees with what was there, but for the argument. *)
LEMMA StepUpdateConfigmap ==
    ASSUME ListInv, NEW c \in Clis, UpdateConfigmap(c)
    PROVE  ListInv'
<1> USE DEF ListInv
<1> DEFINE j == cli[c]
<1>1. /\ j \in Job /\ j.at = "write" /\ j.command \in Commands
      /\ j.ip \in Inputs /\ j.ips \in Seq(Inputs)
  BY JobFields DEF UpdateConfigmap, TypeOK
<1>2. j.ip \in Safe
  BY <1>1 DEF ArgumentIsSafe
<1>3. \A x \in Addresses \ Safe : x \in ToSet(j.ips) <=> x \in ToSet(listed)
  BY <1>1 DEF ListsAgree
<1>4. listed' = NewConfigs(j.command, j.ip, j.ips)
  BY DEF UpdateConfigmap
<1> HIDE DEF j
<1>5. /\ listed' \in Seq(Inputs)
      /\ \A x \in Addresses \ Safe : x \in ToSet(listed') <=> x \in ToSet(listed)
  <2>1. CASE j.command = "add"
    <3>1. listed' = Append(j.ips, j.ip)
      BY <1>4, <2>1 DEF NewConfigs
    <3> QED BY <1>1, <1>2, <1>3, <3>1, Appends
  <2>2. CASE j.command = "delete"
    <3>1. listed' = RemoveFirst(j.ips, j.ip)
      BY <1>4, <2>2 DEF NewConfigs
    <3> QED BY <1>1, <1>2, <1>3, <3>1, RemovesNoOther
  <2> QED BY <1>1, <2>1, <2>2 DEF Commands
<1>6. /\ cli' \in [Clis -> Job \cup {Idle}] /\ cli'[c] = Idle
      /\ \A d \in Clis : d # c => cli'[d] = cli[d]
  BY OneCli DEF UpdateConfigmap, Done
<1>7. UNCHANGED <<kernelVars, clusterVars, identityVars, commands>> /\ configmap' = TRUE
  BY DEF UpdateConfigmap
<1>8. /\ blocked' = blocked /\ excused' = excused /\ Safe' = Safe
      /\ identity' = identity /\ pending' = pending
  BY <1>7 DEF kernelVars, identityVars, Safe
<1>9. TypeOK'
  BY <1>5, <1>6, <1>7, <1>8 DEF TypeOK, kernelVars, clusterVars, identityVars
<1>10. ArgumentIsSafe'
  BY <1>6, <1>8, IdleIsNoJob DEF ArgumentIsSafe
<1>11. ListsAgree'
  BY <1>5, <1>6, <1>8, IdleIsNoJob DEF ListsAgree
<1>12. PendingIsRest' /\ ListedIsBlocked'
  BY <1>5, <1>8 DEF PendingIsRest, ListedIsBlocked, Safe
<1> QED BY <1>7, <1>8, <1>9, <1>10, <1>11, <1>12 DEF NoConfigmapNoList

LEMMA StepGiveUp ==
    ASSUME ListInv, NEW c \in Clis, GiveUp(c)
    PROVE  ListInv'
<1>1. cli' = [cli EXCEPT ![c] = Idle] /\ commands' \in Nat
  BY DEF GiveUp, Done, ListInv, TypeOK
<1> QED BY <1>1, IdleIsNoJob, CliStep DEF GiveUp

-----------------------------------------------------------------------------
(* The installations. *)
LEMMA StepInstallCortexflow == ListInv /\ InstallCortexflow => ListInv'
<1> SUFFICES ASSUME ListInv, InstallCortexflow PROVE ListInv'
  OBVIOUS
<1>1. TypeOK'
  BY DEF ListInv, TypeOK, InstallCortexflow, Installing, kernelVars, identityVars, cliVars,
         listVars
<1> QED BY <1>1, ClusterStep DEF InstallCortexflow, Installing, listVars

(* Where there was no ConfigMap, there was no list. *)
LEMMA StepNewConfigmap ==
    ASSUME ListInv, NewConfigmap, TypeOK', UNCHANGED <<kernelVars, identityVars, cliVars>>
    PROVE  ListInv'
<1>1. listed' = listed /\ configmap' = TRUE
  BY DEF NewConfigmap, ListInv, NoConfigmapNoList, TypeOK
<1> QED BY <1>1, ClusterStep

LEMMA StepCreateConfigFile == ListInv /\ CreateConfigFile => ListInv'
<1> SUFFICES ASSUME ListInv, CreateConfigFile PROVE ListInv'
  OBVIOUS
<1>1. TypeOK'
  <2>1. listed' \in Seq(Inputs)
    BY DEF CreateConfigFile, NewConfigmap
  <2> QED BY <2>1 DEF ListInv, TypeOK, CreateConfigFile, NewConfigmap, kernelVars,
                      identityVars, cliVars
<1> QED BY <1>1, StepNewConfigmap DEF CreateConfigFile

LEMMA StepInstallBlocklist == ListInv /\ InstallBlocklist => ListInv'
<1> SUFFICES ASSUME ListInv, InstallBlocklist PROVE ListInv'
  OBVIOUS
<1>1. TypeOK'
  BY DEF ListInv, TypeOK, InstallBlocklist, Installing, NewConfigmap, kernelVars,
         identityVars, cliVars
<1> QED BY <1>1, StepNewConfigmap DEF InstallBlocklist, Installing

LEMMA StepApplyComponent == ListInv /\ ApplyComponent => ListInv'
<1> SUFFICES ASSUME ListInv, ApplyComponent PROVE ListInv'
  OBVIOUS
<1>1. TypeOK'
  BY DEF ListInv, TypeOK, ApplyComponent, kernelVars, identityVars, cliVars, listVars
<1> QED BY <1>1, ClusterStep DEF ApplyComponent, listVars

LEMMA StepInstallFails == ListInv /\ InstallFails => ListInv'
<1> SUFFICES ASSUME ListInv, InstallFails PROVE ListInv'
  OBVIOUS
<1>1. TypeOK'
  BY DEF ListInv, TypeOK, InstallFails, kernelVars, identityVars, cliVars, listVars
<1> QED BY <1>1, ClusterStep DEF InstallFails, listVars

LEMMA StepNamespaceGone == ListInv /\ NamespaceGone => ListInv'
<1> SUFFICES ASSUME ListInv, NamespaceGone PROVE ListInv'
  OBVIOUS
<1>1. TypeOK'
  BY DEF ListInv, TypeOK, NamespaceGone, kernelVars, identityVars, cliVars, listVars
<1> QED BY <1>1, ClusterStep DEF NamespaceGone, listVars

LEMMA StepUninstallIdentity == ListInv /\ UninstallIdentity => ListInv'
<1> SUFFICES ASSUME ListInv, UninstallIdentity PROVE ListInv'
  OBVIOUS
<1>1. TypeOK'
  BY DEF ListInv, TypeOK, UninstallIdentity, Installing, kernelVars, identityVars, cliVars,
         listVars
<1> QED BY <1>1, ClusterStep DEF UninstallIdentity, Installing, listVars

(* The list goes, and what commands may bring back of it is excused. *)
LEMMA StepUninstallAll == ListInv /\ UninstallAll => ListInv'
<1> SUFFICES ASSUME ListInv, UninstallAll PROVE ListInv'
  OBVIOUS
<1> USE DEF ListInv
<1>1. /\ UNCHANGED <<blocked, identity, pending, cli>>
      /\ listed' = <<>> /\ configmap' = FALSE
      /\ excused' = excused \cup (ReadBefore \cap Addresses)
  BY DEF UninstallAll, identityVars, cliVars
<1>2. Safe \subseteq Safe'
  BY <1>1 DEF Safe
<1>3. TypeOK'
  <2>1. listed' \in Seq(Inputs)
    BY <1>1
  <2>2. excused' \subseteq Addresses
    BY <1>1 DEF TypeOK
  <2>3. /\ installs' \in Nat /\ namespace' = "terminating" /\ deployed' = {}
        /\ UNCHANGED <<linked, pinned, installer, commands, starts>>
    BY DEF UninstallAll, TypeOK, identityVars, cliVars
  <2> QED BY <1>1, <2>1, <2>2, <2>3 DEF TypeOK
<1>4. ToSet(listed') = {}
  BY <1>1 DEF ToSet
<1>5. ListsAgree'
  <2> SUFFICES ASSUME NEW c \in Clis, cli[c].at = "write", NEW x \in Addresses \ Safe'
               PROVE  x \notin ToSet(cli[c].ips)
    BY <1>1, <1>4 DEF ListsAgree
  <2>1. ToSet(cli[c].ips) \subseteq ReadBefore
    BY DEF ReadBefore
  <2> QED BY <1>1, <2>1 DEF Safe
<1>6. ArgumentIsSafe'
  BY <1>1, <1>2 DEF ArgumentIsSafe
<1> QED BY <1>1, <1>3, <1>4, <1>5, <1>6 DEF NoConfigmapNoList, PendingIsRest, ListedIsBlocked

-----------------------------------------------------------------------------
(* identity, and the node. *)
LEMMA StepIdentity ==
    ASSUME ListInv, UNCHANGED <<blocked, excused, listVars, clusterVars, cliVars>>,
           TypeOK', PendingIsRest', ListedIsBlocked'
    PROVE  ListInv'
BY IdentityStep DEF ListInv, Safe

LEMMA StepStart == ListInv /\ Start => ListInv'
<1> SUFFICES ASSUME ListInv, Start PROVE ListInv'
  OBVIOUS
<1>1. TypeOK'
  <2>1. starts' \in Nat /\ pinned' = FALSE /\ identity' = "loading"
    BY DEF Start, ListInv, TypeOK
  <2>2. UNCHANGED <<blocked, excused, listVars, clusterVars, pending, cliVars>>
    BY DEF Start
  <2> QED BY <2>1, <2>2 DEF ListInv, TypeOK, listVars, clusterVars, cliVars
<1> QED BY <1>1, StepIdentity DEF Start, PendingIsRest, ListedIsBlocked

LEMMA StepPin == ListInv /\ Pin => ListInv'
<1> SUFFICES ASSUME ListInv, Pin PROVE ListInv'
  OBVIOUS
<1>1. TypeOK'
  BY DEF ListInv, TypeOK, Pin, listVars, clusterVars, cliVars
<1> QED BY <1>1, StepIdentity DEF Pin, PendingIsRest, ListedIsBlocked

LEMMA StepReadList == ListInv /\ ReadList => ListInv'
<1> SUFFICES ASSUME ListInv, ReadList PROVE ListInv'
  OBVIOUS
<1>1. TypeOK'
  BY DEF ListInv, TypeOK, ReadList, kernelVars, listVars, clusterVars, cliVars
<1>2. PendingIsRest' /\ ListedIsBlocked'
  BY DEF ReadList, PendingIsRest, ListedIsBlocked, listVars
<1> QED BY <1>1, <1>2, StepIdentity DEF ReadList, kernelVars

LEMMA StepReadListFails == ListInv /\ ReadListFails => ListInv'
<1> SUFFICES ASSUME ListInv, ReadListFails PROVE ListInv'
  OBVIOUS
<1>1. TypeOK'
  BY DEF ListInv, TypeOK, ReadListFails, kernelVars, listVars, clusterVars, cliVars
<1> QED BY <1>1, StepIdentity DEF ReadListFails, kernelVars, PendingIsRest, ListedIsBlocked

(* The head of the list is inserted, or excused. *)
LEMMA StepPopulate == ListInv /\ Populate => ListInv'
<1> SUFFICES ASSUME ListInv, Populate PROVE ListInv'
  OBVIOUS
<1> USE DEF ListInv
<1>1. /\ identity = "populating" /\ identity' = "populating" /\ pending' = Tail(pending)
      /\ pending \in Seq(Inputs) /\ pending # <<>> /\ Head(pending) \in Addresses
      /\ UNCHANGED <<pinned, listVars, clusterVars, starts, cliVars>>
  BY DEF Populate, TypeOK
<1>2. /\ pending' \in Seq(Inputs)
      /\ ToSet(pending) = ToSet(pending') \cup {Head(pending)}
  BY <1>1, HeadAndTail
<1>3. /\ blocked' \subseteq Addresses /\ IsFiniteSet(blocked')
      /\ Cardinality(blocked') =< MapCapacity /\ excused' \subseteq Addresses
      /\ Safe \subseteq Safe' /\ Head(pending) \in Safe'
  <2>1. CASE HasRoom(Head(pending)) /\ Insert(Head(pending))
    BY <1>1, <2>1, Inserts
  <2>2. CASE excused' = excused \cup {Head(pending)} /\ UNCHANGED blocked
    BY <1>1, <2>2 DEF TypeOK, Safe
  <2> QED BY <2>1, <2>2 DEF Populate
<1>4. TypeOK'
  BY <1>1, <1>2, <1>3 DEF TypeOK, listVars, clusterVars, cliVars
<1>5. PendingIsRest' /\ ListedIsBlocked'
  BY <1>1, <1>2, <1>3 DEF PendingIsRest, ListedIsBlocked, listVars
<1> QED BY <1>1, <1>3, <1>4, <1>5, IdentityStep

LEMMA StepPopulateFails == ListInv /\ PopulateFails => ListInv'
<1> SUFFICES ASSUME ListInv, PopulateFails PROVE ListInv'
  OBVIOUS
<1>1. TypeOK'
  BY DEF ListInv, TypeOK, PopulateFails, kernelVars, listVars, clusterVars, cliVars
<1> QED BY <1>1, StepIdentity DEF PopulateFails, kernelVars, PendingIsRest, ListedIsBlocked

LEMMA StepAttachClassifier == ListInv /\ AttachClassifier => ListInv'
<1> SUFFICES ASSUME ListInv, AttachClassifier PROVE ListInv'
  OBVIOUS
<1>1. TypeOK'
  BY DEF ListInv, TypeOK, AttachClassifier, kernelVars, listVars, clusterVars, cliVars
<1>2. ToSet(pending) = {}
  BY DEF AttachClassifier, ToSet
<1>3. PendingIsRest' /\ ListedIsBlocked'
  BY <1>2 DEF AttachClassifier, PendingIsRest, ListedIsBlocked, ListInv, Safe, kernelVars,
              listVars
<1> QED BY <1>1, <1>3, StepIdentity DEF AttachClassifier, kernelVars

LEMMA StepStop == ListInv /\ Stop => ListInv'
<1> SUFFICES ASSUME ListInv, Stop PROVE ListInv'
  OBVIOUS
<1>1. TypeOK'
  <2>1. pending' \in Seq(Inputs)
    BY DEF Stop
  <2> QED BY <2>1 DEF ListInv, TypeOK, Stop, kernelVars, listVars, clusterVars, cliVars
<1> QED BY <1>1, StepIdentity DEF Stop, kernelVars, PendingIsRest, ListedIsBlocked

(* The map is lost.  Without a command in progress the list is all there    *)
(* is, and identity will read it; with one, everything is excused.          *)
LEMMA StepReboot == ListInv /\ Reboot => ListInv'
<1> SUFFICES ASSUME ListInv, Reboot PROVE ListInv'
  OBVIOUS
<1> USE DEF ListInv
<1>1. /\ identity' = "down" /\ pending' = <<>> /\ blocked' = {}
      /\ UNCHANGED <<listVars, clusterVars, starts, cliVars>>
  BY DEF Reboot
<1>2. IsFiniteSet(blocked') /\ Cardinality(blocked') = 0 /\ 0 =< MapCapacity
  BY <1>1, FS_EmptySet, BlocklistAssumption
<1>3. TypeOK'
  <2>1. pending' \in Seq(Inputs)
    BY <1>1
  <2>2. excused' \subseteq Addresses /\ pinned' = FALSE
    BY DEF Reboot, TypeOK
  <2> QED BY <1>1, <1>2, <2>1, <2>2 DEF TypeOK, listVars, clusterVars, cliVars
<1>4. PendingIsRest' /\ ListedIsBlocked' /\ NoConfigmapNoList'
  BY <1>1 DEF PendingIsRest, ListedIsBlocked, NoConfigmapNoList, listVars
<1>5. ArgumentIsSafe' /\ ListsAgree'
  <2>1. CASE \A c \in Clis : cli[c] = Idle
    <3>1. \A c \in Clis : cli'[c].at = "idle"
      BY <1>1, <2>1, IdleIsNoJob DEF cliVars
    <3> QED BY <3>1 DEF ArgumentIsSafe, ListsAgree
  <2>2. CASE excused' = Addresses
    <3>1. Safe' = Addresses
      BY <1>1, <2>2 DEF Safe
    <3>2. \A c \in Clis : cli[c].at \in {"read", "write"} => cli[c].ip \in Addresses
      BY DEF ArgumentIsSafe, Safe, TypeOK
    <3> QED BY <1>1, <3>1, <3>2 DEF ArgumentIsSafe, ListsAgree, cliVars
  <2> QED BY <2>1, <2>2 DEF Reboot
<1> QED BY <1>2, <1>3, <1>4, <1>5

-----------------------------------------------------------------------------
LEMMA ListInit == Init => ListInv
<1> SUFFICES ASSUME Init PROVE ListInv
  OBVIOUS
<1>1. IsFiniteSet({}) /\ Cardinality({}) = 0 /\ 0 =< MapCapacity
  BY FS_EmptySet, BlocklistAssumption
<1>2. /\ blocked = {} /\ excused = {} /\ pending = <<>> /\ identity = "down"
      /\ cli = [c \in Clis |-> Idle] /\ installer = "idle" /\ linked \in Links
      /\ installs = 0 /\ commands = 0 /\ starts = 0 /\ pinned = FALSE
  BY DEF Init
<1>3. TypeOK /\ NoConfigmapNoList
  <2>1. CASE configmap = TRUE /\ listed \in Charts /\ deployed = {"identity", "agent"}
    <3>1. listed \in Seq(Inputs)
      BY <2>1, BlocklistAssumption DEF Inputs
    <3>2. namespace = "active" /\ configmap \in BOOLEAN
      BY <2>1 DEF Init
    <3>4. deployed \subseteq {"identity", "agent"}
      BY <2>1
    <3>5. pending \in Seq(Inputs) /\ cli \in [Clis -> Job \cup {Idle}]
      BY <1>2
    <3>3. TypeOK
      BY <1>1, <1>2, <3>1, <3>2, <3>4, <3>5 DEF TypeOK
    <3> QED BY <2>1, <3>3 DEF NoConfigmapNoList
  <2>2. CASE configmap = FALSE /\ listed = <<>> /\ deployed = {}
    <3>1. listed \in Seq(Inputs)
      BY <2>2
    <3>2. namespace = "absent"
      BY <2>2 DEF Init
    <3>3. TypeOK
      BY <1>1, <1>2, <2>2, <3>1, <3>2 DEF TypeOK
    <3> QED BY <2>2, <3>3 DEF NoConfigmapNoList
  <2> QED BY <2>1, <2>2 DEF Init
<1>4. \A c \in Clis : cli[c].at = "idle"
  BY <1>2, IdleIsNoJob
<1> QED BY <1>1, <1>2, <1>3, <1>4 DEF ListInv, ArgumentIsSafe, ListsAgree, PendingIsRest,
                                      ListedIsBlocked

LEMMA ListStep == ListInv /\ [Next]_vars => ListInv'
<1> SUFFICES ASSUME ListInv, [Next]_vars PROVE ListInv'
  OBVIOUS
<1>1. ASSUME NEW c \in Clis, NEW command \in Commands, NEW ip \in Inputs,
             Command(c, command, ip)
      PROVE  ListInv'
  BY <1>1, StepCommand
<1>2. ASSUME NEW c \in Clis,
             \/ CallAgent(c) \/ CallPanics(c) \/ ReadConfigs(c)
             \/ UpdateConfigmap(c) \/ GiveUp(c)
      PROVE  ListInv'
  BY <1>2, StepCallAgent, StepCallPanics, StepReadConfigs, StepUpdateConfigmap, StepGiveUp
<1>3. CASE \/ InstallCortexflow \/ CreateConfigFile \/ ApplyComponent \/ InstallFails
           \/ InstallBlocklist \/ UninstallAll \/ NamespaceGone \/ UninstallIdentity
  BY <1>3, StepInstallCortexflow, StepCreateConfigFile, StepApplyComponent,
     StepInstallFails, StepInstallBlocklist, StepUninstallAll, StepNamespaceGone,
     StepUninstallIdentity
<1>4. CASE \/ Start \/ Pin \/ ReadList \/ ReadListFails \/ Populate \/ PopulateFails
           \/ AttachClassifier \/ Stop \/ Reboot
  BY <1>4, StepStart, StepPin, StepReadList, StepReadListFails, StepPopulate,
     StepPopulateFails, StepAttachClassifier, StepStop, StepReboot
<1>5. CASE UNCHANGED vars
  <2>1. /\ UNCHANGED <<kernelVars, listVars, clusterVars, identityVars, cliVars>>
        /\ UNCHANGED <<blocked, excused>>
    BY <1>5 DEF vars, kernelVars
  <2>2. TypeOK' /\ PendingIsRest' /\ ListedIsBlocked'
    BY <2>1 DEF ListInv, TypeOK, PendingIsRest, ListedIsBlocked, Safe, kernelVars, listVars,
                clusterVars, identityVars, cliVars
  <2> QED BY <2>1, <2>2, StepIdentity
<1> QED BY <1>1, <1>2, <1>3, <1>4, <1>5 DEF Next

(* The inductive invariant of the list, its copies and the map. *)
THEOREM ListInvariant == Spec => []ListInv
BY ListInit, ListStep, PTL DEF Spec

(* The map, whatever its capacity, never holds more, and all variables keep *)
(* their types.                                                             *)
THEOREM TypeCorrect == Spec => []TypeOK
<1>1. ListInv => TypeOK
  BY DEF ListInv
<1> QED BY <1>1, ListInvariant, PTL

(* An identity whose classifier is attached blocks every listed address     *)
(* that no command, no full map and no reboot in the middle of a command    *)
(* has taken from it, for any number of commands that overwrite each        *)
(* other's list in update_configmap.                                        *)
THEOREM ListIsBlocked == Spec => []ListedIsBlocked
<1>1. ListInv => ListedIsBlocked
  BY DEF ListInv
<1> QED BY <1>1, ListInvariant, PTL

-----------------------------------------------------------------------------
LEMMA NewOnList ==
    ASSUME ListInv, [Next]_vars
    PROVE  ToSet(listed') \ ToSet(listed) \subseteq Addresses \cup ReadBefore
<1>1. CASE listed' = listed
  BY <1>1
<1>2. CASE listed' = <<>>
  BY <1>2 DEF ToSet
<1>3. ASSUME NEW c \in Clis, UpdateConfigmap(c)
      PROVE  ToSet(listed') \subseteq Addresses \cup ReadBefore
  <2> DEFINE j == cli[c]
  <2>1. /\ j.at = "write" /\ j.command \in Commands
        /\ j.ip \in Inputs /\ j.ips \in Seq(Inputs)
    BY <1>3, JobFields DEF UpdateConfigmap, ListInv, TypeOK
  <2>2. j.ip \in Addresses
    BY <2>1 DEF ListInv, ArgumentIsSafe, TypeOK, Safe
  <2>3. ToSet(j.ips) \subseteq ReadBefore
    BY <2>1 DEF ReadBefore
  <2>4. listed' = NewConfigs(j.command, j.ip, j.ips)
    BY <1>3 DEF UpdateConfigmap
  <2> HIDE DEF j
  <2>5. ToSet(listed') \subseteq ToSet(j.ips) \cup {j.ip}
    <3>1. CASE j.command = "add"
      BY <2>1, <2>4, <3>1, Appends DEF NewConfigs
    <3>2. CASE j.command = "delete"
      BY <2>1, <2>4, <3>2, RemovesNoOther DEF NewConfigs
    <3> QED BY <2>1, <3>1, <3>2 DEF Commands
  <2> QED BY <2>2, <2>3, <2>5
<1>4. [Next]_vars => \/ listed' = listed
                     \/ listed' = <<>>
                     \/ \E c \in Clis : UpdateConfigmap(c)
  <2>1. UNCHANGED listVars => listed' = listed
    BY DEF listVars
  <2>2. CASE \E c \in Clis : CallAgent(c) \/ CallPanics(c) \/ ReadConfigs(c) \/ GiveUp(c)
    BY <2>1, <2>2 DEF CallAgent, CallPanics, ReadConfigs, GiveUp
  <2>3. CASE \E c \in Clis, command \in Commands, ip \in Inputs : Command(c, command, ip)
    BY <2>1, <2>3 DEF Command
  <2>4. CASE \/ InstallCortexflow \/ CreateConfigFile \/ ApplyComponent \/ InstallFails
             \/ InstallBlocklist \/ UninstallAll \/ NamespaceGone \/ UninstallIdentity
    BY <2>1, <2>4 DEF InstallCortexflow, CreateConfigFile, NewConfigmap, ApplyComponent,
         InstallFails, InstallBlocklist, UninstallAll, NamespaceGone, UninstallIdentity
  <2>5. CASE \/ Start \/ Pin \/ ReadList \/ ReadListFails \/ Populate \/ PopulateFails
             \/ AttachClassifier \/ Stop \/ Reboot
    BY <2>1, <2>5 DEF Start, Pin, ReadList, ReadListFails, Populate, PopulateFails,
         AttachClassifier, Stop, Reboot
  <2>6. CASE UNCHANGED vars
    BY <2>1, <2>6 DEF vars
  <2> QED BY <2>2, <2>3, <2>4, <2>5, <2>6 DEF Next
<1> QED BY <1>1, <1>2, <1>3, <1>4

(* Whatever commands are given, a line that populate_blocklist cannot parse *)
(* gets onto the list only where a command had read it from the list.       *)
THEOREM NoBadLineFromCommands == Spec => CommandsListAddresses
<1>1. ListInv /\ [Next]_vars =>
          [ToSet(listed') \ ToSet(listed) \subseteq Addresses \cup ReadBefore]_vars
  BY NewOnList
<1> QED BY <1>1, ListInvariant, PTL DEF Spec, CommandsListAddresses
=============================================================================
