------------------------ MODULE EventPipelineProofs ------------------------
(***************************************************************************)
(* Proofs about EventPipeline, for any number of CPUs, calls, records and  *)
(* restarts and any capacities.                                            *)
(*                                                                         *)
(* The agent moves a record along a chain of places: a ring, the batch,    *)
(* the channel, the hands of a call.  Each place holds the records of one  *)
(* CPU in order (Sorted), every place holds older records than the ones    *)
(* that feed it (Before), and all are older than the next record to be     *)
(* written (UpTo).  A step moves the head of one place to the end of the   *)
(* next, which the lemma MoveHead says preserves both.                     *)
(*                                                                         *)
(* Beside the chain, Apart says that a record which is still in a ring of  *)
(* the agent is in no hands yet: a write puts one into one ring, and every *)
(* other step only moves records within a process or forgets them          *)
(* (OthersMoveWithin).  AnswersApart needs it.                             *)
(*                                                                         *)
(* Whose rings the array leads to is apart from the records: Covered       *)
(* follows the two processes through their loops over the CPUs.            *)
(***************************************************************************)
EXTENDS EventPipeline, TLAPS

(* Of the records of one CPU, those in s are older than those in t. *)
Before(s, t) ==
    \A i \in DOMAIN s, j \in DOMAIN t : s[i].cpu = t[j].cpu => s[i].id < t[j].id

UpTo(s, n) == \A i \in DOMAIN s : s[i].id =< n

(* The hands of the calls p, the channel q and the agent's batch b, when n *)
(* records have been written.                                              *)
Linked(p, q, b, n) ==
    /\ Sorted(p) /\ Sorted(q) /\ Sorted(b)
    /\ Before(p, q) /\ Before(p, b) /\ Before(q, b)
    /\ UpTo(p, n) /\ UpTo(q, n) /\ UpTo(b, n)

(* The ring w of CPU c feeds them. *)
Feeds(w, c, p, q, b, n) ==
    /\ \A i \in DOMAIN w : w[i].cpu = c
    /\ Sorted(w)
    /\ UpTo(w, n)
    /\ Before(p, w) /\ Before(q, w) /\ Before(b, w)

ChainInv ==
    /\ Linked(popped, chan, batch[Agent], emitted)
    /\ \A c \in Cpus :
          Feeds(ring[Agent][c], c, popped, chan, batch[Agent], emitted)

-----------------------------------------------------------------------------
(* Sequences of records *)

LEMMA HeadAndTail ==
    ASSUME NEW s \in Seq(Record), s # <<>>
    PROVE  /\ Head(s) \in Record /\ Tail(s) \in Seq(Record)
           /\ Head(s) = s[1] /\ 1 \in DOMAIN s
           /\ Len(Tail(s)) = Len(s) - 1
           /\ \A i \in DOMAIN Tail(s) : i \in Nat /\ i + 1 \in DOMAIN s /\ Tail(s)[i] = s[i + 1]
  OBVIOUS

LEMMA RecordFields ==
    ASSUME NEW s \in Seq(Record)
    PROVE  \A i \in DOMAIN s : s[i] \in Record /\ s[i].id \in Nat /\ s[i].cpu \in Cpus
<1>1. \A i \in DOMAIN s : s[i] \in Record
  OBVIOUS
<1> QED BY <1>1 DEF Record

LEMMA AppendElements ==
    ASSUME NEW s \in Seq(Record), NEW e \in Record
    PROVE  /\ Append(s, e) \in Seq(Record)
           /\ Len(Append(s, e)) = Len(s) + 1
           /\ \A i \in DOMAIN Append(s, e) :
                 \/ i \in DOMAIN s /\ Append(s, e)[i] = s[i]
                 \/ i = Len(s) + 1 /\ Append(s, e)[i] = e
  OBVIOUS

LEMMA EmptySequence ==
    ASSUME NEW t \in Seq(Record), NEW n
    PROVE  /\ Sorted(<<>>) /\ UpTo(<<>>, n)
           /\ Before(<<>>, t) /\ Before(t, <<>>)
  BY DEF Sorted, UpTo, Before

(* The head of t moves to the end of s. *)
LEMMA MoveHead ==
    ASSUME NEW s \in Seq(Record), NEW t \in Seq(Record), t # <<>>,
           Sorted(s), Sorted(t), Before(s, t)
    PROVE  /\ Sorted(Append(s, Head(t)))
           /\ Sorted(Tail(t))
           /\ Before(Append(s, Head(t)), Tail(t))
<1> DEFINE u == Append(s, Head(t))
<1>1. Head(t) \in Record
  BY HeadAndTail
<1>2. Sorted(u)
  <2> SUFFICES ASSUME NEW i \in DOMAIN u, NEW j \in DOMAIN u, i < j, u[i].cpu = u[j].cpu
               PROVE  u[i].id < u[j].id
    BY DEF Sorted
  <2>1. i \in DOMAIN s /\ u[i] = s[i]
    BY <1>1, AppendElements
  <2>2. CASE j \in DOMAIN s /\ u[j] = s[j]
    BY <2>1, <2>2 DEF Sorted
  <2>3. CASE u[j] = Head(t)
    BY <2>1, <2>3, HeadAndTail DEF Before
  <2> QED BY <1>1, <2>2, <2>3, AppendElements
<1>3. Sorted(Tail(t))
  <2> SUFFICES ASSUME NEW i \in DOMAIN Tail(t), NEW j \in DOMAIN Tail(t),
                      i < j, Tail(t)[i].cpu = Tail(t)[j].cpu
               PROVE  Tail(t)[i].id < Tail(t)[j].id
    BY DEF Sorted
  <2>1. /\ i + 1 \in DOMAIN t /\ Tail(t)[i] = t[i + 1]
        /\ j + 1 \in DOMAIN t /\ Tail(t)[j] = t[j + 1]
        /\ i + 1 < j + 1
    BY HeadAndTail
  <2> QED BY <2>1 DEF Sorted
<1>4. Before(u, Tail(t))
  <2> SUFFICES ASSUME NEW i \in DOMAIN u, NEW j \in DOMAIN Tail(t), u[i].cpu = Tail(t)[j].cpu
               PROVE  u[i].id < Tail(t)[j].id
    BY DEF Before
  <2>1. j \in Nat /\ j + 1 \in DOMAIN t /\ Tail(t)[j] = t[j + 1] /\ Head(t) = t[1] /\ 1 \in DOMAIN t
        /\ j >= 1
    BY HeadAndTail
  <2>2. CASE i \in DOMAIN s /\ u[i] = s[i]
    BY <2>1, <2>2 DEF Before
  <2>3. CASE u[i] = Head(t)
    BY <2>1, <2>3 DEF Sorted
  <2> QED BY <1>1, <2>2, <2>3, AppendElements
<1> QED BY <1>2, <1>3, <1>4

LEMMA BeforeAppend ==
    ASSUME NEW s \in Seq(Record), NEW t \in Seq(Record), NEW u \in Seq(Record), t # <<>>,
           Before(s, u), Before(t, u)
    PROVE  Before(Append(s, Head(t)), u)
<1>1. Head(t) \in Record /\ Head(t) = t[1] /\ 1 \in DOMAIN t
  BY HeadAndTail
<1> QED BY <1>1, AppendElements DEF Before

LEMMA BeforeTail ==
    ASSUME NEW s \in Seq(Record), NEW t \in Seq(Record), s # <<>>
    PROVE  /\ Before(s, t) => Before(Tail(s), t)
           /\ Before(t, s) => Before(t, Tail(s))
  BY HeadAndTail DEF Before

LEMMA UpToMoves ==
    ASSUME NEW s \in Seq(Record), NEW t \in Seq(Record), NEW n \in Nat, t # <<>>,
           UpTo(s, n), UpTo(t, n)
    PROVE  UpTo(Append(s, Head(t)), n) /\ UpTo(Tail(t), n)
<1>1. Head(t) \in Record /\ Head(t) = t[1] /\ 1 \in DOMAIN t
  BY HeadAndTail
<1> QED BY <1>1, HeadAndTail, AppendElements DEF UpTo

LEMMA UpToNext ==
    ASSUME NEW s \in Seq(Record), NEW n \in Nat, UpTo(s, n)
    PROVE  UpTo(s, n + 1)
<1>1. \A i \in DOMAIN s : s[i].id \in Nat
  BY RecordFields
<1> QED BY <1>1 DEF UpTo

(* A record newer than all of s and t is appended to t. *)
LEMMA AppendNewest ==
    ASSUME NEW s \in Seq(Record), NEW t \in Seq(Record), NEW n \in Nat, NEW e \in Record,
           e.id = n + 1, UpTo(s, n), UpTo(t, n)
    PROVE  /\ Sorted(t) => Sorted(Append(t, e))
           /\ UpTo(Append(t, e), n + 1)
           /\ Before(s, t) => Before(s, Append(t, e))
<1>1. (\A i \in DOMAIN s : s[i].id \in Nat) /\ (\A i \in DOMAIN t : t[i].id \in Nat)
  BY RecordFields
<1> DEFINE u == Append(t, e)
<1>2. /\ \A i \in DOMAIN u : (i \in DOMAIN t /\ u[i] = t[i]) \/ (i = Len(t) + 1 /\ u[i] = e)
      /\ \A i \in DOMAIN t : i \in 1 .. Len(t)
  BY AppendElements
<1> HIDE DEF u
<1>3. ASSUME Sorted(t), NEW i \in DOMAIN u, NEW j \in DOMAIN u, i < j, u[i].cpu = u[j].cpu
      PROVE  u[i].id < u[j].id
  <2>1. i \in DOMAIN t /\ u[i] = t[i]
    BY <1>2, <1>3
  <2>2. CASE j \in DOMAIN t /\ u[j] = t[j]
    BY <1>3, <2>1, <2>2 DEF Sorted
  <2>3. CASE u[j] = e
    BY <1>1, <2>1, <2>3 DEF UpTo
  <2> QED BY <1>2, <2>2, <2>3
<1>4. UpTo(u, n + 1)
  BY <1>1, <1>2 DEF UpTo
<1>5. ASSUME Before(s, t), NEW i \in DOMAIN s, NEW j \in DOMAIN u, s[i].cpu = u[j].cpu
      PROVE  s[i].id < u[j].id
  <2>1. CASE j \in DOMAIN t /\ u[j] = t[j]
    BY <1>5, <2>1 DEF Before
  <2>2. CASE u[j] = e
    BY <1>1, <2>2 DEF UpTo
  <2> QED BY <1>2, <2>1, <2>2
<1> QED BY <1>3, <1>4, <1>5 DEF Sorted, Before, u

-----------------------------------------------------------------------------
LEMMA NextCpu ==
    /\ 0 \in Cpus
    /\ \A c \in Cpus : /\ (c + 1) % NumCpus \in Cpus
                      /\ c + 1 < NumCpus => c + 1 \in Cpus
  BY PerfAssumption DEF Cpus

(* Every state of the pipeline is of the declared type: in particular the  *)
(* channel never holds more than its capacity.                             *)
THEOREM TypeCorrect == Spec => []TypeOK
<1> USE PipelineAssumption
<1>1. Init => TypeOK
  BY NextCpu DEF Init, PerfInit, NoRecords, TypeOK
<1>2. TypeOK /\ [Next]_vars => TypeOK'
  <2> SUFFICES ASSUME TypeOK, [Next]_vars PROVE TypeOK'
    OBVIOUS
  <2>1. ASSUME NEW c \in Cpus, NEW sendable \in BOOLEAN, Emit(c, sendable)
        PROVE  TypeOK'
    <3> DEFINE e == [id |-> emitted + 1, cpu |-> c, sendable |-> sendable]
    <3>1. e \in Record
      BY <2>1 DEF Record, TypeOK
    <3> HIDE DEF e
    <3>2. CASE ~Writable(c)
      <4>1. UNCHANGED <<slot, ring, readerVars, chan, callVars, observed, taken>>
        BY <2>1, <3>2 DEF Emit, Output
      <4>2. emitted' \in Nat
        BY <2>1 DEF Emit, TypeOK
      <4> QED BY <4>1, <4>2 DEF TypeOK, readerVars, callVars
    <3>3. CASE Writable(c)
      <4>1. slot[c] \in Readers
        BY <2>1, <3>3 DEF Writable, TypeOK
      <4>2. ring' = [ring EXCEPT ![slot[c]][c] = Append(@, e)]
        BY <2>1, <3>3 DEF Emit, Output, e
      <4>3. Append(ring[slot[c]][c], e) \in Seq(Record)
        BY <3>1, <4>1, AppendElements DEF TypeOK
      <4>4. ring' \in [Readers -> [Cpus -> Seq(Record)]]
        BY <4>1, <4>2, <4>3 DEF TypeOK
      <4>5. UNCHANGED <<slot, readerVars, chan, callVars, observed, taken>> /\ emitted' \in Nat
        BY <2>1 DEF Emit, Output, TypeOK
      <4> QED BY <4>4, <4>5 DEF readerVars, callVars, TypeOK
    <3> QED BY <3>2, <3>3
  <2>2. ASSUME NEW r \in Readers, Start(r) PROVE TypeOK'
    <3>1. /\ starts' \in [Readers -> Nat]
          /\ phase' \in [Readers -> {"down", "opening", "polling"}]
      BY <2>2 DEF Start, TypeOK
    <3>2. cursor' \in [Readers -> Cpus]
      BY <2>2, NextCpu DEF Start, TypeOK
    <3>3. UNCHANGED <<perfVars, emitted, batch, chan, callVars, observed, taken>>
      BY <2>2 DEF Start
    <3> QED BY <3>1, <3>2, <3>3 DEF perfVars, callVars, TypeOK
  <2>3. ASSUME NEW r \in Readers, OpenNext(r) PROVE TypeOK'
    <3>1. cursor[r] \in Cpus
      BY DEF TypeOK
    <3>2. /\ slot' \in [Cpus -> Readers \cup {NoReader}]
          /\ ring' \in [Readers -> [Cpus -> Seq(Record)]]
      BY <2>3, <3>1 DEF OpenNext, Open, TypeOK
    <3>3. \/ cursor' = [cursor EXCEPT ![r] = cursor[r] + 1] /\ cursor[r] + 1 \in Cpus
          \/ cursor' = [cursor EXCEPT ![r] = 0]
      <4>1. \/ cursor[r] + 1 < NumCpus /\ cursor' = [cursor EXCEPT ![r] = cursor[r] + 1]
            \/ cursor' = [cursor EXCEPT ![r] = 0]
        BY <2>3 DEF OpenNext
      <4>2. cursor[r] + 1 < NumCpus => cursor[r] + 1 \in Cpus
        BY <3>1, PerfAssumption DEF Cpus
      <4> QED BY <4>1, <4>2
    <3>4. cursor' \in [Readers -> Cpus]
      BY <3>3, NextCpu DEF TypeOK
    <3>5. phase' \in [Readers -> {"down", "opening", "polling"}]
      BY <2>3 DEF OpenNext, TypeOK
    <3>6. UNCHANGED <<emitted, starts, batch, chan, callVars, observed, taken>>
      BY <2>3 DEF OpenNext
    <3> QED BY <3>2, <3>4, <3>5, <3>6 DEF callVars, TypeOK
  <2>4. ASSUME NEW r \in Readers, Poll(r) PROVE TypeOK'
    <3> DEFINE c == cursor[r]
    <3>1. c \in Cpus /\ ring[r][c] \in Seq(Record)
      BY DEF TypeOK
    <3>2. Taken(r, c) \in Seq(Record) /\ Left(r, c) \in Seq(Record)
      BY <3>1, HeadAndTail DEF Taken, Left
    <3>3. ring' \in [Readers -> [Cpus -> Seq(Record)]] /\ UNCHANGED slot
      BY <2>4, <3>2 DEF Poll, ReadEvents, TypeOK
    <3>4. batch' \in [Readers -> Seq(Record)]
      BY <2>4, <3>2 DEF Poll, TypeOK
    <3>5. cursor' \in [Readers -> Cpus]
      <4>1. (c + 1) % NumCpus \in Cpus
        BY <3>1, PerfAssumption DEF Cpus
      <4> QED BY <2>4, <4>1 DEF Poll, TypeOK
    <3>6. SendableIds(Taken(r, c)) \subseteq Nat
      BY <3>2, RecordFields DEF SendableIds
    <3>7. taken' \subseteq Nat
      BY <2>4, <3>6 DEF Poll, TypeOK
    <3>8. UNCHANGED <<emitted, starts, phase, chan, callVars, observed>>
      BY <2>4 DEF Poll
    <3> QED BY <3>3, <3>4, <3>5, <3>7, <3>8 DEF callVars, TypeOK
  <2>5. ASSUME NEW r \in Readers, Stop(r) PROVE TypeOK'
    <3>1. /\ slot' \in [Cpus -> Readers \cup {NoReader}]
          /\ ring' \in [Readers -> [Cpus -> Seq(Record)]]
      BY <2>5 DEF Stop, Close, NoRecords, TypeOK
    <3>2. /\ phase' \in [Readers -> {"down", "opening", "polling"}]
          /\ cursor' \in [Readers -> Cpus]
          /\ batch' \in [Readers -> Seq(Record)]
      BY <2>5, NextCpu DEF Stop, TypeOK
    <3>3. \/ /\ chan' = <<>> /\ taken' = {}
             /\ call' = [q \in Calls |-> "idle"]
             /\ reply' = [q \in Calls |-> <<>>]
             /\ owed' = [q \in Calls |-> {}]
             /\ UNCHANGED popped
          \/ UNCHANGED <<chan, call, reply, owed, popped, taken>>
      BY <2>5 DEF Stop, callVars
    <3>4. /\ chan' \in Seq(Record) /\ Len(chan') =< ChanCapacity
          /\ call' \in [Calls -> {"idle", "draining"}]
          /\ reply' \in [Calls -> Seq(Record)]
          /\ owed' \in [Calls -> SUBSET Nat]
          /\ popped' \in Seq(Record)
          /\ taken' \subseteq Nat
      <4>1. CASE chan' = <<>> /\ taken' = {}
                 /\ call' = [q \in Calls |-> "idle"]
                 /\ reply' = [q \in Calls |-> <<>>]
                 /\ owed' = [q \in Calls |-> {}]
                 /\ UNCHANGED popped
        <5>1. <<>> \in Seq(Record) /\ Len(<<>>) = 0 /\ 0 =< ChanCapacity
          BY PipelineAssumption
        <5>2. popped' \in Seq(Record)
          BY <4>1 DEF TypeOK
        <5> QED BY <4>1, <5>1, <5>2
      <4>2. CASE UNCHANGED <<chan, call, reply, owed, popped, taken>>
        BY <4>2 DEF TypeOK
      <4> QED BY <3>3, <4>1, <4>2
    <3>5. UNCHANGED <<emitted, starts, observed>>
      BY <2>5 DEF Stop
    <3> QED BY <3>1, <3>2, <3>4, <3>5 DEF TypeOK
  <2>6. ASSUME Consume PROVE TypeOK'
    <3>1. batch[Loader] \in Seq(Record) /\ batch[Loader] # <<>>
      BY <2>6 DEF Consume, TypeOK
    <3>2. 1 \in DOMAIN batch[Loader] /\ Head(batch[Loader]) = batch[Loader][1]
          /\ Tail(batch[Loader]) \in Seq(Record)
      BY <3>1, HeadAndTail
    <3>3. Head(batch[Loader]).id \in Nat
      BY <3>1, <3>2, RecordFields
    <3>4. observed' \subseteq Nat /\ batch' \in [Readers -> Seq(Record)]
      BY <2>6, <3>2, <3>3 DEF Consume, TypeOK
    <3>5. UNCHANGED <<perfVars, emitted, starts, phase, cursor, chan, callVars, taken>>
      BY <2>6 DEF Consume
    <3> QED BY <3>4, <3>5 DEF perfVars, callVars, TypeOK
  <2>7. ASSUME Skip PROVE TypeOK'
    <3>1. batch' \in [Readers -> Seq(Record)]
      BY <2>7 DEF Skip, TypeOK
    <3>2. UNCHANGED <<perfVars, emitted, starts, phase, cursor, chan, callVars,
                      observed, taken>>
      BY <2>7 DEF Skip
    <3> QED BY <3>1, <3>2 DEF perfVars, callVars, TypeOK
  <2>8. ASSUME Send PROVE TypeOK'
    <3>1. /\ batch[Agent] \in Seq(Record) /\ batch[Agent] # <<>>
          /\ chan \in Seq(Record) /\ Len(chan) < ChanCapacity
      BY <2>8 DEF Send, TypeOK
    <3>2. Head(batch[Agent]) \in Record /\ Tail(batch[Agent]) \in Seq(Record)
      BY <3>1, HeadAndTail
    <3>3. chan' \in Seq(Record) /\ Len(chan') =< ChanCapacity
      <4>1. chan' = Append(chan, Head(batch[Agent]))
        BY <2>8 DEF Send
      <4>2. chan' \in Seq(Record) /\ Len(chan') = Len(chan) + 1 /\ Len(chan) \in Nat
        BY <3>1, <3>2, <4>1, AppendElements
      <4>3. ChanCapacity \in Nat /\ Len(chan) < ChanCapacity
        BY <3>1, PipelineAssumption
      <4>4. Len(chan') =< ChanCapacity
        BY <4>2, <4>3
      <4> QED BY <4>2, <4>4
    <3>4. batch' \in [Readers -> Seq(Record)]
      BY <2>8, <3>2 DEF Send, TypeOK
    <3>5. UNCHANGED <<perfVars, emitted, starts, phase, cursor, callVars, observed, taken>>
      BY <2>8 DEF Send
    <3> QED BY <3>3, <3>4, <3>5 DEF perfVars, callVars, TypeOK
  <2>9. ASSUME NEW q \in Calls, Request(q) PROVE TypeOK'
    <3>1. Ids(chan) \subseteq Nat
      BY RecordFields DEF Ids, TypeOK
    <3>2. /\ call' \in [Calls -> {"idle", "draining"}]
          /\ reply' \in [Calls -> Seq(Record)]
          /\ owed' \in [Calls -> SUBSET Nat]
      BY <2>9, <3>1 DEF Request, TypeOK
    <3>3. UNCHANGED <<perfVars, emitted, readerVars, chan, popped, observed, taken>>
      BY <2>9 DEF Request
    <3> QED BY <3>2, <3>3 DEF perfVars, readerVars, TypeOK
  <2>10. ASSUME NEW q \in Calls, TryRecv(q) PROVE TypeOK'
    <3>1. chan \in Seq(Record) /\ chan # <<>> /\ popped \in Seq(Record) /\ reply[q] \in Seq(Record)
      BY <2>10 DEF TryRecv, TypeOK
    <3>2. Head(chan) \in Record /\ Tail(chan) \in Seq(Record) /\ Len(Tail(chan)) = Len(chan) - 1
      BY <3>1, HeadAndTail
    <3>3. /\ reply' \in [Calls -> Seq(Record)]
          /\ popped' \in Seq(Record)
      BY <2>10, <3>1, <3>2, AppendElements DEF TryRecv, TypeOK
    <3>4. chan' \in Seq(Record) /\ Len(chan') =< ChanCapacity
      BY <2>10, <3>1, <3>2 DEF TryRecv, TypeOK
    <3>5. UNCHANGED <<perfVars, emitted, readerVars, call, owed, observed, taken>>
      BY <2>10 DEF TryRecv
    <3> QED BY <3>3, <3>4, <3>5 DEF perfVars, readerVars, TypeOK
  <2>11. ASSUME NEW q \in Calls, Return(q) PROVE TypeOK'
    <3>1. call' \in [Calls -> {"idle", "draining"}]
      BY <2>11 DEF Return, TypeOK
    <3>2. UNCHANGED <<perfVars, emitted, readerVars, chan, reply, popped, owed,
                      observed, taken>>
      BY <2>11 DEF Return
    <3> QED BY <3>1, <3>2 DEF perfVars, readerVars, TypeOK
  <2>12. CASE UNCHANGED vars
    BY <2>12 DEF vars, perfVars, readerVars, callVars, TypeOK
  <2> QED
    BY <2>1, <2>2, <2>3, <2>4, <2>5, <2>6, <2>7, <2>8, <2>9, <2>10, <2>11, <2>12 DEF Next
<1> QED BY <1>1, <1>2, PTL DEF Spec
-----------------------------------------------------------------------------
(* What each kind of step does to the chain *)

LEMMA RecvMoves ==
    ASSUME NEW p \in Seq(Record), NEW q \in Seq(Record), NEW b \in Seq(Record),
           NEW n \in Nat, q # <<>>, Linked(p, q, b, n)
    PROVE  /\ Linked(Append(p, Head(q)), Tail(q), b, n)
           /\ \A c \in Cpus, w \in Seq(Record) :
                 Feeds(w, c, p, q, b, n) => Feeds(w, c, Append(p, Head(q)), Tail(q), b, n)
<1>1. /\ Sorted(Append(p, Head(q))) /\ Sorted(Tail(q)) /\ Before(Append(p, Head(q)), Tail(q))
  BY MoveHead DEF Linked
<1>2. UpTo(Append(p, Head(q)), n) /\ UpTo(Tail(q), n)
  BY UpToMoves DEF Linked
<1>3. Before(Append(p, Head(q)), b) /\ Before(Tail(q), b)
  BY BeforeAppend, BeforeTail DEF Linked
<1>4. ASSUME NEW w \in Seq(Record), Before(p, w), Before(q, w)
      PROVE  Before(Append(p, Head(q)), w) /\ Before(Tail(q), w)
  BY <1>4, BeforeAppend, BeforeTail
<1> QED BY <1>1, <1>2, <1>3, <1>4 DEF Linked, Feeds

LEMMA SendMoves ==
    ASSUME NEW p \in Seq(Record), NEW q \in Seq(Record), NEW b \in Seq(Record),
           NEW n \in Nat, b # <<>>, Linked(p, q, b, n)
    PROVE  /\ Linked(p, Append(q, Head(b)), Tail(b), n)
           /\ \A c \in Cpus, w \in Seq(Record) :
                 Feeds(w, c, p, q, b, n) => Feeds(w, c, p, Append(q, Head(b)), Tail(b), n)
<1>1. /\ Sorted(Append(q, Head(b))) /\ Sorted(Tail(b)) /\ Before(Append(q, Head(b)), Tail(b))
  BY MoveHead DEF Linked
<1>2. UpTo(Append(q, Head(b)), n) /\ UpTo(Tail(b), n)
  BY UpToMoves DEF Linked
<1>3. Before(p, Append(q, Head(b)))
  <2>1. Head(b) = b[1] /\ 1 \in DOMAIN b /\ Head(b) \in Record
    BY HeadAndTail
  <2>2. \A j \in DOMAIN Append(q, Head(b)) :
           \/ j \in DOMAIN q /\ Append(q, Head(b))[j] = q[j]
           \/ Append(q, Head(b))[j] = b[1]
    BY <2>1, AppendElements
  <2> QED BY <2>1, <2>2 DEF Linked, Before
<1>4. Before(p, Tail(b))
  BY BeforeTail DEF Linked
<1>5. ASSUME NEW w \in Seq(Record), Before(q, w), Before(b, w)
      PROVE  Before(Append(q, Head(b)), w) /\ Before(Tail(b), w)
  BY <1>5, BeforeAppend, BeforeTail
<1> QED BY <1>1, <1>2, <1>3, <1>4, <1>5 DEF Linked, Feeds

LEMMA SkipMoves ==
    ASSUME NEW p \in Seq(Record), NEW q \in Seq(Record), NEW b \in Seq(Record),
           NEW n \in Nat, b # <<>>, Linked(p, q, b, n)
    PROVE  /\ Linked(p, q, Tail(b), n)
           /\ \A c \in Cpus, w \in Seq(Record) :
                 Feeds(w, c, p, q, b, n) => Feeds(w, c, p, q, Tail(b), n)
<1>1. Sorted(Tail(b)) /\ UpTo(Tail(b), n) /\ Before(p, Tail(b)) /\ Before(q, Tail(b))
  <2>1. Sorted(Tail(b))
    BY SendMoves DEF Linked
  <2>2. UpTo(Tail(b), n)
    BY UpToMoves DEF Linked
  <2> QED BY <2>1, <2>2, BeforeTail DEF Linked
<1>2. \A w \in Seq(Record) : Before(b, w) => Before(Tail(b), w)
  BY BeforeTail
<1> QED BY <1>1, <1>2 DEF Linked, Feeds

LEMMA PollMoves ==
    ASSUME NEW p \in Seq(Record), NEW q \in Seq(Record), NEW n \in Nat,
           NEW c \in Cpus, NEW v \in Seq(Record), v # <<>>,
           Linked(p, q, <<>>, n), Feeds(v, c, p, q, <<>>, n)
    PROVE  /\ Linked(p, q, <<Head(v)>>, n)
           /\ Feeds(Tail(v), c, p, q, <<Head(v)>>, n)
           /\ \A d \in Cpus, w \in Seq(Record) :
                 d # c /\ Feeds(w, d, p, q, <<>>, n) => Feeds(w, d, p, q, <<Head(v)>>, n)
<1> DEFINE b == <<Head(v)>>
<1>1. Head(v) = v[1] /\ 1 \in DOMAIN v /\ Head(v) \in Record
  BY HeadAndTail
<1>2. b \in Seq(Record) /\ DOMAIN b = {1} /\ b[1] = v[1] /\ b = Append(<<>>, Head(v))
  BY <1>1
<1>3. Sorted(b) /\ Sorted(Tail(v)) /\ Before(b, Tail(v))
  <2>1. <<>> \in Seq(Record) /\ Sorted(<<>>) /\ Before(<<>>, v)
    BY EmptySequence
  <2> QED BY <1>2, <2>1, MoveHead DEF Feeds
<1>4. UpTo(b, n) /\ UpTo(Tail(v), n)
  <2>1. <<>> \in Seq(Record) /\ UpTo(<<>>, n)
    BY EmptySequence
  <2> QED BY <1>2, <2>1, UpToMoves DEF Feeds
<1>5. Before(p, b) /\ Before(q, b)
  BY <1>1, <1>2 DEF Feeds, Before
<1>6. Before(p, Tail(v)) /\ Before(q, Tail(v))
  BY BeforeTail DEF Feeds
<1>7. \A i \in DOMAIN Tail(v) : Tail(v)[i].cpu = c
  BY HeadAndTail DEF Feeds
<1>8. \A i \in DOMAIN b : b[i].cpu = c
  BY <1>1, <1>2 DEF Feeds
<1> HIDE DEF b
<1>9. ASSUME NEW d \in Cpus, NEW w \in Seq(Record), d # c, Feeds(w, d, p, q, <<>>, n)
      PROVE  Feeds(w, d, p, q, b, n)
  <2>1. Before(b, w)
    BY <1>8, <1>9 DEF Feeds, Before
  <2> QED BY <1>9, <2>1 DEF Feeds
<1>10. Linked(p, q, b, n)
  BY <1>3, <1>4, <1>5 DEF Linked
<1>11. Feeds(Tail(v), c, p, q, b, n)
  BY <1>3, <1>4, <1>6, <1>7 DEF Feeds
<1> QED BY <1>9, <1>10, <1>11 DEF b

LEMMA EmitMoves ==
    ASSUME NEW p \in Seq(Record), NEW q \in Seq(Record), NEW b \in Seq(Record),
           NEW n \in Nat, NEW e \in Record, e.id = n + 1, Linked(p, q, b, n)
    PROVE  /\ Linked(p, q, b, n + 1)
           /\ \A c \in Cpus, w \in Seq(Record) :
                 Feeds(w, c, p, q, b, n) =>
                    /\ Feeds(w, c, p, q, b, n + 1)
                    /\ e.cpu = c => Feeds(Append(w, e), c, p, q, b, n + 1)
<1>1. Linked(p, q, b, n + 1)
  BY UpToNext DEF Linked
<1>2. ASSUME NEW c \in Cpus, NEW w \in Seq(Record), Feeds(w, c, p, q, b, n)
      PROVE  Feeds(w, c, p, q, b, n + 1)
  BY <1>2, UpToNext DEF Feeds
<1>3. ASSUME NEW c \in Cpus, NEW w \in Seq(Record), Feeds(w, c, p, q, b, n), e.cpu = c
      PROVE  Feeds(Append(w, e), c, p, q, b, n + 1)
  <2> DEFINE u == Append(w, e)
  <2>1. \A i \in DOMAIN u : u[i].cpu = c
    BY <1>3, AppendElements DEF Feeds
  <2>2. Sorted(u) /\ UpTo(u, n + 1)
    BY <1>3, AppendNewest DEF Feeds
  <2>3. UpTo(p, n) /\ UpTo(q, n) /\ UpTo(b, n) /\ UpTo(w, n)
    BY <1>3 DEF Linked, Feeds
  <2>4. Before(p, u) /\ Before(q, u) /\ Before(b, u)
    BY <1>3, <2>3, AppendNewest DEF Feeds
  <2> QED BY <2>1, <2>2, <2>4 DEF Feeds
<1> QED BY <1>1, <1>2, <1>3

LEMMA EmptyRing ==
    ASSUME NEW p \in Seq(Record), NEW q \in Seq(Record), NEW b \in Seq(Record),
           NEW n \in Nat, NEW c
    PROVE  Feeds(<<>>, c, p, q, b, n)
<1>1. Sorted(<<>>) /\ UpTo(<<>>, n)
  BY EmptySequence
<1>2. Before(p, <<>>) /\ Before(q, <<>>) /\ Before(b, <<>>)
  BY EmptySequence
<1> QED BY <1>1, <1>2 DEF Feeds

-----------------------------------------------------------------------------
(* Type correctness keeps what the steps below read of the state. *)
LEMMA TypesOfChain ==
    ASSUME TypeOK
    PROVE  /\ popped \in Seq(Record) /\ chan \in Seq(Record) /\ batch[Agent] \in Seq(Record)
           /\ emitted \in Nat
           /\ \A c \in Cpus : ring[Agent][c] \in Seq(Record)
           /\ Agent \in Readers /\ Loader \in Readers /\ Agent # Loader
  BY PipelineAssumption DEF TypeOK

(* A step that leaves alone the places of the chain, or empties some rings. *)
LEMMA ChainUnmoved ==
    ASSUME TypeOK, ChainInv,
           UNCHANGED <<popped, chan, emitted>>, batch'[Agent] = batch[Agent],
           \A c \in Cpus : ring'[Agent][c] = ring[Agent][c] \/ ring'[Agent][c] = <<>>
    PROVE  ChainInv'
<1>1. Linked(popped, chan, batch[Agent], emitted)'
  BY DEF ChainInv, Linked, Sorted, Before, UpTo
<1>2. ASSUME NEW c \in Cpus
      PROVE  Feeds(ring'[Agent][c], c, popped, chan, batch[Agent], emitted)
  BY TypesOfChain, EmptyRing DEF ChainInv
<1> QED BY <1>1, <1>2 DEF ChainInv

(* Every place of the agent's chain holds the records of a CPU in the order  *)
(* in which the eBPF program wrote them, and older ones than its feeders.    *)
THEOREM ChainInvariant == Spec => []ChainInv
<1>1. Init => ChainInv
  <2> SUFFICES ASSUME Init PROVE ChainInv
    OBVIOUS
  <2>1. /\ popped = <<>> /\ chan = <<>> /\ batch[Agent] = <<>> /\ emitted = 0
        /\ \A c \in Cpus : ring[Agent][c] = <<>>
    BY PipelineAssumption DEF Init, PerfInit, NoRecords
  <2>2. <<>> \in Seq(Record) /\ 0 \in Nat
    OBVIOUS
  <2>3. Linked(<<>>, <<>>, <<>>, 0)
    BY <2>2, EmptySequence DEF Linked
  <2>4. \A c \in Cpus : Feeds(<<>>, c, <<>>, <<>>, <<>>, 0)
    BY <2>2, EmptyRing
  <2> QED BY <2>1, <2>3, <2>4 DEF ChainInv
<1>2. TypeOK /\ ChainInv /\ [Next]_vars => ChainInv'
  <2> SUFFICES ASSUME TypeOK, ChainInv, [Next]_vars PROVE ChainInv'
    OBVIOUS
  <2> USE TypesOfChain
  <2>1. ASSUME NEW c \in Cpus, NEW sendable \in BOOLEAN, Emit(c, sendable)
        PROVE  ChainInv'
    <3> DEFINE e == [id |-> emitted + 1, cpu |-> c, sendable |-> sendable]
    <3>1. e \in Record /\ e.id = emitted + 1 /\ e.cpu = c
      BY DEF Record
    <3>2. UNCHANGED <<popped, chan, batch>> /\ emitted' = emitted + 1
      BY <2>1 DEF Emit, readerVars, callVars
    <3>3. ASSUME NEW d \in Cpus
          PROVE  \/ ring'[Agent][d] = ring[Agent][d]
                 \/ d = c /\ ring'[Agent][d] = Append(ring[Agent][d], e)
      <4>1. CASE UNCHANGED ring
        BY <4>1
      <4>2. CASE ring' = [ring EXCEPT ![slot[c]][c] = Append(@, e)]
        BY <4>2, <3>3 DEF TypeOK
      <4> QED BY <2>1, <4>1, <4>2 DEF Emit, Output
    <3> HIDE DEF e
    <3>4. /\ Linked(popped, chan, batch[Agent], emitted + 1)
          /\ \A d \in Cpus : LET w == ring[Agent][d] IN
                /\ Feeds(w, d, popped, chan, batch[Agent], emitted + 1)
                /\ d = c => Feeds(Append(w, e), d, popped, chan, batch[Agent], emitted + 1)
      BY <3>1, EmitMoves DEF ChainInv
    <3> QED BY <3>2, <3>3, <3>4 DEF ChainInv
  <2>2. ASSUME NEW r \in Readers, Start(r) PROVE ChainInv'
    BY <2>2, ChainUnmoved DEF Start, perfVars, callVars
  <2>3. ASSUME NEW r \in Readers, OpenNext(r) PROVE ChainInv'
    <3>1. \A c \in Cpus : ring'[Agent][c] = ring[Agent][c] \/ ring'[Agent][c] = <<>>
      BY <2>3 DEF OpenNext, Open, TypeOK
    <3>2. UNCHANGED <<popped, chan, emitted, batch>>
      BY <2>3 DEF OpenNext, callVars
    <3> QED BY <3>1, <3>2, ChainUnmoved
  <2>4. ASSUME NEW r \in Readers, Poll(r) PROVE ChainInv'
    <3> DEFINE c == cursor[r]
               w == ring[Agent][c]
    <3>1. c \in Cpus
      BY DEF TypeOK
    <3>2. UNCHANGED <<popped, chan, emitted>>
      BY <2>4 DEF Poll, callVars
    <3>3. /\ ring' = [ring EXCEPT ![r][c] = Left(r, c)]
          /\ batch' = [batch EXCEPT ![r] = Taken(r, c)]
          /\ batch[r] = <<>>
      BY <2>4 DEF Poll, ReadEvents
    <3>4. CASE r # Agent
      <4>1. batch'[Agent] = batch[Agent] /\ ring'[Agent] = ring[Agent]
        BY <3>3, <3>4 DEF TypeOK
      <4> QED BY <3>2, <4>1, ChainUnmoved
    <3>5. CASE r = Agent /\ w = <<>>
      <4>1. Left(Agent, c) = <<>> /\ Taken(Agent, c) = <<>>
        BY <3>5 DEF Left, Taken
      <4>2. batch'[Agent] = batch[Agent]
        BY <3>3, <3>5, <4>1 DEF TypeOK
      <4>3. \A d \in Cpus : ring'[Agent][d] = ring[Agent][d] \/ ring'[Agent][d] = <<>>
        BY <3>3, <3>5, <4>1 DEF TypeOK
      <4> QED BY <3>2, <4>2, <4>3, ChainUnmoved
    <3>6. CASE r = Agent /\ w # <<>>
      <4>1. Left(Agent, c) = Tail(w) /\ Taken(Agent, c) = <<Head(w)>>
        BY <3>6 DEF Left, Taken
      <4>2. batch'[Agent] = <<Head(w)>> /\ batch[Agent] = <<>>
        BY <3>3, <3>6, <4>1 DEF TypeOK
      <4>3. /\ ring'[Agent][c] = Tail(w)
            /\ \A d \in Cpus : d # c => ring'[Agent][d] = ring[Agent][d]
        BY <3>1, <3>3, <3>6, <4>1 DEF TypeOK
      <4>4. /\ Linked(popped, chan, <<>>, emitted)
            /\ \A d \in Cpus : Feeds(ring[Agent][d], d, popped, chan, <<>>, emitted)
        BY <4>2 DEF ChainInv
      <4>5. w \in Seq(Record)
        BY <3>1
      <4> HIDE DEF c, w
      <4>6. Feeds(w, c, popped, chan, <<>>, emitted)
        BY <3>1, <4>4 DEF w
      <4>7. /\ Linked(popped, chan, <<Head(w)>>, emitted)
            /\ Feeds(Tail(w), c, popped, chan, <<Head(w)>>, emitted)
            /\ \A d \in Cpus : d # c =>
                  Feeds(ring[Agent][d], d, popped, chan, <<Head(w)>>, emitted)
        BY <3>1, <3>6, <4>4, <4>5, <4>6, PollMoves
      <4>8. \A d \in Cpus : Feeds(ring'[Agent][d], d, popped, chan, <<Head(w)>>, emitted)
        BY <4>3, <4>7
      <4> QED BY <3>2, <4>2, <4>7, <4>8 DEF ChainInv
    <3> QED BY <3>4, <3>5, <3>6
  <2>5. ASSUME NEW r \in Readers, Stop(r) PROVE ChainInv'
    <3>1. CASE r = Agent
      <4>1. /\ chan' = <<>> /\ batch'[Agent] = <<>>
            /\ \A c \in Cpus : ring'[Agent][c] = <<>>
            /\ UNCHANGED <<popped, emitted>>
        BY <2>5, <3>1 DEF Stop, Close, NoRecords, TypeOK
      <4>2. <<>> \in Seq(Record)
        OBVIOUS
      <4>3. Linked(popped, <<>>, <<>>, emitted)
        BY <4>2, EmptySequence DEF ChainInv, Linked
      <4>4. \A c \in Cpus : Feeds(<<>>, c, popped, <<>>, <<>>, emitted)
        BY <4>2, EmptyRing
      <4> QED BY <4>1, <4>3, <4>4 DEF ChainInv
    <3>2. CASE r # Agent
      <4>1. /\ UNCHANGED <<popped, chan, emitted>>
            /\ batch'[Agent] = batch[Agent] /\ ring'[Agent] = ring[Agent]
        BY <2>5, <3>2 DEF Stop, Close, callVars, TypeOK
      <4> QED BY <4>1, ChainUnmoved
    <3> QED BY <3>1, <3>2
  <2>6. ASSUME Consume PROVE ChainInv'
    <3>1. UNCHANGED <<popped, chan, emitted, ring>> /\ batch'[Agent] = batch[Agent]
      BY <2>6 DEF Consume, perfVars, callVars, TypeOK
    <3> QED BY <3>1, ChainUnmoved
  <2>7. ASSUME Skip PROVE ChainInv'
    <3>1. /\ UNCHANGED <<popped, chan, emitted, ring>>
          /\ batch[Agent] # <<>> /\ batch'[Agent] = Tail(batch[Agent])
      BY <2>7 DEF Skip, perfVars, callVars, TypeOK
    <3>2. /\ Linked(popped, chan, Tail(batch[Agent]), emitted)
          /\ \A c \in Cpus :
                Feeds(ring[Agent][c], c, popped, chan, Tail(batch[Agent]), emitted)
      BY <3>1, SkipMoves DEF ChainInv
    <3> QED BY <3>1, <3>2 DEF ChainInv
  <2>8. ASSUME Send PROVE ChainInv'
    <3>1. /\ UNCHANGED <<popped, emitted, ring>>
          /\ batch[Agent] # <<>> /\ batch'[Agent] = Tail(batch[Agent])
          /\ chan' = Append(chan, Head(batch[Agent]))
      BY <2>8 DEF Send, perfVars, callVars, TypeOK
    <3>2. LET q == Append(chan, Head(batch[Agent])) IN
          /\ Linked(popped, q, Tail(batch[Agent]), emitted)
          /\ \A c \in Cpus : Feeds(ring[Agent][c], c, popped, q, Tail(batch[Agent]), emitted)
      BY <3>1, SendMoves DEF ChainInv
    <3> QED BY <3>1, <3>2 DEF ChainInv
  <2>9. ASSUME NEW q \in Calls, Request(q) PROVE ChainInv'
    BY <2>9, ChainUnmoved DEF Request, perfVars, readerVars
  <2>10. ASSUME NEW q \in Calls, TryRecv(q) PROVE ChainInv'
    <3>1. /\ UNCHANGED <<batch, emitted, ring>>
          /\ chan # <<>> /\ chan' = Tail(chan) /\ popped' = Append(popped, Head(chan))
      BY <2>10 DEF TryRecv, perfVars, readerVars
    <3>2. LET p == Append(popped, Head(chan)) IN
          /\ Linked(p, Tail(chan), batch[Agent], emitted)
          /\ \A c \in Cpus : Feeds(ring[Agent][c], c, p, Tail(chan), batch[Agent], emitted)
      BY <3>1, RecvMoves DEF ChainInv
    <3> QED BY <3>1, <3>2 DEF ChainInv
  <2>11. ASSUME NEW q \in Calls, Return(q) PROVE ChainInv'
    BY <2>11, ChainUnmoved DEF Return, perfVars, readerVars
  <2>12. CASE UNCHANGED vars
    BY <2>12, ChainUnmoved DEF vars, perfVars, readerVars, callVars
  <2> QED
    BY <2>1, <2>2, <2>3, <2>4, <2>5, <2>6, <2>7, <2>8, <2>9, <2>10, <2>11, <2>12 DEF Next
<1> QED BY <1>1, <1>2, TypeCorrect, PTL DEF Spec

(* Whatever the restarts and the concurrent calls, the users of the agent    *)
(* receive the records of a CPU in the order in which they were written, and *)
(* none twice.                                                               *)
THEOREM DeliveryOrder == Spec => []DeliveredInOrder
<1>1. ChainInv => DeliveredInOrder
  BY DEF ChainInv, Linked, DeliveredInOrder
<1> QED BY <1>1, ChainInvariant, PTL

-----------------------------------------------------------------------------
(* The pipeline implements Delivery *)

(* The agent's reader forwards nothing that it is to skip. *)
ChanSendable == \A i \in DOMAIN chan : chan[i].sendable

(* Nothing that the reader tasks skip ever gets into the channel. *)
THEOREM OnlySendable == Spec => []ChanSendable
<1>1. Init => ChanSendable
  BY DEF Init, ChanSendable
<1>2. TypeOK /\ ChanSendable /\ [Next]_vars => ChanSendable'
  <2> SUFFICES ASSUME TypeOK, ChanSendable, [Next]_vars PROVE ChanSendable'
    OBVIOUS
  <2> USE DEF ChanSendable
  <2>1. chan \in Seq(Record) /\ batch[Agent] \in Seq(Record)
    BY PipelineAssumption DEF TypeOK
  <2>2. CASE UNCHANGED chan
    BY <2>2
  <2>3. CASE Send
    <3>1. Head(batch[Agent]) \in Record
      BY <2>1, <2>3, HeadAndTail DEF Send
    <3> QED BY <2>1, <2>3, <3>1, AppendElements DEF Send
  <2>4. ASSUME NEW q \in Calls, TryRecv(q) PROVE ChanSendable'
    BY <2>1, <2>4, HeadAndTail DEF TryRecv
  <2>5. ASSUME NEW r \in Readers, Stop(r) PROVE ChanSendable'
    BY <2>5 DEF Stop
  <2> QED
    BY <2>2, <2>3, <2>4, <2>5
    DEF Next, Emit, Start, OpenNext, Poll, Consume, Skip, Request, Return, vars
<1> QED BY <1>1, <1>2, TypeCorrect, PTL DEF Spec

(* A receive of Delivery: what a call takes from the channel is news. *)
LEMMA TryRecvReceives ==
    ASSUME TypeOK, ChainInv, ChanSendable, NEW q \in Calls, TryRecv(q)
    PROVE  Promise!Receive
<1> DEFINE h == Head(chan)
<1>1. /\ chan \in Seq(Record) /\ popped \in Seq(Record) /\ chan # <<>>
      /\ popped' = Append(popped, h)
      /\ UNCHANGED emitted
  BY DEF TypeOK, TryRecv
<1>2. h \in Record /\ h = chan[1] /\ 1 \in DOMAIN chan
  BY <1>1, HeadAndTail
<1>3. h.id =< emitted /\ h.sendable
  BY <1>2 DEF ChainInv, Linked, UpTo, ChanSendable
<1>4. \A i \in DOMAIN popped : popped[i].cpu = h.cpu => popped[i].id < h.id
  BY <1>2 DEF ChainInv, Linked, Before
<1>5. Len(popped') = Len(popped) + 1 /\ popped'[Len(popped) + 1] = h
  BY <1>1, <1>2
<1> HIDE DEF h
<1> QED BY <1>1, <1>3, <1>4, <1>5 DEF Promise!Receive, Promise!IsNews

(* Every step of the kernel, the loader and the agent is a write, a receive *)
(* or nothing of Delivery: the calls receive what was written, one by one,  *)
(* and of a CPU nothing that is not newer than all they have.               *)
THEOREM RefinesDelivery == Spec => ImplementsDelivery
<1>1. Init => Promise!Init
  BY DEF Init, Promise!Init
<1>2. TypeOK /\ ChainInv /\ ChanSendable /\ [Next]_vars
        => [Promise!Next]_Promise!vars
  <2> SUFFICES ASSUME TypeOK, ChainInv, ChanSendable, [Next]_vars
               PROVE  [Promise!Next]_Promise!vars
    OBVIOUS
  <2>1. CASE UNCHANGED <<emitted, popped>>
    BY <2>1 DEF Promise!vars
  <2>2. ASSUME NEW c \in Cpus, NEW sendable \in BOOLEAN, Emit(c, sendable)
        PROVE  Promise!Write
    BY <2>2 DEF Emit, callVars, Promise!Write
  <2>3. ASSUME NEW q \in Calls, TryRecv(q)
        PROVE  Promise!Receive
    BY <2>3, TryRecvReceives
  <2>4. CASE \E r \in Readers : Stop(r)
    BY <2>1, <2>4 DEF Stop, callVars
  <2> QED
    BY <2>1, <2>2, <2>3, <2>4
    DEF Next, Start, OpenNext, Poll, Consume, Skip, Send, Request, Return,
        vars, callVars, Promise!Next
<1> QED
  BY <1>1, <1>2, TypeCorrect, ChainInvariant, OnlySendable, PTL
  DEF Spec, ImplementsDelivery, Promise!Spec

-----------------------------------------------------------------------------
(* Whose hands a record is in *)

Recs(s) == {s[i] : i \in DOMAIN s}

(* A batch and the rings it is read from. *)
InHand(b, w) == Recs(b) \cup UNION {Recs(w[c]) : c \in Cpus}

AgentRecs == Recs(popped) \cup Recs(chan) \cup InHand(batch[Agent], ring[Agent])

LoaderNumbers == observed \cup {e.id : e \in InHand(batch[Loader], ring[Loader])}

(* Every record is of the past, in the hands of one process only, and the *)
(* agent's are known by their numbers.                                    *)
Apart ==
    /\ \A e \in AgentRecs : e.id =< emitted /\ e.id \notin LoaderNumbers
    /\ \A n \in LoaderNumbers : n =< emitted
    /\ \A e, f \in AgentRecs : e.id = f.id => e.cpu = f.cpu

LEMMA RecsOf ==
    ASSUME NEW s \in Seq(Record)
    PROVE  /\ \A e \in Record : Recs(Append(s, e)) = Recs(s) \cup {e}
           /\ s # <<>> => /\ Head(s) \in Recs(s) /\ Recs(Tail(s)) \subseteq Recs(s)
                          /\ Recs(s) \subseteq Recs(Tail(s)) \cup {Head(s)}
                          /\ Recs(<<Head(s)>>) = {Head(s)}
           /\ Recs(<<>>) = {}
           /\ Recs(s) \subseteq Record
           /\ Ids(s) = {e.id : e \in Recs(s)}
           /\ SendableIds(s) = {e.id : e \in {f \in Recs(s) : f.sendable}}
<1>1. ASSUME NEW e \in Record PROVE Recs(Append(s, e)) = Recs(s) \cup {e}
  <2>1. Recs(Append(s, e)) \subseteq Recs(s) \cup {e}
    BY AppendElements DEF Recs
  <2>2. /\ \A i \in DOMAIN s : i \in DOMAIN Append(s, e) /\ Append(s, e)[i] = s[i]
        /\ Len(s) + 1 \in DOMAIN Append(s, e) /\ Append(s, e)[Len(s) + 1] = e
    OBVIOUS
  <2> QED BY <2>1, <2>2 DEF Recs
<1>2. s # <<>> => /\ Head(s) \in Recs(s) /\ Recs(Tail(s)) \subseteq Recs(s)
                  /\ Recs(<<Head(s)>>) = {Head(s)}
  BY HeadAndTail DEF Recs
<1>6. s # <<>> => Recs(s) \subseteq Recs(Tail(s)) \cup {Head(s)}
  <2> SUFFICES ASSUME s # <<>>, NEW i \in DOMAIN s
               PROVE  s[i] \in Recs(Tail(s)) \cup {Head(s)}
    BY DEF Recs
  <2>1. i = 1 \/ (i - 1 \in DOMAIN Tail(s) /\ Tail(s)[i - 1] = s[i])
    OBVIOUS
  <2> QED BY <2>1, HeadAndTail DEF Recs
<1>3. Recs(<<>>) = {} /\ Recs(s) \subseteq Record
  BY RecordFields DEF Recs
<1>4. Ids(s) = {e.id : e \in Recs(s)}
  BY DEF Ids, Recs
<1>5. SendableIds(s) = {e.id : e \in {f \in Recs(s) : f.sendable}}
  BY DEF SendableIds, Recs
<1> QED BY <1>1, <1>2, <1>3, <1>4, <1>5, <1>6

LEMMA HandsOf ==
    ASSUME NEW b \in Seq(Record), NEW w \in [Cpus -> Seq(Record)]
    PROVE  /\ InHand(b, w) \subseteq Record
           /\ Ids(b) \cup UNION {Ids(w[c]) : c \in Cpus} = {e.id : e \in InHand(b, w)}
<1>1. Recs(b) \subseteq Record /\ Ids(b) = {e.id : e \in Recs(b)}
  BY RecsOf
<1>2. \A c \in Cpus : Recs(w[c]) \subseteq Record /\ Ids(w[c]) = {e.id : e \in Recs(w[c])}
  <2> SUFFICES ASSUME NEW c \in Cpus
               PROVE  Recs(w[c]) \subseteq Record /\ Ids(w[c]) = {e.id : e \in Recs(w[c])}
    OBVIOUS
  <2>1. w[c] \in Seq(Record)
    OBVIOUS
  <2> QED BY <2>1, RecsOf
<1> QED BY <1>1, <1>2 DEF InHand

LEMMA FewerInHand ==
    ASSUME NEW b, NEW w, NEW b2, NEW w2,
           Recs(b2) \subseteq Recs(b),
           \A c \in Cpus : Recs(w2[c]) \subseteq Recs(w[c])
    PROVE  InHand(b2, w2) \subseteq InHand(b, w)
  BY DEF InHand

(* A record that is written gets into one ring at most. *)
LEMMA EmitGivesToOne ==
    ASSUME TypeOK, NEW c \in Cpus, NEW sendable \in BOOLEAN, Emit(c, sendable)
    PROVE  \E e \in Record : \E to \in Readers :
              /\ e.id = emitted + 1
              /\ InHand(batch'[to], ring'[to]) \subseteq InHand(batch[to], ring[to]) \cup {e}
              /\ \A r \in Readers : r # to => batch'[r] = batch[r] /\ ring'[r] = ring[r]
              /\ UNCHANGED <<popped, chan, observed>>
              /\ emitted' = emitted + 1
<1> DEFINE e == [id |-> emitted + 1, cpu |-> c, sendable |-> sendable]
<1>1. e \in Record /\ e.id = emitted + 1
  BY DEF Record, TypeOK
<1>2. UNCHANGED <<popped, chan, observed, batch>> /\ emitted' = emitted + 1
  BY DEF Emit, readerVars, callVars
<1>3. Output(c, e)
  BY DEF Emit
<1> HIDE DEF e
<1>4. CASE UNCHANGED ring
  <2>1. Agent \in Readers
    BY PipelineAssumption
  <2> QED BY <1>1, <1>2, <1>4, <2>1
<1>5. CASE Writable(c) /\ ring' = [ring EXCEPT ![slot[c]][c] = Append(@, e)]
  <2>1. PICK to \in Readers : to = slot[c]
    BY <1>5 DEF Writable, TypeOK
  <2>2. /\ ring'[to][c] = Append(ring[to][c], e)
        /\ \A d \in Cpus : d # c => ring'[to][d] = ring[to][d]
        /\ \A r \in Readers : r # to => ring'[r] = ring[r]
    BY <1>5, <2>1 DEF TypeOK
  <2>3. InHand(batch'[to], ring'[to]) \subseteq InHand(batch[to], ring[to]) \cup {e}
    <3>1. ring[to][c] \in Seq(Record)
      BY DEF TypeOK
    <3>2. Recs(ring'[to][c]) = Recs(ring[to][c]) \cup {e}
      <4>1. \A f \in Record : Recs(Append(ring[to][c], f)) = Recs(ring[to][c]) \cup {f}
        BY <3>1, RecsOf
      <4> QED BY <1>1, <2>2, <4>1
    <3>3. \A d \in Cpus : Recs(ring'[to][d]) \subseteq Recs(ring[to][d]) \cup {e}
      BY <2>2, <3>2
    <3> QED BY <1>2, <3>3 DEF InHand
  <2> QED BY <1>1, <1>2, <2>2, <2>3
<1> QED BY <1>3, <1>4, <1>5 DEF Output

(* What is not a write moves records within a process, or forgets them. *)
LEMMA OthersMoveWithin ==
    ASSUME TypeOK, TypeOK', [Next]_vars,
           ~(\E c \in Cpus, sendable \in BOOLEAN : Emit(c, sendable))
    PROVE  /\ AgentRecs' \subseteq AgentRecs
           /\ LoaderNumbers' \subseteq LoaderNumbers
           /\ emitted' = emitted
<1> USE TypesOfChain
<1> DEFINE Hand(r) == InHand(batch[r], ring[r])
           Hand2(r) == InHand(batch'[r], ring'[r])
           Within == /\ AgentRecs' \subseteq AgentRecs
                     /\ LoaderNumbers' \subseteq LoaderNumbers
                     /\ emitted' = emitted
<1>a. Agent \in Readers /\ Loader \in Readers /\ Agent # Loader /\ Readers = {Loader, Agent}
  BY PipelineAssumption
<1>b. Recs(<<>>) = {}
  BY DEF Recs
<1>1. ASSUME Recs(popped') \subseteq Recs(popped), Recs(chan') \subseteq Recs(chan),
             observed' = observed, emitted' = emitted,
             \A r \in Readers : /\ Recs(batch'[r]) \subseteq Recs(batch[r])
                                /\ \A c \in Cpus : Recs(ring'[r][c]) \subseteq Recs(ring[r][c])
      PROVE  Within
  <2>1. \A r \in Readers : Hand2(r) \subseteq Hand(r)
    BY <1>1, FewerInHand
  <2>2. AgentRecs' \subseteq AgentRecs
    BY <1>a, <1>1, <2>1 DEF AgentRecs
  <2>3. LoaderNumbers' \subseteq LoaderNumbers
    BY <1>a, <1>1, <2>1 DEF LoaderNumbers
  <2> QED BY <1>1, <2>2, <2>3
<1>2. ASSUME NEW r \in Readers, OpenNext(r) PROVE Within
  <2>1. \A q \in Readers : \A c \in Cpus : ring'[q][c] = ring[q][c] \/ ring'[q][c] = <<>>
    BY <1>2 DEF OpenNext, Open, TypeOK
  <2>2. UNCHANGED <<popped, chan, observed, emitted, batch>>
    BY <1>2 DEF OpenNext, callVars
  <2>3. \A q \in Readers : \A c \in Cpus : Recs(ring'[q][c]) \subseteq Recs(ring[q][c])
    BY <1>b, <2>1
  <2> QED BY <1>1, <2>2, <2>3
<1>3. ASSUME NEW r \in Readers, Poll(r) PROVE Within
  <2>1. PICK c \in Cpus : c = cursor[r]
    BY DEF TypeOK
  <2>2. ring[r][c] \in Seq(Record)
    BY DEF TypeOK
  <2>3. /\ ring'[r][c] = Left(r, c)
        /\ \A d \in Cpus : d # c => ring'[r][d] = ring[r][d]
        /\ batch'[r] = Taken(r, c)
        /\ \A q \in Readers : q # r => ring'[q] = ring[q] /\ batch'[q] = batch[q]
    BY <1>3, <2>1 DEF Poll, ReadEvents, TypeOK
  <2>4. Recs(Left(r, c)) \subseteq Recs(ring[r][c]) /\ Recs(Taken(r, c)) \subseteq Recs(ring[r][c])
    BY <2>2, <1>b, RecsOf DEF Left, Taken
  <2>5. UNCHANGED <<popped, chan, observed, emitted>>
    BY <1>3 DEF Poll, callVars
  <2>6. \A q \in Readers : Hand2(q) \subseteq Hand(q)
    <3>1. Recs(batch'[r]) \subseteq Hand(r)
      BY <2>1, <2>3, <2>4 DEF InHand
    <3>2. \A d \in Cpus : Recs(ring'[r][d]) \subseteq Hand(r)
      BY <2>3, <2>4 DEF InHand
    <3>3. Hand2(r) \subseteq Hand(r)
      BY <3>1, <3>2 DEF InHand
    <3> QED BY <2>3, <3>3
  <2>7. AgentRecs' \subseteq AgentRecs
    BY <1>a, <2>5, <2>6 DEF AgentRecs
  <2>8. LoaderNumbers' \subseteq LoaderNumbers
    BY <1>a, <2>5, <2>6 DEF LoaderNumbers
  <2> QED BY <2>5, <2>7, <2>8
<1>4. ASSUME NEW r \in Readers, Stop(r) PROVE Within
  <2>1. /\ \A q \in Readers : batch'[q] = batch[q] \/ batch'[q] = <<>>
        /\ \A q \in Readers : \A c \in Cpus : ring'[q][c] = ring[q][c] \/ ring'[q][c] = <<>>
        /\ chan' = chan \/ chan' = <<>>
        /\ UNCHANGED <<popped, observed, emitted>>
    BY <1>4 DEF Stop, Close, NoRecords, callVars, TypeOK
  <2>2. \A q \in Readers : \A c \in Cpus : Recs(ring'[q][c]) \subseteq Recs(ring[q][c])
    BY <1>b, <2>1
  <2>3. \A q \in Readers : Recs(batch'[q]) \subseteq Recs(batch[q])
    BY <1>b, <2>1
  <2>4. Recs(chan') \subseteq Recs(chan)
    BY <1>b, <2>1
  <2> QED BY <1>1, <2>1, <2>2, <2>3, <2>4
<1>5. ASSUME Consume PROVE Within
  <2>1. PICK b \in Seq(Record) : b = batch[Loader] /\ b # <<>>
    BY <1>5, <1>a DEF Consume, TypeOK
  <2>2. /\ batch'[Loader] = Tail(b) /\ batch'[Agent] = batch[Agent]
        /\ observed' = observed \cup {Head(b).id}
        /\ UNCHANGED <<ring, popped, chan, emitted>>
    BY <1>5, <1>a, <2>1 DEF Consume, perfVars, callVars, TypeOK
  <2>3. Head(b) \in Recs(b) /\ Recs(Tail(b)) \subseteq Recs(b)
    BY <2>1, RecsOf
  <2>4. Head(b) \in Hand(Loader) /\ Hand2(Loader) \subseteq Hand(Loader)
    BY <2>1, <2>2, <2>3, FewerInHand DEF InHand
  <2>5. AgentRecs' = AgentRecs
    BY <2>2 DEF AgentRecs
  <2>6. LoaderNumbers' \subseteq LoaderNumbers
    BY <2>2, <2>4 DEF LoaderNumbers
  <2> QED BY <2>2, <2>5, <2>6
<1>6. ASSUME Skip \/ Send PROVE Within
  <2>1. PICK b \in Seq(Record) : b = batch[Agent] /\ b # <<>>
    BY <1>6, <1>a DEF Skip, Send, TypeOK
  <2>2. Head(b) \in Record
    BY <2>1, HeadAndTail
  <2>3. /\ batch'[Agent] = Tail(b) /\ batch'[Loader] = batch[Loader]
        /\ chan' = chan \/ chan' = Append(chan, Head(b))
        /\ UNCHANGED <<ring, popped, observed, emitted>>
    BY <1>6, <1>a, <2>1 DEF Skip, Send, perfVars, callVars, TypeOK
  <2>4. /\ Head(b) \in Recs(b) /\ Recs(Tail(b)) \subseteq Recs(b)
        /\ Recs(chan') \subseteq Recs(chan) \cup {Head(b)}
    <3>1. \A f \in Record : Recs(Append(chan, f)) = Recs(chan) \cup {f}
      BY RecsOf
    <3>2. Recs(chan') \subseteq Recs(chan) \cup {Head(b)}
      BY <2>2, <2>3, <3>1
    <3> QED BY <2>1, <3>2, RecsOf
  <2>5. Head(b) \in Hand(Agent) /\ Hand2(Agent) \subseteq Hand(Agent)
    BY <2>1, <2>3, <2>4, FewerInHand DEF InHand
  <2>6. AgentRecs' \subseteq AgentRecs
    BY <2>3, <2>4, <2>5 DEF AgentRecs
  <2>7. LoaderNumbers' = LoaderNumbers
    BY <2>3 DEF LoaderNumbers
  <2> QED BY <2>3, <2>6, <2>7
<1>7. ASSUME NEW q \in Calls, TryRecv(q) PROVE Within
  <2>1. /\ chan # <<>> /\ chan' = Tail(chan) /\ popped' = Append(popped, Head(chan))
        /\ UNCHANGED <<ring, batch, observed, emitted>>
    BY <1>7 DEF TryRecv, perfVars, readerVars
  <2>2. /\ Head(chan) \in Recs(chan) /\ Recs(chan') \subseteq Recs(chan)
        /\ Recs(popped') = Recs(popped) \cup {Head(chan)}
    BY <2>1, HeadAndTail, RecsOf
  <2>3. AgentRecs' \subseteq AgentRecs
    BY <2>1, <2>2 DEF AgentRecs
  <2>4. LoaderNumbers' = LoaderNumbers
    BY <2>1 DEF LoaderNumbers
  <2> QED BY <2>1, <2>3, <2>4
<1>8. ASSUME UNCHANGED <<ring, batch, popped, chan, observed, emitted>> PROVE Within
  BY <1>8 DEF AgentRecs, LoaderNumbers
<1>9. ASSUME NEW r \in Readers, Start(r) PROVE Within
  BY <1>8, <1>9 DEF Start, perfVars, callVars
<1>10. ASSUME NEW q \in Calls, Request(q) \/ Return(q) PROVE Within
  BY <1>8, <1>10 DEF Request, Return, perfVars, readerVars
<1>11. CASE UNCHANGED vars
  BY <1>8, <1>11 DEF vars, perfVars, readerVars, callVars
<1> QED BY <1>2, <1>3, <1>4, <1>5, <1>6, <1>7, <1>9, <1>10, <1>11 DEF Next

THEOREM HandsApart == Spec => []Apart
<1>1. Init => Apart
  <2> SUFFICES ASSUME Init PROVE Apart
    OBVIOUS
  <2>1. /\ popped = <<>> /\ chan = <<>> /\ observed = {}
        /\ \A r \in Readers : batch[r] = <<>> /\ \A c \in Cpus : ring[r][c] = <<>>
        /\ Agent \in Readers /\ Loader \in Readers
    BY PipelineAssumption DEF Init, PerfInit, NoRecords
  <2>2. Recs(<<>>) = {}
    BY DEF Recs
  <2>3. \A r \in Readers : InHand(batch[r], ring[r]) = {}
    BY <2>1, <2>2 DEF InHand
  <2>4. AgentRecs = {} /\ LoaderNumbers = {}
    BY <2>1, <2>2, <2>3 DEF AgentRecs, LoaderNumbers
  <2> QED BY <2>4 DEF Apart
<1>2. TypeOK /\ TypeOK' /\ Apart /\ [Next]_vars => Apart'
  <2> SUFFICES ASSUME TypeOK, TypeOK', Apart, [Next]_vars PROVE Apart'
    OBVIOUS
  <2>1. CASE \E c \in Cpus, sendable \in BOOLEAN : Emit(c, sendable)
    <3>1. PICK e \in Record, to \in Readers :
             /\ e.id = emitted + 1
             /\ InHand(batch'[to], ring'[to]) \subseteq InHand(batch[to], ring[to]) \cup {e}
             /\ \A r \in Readers : r # to => batch'[r] = batch[r] /\ ring'[r] = ring[r]
             /\ UNCHANGED <<popped, chan, observed>>
             /\ emitted' = emitted + 1
      BY <2>1, EmitGivesToOne
    <3>2. /\ Agent \in Readers /\ Loader \in Readers /\ Agent # Loader
          /\ Readers = {Loader, Agent}
      BY PipelineAssumption
    <3>3. /\ emitted \in Nat
          /\ \A f \in AgentRecs : f.id \in Nat
          /\ \A n \in LoaderNumbers : n \in Nat
      <4>1. /\ popped \in Seq(Record) /\ chan \in Seq(Record) /\ observed \subseteq Nat
            /\ \A r \in Readers : batch[r] \in Seq(Record) /\ ring[r] \in [Cpus -> Seq(Record)]
            /\ emitted \in Nat
        BY DEF TypeOK
      <4>2. /\ InHand(batch[Agent], ring[Agent]) \subseteq Record
            /\ InHand(batch[Loader], ring[Loader]) \subseteq Record
        BY <3>2, <4>1, HandsOf
      <4>3. Recs(popped) \subseteq Record /\ Recs(chan) \subseteq Record
        BY <4>1, RecsOf
      <4>4. \A f \in Record : f.id \in Nat
        BY DEF Record
      <4> QED BY <4>1, <4>2, <4>3, <4>4 DEF AgentRecs, LoaderNumbers
    <3>4. CASE to = Agent
      <4>1. AgentRecs' \subseteq AgentRecs \cup {e}
        BY <3>1, <3>2, <3>4 DEF AgentRecs
      <4>2. LoaderNumbers' = LoaderNumbers
        BY <3>1, <3>2, <3>4 DEF LoaderNumbers
      <4> QED BY <3>1, <3>3, <4>1, <4>2 DEF Apart
    <3>5. CASE to = Loader
      <4>1. AgentRecs' = AgentRecs
        BY <3>1, <3>2, <3>5 DEF AgentRecs
      <4>2. LoaderNumbers' \subseteq LoaderNumbers \cup {e.id}
        BY <3>1, <3>5 DEF LoaderNumbers
      <4> QED BY <3>1, <3>3, <4>1, <4>2 DEF Apart
    <3> QED BY <3>2, <3>4, <3>5
  <2>2. CASE ~(\E c \in Cpus, sendable \in BOOLEAN : Emit(c, sendable))
    BY <2>2, OthersMoveWithin DEF Apart
  <2> QED BY <2>1, <2>2
<1> QED BY <1>1, <1>2, TypeCorrect, PTL DEF Spec

-----------------------------------------------------------------------------
(* What the agent has taken *)

Forwarded(h) == {e.id : e \in {f \in h : f.sendable}}

AgentHolds == Recs(popped) \cup Recs(chan) \cup Recs(batch[Agent])

(* The numbers of the records to forward stay in the agent's hands. *)
Kept == taken \subseteq Forwarded(AgentHolds)

LEMMA StaysForwarded ==
    ASSUME NEW h, NEW h2, NEW x, h \subseteq h2 \cup {x}, x \in h2 \/ ~x.sendable
    PROVE  Forwarded(h) \subseteq Forwarded(h2)
  BY DEF Forwarded

(* The readers' tasks and the calls lose no record that is to be forwarded, *)
(* whatever the capacity of the channel and the number of calls.            *)
THEOREM NothingLost == Spec => []NothingLostInAgent
<1>1. Init => Kept
  BY DEF Init, Kept
<1>2. TypeOK /\ Kept /\ [Next]_vars => Kept'
  <2> SUFFICES ASSUME TypeOK, Kept, [Next]_vars PROVE Kept'
    OBVIOUS
  <2> USE TypesOfChain
  <2>a. Agent \in Readers /\ Loader \in Readers /\ Agent # Loader
    BY PipelineAssumption
  <2>1. CASE UNCHANGED <<popped, chan, taken>> /\ batch'[Agent] = batch[Agent]
    BY <2>1 DEF Kept, AgentHolds
  <2>2. ASSUME NEW r \in Readers, Poll(r) PROVE Kept'
    <3>1. CASE r # Agent
      BY <2>1, <2>2, <2>a, <3>1 DEF Poll, callVars, TypeOK
    <3>2. CASE r = Agent
      <4>1. PICK c \in Cpus : c = cursor[Agent]
        BY <2>a DEF TypeOK
      <4>2. PICK t : t = Taken(Agent, c)
        OBVIOUS
      <4>3. t \in Seq(Record)
        BY <4>1, <4>2, <2>a, HeadAndTail DEF Taken
      <4>4. /\ batch[Agent] = <<>> /\ batch'[Agent] = t
            /\ taken' = taken \cup SendableIds(t)
            /\ UNCHANGED <<popped, chan>>
        BY <2>2, <2>a, <3>2, <4>1, <4>2 DEF Poll, callVars, TypeOK
      <4>5. SendableIds(t) = Forwarded(Recs(t)) /\ Recs(<<>>) = {}
        BY <4>3, RecsOf DEF Forwarded
      <4>6. AgentHolds' = AgentHolds \cup Recs(t)
        BY <4>4, <4>5 DEF AgentHolds
      <4> QED BY <4>4, <4>5, <4>6 DEF Kept, Forwarded
    <3> QED BY <3>1, <3>2
  <2>3. ASSUME NEW r \in Readers, Stop(r) PROVE Kept'
    <3>1. CASE r = Agent
      BY <2>3, <3>1 DEF Stop, Kept
    <3>2. CASE r # Agent
      BY <2>1, <2>3, <2>a, <3>2 DEF Stop, callVars, TypeOK
    <3> QED BY <3>1, <3>2
  <2>4. CASE Skip \/ Send
    <3>1. PICK b \in Seq(Record) : b = batch[Agent] /\ b # <<>>
      BY <2>4, <2>a DEF Skip, Send, TypeOK
    <3>2. Head(b) \in Record /\ Recs(b) \subseteq Recs(Tail(b)) \cup {Head(b)}
      BY <3>1, HeadAndTail, RecsOf
    <3>3. \A f \in Record : Recs(Append(chan, f)) = Recs(chan) \cup {f}
      BY RecsOf
    <3>4. batch'[Agent] = Tail(b) /\ UNCHANGED <<popped, taken>>
      BY <2>4, <2>a, <3>1 DEF Skip, Send, callVars, TypeOK
    <3>5. \/ UNCHANGED chan /\ ~Head(b).sendable
          \/ chan' = Append(chan, Head(b))
      BY <2>4, <3>1 DEF Skip, Send
    <3>6. CASE UNCHANGED chan /\ ~Head(b).sendable
      <4>1. AgentHolds \subseteq AgentHolds' \cup {Head(b)}
        BY <3>1, <3>2, <3>4, <3>6 DEF AgentHolds
      <4> QED BY <3>4, <3>6, <4>1, StaysForwarded DEF Kept
    <3>7. CASE chan' = Append(chan, Head(b))
      <4>1. Recs(chan') = Recs(chan) \cup {Head(b)}
        BY <3>2, <3>3, <3>7
      <4>2. AgentHolds \subseteq AgentHolds'
        BY <3>1, <3>2, <3>4, <4>1 DEF AgentHolds
      <4> QED BY <3>4, <4>2 DEF Kept, Forwarded
    <3> QED BY <3>5, <3>6, <3>7
  <2>5. ASSUME NEW q \in Calls, TryRecv(q) PROVE Kept'
    <3>1. /\ chan # <<>> /\ chan' = Tail(chan) /\ popped' = Append(popped, Head(chan))
          /\ UNCHANGED <<batch, taken>>
      BY <2>5 DEF TryRecv, readerVars
    <3>2. Head(chan) \in Record /\ Recs(chan) \subseteq Recs(Tail(chan)) \cup {Head(chan)}
      BY <3>1, HeadAndTail, RecsOf
    <3>3. \A f \in Record : Recs(Append(popped, f)) = Recs(popped) \cup {f}
      BY RecsOf
    <3>4. Recs(popped') = Recs(popped) \cup {Head(chan)}
      BY <3>1, <3>2, <3>3
    <3>5. AgentHolds \subseteq AgentHolds'
      BY <3>1, <3>2, <3>4 DEF AgentHolds
    <3> QED BY <3>1, <3>5 DEF Kept, Forwarded
  <2>6. ASSUME NEW c \in Cpus, NEW sendable \in BOOLEAN, Emit(c, sendable) PROVE Kept'
    BY <2>1, <2>6 DEF Emit, readerVars, callVars
  <2>7. ASSUME NEW r \in Readers, Start(r) \/ OpenNext(r) PROVE Kept'
    BY <2>1, <2>7 DEF Start, OpenNext, callVars
  <2>8. ASSUME Consume PROVE Kept'
    BY <2>1, <2>8, <2>a DEF Consume, callVars, TypeOK
  <2>9. ASSUME NEW q \in Calls, Request(q) \/ Return(q) PROVE Kept'
    BY <2>1, <2>9 DEF Request, Return, readerVars
  <2>10. CASE UNCHANGED vars
    BY <2>1, <2>10 DEF vars, readerVars, callVars
  <2> QED BY <2>2, <2>3, <2>4, <2>5, <2>6, <2>7, <2>8, <2>9, <2>10 DEF Next
<1>3. TypeOK /\ Kept => NothingLostInAgent
  <2> SUFFICES ASSUME TypeOK, Kept PROVE NothingLostInAgent
    OBVIOUS
  <2>1. /\ Ids(popped) = {e.id : e \in Recs(popped)}
        /\ Ids(chan) = {e.id : e \in Recs(chan)}
        /\ Ids(batch[Agent]) = {e.id : e \in Recs(batch[Agent])}
    BY TypesOfChain, RecsOf
  <2> QED BY <2>1 DEF Kept, Forwarded, AgentHolds, NothingLostInAgent
<1> QED BY <1>1, <1>2, <1>3, TypeCorrect, PTL DEF Spec

-----------------------------------------------------------------------------
(* The answers *)

(* The answers are shares of what was received, and no two of them meet. *)
Shares ==
    /\ \A q \in Calls : Ids(reply[q]) \subseteq Ids(popped)
    /\ RepliesDisjoint

(* The record a call receives is none of those received before. *)
LEMMA HeadIsNew ==
    ASSUME TypeOK, ChainInv, Apart, chan # <<>>
    PROVE  Head(chan).id \notin Ids(popped)
<1> SUFFICES ASSUME NEW i \in DOMAIN popped, popped[i].id = Head(chan).id PROVE FALSE
  BY DEF Ids
<1>1. /\ chan \in Seq(Record) /\ popped \in Seq(Record)
      /\ Head(chan) = chan[1] /\ 1 \in DOMAIN chan
  BY TypesOfChain, HeadAndTail
<1>2. popped[i] \in AgentRecs /\ Head(chan) \in AgentRecs
  BY <1>1 DEF AgentRecs, Recs
<1>3. popped[i].cpu = chan[1].cpu
  BY <1>1, <1>2 DEF Apart
<1>4. popped[i].id < chan[1].id
  BY <1>1, <1>3 DEF ChainInv, Linked, Before
<1>5. chan[1].id \in Nat
  BY <1>1, RecordFields
<1> QED BY <1>1, <1>4, <1>5

LEMMA IdsAppend ==
    ASSUME NEW s \in Seq(Record), NEW e \in Record
    PROVE  Ids(Append(s, e)) = Ids(s) \cup {e.id}
<1>1. Append(s, e) \in Seq(Record) /\ Recs(Append(s, e)) = Recs(s) \cup {e}
  BY AppendElements, RecsOf
<1>2. \A t \in Seq(Record) : Ids(t) = {f.id : f \in Recs(t)}
  BY RecsOf
<1> QED BY <1>1, <1>2

(* Calls that drain the channel at once split it, however many they are and *)
(* however their receives interleave.                                       *)
THEOREM AnswersApart == Spec => []RepliesDisjoint
<1>1. Init => Shares
  BY DEF Init, Shares, RepliesDisjoint, Ids
<1>2. TypeOK /\ ChainInv /\ Apart /\ Shares /\ [Next]_vars => Shares'
  <2> SUFFICES ASSUME TypeOK, ChainInv, Apart, Shares, [Next]_vars PROVE Shares'
    OBVIOUS
  <2>1. CASE UNCHANGED <<popped, reply>>
    BY <2>1 DEF Shares, RepliesDisjoint
  <2>2. ASSUME UNCHANGED popped, \A q \in Calls : reply'[q] = reply[q] \/ reply'[q] = <<>>
        PROVE  Shares'
    <3>1. \A q \in Calls : Ids(reply'[q]) \subseteq Ids(reply[q])
      <4>1. Ids(<<>>) = {}
        BY DEF Ids
      <4> QED BY <2>2, <4>1
    <3> QED BY <2>2, <3>1 DEF Shares, RepliesDisjoint
  <2>3. ASSUME NEW q \in Calls, Request(q) PROVE Shares'
    BY <2>2, <2>3 DEF Request, TypeOK
  <2>4. ASSUME NEW r \in Readers, Stop(r) PROVE Shares'
    BY <2>2, <2>4 DEF Stop, callVars
  <2>5. ASSUME NEW q \in Calls, TryRecv(q) PROVE Shares'
    <3>1. PICK e \in Record : chan # <<>> /\ e = Head(chan)
      BY <2>5, TypesOfChain, HeadAndTail DEF TryRecv
    <3>2. /\ popped' = Append(popped, e)
          /\ reply'[q] = Append(reply[q], e)
          /\ \A p \in Calls : p # q => reply'[p] = reply[p]
      BY <2>5, <3>1 DEF TryRecv, TypeOK
    <3>3. Ids(popped') = Ids(popped) \cup {e.id} /\ Ids(reply'[q]) = Ids(reply[q]) \cup {e.id}
      BY <3>2, TypesOfChain, IdsAppend DEF TypeOK
    <3>4. e.id \notin Ids(popped)
      BY <3>1, HeadIsNew
    <3>5. \A p \in Calls : Ids(reply'[p]) \subseteq Ids(popped')
      BY <3>2, <3>3 DEF Shares
    <3>6. \A p \in Calls : p # q => Ids(reply'[p]) \cap Ids(reply'[q]) = {}
      BY <3>2, <3>3, <3>4 DEF Shares, RepliesDisjoint
    <3>7. \A p, o \in Calls : p # o => Ids(reply'[p]) \cap Ids(reply'[o]) = {}
      BY <3>2, <3>6 DEF Shares, RepliesDisjoint
    <3> QED BY <3>5, <3>7 DEF Shares, RepliesDisjoint
  <2>6. CASE \/ \E c \in Cpus, sendable \in BOOLEAN : Emit(c, sendable)
             \/ \E r \in Readers : Start(r) \/ OpenNext(r) \/ Poll(r)
             \/ Consume \/ Skip \/ Send
             \/ \E q \in Calls : Return(q)
             \/ UNCHANGED vars
    BY <2>1, <2>6
    DEF Emit, Start, OpenNext, Poll, Consume, Skip, Send, Return, vars, callVars
  <2> QED BY <2>3, <2>4, <2>5, <2>6 DEF Next
<1>3. Shares => RepliesDisjoint
  BY DEF Shares
<1> QED BY <1>1, <1>2, <1>3, TypeCorrect, ChainInvariant, HandsApart, PTL DEF Spec

-----------------------------------------------------------------------------
(* What a call owes *)

(* While a call drains, what was queued when it was made is still queued, *)
(* or was received.                                                       *)
Owing == \A q \in Calls : call[q] = "draining" => owed[q] \subseteq Ids(popped) \cup Ids(chan)

LEMMA IdsOfTail ==
    ASSUME NEW s \in Seq(Record), s # <<>>
    PROVE  Ids(s) \subseteq Ids(Tail(s)) \cup {Head(s).id}
<1>1. PICK t \in Seq(Record) : t = Tail(s) /\ Recs(s) \subseteq Recs(t) \cup {Head(s)}
  BY HeadAndTail, RecsOf
<1>2. Ids(t) = {e.id : e \in Recs(t)} /\ Ids(s) = {e.id : e \in Recs(s)}
  BY RecsOf
<1>3. {e.id : e \in Recs(s)} \subseteq {e.id : e \in Recs(t)} \cup {Head(s).id}
  BY <1>1
<1> QED BY <1>1, <1>2, <1>3

(* A call returns when all that was queued when it was made has been       *)
(* received, by it or by the calls that drained the channel meanwhile.     *)
THEOREM ReturnsDrained == Spec => DrainedAtReturn
<1>1. Init => Owing
  BY DEF Init, Owing
<1>2. TypeOK /\ Owing /\ [Next]_vars => Owing'
  <2> SUFFICES ASSUME TypeOK, Owing, [Next]_vars PROVE Owing'
    OBVIOUS
  <2>1. ASSUME UNCHANGED <<call, owed>>,
               Ids(popped) \cup Ids(chan) \subseteq Ids(popped') \cup Ids(chan')
        PROVE  Owing'
    BY <2>1 DEF Owing
  <2>2. ASSUME NEW r \in Readers, Stop(r) PROVE Owing'
    <3>1. CASE r = Agent
      BY <2>2, <3>1 DEF Stop, Owing
    <3>2. CASE r # Agent
      BY <2>1, <2>2, <3>2 DEF Stop, callVars
    <3> QED BY <3>1, <3>2
  <2>3. CASE Skip
    BY <2>1, <2>3 DEF Skip, callVars
  <2>4. CASE Send
    <3>1. Head(batch[Agent]) \in Record
      BY <2>4, TypesOfChain, HeadAndTail DEF Send
    <3>2. chan' = Append(chan, Head(batch[Agent])) /\ UNCHANGED <<call, owed, popped>>
      BY <2>4 DEF Send, callVars
    <3>3. Ids(chan) \subseteq Ids(chan')
      BY <3>1, <3>2, TypesOfChain, IdsAppend
    <3> QED BY <2>1, <3>2, <3>3
  <2>5. ASSUME NEW q \in Calls, Request(q) PROVE Owing'
    BY <2>5 DEF Request, Owing, TypeOK
  <2>6. ASSUME NEW q \in Calls, TryRecv(q) PROVE Owing'
    <3>1. PICK e \in Record : chan # <<>> /\ e = Head(chan)
      BY <2>6, TypesOfChain, HeadAndTail DEF TryRecv
    <3>2. popped' = Append(popped, e) /\ chan' = Tail(chan) /\ UNCHANGED <<call, owed>>
      BY <2>6, <3>1 DEF TryRecv
    <3>3. Ids(popped') = Ids(popped) \cup {e.id}
      BY <3>2, TypesOfChain, IdsAppend
    <3>4. Ids(chan) \subseteq Ids(chan') \cup {e.id}
      BY <3>1, <3>2, TypesOfChain, IdsOfTail
    <3> QED BY <2>1, <3>2, <3>3, <3>4
  <2>7. ASSUME NEW q \in Calls, Return(q) PROVE Owing'
    BY <2>7 DEF Return, Owing, TypeOK
  <2>8. CASE \/ \E c \in Cpus, sendable \in BOOLEAN : Emit(c, sendable)
             \/ \E r \in Readers : Start(r) \/ OpenNext(r) \/ Poll(r)
             \/ Consume
             \/ UNCHANGED vars
    BY <2>1, <2>8 DEF Emit, Start, OpenNext, Poll, Consume, vars, callVars
  <2> QED BY <2>2, <2>3, <2>4, <2>5, <2>6, <2>7, <2>8 DEF Next
<1>3. TypeOK /\ Owing /\ [Next]_vars
        => [\A q \in Calls :
               call[q] = "draining" /\ call'[q] = "idle" /\ phase'[Agent] # "down"
                  => owed[q] \subseteq Ids(popped)]_vars
  <2> SUFFICES ASSUME TypeOK, Owing, [Next]_vars, NEW q \in Calls,
                      call[q] = "draining", call'[q] = "idle", phase'[Agent] # "down"
               PROVE  owed[q] \subseteq Ids(popped)
    OBVIOUS
  <2>1. ASSUME NEW p \in Calls, Return(p) PROVE owed[q] \subseteq Ids(popped)
    <3>1. owed[q] \subseteq Ids(popped) \cup Ids(<<>>)
      BY <2>1 DEF Return, Owing
    <3> QED BY <3>1 DEF Ids
  <2>2. ASSUME NEW r \in Readers, Stop(r) PROVE FALSE
    BY <2>2, PipelineAssumption DEF Stop, callVars, TypeOK
  <2>3. ASSUME NEW p \in Calls, Request(p) \/ TryRecv(p) PROVE FALSE
    BY <2>3 DEF Request, TryRecv, TypeOK
  <2>4. CASE \/ \E c \in Cpus, sendable \in BOOLEAN : Emit(c, sendable)
             \/ \E r \in Readers : Start(r) \/ OpenNext(r) \/ Poll(r)
             \/ Consume \/ Skip \/ Send
             \/ UNCHANGED vars
    BY <2>4 DEF Emit, Start, OpenNext, Poll, Consume, Skip, Send, vars, callVars
  <2> QED BY <2>1, <2>2, <2>3, <2>4 DEF Next
<1> QED BY <1>1, <1>2, <1>3, TypeCorrect, PTL DEF Spec, DrainedAtReturn

-----------------------------------------------------------------------------
(* Whose rings the array leads to *)

(* The CPUs that process r has opened since it was started. *)
Opened(r) ==
    {c \in Cpus : phase[r] = "polling" \/ (phase[r] = "opening" /\ c < cursor[r])}

(* Process r has opened c, and so has the other one, or it was never there. *)
OpenedByAll(r, c) ==
    /\ c \in Opened(r)
    /\ \A o \in Readers \ {r} : starts[o] = 0 \/ c \in Opened(o)

(* Where the loops of both have passed there is a ring: an exit in between *)
(* takes entries away, but then the loop of that process begins anew.      *)
Covered ==
    /\ \A r \in Readers : starts[r] = 0 => phase[r] = "down"
    /\ \A r \in Readers, c \in Cpus : OpenedByAll(r, c) => slot[c] \in Readers

(* A step of r's loop passes one CPU. *)
LEMMA LoopPasses ==
    ASSUME TypeOK, NEW r \in Readers, OpenNext(r)
    PROVE  /\ slot' = [slot EXCEPT ![cursor[r]] = r]
           /\ \A c \in Cpus : c \in Opened(r)' => c \in Opened(r) \/ c = cursor[r]
           /\ \A o \in Readers \ {r} : Opened(o)' = Opened(o)
<1>1. /\ NumCpus \in Nat /\ cursor \in [Readers -> Cpus] /\ Cpus \subseteq Nat
      /\ \A c \in Cpus : c < NumCpus
      /\ phase \in [Readers -> {"down", "opening", "polling"}]
  BY PerfAssumption DEF TypeOK, Cpus
<1>2. /\ phase[r] = "opening" /\ slot' = [slot EXCEPT ![cursor[r]] = r]
      /\ \/ /\ cursor[r] + 1 < NumCpus
            /\ cursor' = [cursor EXCEPT ![r] = @ + 1]
            /\ phase' = phase
         \/ /\ cursor[r] + 1 = NumCpus
            /\ cursor' = [cursor EXCEPT ![r] = 0]
            /\ phase' = [phase EXCEPT ![r] = "polling"]
  BY DEF OpenNext, Open
<1>3. \A c \in Cpus : c < cursor[r] + 1 => c < cursor[r] \/ c = cursor[r]
  <2>1. cursor[r] \in Nat
    BY <1>1
  <2>2. \A m, n \in Nat : m < n + 1 => m < n \/ m = n
    OBVIOUS
  <2> QED BY <1>1, <2>1, <2>2
<1>4. \A c \in Cpus : c \in Opened(r)' => c \in Opened(r) \/ c = cursor[r]
  BY <1>1, <1>2, <1>3 DEF Opened
<1>5. \A o \in Readers \ {r} : Opened(o)' = Opened(o)
  BY <1>1, <1>2 DEF Opened
<1> QED BY <1>2, <1>4, <1>5

(* The inductive invariant of the two loops over the CPUs (fill_buffers in *)
(* the loader, AgentApi::default in the agent), in any order.              *)
THEOREM CoverInvariant == Spec => []Covered
<1>1. Init => Covered
  BY DEF Init, Covered, OpenedByAll, Opened
<1>2. TypeOK /\ Covered /\ [Next]_vars => Covered'
  <2> SUFFICES ASSUME TypeOK, Covered, [Next]_vars PROVE Covered'
    OBVIOUS
  <2>0. /\ phase \in [Readers -> {"down", "opening", "polling"}]
        /\ starts \in [Readers -> Nat] /\ slot \in [Cpus -> Readers \cup {NoReader}]
        /\ cursor \in [Readers -> Cpus] /\ Cpus \subseteq Nat
    BY PerfAssumption DEF TypeOK, Cpus
  <2>1. CASE UNCHANGED <<slot, starts, phase>>
             /\ \A r \in Readers : phase[r] = "opening" => cursor'[r] = cursor[r]
    BY <2>0, <2>1 DEF Covered, OpenedByAll, Opened
  <2>2. ASSUME NEW r \in Readers, Start(r) PROVE Covered'
    <3>1. /\ phase[r] = "down" /\ phase' = [phase EXCEPT ![r] = "opening"]
          /\ starts' = [starts EXCEPT ![r] = @ + 1] /\ cursor' = [cursor EXCEPT ![r] = 0]
          /\ slot' = slot
      BY <2>2 DEF Start, perfVars
    <3>2. starts'[r] # 0 /\ Opened(r)' = {}
      <4>1. starts'[r] = starts[r] + 1 /\ starts[r] \in Nat
        BY <2>0, <3>1
      <4>2. phase'[r] = "opening" /\ cursor'[r] = 0
        BY <2>0, <3>1
      <4>3. \A c \in Cpus : ~(c < 0)
        BY <2>0
      <4> QED BY <4>1, <4>2, <4>3 DEF Opened
    <3>3. \A o \in Readers \ {r} : Opened(o)' = Opened(o) /\ starts'[o] = starts[o]
      BY <2>0, <3>1 DEF Opened
    <3>4. \A o \in Readers, c \in Cpus : ~OpenedByAll(o, c)'
      BY <3>2, <3>3 DEF OpenedByAll
    <3>5. \A o \in Readers : starts'[o] = 0 => phase'[o] = "down"
      BY <2>0, <3>1, <3>2, <3>3 DEF Covered
    <3> QED BY <3>4, <3>5 DEF Covered
  <2>3. ASSUME NEW r \in Readers, OpenNext(r) PROVE Covered'
    <3>1. /\ slot' = [slot EXCEPT ![cursor[r]] = r]
          /\ \A c \in Cpus : c \in Opened(r)' => c \in Opened(r) \/ c = cursor[r]
          /\ \A o \in Readers \ {r} : Opened(o)' = Opened(o)
      BY <2>3, LoopPasses
    <3>2. phase[r] = "opening" /\ starts' = starts
      BY <2>3 DEF OpenNext
    <3>3. starts[r] # 0
      BY <3>2 DEF Covered
    <3>4. ASSUME NEW o \in Readers, NEW c \in Cpus, OpenedByAll(o, c)' PROVE slot'[c] \in Readers
      <4>1. CASE c = cursor[r]
        BY <2>0, <3>1, <4>1
      <4>2. CASE c # cursor[r]
        <5>1. OpenedByAll(o, c)
          BY <3>1, <3>2, <3>4, <4>2 DEF OpenedByAll
        <5> QED BY <2>0, <3>1, <4>2, <5>1 DEF Covered
      <4> QED BY <4>1, <4>2
    <3>5. \A o \in Readers \ {r} : phase'[o] = phase[o]
      BY <2>0, <2>3 DEF OpenNext
    <3> QED BY <3>2, <3>3, <3>4, <3>5 DEF Covered
  <2>4. ASSUME NEW r \in Readers, Stop(r) PROVE Covered'
    <3>1. /\ phase[r] # "down" /\ phase' = [phase EXCEPT ![r] = "down"]
          /\ starts' = starts /\ cursor' = [cursor EXCEPT ![r] = 0]
          /\ slot' = [c \in Cpus |-> IF slot[c] = r THEN NoReader ELSE slot[c]]
      BY <2>4 DEF Stop, Close
    <3>2. starts'[r] # 0 /\ Opened(r)' = {}
      BY <2>0, <3>1 DEF Covered, Opened
    <3>3. \A o \in Readers, c \in Cpus : ~OpenedByAll(o, c)'
      BY <3>2 DEF OpenedByAll
    <3>4. \A o \in Readers : starts'[o] = 0 => phase'[o] = "down"
      BY <2>0, <3>1 DEF Covered
    <3> QED BY <3>3, <3>4 DEF Covered
  <2>5. ASSUME NEW r \in Readers, Poll(r) PROVE Covered'
    <3>1. UNCHANGED <<slot, starts, phase>> /\ phase[r] = "polling"
          /\ cursor' = [cursor EXCEPT ![r] = (@ + 1) % NumCpus]
      BY <2>5 DEF Poll, ReadEvents
    <3>2. \A o \in Readers : phase[o] = "opening" => cursor'[o] = cursor[o]
      BY <2>0, <3>1
    <3> QED BY <2>1, <3>1, <3>2
  <2>6. CASE UNCHANGED <<slot, starts, phase, cursor>>
    BY <2>1, <2>6
  <2>7. CASE UNCHANGED vars
    BY <2>6, <2>7 DEF vars, perfVars, readerVars
  <2> QED BY <2>2, <2>3, <2>4, <2>5, <2>6, <2>7
          DEF Next, Emit, Output, Consume, Skip, Send, Request, TryRecv, Return,
              perfVars, readerVars
<1> QED BY <1>1, <1>2, TypeCorrect, PTL DEF Spec

(* While the processes poll, each CPU's records go to one of them, in       *)
(* whatever order they opened the map, ended and came again.                *)
THEOREM CpusCovered == Spec => []EveryCpuIsRead
<1>1. Covered => EveryCpuIsRead
  BY DEF Covered, OpenedByAll, Opened, EveryCpuIsRead
<1> QED BY <1>1, CoverInvariant, PTL

(* While the loader polls, a CPU that the agent has opened after it is lost *)
(* to it: its entry never comes back, not even when the agent ends, and its *)
(* ring only gets emptier.                                                  *)
NeverGivenBack ==
    [][\A c \in Cpus :
          phase[Loader] = "polling" /\ slot[c] # Loader
              => /\ slot'[c] # Loader
                 /\ Len(ring'[Loader][c]) =< Len(ring[Loader][c])]_vars

(* What the agent's opens (fill_buffers on the loader's pinned maps) mean   *)
(* for the loader's consumers: until the loader is started again, no record *)
(* of such a CPU reaches its instruments.                                   *)
THEOREM TakenForGood == Spec => NeverGivenBack
<1> DEFINE Lost ==
      \A c \in Cpus :
          phase[Loader] = "polling" /\ slot[c] # Loader
              => /\ slot'[c] # Loader
                 /\ Len(ring'[Loader][c]) =< Len(ring[Loader][c])
<1>1. TypeOK /\ [Next]_vars => [Lost]_vars
  <2> SUFFICES ASSUME TypeOK, Next, NEW c \in Cpus, phase[Loader] = "polling", slot[c] # Loader
               PROVE  /\ slot'[c] # Loader
                      /\ Len(ring'[Loader][c]) =< Len(ring[Loader][c])
    OBVIOUS
  <2> DEFINE Stays == slot'[c] # Loader /\ Len(ring'[Loader][c]) =< Len(ring[Loader][c])
  <2>0. /\ slot \in [Cpus -> Readers \cup {NoReader}]
        /\ ring \in [Readers -> [Cpus -> Seq(Record)]]
        /\ Loader \in Readers /\ NoReader # Loader
        /\ cursor \in [Readers -> Cpus]
        /\ ring[Loader][c] \in Seq(Record) /\ Len(ring[Loader][c]) \in Nat
    BY PerfAssumption, PipelineAssumption DEF TypeOK
  <2>1. CASE UNCHANGED <<slot, ring>>
    BY <2>0, <2>1
  <2>2. ASSUME NEW d \in Cpus, NEW sendable \in BOOLEAN, Emit(d, sendable) PROVE Stays
    <3>1. slot' = slot
      BY <2>2 DEF Emit, Output
    <3>2. CASE ring' = ring
      BY <2>0, <3>1, <3>2
    <3>3. CASE Writable(d) /\ ring' # ring
      <4>1. PICK e : ring' = [ring EXCEPT ![slot[d]][d] = Append(@, e)]
        BY <2>2, <3>3 DEF Emit, Output
      <4>2. slot[d] # Loader \/ d # c
        OBVIOUS
      <4>3. slot[d] \in Readers
        BY <2>0, <3>3 DEF Writable
      <4>4. ring'[Loader][c] = ring[Loader][c]
        BY <2>0, <4>1, <4>2, <4>3
      <4> QED BY <2>0, <3>1, <4>4
    <3> QED BY <2>2, <3>2, <3>3 DEF Emit, Output
  <2>3. ASSUME NEW r \in Readers, OpenNext(r) PROVE Stays
    <3>1. /\ r # Loader
          /\ slot' = [slot EXCEPT ![cursor[r]] = r]
          /\ ring' = [ring EXCEPT ![r][cursor[r]] = <<>>]
      BY <2>3 DEF OpenNext, Open
    <3>2. ring'[Loader][c] = ring[Loader][c]
      BY <2>0, <3>1
    <3> QED BY <2>0, <3>1, <3>2
  <2>4. ASSUME NEW r \in Readers, Poll(r) PROVE Stays
    <3> DEFINE d == cursor[r]
    <3>1. slot' = slot /\ ring' = [ring EXCEPT ![r][d] = Left(r, d)] /\ d \in Cpus
      BY <2>0, <2>4 DEF Poll, ReadEvents
    <3> HIDE DEF d
    <3>2. CASE r = Loader /\ d = c
      <4>1. ring'[Loader][c] = Left(r, d)
        BY <2>0, <3>1, <3>2
      <4>2. Len(Left(r, d)) =< Len(ring[r][d])
        BY <2>0, <3>2 DEF Left
      <4> QED BY <3>1, <3>2, <4>1, <4>2
    <3>3. CASE r # Loader \/ d # c
      <4>1. ring'[Loader][c] = ring[Loader][c]
        BY <2>0, <3>1, <3>3
      <4> QED BY <2>0, <3>1, <4>1
    <3> QED BY <3>2, <3>3
  <2>5. ASSUME NEW r \in Readers, Stop(r) PROVE Stays
    <3>1. /\ slot' = [d \in Cpus |-> IF slot[d] = r THEN NoReader ELSE slot[d]]
          /\ ring' = [ring EXCEPT ![r] = NoRecords]
      BY <2>5 DEF Stop, Close
    <3>2. ring'[Loader][c] = <<>> \/ ring'[Loader][c] = ring[Loader][c]
      BY <2>0, <3>1 DEF NoRecords
    <3>3. Len(ring'[Loader][c]) =< Len(ring[Loader][c])
      BY <2>0, <3>2
    <3> QED BY <2>0, <3>1, <3>3
  <2> QED BY <2>1, <2>2, <2>3, <2>4, <2>5
          DEF Next, Start, Consume, Skip, Send, Request, TryRecv, Return, perfVars
<1> QED BY <1>1, TypeCorrect, PTL DEF Spec, NeverGivenBack
=============================================================================
