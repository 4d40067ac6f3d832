--------------------------- MODULE PromQueriesProofs ---------------------------
(***************************************************************************)
(* Theorems of PromQueries: that the calls agree on the label and settle   *)
(* it well, for any calls, labels and series; and that an answer names     *)
(* what was asked for, for any names and arguments.                        *)
(***************************************************************************)
EXTENDS PromQueries, SequenceTheorems, TLAPS

(* The queue's members wait, the others do not, and only its head has      *)
(* asked Prometheus about anything yet.                                    *)
Waiting == {c \in Calls : call[c].pc = "labelling"}

Queued ==
    /\ queue \in Seq(Calls) /\ IsInjective(queue)
    /\ Range(queue) = Waiting
    /\ cell # NoLabel => queue = <<>>
    /\ \A c \in Waiting : c # Head(queue) => call[c].index = 1

Typed ==
    /\ series \subseteq Series
    /\ cell \in Labels \cup {NoLabel}
    /\ call \in [Calls -> Call]

(* Who is past the cell found it filled. *)
Labelled == \A c \in Calls : call[c].pc \in {"ready", "ok"} => cell # NoLabel

(* All calls speak of workloads by the same label: an answer and a listing *)
(* given at any time name the label that the others use.                   *)
AnswersAgree ==
    \A c \in Calls : call[c].pc \in {"ready", "ok"} => call[c].label = cell

(* While somebody probes, what is remembered brackets what there is, and   *)
(* every label it has passed over was without series at some moment.       *)
Bracket ==
    /\ always \subseteq sometimes /\ sometimes \subseteq Labels
    /\ queue = <<>> => always = {}
    /\ queue # <<>> =>
          /\ always \subseteq Present(series) /\ Present(series) \subseteq sometimes
          /\ \A i \in DOMAIN IDENTITY_LABELS :
                i < call[Head(queue)].index => IDENTITY_LABELS[i] \notin always

IInv ==
    /\ Typed
    /\ Queued
    /\ Labelled
    /\ AnswersAgree
    /\ Bracket

-----------------------------------------------------------------------------
(* The text of a query. *)

(* A literal has the characters of the argument. *)
LEMMA LiteralOf ==
    ASSUME NEW w \in Seq(STRING), NEW specials
    PROVE  /\ Len(Escaped(w, specials)) = Len(w)
           /\ DOMAIN Escaped(w, specials) = 1 .. Len(w)
           /\ \A i \in 1 .. Len(w) : /\ Escaped(w, specials)[i].char = w[i]
                                     /\ Escaped(w, specials)[i].backslash = (w[i] \in specials)
BY DEF Escaped

(* A name has an argument in it where its characters begin one after the   *)
(* other.                                                                  *)
LEMMA PartIs ==
    ASSUME NEW w \in Seq(STRING), NEW name \in Seq(STRING)
    PROVE  HasPart(name, w) <=>
              \E at \in 0 .. Len(name) - Len(w) :
                  \A i \in 1 .. Len(w) : name[at + i] = w[i]
<1>1. ASSUME NEW at \in 0 .. Len(name) - Len(w)
      PROVE  SubSeq(name, at + 1, at + Len(w)) = w <=>
                \A i \in 1 .. Len(w) : name[at + i] = w[i]
  <2> DEFINE part == SubSeq(name, at + 1, at + Len(w))
  <2>1. Len(w) \in Nat /\ Len(name) \in Nat /\ at \in Nat
    OBVIOUS
  <2>2. \A i \in at + 1 .. at + Len(w) : name[i] \in STRING
    BY <2>1
  <2>3. /\ part \in Seq(STRING)
        /\ Len(part) = Len(w)
        /\ \A i \in 1 .. Len(w) : part[i] = name[at + i]
    BY <2>1, <2>2, SubSeqProperties
  <2> HIDE DEF part
  <2>4. (\A i \in 1 .. Len(w) : name[at + i] = w[i]) => part = w
    BY <2>3, SeqEqual
  <2>5. part = w => \A i \in 1 .. Len(w) : name[at + i] = w[i]
    BY <2>3
  <2> QED BY <2>4, <2>5 DEF part
<1> QED BY <1>1 DEF HasPart

(* A pattern that Prometheus accepts holds nothing special, and matches    *)
(* the names that the argument is a part of.                               *)
LEMMA PatternMatches ==
    ASSUME NEW w \in Seq(STRING), NEW name \in Seq(STRING),
           Plain(w), Parses(escape_regex(w))
    PROVE  RegexMatches(escape_regex(w), name) <=> HasPart(name, w)
<1> DEFINE lit == escape_regex(w)
<1>1. /\ Len(lit) = Len(w) /\ DOMAIN lit = 1 .. Len(w)
      /\ \A i \in 1 .. Len(w) : lit[i].char = w[i] /\ lit[i].backslash = (w[i] \in RegexSpecials)
  BY LiteralOf DEF escape_regex
<1>2. \A i \in 1 .. Len(w) : w[i] # "\\"
  <2> SUFFICES ASSUME NEW i \in 1 .. Len(w) PROVE w[i] # "\\"
    OBVIOUS
  <2>1. i \in DOMAIN w
    BY LenProperties
  <2>2. w[i] \in Range(w)
    BY <2>1, Zenon DEF Range
  <2> QED BY <2>2, Zenon DEF Plain
<1> HIDE DEF lit
<1>3. \A i \in 1 .. Len(w) : w[i] \notin RegexSpecials
  <2> SUFFICES ASSUME NEW i \in 1 .. Len(w), w[i] \in RegexSpecials PROVE FALSE
    OBVIOUS
  <2>1. w[i] \in GoEscapes
    BY <1>1 DEF Parses, lit
  <2> QED BY <1>2, <2>1 DEF GoEscapes, RegexSpecials
<1>4. \A i \in 1 .. Len(w) : \A c \in STRING : CharMatches(lit[i], c) <=> w[i] = c
  BY <1>1, <1>3 DEF CharMatches, RegexSpecials
<1>5. ASSUME NEW at \in 0 .. Len(name) - Len(w)
      PROVE  (\A i \in 1 .. Len(w) : CharMatches(lit[i], name[at + i])) <=>
             (\A i \in 1 .. Len(w) : name[at + i] = w[i])
  <2>1. Len(w) \in Nat /\ Len(name) \in Nat /\ name \in [1 .. Len(name) -> STRING]
    BY LenProperties
  <2>2. \A i \in 1 .. Len(w) : at + i \in 1 .. Len(name)
    BY <2>1
  <2>3. \A i \in 1 .. Len(w) : name[at + i] \in STRING
    BY <2>1, <2>2
  <2> QED BY <1>4, <2>3
<1>6. RegexMatches(lit, name) <=>
         \E at \in 0 .. Len(name) - Len(w) :
             \A i \in 1 .. Len(w) : CharMatches(lit[i], name[at + i])
  BY <1>1 DEF RegexMatches
<1> QED BY <1>5, <1>6, PartIs DEF lit

(* A string matches the name that is the argument. *)
LEMMA StringMatchesName ==
    ASSUME NEW w \in Seq(STRING), NEW name \in Seq(STRING)
    PROVE  StringMatches(escape_string(w), name) <=> name = w
<1> DEFINE lit == escape_string(w)
<1>1. /\ Len(lit) = Len(w) /\ DOMAIN lit = 1 .. Len(w)
      /\ \A i \in 1 .. Len(w) : lit[i].char = w[i]
  BY LiteralOf DEF escape_string
<1> HIDE DEF lit
<1>2. StringMatches(lit, name) <=>
         Len(w) = Len(name) /\ \A i \in 1 .. Len(w) : w[i] = name[i]
  BY <1>1 DEF StringMatches
<1> QED BY <1>2, SeqEqual DEF lit

(* What the groups of a query name, once the empty one is left out, is     *)
(* what was asked for.                                                     *)
LEMMA GroupsAreWanted ==
    ASSUME NEW S \in SUBSET Series, NEW l \in Labels, NEW r \in Requests,
           Parses(Literal(r)), r.start = "whole", r.mode \in {"exact", "substring"}
    PROVE  parse_series(build_promql(S, l, r), r) = Wanted(S, l, r)
<1> DEFINE Asks(n) == IF r.mode = "exact" THEN n = r.workload ELSE HasPart(n, r.workload)
           Takes(n) == IF r.mode = "exact" THEN StringMatches(Literal(r), n)
                                           ELSE RegexMatches(Literal(r), n)
<1>1. r.workload \in Seq(STRING) /\ Plain(r.workload)
  BY RequestsAssumption
<1>2. \A n \in Seq(STRING) : Takes(n) <=> Asks(n)
  BY <1>1, PatternMatches, StringMatchesName DEF Literal
<1>3. \A s \in S : l \in DOMAIN s => s[l] \in Seq(STRING) /\ s[l] # <<>>
  BY SeriesAssumption
<1>4. \A s \in S : ValueIn(s, l) \in Seq(STRING)
  <2>1. <<>> \in Seq(STRING)
    OBVIOUS
  <2> QED BY <1>3, <2>1, Zenon DEF ValueIn
<1>5. \A s \in S : ValueIn(s, l) # <<>> <=> l \in DOMAIN s
  BY <1>3 DEF ValueIn
<1>6. \A s \in S : l \in DOMAIN s => ValueIn(s, l) = s[l]
  BY DEF ValueIn
<1>7. build_promql(S, l, r) = {ValueIn(s, l) : s \in {t \in S : Takes(ValueIn(t, l))}}
  BY DEF build_promql
<1>8. Wanted(S, l, r) = {n \in ValuesOf(S, l) : Asks(n)}
  BY DEF Wanted
<1>9. parse_series(build_promql(S, l, r), r) = build_promql(S, l, r) \ {<<>>}
  BY DEF parse_series
<1> HIDE DEF Asks, Takes
<1>10. ASSUME NEW n \in build_promql(S, l, r), n # <<>> PROVE n \in Wanted(S, l, r)
  <2>1. PICK s \in S : n = ValueIn(s, l) /\ Takes(ValueIn(s, l))
    BY <1>7, <1>10
  <2>2. l \in DOMAIN s /\ n = s[l] /\ Asks(n)
    BY <1>2, <1>4, <1>5, <1>6, <1>10, <2>1
  <2> QED BY <1>8, <2>2 DEF ValuesOf
<1>11. ASSUME NEW n \in Wanted(S, l, r) PROVE n \in build_promql(S, l, r) /\ n # <<>>
  <2>1. PICK s \in S : l \in DOMAIN s /\ n = s[l] /\ Asks(n)
    BY <1>8, <1>11 DEF ValuesOf
  <2>2. n = ValueIn(s, l) /\ Takes(ValueIn(s, l)) /\ n # <<>>
    BY <1>2, <1>4, <1>5, <1>6, <2>1
  <2> QED BY <1>7, <2>2
<1> QED BY <1>9, <1>10, <1>11

-----------------------------------------------------------------------------
(* Labels, values and the queue. *)
LEMMA LabelFacts ==
    /\ Len(IDENTITY_LABELS) \in Nat /\ Len(IDENTITY_LABELS) > 0
    /\ DOMAIN IDENTITY_LABELS = 1 .. Len(IDENTITY_LABELS)
    /\ \A i \in 1 .. Len(IDENTITY_LABELS) : IDENTITY_LABELS[i] \in Labels
    /\ NoLabel \notin Labels
BY LabelsAssumption, LenProperties

LEMMA ValueFacts ==
    ASSUME NEW S \in SUBSET Series
    PROVE  /\ Present(S) \subseteq Labels
           /\ \A l : ValuesOf(S, l) \subseteq Names
           /\ \A l, r : parse_series(build_promql(S, l, r), r) \subseteq Names \cup {<<>>}
<1>1. \A s \in S : \A l \in DOMAIN s : s[l] \in Names
  BY DEF Names, Range
<1>2. \A l : ValuesOf(S, l) \subseteq Names
  BY <1>1 DEF ValuesOf
<1>3. \A l, r : build_promql(S, l, r) \subseteq Names \cup {<<>>}
  BY <1>1, Zenon DEF build_promql, ValueIn
<1> QED BY <1>2, <1>3 DEF Present, parse_series

LEMMA QueueHead ==
    ASSUME NEW q \in Seq(Calls)
    PROVE  /\ q # <<>> => Head(q) \in Range(q)
           /\ q = <<>> => Range(q) = {}
           /\ Range(q) \subseteq Calls
BY DEF Range

LEMMA QueueAppend ==
    ASSUME NEW q \in Seq(Calls), IsInjective(q), NEW c \in Calls, c \notin Range(q)
    PROVE  LET a == Append(q, c) IN
           /\ a \in Seq(Calls) /\ a # <<>> /\ IsInjective(a)
           /\ Range(a) = Range(q) \cup {c}
           /\ Head(a) = IF q = <<>> THEN c ELSE Head(q)
<1> DEFINE a == Append(q, c)
<1>1. /\ a \in Seq(Calls) /\ a # <<>> /\ Len(a) = Len(q) + 1
      /\ \A i \in 1 .. Len(q) : a[i] = q[i]
      /\ a[Len(q) + 1] = c
      /\ Len(q) \in Nat /\ DOMAIN q = 1 .. Len(q) /\ DOMAIN a = 1 .. Len(q) + 1
  BY AppendProperties
<1>2. Head(a) = a[1] /\ (q # <<>> => Head(q) = q[1] /\ Len(q) > 0) /\ (q = <<>> => Len(q) = 0)
  BY <1>1
<1> HIDE DEF a
<1>3. \A i \in 1 .. Len(q) : q[i] # c
  BY <1>1 DEF Range
<1>4. IsInjective(a)
  <2> SUFFICES ASSUME NEW i \in 1 .. Len(q) + 1, NEW j \in 1 .. Len(q) + 1, a[i] = a[j]
               PROVE  i = j
    BY <1>1 DEF IsInjective
  <2> QED BY <1>1, <1>3 DEF IsInjective
<1>5. Range(a) = Range(q) \cup {c}
  <2>1. \A x \in Range(a) : x \in Range(q) \cup {c}
    BY <1>1 DEF Range
  <2>2. \A x \in Range(q) : x \in Range(a)
    BY <1>1 DEF Range
  <2>3. c \in Range(a)
    BY <1>1 DEF Range
  <2> QED BY <2>1, <2>2, <2>3
<1>6. Head(a) = IF q = <<>> THEN c ELSE Head(q)
  BY <1>1, <1>2
<1> QED BY <1>1, <1>4, <1>5, <1>6 DEF a

LEMMA QueueTail ==
    ASSUME NEW q \in Seq(Calls), IsInjective(q), q # <<>>
    PROVE  LET t == Tail(q) IN
           /\ t \in Seq(Calls) /\ IsInjective(t)
           /\ Range(t) = Range(q) \ {Head(q)}
<1> DEFINE t == Tail(q)
<1>1. /\ t \in Seq(Calls) /\ Len(t) = Len(q) - 1
      /\ \A i \in 1 .. Len(t) : t[i] = q[i + 1]
      /\ Len(q) \in Nat /\ Len(q) > 0 /\ DOMAIN q = 1 .. Len(q)
      /\ DOMAIN t = 1 .. Len(q) - 1
      /\ Head(q) = q[1]
  BY HeadTailProperties, LenProperties
<1> HIDE DEF t
<1>2. IsInjective(t)
  <2> SUFFICES ASSUME NEW i \in 1 .. Len(q) - 1, NEW j \in 1 .. Len(q) - 1, t[i] = t[j]
               PROVE  i = j
    BY <1>1 DEF IsInjective
  <2>1. q[i + 1] = q[j + 1] /\ i + 1 \in DOMAIN q /\ j + 1 \in DOMAIN q
    BY <1>1
  <2>2. i + 1 = j + 1
    BY <2>1 DEF IsInjective
  <2> QED BY <2>2
<1>3. Range(t) = Range(q) \ {Head(q)}
  <2>1. ASSUME NEW i \in DOMAIN t PROVE t[i] \in Range(q) /\ t[i] # Head(q)
    <3>1. i + 1 \in DOMAIN q /\ 1 \in DOMAIN q /\ i + 1 # 1 /\ t[i] = q[i + 1]
      BY <1>1
    <3> QED BY <1>1, <3>1 DEF Range, IsInjective
  <2>2. ASSUME NEW i \in DOMAIN q, q[i] # Head(q) PROVE q[i] \in Range(t)
    <3>1. i - 1 \in DOMAIN t /\ t[i - 1] = q[i]
      BY <1>1, <2>2
    <3> QED BY <3>1 DEF Range
  <2> QED BY <2>1, <2>2 DEF Range
<1> QED BY <1>1, <1>2, <1>3 DEF t

(* Watching keeps the bracket: a new probing starts at the best label, and *)
(* the one in progress passes over a label only if it has no series.       *)
LEMMA WatchKeepsBracket ==
    ASSUME Bracket, Watch, series' \subseteq Series,
           queue' # <<>> => IF queue = <<>> \/ Head(queue') # Head(queue)
               THEN call'[Head(queue')].index = 1
               ELSE \A i \in DOMAIN IDENTITY_LABELS :
                       i < call'[Head(queue)].index =>
                           \/ i < call[Head(queue)].index
                           \/ IDENTITY_LABELS[i] \notin Present(series')
    PROVE  Bracket'
<1>0. Present(series') \subseteq Labels
  BY ValueFacts
<1>1. CASE queue' = <<>>
  BY <1>1 DEF Watch, Bracket
<1>2. CASE queue' # <<>> /\ (queue = <<>> \/ Head(queue') # Head(queue))
  <2>1. always' = Present(series') /\ sometimes' = Present(series')
    BY <1>2 DEF Watch
  <2>2. \A i \in DOMAIN IDENTITY_LABELS : ~(i < 1)
    BY LabelFacts
  <2> QED BY <1>0, <1>2, <2>1, <2>2 DEF Bracket
<1>3. CASE queue' # <<>> /\ queue # <<>> /\ Head(queue') = Head(queue)
  <2>1. /\ always' = always \cap Present(series')
        /\ sometimes' = sometimes \cup Present(series')
    BY <1>3 DEF Watch
  <2> QED BY <1>0, <1>3, <2>1 DEF Bracket
<1> QED BY <1>1, <1>2, <1>3

-----------------------------------------------------------------------------
LEMMA InitIInv == Init => IInv
<1> SUFFICES ASSUME Init PROVE IInv
  OBVIOUS
<1>1. PICK r \in Requests : \A c \in Calls :
         call[c] = [request |-> r, pc |-> "idle", index |-> 1, label |-> NoLabel, names |-> {}]
  BY RequestsAssumption, Zenon DEF Init
<1>2. call \in [Calls -> Call]
  <2>1. [request |-> r, pc |-> "idle", index |-> 1, label |-> NoLabel, names |-> {}] \in Call
    BY LabelFacts DEF Call
  <2> QED BY <1>1, <2>1 DEF Init
<1>3. Waiting = {}
  BY <1>1 DEF Waiting
<1>4. Typed /\ Bracket
  BY <1>2 DEF Init, Typed, Bracket
<1>5. Labelled /\ AnswersAgree
  BY <1>1 DEF Labelled, AnswersAgree
<1>6. Queued
  <2>1. queue \in Seq(Calls) /\ IsInjective(queue) /\ Range(queue) = {}
    BY DEF Init, IsInjective, Range
  <2> QED BY <1>3, <2>1 DEF Init, Queued
<1> QED BY <1>4, <1>5, <1>6 DEF IInv

(* Prometheus changes nothing but the series. *)
LEMMA PrometheusKeepsIInv ==
    ASSUME IInv, NEW s \in Series, Ingest(s) \/ Drop(s)
    PROVE  IInv'
<1>1. UNCHANGED <<cell, queue, call>> /\ series' \subseteq Series /\ Watch
  BY DEF IInv, Typed, Ingest, Drop
<1>2. Typed' /\ Queued' /\ Labelled' /\ AnswersAgree'
  BY <1>1 DEF IInv, Typed, Queued, Waiting, Labelled, AnswersAgree
<1>3. Bracket'
  BY <1>1, WatchKeepsBracket DEF IInv
<1> QED BY <1>2, <1>3 DEF IInv

(* A call that begins goes past the filled cell, or to the queue's end. *)
LEMMA BeginKeepsIInv ==
    ASSUME IInv, NEW c \in Calls, NEW r \in Requests, Begin(c, r)
    PROVE  IInv'
<1> DEFINE new == [request |-> r, pc |-> IF cell = NoLabel THEN "labelling" ELSE "ready",
                   index |-> 1, label |-> cell, names |-> {}]
<1>1. /\ call' = [call EXCEPT ![c] = new] /\ UNCHANGED <<series, cell>> /\ Watch
      /\ queue' = IF cell = NoLabel THEN Append(queue, c) ELSE queue
      /\ c \notin Waiting
  BY DEF Begin, Waiting
<1>2. /\ new.index = 1 /\ new.label = cell
      /\ new.pc = IF cell = NoLabel THEN "labelling" ELSE "ready"
  OBVIOUS
<1>3. new \in Call
  BY LabelFacts DEF IInv, Typed, Call
<1> HIDE DEF new
<1>4. /\ call'[c] = new
      /\ \A d \in Calls : d # c => call'[d] = call[d]
      /\ call' \in [Calls -> Call]
  BY <1>1, <1>3 DEF IInv, Typed
<1>5. Typed' /\ Labelled' /\ AnswersAgree'
  BY <1>1, <1>2, <1>4 DEF IInv, Typed, Labelled, AnswersAgree
<1>6. CASE cell = NoLabel
  <2>1. /\ queue' \in Seq(Calls) /\ queue' # <<>> /\ IsInjective(queue')
        /\ Range(queue') = Range(queue) \cup {c}
        /\ Head(queue') = IF queue = <<>> THEN c ELSE Head(queue)
    BY <1>1, <1>6, QueueAppend DEF IInv, Queued
  <2>2. Waiting' = Waiting \cup {c}
    BY <1>2, <1>4, <1>6 DEF Waiting
  <2>3. queue # <<>> => Head(queue) \in Waiting
    BY QueueHead DEF IInv, Queued
  <2>4. queue = <<>> => Waiting = {}
    BY QueueHead DEF IInv, Queued
  <2>5. Queued'
    BY <1>1, <1>2, <1>4, <1>6, <2>1, <2>2, <2>3, <2>4 DEF IInv, Queued, Waiting
  <2>6. Bracket'
    <3>1. queue # <<>> => call'[Head(queue)] = call[Head(queue)]
      BY <1>1, <1>4, <2>3 DEF Waiting
    <3> QED BY <1>1, <1>2, <1>4, <2>1, <3>1, WatchKeepsBracket DEF IInv, Typed
  <2> QED BY <1>5, <2>5, <2>6 DEF IInv
<1>7. CASE cell # NoLabel
  <2>1. queue = <<>> /\ queue' = <<>> /\ Waiting' = Waiting
    BY <1>1, <1>2, <1>4, <1>7 DEF IInv, Queued, Waiting
  <2>2. Queued'
    BY <1>1, <1>4, <2>1 DEF IInv, Queued, Waiting
  <2>3. Bracket'
    BY <1>1, <2>1, WatchKeepsBracket DEF IInv, Typed
  <2> QED BY <1>5, <2>2, <2>3 DEF IInv
<1> QED BY <1>6, <1>7

(* The head of the queue holds the permit. *)
LEMMA ProbingIsHead ==
    ASSUME IInv, NEW c \in Calls, Probing(c)
    PROVE  /\ queue # <<>> /\ c = Head(queue) /\ c \in Waiting
           /\ cell = NoLabel
           /\ call[c].index \in 1 .. Len(IDENTITY_LABELS) + 1
<1>1. c = Head(queue) /\ c \in Waiting
  BY DEF Probing, Waiting
<1>2. queue # <<>>
  BY <1>1, QueueHead DEF IInv, Queued
<1>3. call[c].index \in 1 .. Len(IDENTITY_LABELS) + 1
  BY DEF IInv, Typed, Call
<1> QED BY <1>1, <1>2, <1>3 DEF IInv, Queued

(* The cell is filled, and the queue is past it. *)
LEMMA SettleKeepsIInv ==
    ASSUME IInv, NEW c \in Calls, Probing(c), NEW l \in Labels,
           Settle(c, l), UNCHANGED series, Watch
    PROVE  IInv'
<1>1. cell' = l /\ l # NoLabel /\ queue' = <<>>
  BY LabelFacts DEF Settle
<1>2. Range(queue) = Waiting /\ cell = NoLabel
  BY ProbingIsHead DEF IInv, Queued
<1>3. \A d \in Calls :
         call'[d] = IF d \in Waiting
                    THEN [call[d] EXCEPT !.pc = "ready", !.label = l, !.index = 1] ELSE call[d]
  BY <1>2 DEF Settle
<1>4. \A d \in Waiting : /\ call'[d] \in Call
                         /\ call'[d].pc = "ready" /\ call'[d].label = l
  <2> SUFFICES ASSUME NEW d \in Waiting
               PROVE  call'[d] \in Call /\ call'[d].pc = "ready" /\ call'[d].label = l
    OBVIOUS
  <2>1. d \in Calls /\ call[d] \in Call
    BY DEF Waiting, IInv, Typed
  <2>2. 1 \in 1 .. Len(IDENTITY_LABELS) + 1
    BY LabelFacts
  <2>3. call'[d] = [call[d] EXCEPT !.pc = "ready", !.label = l, !.index = 1]
    BY <1>3, <2>1
  <2> QED BY <2>1, <2>2, <2>3 DEF Call
<1>5. \A d \in Calls \ Waiting : /\ call'[d] \in Call /\ call'[d].pc # "labelling"
                                 /\ call'[d].pc \notin {"ready", "ok"}
  BY <1>2, <1>3 DEF IInv, Typed, Labelled, Waiting
<1>6. call' \in [Calls -> Call]
  <2>1. \A d \in Calls : call'[d] \in Call
    BY <1>4, <1>5
  <2>2. call' = [d \in Calls |-> call'[d]]
    BY DEF Settle
  <2> QED BY <2>1, <2>2
<1>7. Typed' /\ Labelled' /\ AnswersAgree'
  BY <1>1, <1>4, <1>5, <1>6 DEF IInv, Typed, Labelled, AnswersAgree
<1>8. Waiting' = {}
  BY <1>4, <1>5 DEF Waiting
<1>9. Queued'
  <2>1. queue' \in Seq(Calls) /\ IsInjective(queue') /\ Range(queue') = {}
    BY <1>1 DEF IsInjective, Range
  <2> QED BY <1>1, <1>8, <2>1 DEF Queued
<1>10. Bracket'
  BY <1>1 DEF Watch, Bracket
<1> QED BY <1>7, <1>9, <1>10 DEF IInv

(* A label without series is passed over. *)
LEMMA PassKeepsIInv ==
    ASSUME IInv, NEW c \in Calls, Probing(c),
           IDENTITY_LABELS[call[c].index] \notin Present(series),
           call[c].index < Len(IDENTITY_LABELS),
           call' = [call EXCEPT ![c].index = @ + 1],
           UNCHANGED <<series, cell, queue>>, Watch
    PROVE  IInv'
<1>1. /\ queue # <<>> /\ c = Head(queue) /\ c \in Waiting
      /\ call[c].index \in 1 .. Len(IDENTITY_LABELS)
  BY ProbingIsHead, LabelFacts
<1>2. call[c] \in Call
  BY DEF IInv, Typed
<1>3. [call[c] EXCEPT !.index = @ + 1] \in Call
  BY <1>1, <1>2, LabelFacts DEF Call
<1>4. /\ call'[c] = [call[c] EXCEPT !.index = @ + 1]
      /\ \A d \in Calls : d # c => call'[d] = call[d]
      /\ call' \in [Calls -> Call]
  BY <1>3 DEF IInv, Typed
<1>5. call'[c].index = call[c].index + 1 /\ call'[c].pc = call[c].pc /\ call'[c].label = call[c].label
  BY <1>2, <1>4 DEF Call
<1>6. Typed' /\ Labelled' /\ AnswersAgree'
  BY <1>4, <1>5 DEF IInv, Typed, Labelled, AnswersAgree
<1>7. Waiting' = Waiting
  BY <1>4, <1>5 DEF Waiting
<1>8. Queued'
  <2>1. \A d \in Waiting : d # Head(queue) => call'[d].index = 1
    BY <1>1, <1>4 DEF IInv, Queued, Waiting
  <2> QED BY <1>7, <2>1 DEF IInv, Queued
<1>9. Bracket'
  <2>1. \A i \in DOMAIN IDENTITY_LABELS :
           i < call'[Head(queue)].index => i < call[Head(queue)].index \/ i = call[c].index
    BY <1>1, <1>5, LabelFacts
  <2>2. series' \subseteq Series /\ Head(queue') = Head(queue)
    BY DEF IInv, Typed
  <2> QED BY <1>1, <2>1, <2>2, WatchKeepsBracket DEF IInv
<1> QED BY <1>6, <1>8, <1>9 DEF IInv

(* The permit goes to a call that has asked for nothing yet. *)
LEMMA AbandonKeepsIInv ==
    ASSUME IInv, NEW c \in Calls, Probing(c), Abandon(c), UNCHANGED series, Watch
    PROVE  IInv'
<1>1. queue # <<>> /\ c = Head(queue) /\ c \in Waiting /\ cell = NoLabel
  BY ProbingIsHead
<1>2. /\ queue' \in Seq(Calls) /\ IsInjective(queue')
      /\ Range(queue') = Range(queue) \ {c}
  BY <1>1, QueueTail DEF IInv, Queued, Abandon
<1>3. call[c] \in Call /\ [call[c] EXCEPT !.pc = "err"] \in Call
  BY DEF IInv, Typed, Call
<1>4. /\ call'[c] = [call[c] EXCEPT !.pc = "err"]
      /\ \A d \in Calls : d # c => call'[d] = call[d]
      /\ call' \in [Calls -> Call]
  BY <1>3 DEF IInv, Typed, Abandon
<1>5. call'[c].pc = "err"
  BY <1>3, <1>4 DEF Call
<1>6. Typed' /\ Labelled' /\ AnswersAgree'
  BY <1>4, <1>5 DEF IInv, Typed, Labelled, AnswersAgree, Abandon
<1>7. Waiting' = Waiting \ {c}
  BY <1>4, <1>5 DEF Waiting
<1>8. \A d \in Waiting' : call'[d].index = 1
  BY <1>1, <1>4, <1>7 DEF IInv, Queued, Waiting
<1>9. Queued'
  BY <1>1, <1>2, <1>7, <1>8 DEF IInv, Queued, Abandon
<1>10. Bracket'
  <2>1. queue' # <<>> => Head(queue') \in Waiting' /\ Head(queue') # c
    BY <1>2, <1>7, <1>9, QueueHead DEF Queued
  <2> QED BY <1>1, <1>8, <2>1, WatchKeepsBracket DEF IInv, Typed
<1> QED BY <1>6, <1>9, <1>10 DEF IInv

(* A call past the cell changes nothing of the others. *)
LEMMA AnswerKeepsIInv ==
    ASSUME IInv, NEW c \in Calls, call[c].pc = "ready",
           NEW new \in Call, new.pc \in {"ready", "ok", "err"}, new.label = call[c].label,
           call' = [call EXCEPT ![c] = new],
           UNCHANGED <<series, cell, queue, always, sometimes>>
    PROVE  IInv'
<1>1. /\ call'[c] = new
      /\ \A d \in Calls : d # c => call'[d] = call[d]
      /\ call' \in [Calls -> Call]
  BY DEF IInv, Typed
<1>2. Typed' /\ Labelled' /\ AnswersAgree'
  BY <1>1 DEF IInv, Typed, Labelled, AnswersAgree
<1>3. Waiting' = Waiting /\ c \notin Waiting
  BY <1>1 DEF Waiting
<1>4. queue # <<>> => Head(queue) \in Waiting
  BY QueueHead DEF IInv, Queued
<1>5. Queued'
  <2>1. \A d \in Waiting : call'[d] = call[d]
    BY <1>1, <1>3 DEF Waiting
  <2> QED BY <1>3, <2>1 DEF IInv, Queued
<1>6. Bracket'
  <2>1. queue # <<>> => call'[Head(queue)] = call[Head(queue)]
    BY <1>1, <1>3, <1>4 DEF Waiting
  <2> QED BY <2>1 DEF IInv, Bracket
<1> QED BY <1>2, <1>5, <1>6 DEF IInv

LEMMA EndKeepsIInv ==
    ASSUME IInv, NEW c \in Calls, call[c].pc = "ready",
           NEW end \in {"ok", "err"}, NEW names \in SUBSET (Names \cup {<<>>}),
           End(c, end, names)
    PROVE  IInv'
<1> DEFINE new == [call[c] EXCEPT !.pc = end, !.names = names]
<1>1. call[c] \in Call
  BY DEF IInv, Typed
<1>2. new \in Call /\ new.pc = end /\ new.label = call[c].label
  BY <1>1 DEF Call
<1>3. call' = [call EXCEPT ![c] = new] /\ UNCHANGED <<series, cell, queue, always, sometimes>>
  BY <1>1 DEF End, IInv, Typed
<1> QED BY <1>2, <1>3, AnswerKeepsIInv

LEMMA StepKeepsIInv ==
    ASSUME IInv, NEW c \in Calls, Step(c)
    PROVE  IInv'
<1>0. series \subseteq Series /\ call[c] \in Call
  BY DEF IInv, Typed
<1>1. CASE Probe(c)
  <2>1. Probing(c) /\ UNCHANGED series /\ Watch
    BY <1>1 DEF Probe
  <2> DEFINE l == IDENTITY_LABELS[call[c].index]
  <2>2. CASE l \in Present(series) /\ Settle(c, l)
    <3>1. l \in Labels
      BY <2>2 DEF Present
    <3> HIDE DEF l
    <3> QED BY <2>1, <2>2, <3>1, SettleKeepsIInv
  <2>3. CASE /\ l \notin Present(series)
             /\ call[c].index < Len(IDENTITY_LABELS)
             /\ call' = [call EXCEPT ![c].index = @ + 1]
             /\ UNCHANGED <<cell, queue>>
    BY <2>1, <2>3, PassKeepsIInv
  <2>4. CASE Abandon(c)
    BY <2>1, <2>4, AbandonKeepsIInv
  <2> QED BY <1>1, <2>2, <2>3, <2>4 DEF Probe
<1>2. CASE ProbeFails(c)
  BY <1>2, AbandonKeepsIInv DEF ProbeFails
<1>3. CASE Query(c)
  <2>1. parse_series(build_promql(series, call[c].label, call[c].request), call[c].request)
           \in SUBSET (Names \cup {<<>>})
    BY <1>0, ValueFacts
  <2> QED BY <1>3, <2>1, EndKeepsIInv DEF Query
<1>4. CASE List(c)
  <2>1. CASE call[c].index > Len(IDENTITY_LABELS) /\ End(c, "ok", call[c].names)
    <3>1. call[c].names \in SUBSET (Names \cup {<<>>})
      BY <1>0 DEF Call
    <3> QED BY <1>4, <2>1, <3>1, EndKeepsIInv DEF List
  <2>2. CASE call[c].index <= Len(IDENTITY_LABELS) /\ ~End(c, "ok", call[c].names)
    <3> DEFINE heard == IF IDENTITY_LABELS[call[c].index] = call[c].label
                        THEN ValuesOf(series, call[c].label) ELSE call[c].names
               new == [call[c] EXCEPT !.index = @ + 1, !.names = heard]
    <3>1. heard \in SUBSET (Names \cup {<<>>})
      BY <1>0, ValueFacts DEF Call
    <3>2. /\ call' = [call EXCEPT ![c] = new]
          /\ UNCHANGED <<series, cell, queue, always, sometimes>> /\ call[c].pc = "ready"
      BY <1>0, <1>4, <2>2 DEF List, IInv, Typed
    <3>3. call[c].index + 1 \in 1 .. Len(IDENTITY_LABELS) + 1
      BY <1>0, <2>2, LabelFacts DEF Call
    <3> HIDE DEF heard
    <3>4. new \in Call /\ new.pc = call[c].pc /\ new.label = call[c].label
      BY <1>0, <3>1, <3>3 DEF Call
    <3> HIDE DEF new
    <3> QED BY <3>2, <3>4, AnswerKeepsIInv
  <2>3. CASE call[c].index <= Len(IDENTITY_LABELS) /\ End(c, "ok", call[c].names)
    <3>1. call[c].names \in SUBSET (Names \cup {<<>>})
      BY <1>0 DEF Call
    <3> QED BY <1>4, <2>3, <3>1, EndKeepsIInv DEF List
  <2> QED BY <1>4, <2>1, <2>2, <2>3 DEF List
<1>5. CASE RequestFails(c)
  BY <1>5, EndKeepsIInv DEF RequestFails
<1> QED BY <1>1, <1>2, <1>3, <1>4, <1>5 DEF Step

(* The queue, the cell and what was present while the cell was empty       *)
(* belong together: the inductive invariant.                               *)
THEOREM QueriesInvariant == Spec => []IInv
<1>1. IInv /\ [Next]_vars => IInv'
  <2> SUFFICES ASSUME IInv, [Next]_vars PROVE IInv'
    OBVIOUS
  <2>1. ASSUME NEW s \in Series, Ingest(s) \/ Drop(s) PROVE IInv'
    BY <2>1, PrometheusKeepsIInv
  <2>2. ASSUME NEW c \in Calls, NEW r \in Requests, Begin(c, r) PROVE IInv'
    BY <2>2, BeginKeepsIInv
  <2>3. ASSUME NEW c \in Calls, Step(c) PROVE IInv'
    BY <2>3, StepKeepsIInv
  <2>4. CASE UNCHANGED vars
    BY <2>4 DEF vars, IInv, Typed, Queued, Waiting, Labelled, AnswersAgree, Bracket
  <2> QED BY <2>1, <2>2, <2>3, <2>4 DEF Next
<1> QED BY <1>1, InitIInv, PTL DEF Spec

-----------------------------------------------------------------------------
(* Who waits at the cell is in the queue, once, and nobody waits at a cell *)
(* that is filled.                                                         *)
THEOREM TypeCorrect == Spec => []TypeOK
<1>1. IInv => TypeOK
  BY DEF IInv, Typed, Queued, Waiting, Bracket, TypeOK
<1> QED BY <1>1, QueriesInvariant, PTL

(* All calls speak of workloads by the same label. *)
THEOREM CallsAgree == Spec => []AnswersAgree
<1>1. IInv => AnswersAgree
  BY DEF IInv
<1> QED BY <1>1, QueriesInvariant, PTL

(* The label's place among the candidates. *)
LEMMA RankIs ==
    ASSUME NEW i \in DOMAIN IDENTITY_LABELS
    PROVE  Rank(IDENTITY_LABELS[i]) = i
<1>1. \A j \in DOMAIN IDENTITY_LABELS : IDENTITY_LABELS[j] = IDENTITY_LABELS[i] => j = i
  BY LabelsAssumption DEF IsInjective
<1> QED BY <1>1, Zenon DEF Rank

(* identity_label settles for ever on a label that had series while it     *)
(* probed, and on none that is worse than one that had series throughout.  *)
THEOREM SettlesWell == Spec => SettlesOnPresent
<1>1. IInv /\ [Next]_vars =>
         [cell # cell' => /\ cell' \in sometimes
                          /\ \A l \in always : Rank(cell') <= Rank(l)]_vars
  <2> SUFFICES ASSUME IInv, Next, cell # cell'
               PROVE  cell' \in sometimes /\ \A l \in always : Rank(cell') <= Rank(l)
    OBVIOUS
  <2>1. PICK c \in Calls : Probe(c)
    BY DEF Next, Ingest, Drop, Begin, Step, ProbeFails, Abandon, Query, List, RequestFails, End
  <2> DEFINE i == call[c].index
             l == IDENTITY_LABELS[i]
  <2>2. Probing(c) /\ l \in Present(series) /\ cell' = l
    BY <2>1 DEF Probe, Settle, Abandon
  <2>3. queue # <<>> /\ c = Head(queue) /\ call[c].index \in 1 .. Len(IDENTITY_LABELS) + 1
    BY <2>2, ProbingIsHead
  <2>4. cell' \in sometimes
    BY <2>2, <2>3 DEF IInv, Bracket
  <2>5. i \in Nat /\ \A j \in DOMAIN IDENTITY_LABELS : j < i => IDENTITY_LABELS[j] \notin always
    BY <2>3, LabelFacts DEF IInv, Bracket
  <2>6. ASSUME NEW m \in always PROVE Rank(cell') <= Rank(m)
    <3>1. m \in Labels
      BY DEF IInv, Bracket
    <3>2. PICK j \in DOMAIN IDENTITY_LABELS : m = IDENTITY_LABELS[j]
      BY <3>1 DEF Labels, Range
    <3>3. j \in Nat /\ j >= i
      BY <2>5, <2>6, <3>2, LabelFacts
    <3>4. i \in DOMAIN IDENTITY_LABELS
      BY <2>3, <3>2, <3>3, LabelFacts
    <3>5. Rank(cell') = i /\ Rank(m) = j
      BY <2>2, <3>2, <3>4, RankIs
    <3> QED BY <3>3, <3>5, <2>5
  <2> QED BY <2>4, <2>6
<1> QED BY <1>1, QueriesInvariant, PTL DEF Spec, SettlesOnPresent

(* An answer whose range begins at a whole second names the workloads that *)
(* were asked for, for every argument: where escape_regex makes a query    *)
(* that Prometheus accepts, the pattern means the argument.                *)
THEOREM AnswersTheQuestion == Spec => AnswersWhatIsAsked
<1> DEFINE Right ==
      \A c \in Calls :
        (/\ call[c].pc = "ready" /\ call'[c].pc = "ok"
         /\ call[c].request.tool = "query" /\ call[c].request.start = "whole")
        => call'[c].names = Wanted(series, cell, call[c].request)
<1>1. IInv /\ [Next]_vars => [Right]_vars
  <2> SUFFICES ASSUME IInv, Next, NEW c \in Calls,
                      call[c].pc = "ready", call'[c].pc = "ok",
                      call[c].request.tool = "query", call[c].request.start = "whole"
               PROVE  call'[c].names = Wanted(series, cell, call[c].request)
    OBVIOUS
  <2> DEFINE r == call[c].request
  <2>1. series \subseteq Series /\ call[c] \in Call /\ call \in [Calls -> Call]
    BY DEF IInv, Typed
  <2>2. call[c].label = cell /\ cell \in Labels
    BY DEF IInv, Typed, Labelled, AnswersAgree
  <2>3. Query(c)
    <3>1. ASSUME NEW s \in Series, Ingest(s) \/ Drop(s) PROVE FALSE
      BY <3>1 DEF Ingest, Drop
    <3>2. ASSUME NEW d \in Calls, NEW q \in Requests, Begin(d, q) PROVE FALSE
      BY <2>1, <3>2 DEF Begin
    <3>3. ASSUME NEW d \in Calls, ProbeFails(d) PROVE FALSE
      BY <2>1, <3>3 DEF ProbeFails, Probing, Abandon
    <3>4. ASSUME NEW d \in Calls, Probe(d) PROVE FALSE
      <4>1. d # c
        BY <3>4 DEF Probe, Probing
      <4>2. c \notin Range(queue)
        BY DEF IInv, Queued, Waiting
      <4>3. call'[c] = call[c]
        BY <2>1, <3>4, <4>1, <4>2 DEF Probe, Settle, Abandon
      <4> QED BY <4>3
    <3>5. ASSUME NEW d \in Calls, d # c, Query(d) \/ List(d) \/ RequestFails(d) PROVE FALSE
      <4>1. call'[c] = call[c]
        BY <2>1, <3>5 DEF Query, List, RequestFails, End
      <4> QED BY <4>1
    <3>6. ~List(c)
      BY DEF List
    <3>7. ASSUME RequestFails(c) PROVE FALSE
      <4>1. call'[c].pc = "err"
        BY <2>1, <3>7 DEF RequestFails, End, Call
      <4> QED BY <4>1
    <3> QED BY <3>1, <3>2, <3>3, <3>4, <3>5, <3>6, <3>7 DEF Next, Step
  <2>4. /\ r.mode # "other" /\ Parses(Literal(r))
        /\ call'[c].names = parse_series(build_promql(series, call[c].label, r), r)
    <3>1. CASE End(c, "ok", parse_series(build_promql(series, call[c].label, r), r))
               /\ r.mode # "other" /\ Parses(Literal(r))
      <4> DEFINE named == parse_series(build_promql(series, call[c].label, r), r)
      <4> HIDE DEF named
      <4>1. call'[c].names = named
        BY <2>1, <3>1 DEF End, Call, named
      <4> QED BY <3>1, <4>1 DEF named
    <3>2. CASE End(c, "err", {})
      <4>1. call'[c].pc = "err"
        BY <2>1, <3>2 DEF End, Call
      <4> QED BY <4>1
    <3> QED BY <2>3, <3>1, <3>2 DEF Query
  <2>5. r \in Requests /\ r.mode \in {"exact", "substring"}
    BY <2>1, <2>4, RequestsAssumption DEF Call
  <2> QED BY <2>1, <2>2, <2>4, <2>5, GroupsAreWanted
<1> QED BY <1>1, QueriesInvariant, PTL DEF Spec, AnswersWhatIsAsked

-----------------------------------------------------------------------------
(* The refinement of Answers.  A call that has no label yet names nothing. *)
Unnamed == \A c \in Calls : call[c].pc = "labelling" => call[c].names = {}

LEMMA CallFields ==
    ASSUME Typed, NEW c \in Calls
    PROVE  /\ call[c] \in Call /\ call[c].request \in Requests
           /\ call[c].pc \in {"idle", "labelling", "ready", "ok", "err"}
           /\ call[c].index \in 1 .. Len(IDENTITY_LABELS) + 1 /\ call[c].index \in Nat
  BY LabelFacts DEF Typed, Call

(* No call is told of a workload before the label is settled. *)
THEOREM NothingNamedYet == Spec => []Unnamed
<1>1. Init => Unnamed
  BY DEF Init, Unnamed
<1>2. IInv /\ Unnamed /\ [Next]_vars => Unnamed'
  <2> SUFFICES ASSUME IInv, Unnamed, [Next]_vars, NEW d \in Calls, call'[d].pc = "labelling"
               PROVE  call'[d].names = {}
    BY DEF Unnamed
  <2>1. /\ call \in [Calls -> Call]
        /\ call[d].pc = "labelling" => call[d].names = {}
    BY DEF IInv, Typed, Unnamed
  <2>2. CASE UNCHANGED call
    BY <2>1, <2>2
  <2>3. ASSUME NEW c \in Calls, NEW r \in Requests, Begin(c, r) PROVE call'[d].names = {}
    BY <2>1, <2>3 DEF Begin
  <2>4. ASSUME NEW c \in Calls, NEW pc \in {"ok", "err"}, NEW names, End(c, pc, names)
        PROVE  call'[d].names = {}
    <3>1. call'[c].pc = pc /\ \A e \in Calls \ {c} : call'[e] = call[e]
      BY <2>1, <2>4 DEF End, Call
    <3> QED BY <2>1, <3>1
  <2>5. ASSUME NEW c \in Calls, Abandon(c) PROVE call'[d].names = {}
    BY <2>1, <2>5 DEF Abandon, Call
  <2>6. ASSUME NEW c \in Calls, Probe(c) PROVE call'[d].names = {}
    <3>1. ASSUME NEW l, Settle(c, l) PROVE call'[d].names = {}
      BY <2>1, <3>1 DEF Settle, Call
    <3>2. CASE call' = [call EXCEPT ![c].index = @ + 1]
      BY <2>1, <3>2 DEF Call
    <3> QED BY <2>5, <2>6, <3>1, <3>2 DEF Probe
  <2>7. ASSUME NEW c \in Calls, List(c) PROVE call'[d].names = {}
    <3>1. CASE End(c, "ok", call[c].names)
      BY <2>4, <3>1
    <3>2. ASSUME NEW x, NEW i, call' = [call EXCEPT ![c].index = i, ![c].names = x],
                 call[c].pc = "ready"
          PROVE  call'[d].names = {}
      BY <2>1, <3>2 DEF Call
    <3> QED BY <2>7, <3>1, <3>2 DEF List
  <2>8. ASSUME NEW c \in Calls, Query(c) PROVE call'[d].names = {}
    BY <2>4, <2>8 DEF Query
  <2> QED BY <2>2, <2>3, <2>4, <2>5, <2>6, <2>7, <2>8
          DEF Next, Step, Ingest, Drop, ProbeFails, RequestFails, vars
<1> QED BY <1>1, <1>2, QueriesInvariant, PTL DEF Spec

(* Where a call is, for its client. *)
LEMMA StateIs ==
    ASSUME NEW c \in Calls
    PROVE  /\ call[c].pc \in {"idle", "ok", "err"} => State(c) = call[c].pc
           /\ call[c].pc = "labelling" => State(c) = "asked"
           /\ call[c].pc = "ready" /\ Looked(c) => State(c) = "looked"
           /\ call[c].pc = "ready" /\ ~Looked(c) => State(c) = "asked"
  BY DEF State, Looked

(* So it is after a step, in terms of what the step assigned. *)
LEMMA NextStateIs ==
    ASSUME NEW c \in Calls
    PROVE  /\ call'[c].pc \in {"idle", "ok", "err"} => State(c)' = call'[c].pc
           /\ call'[c].pc = "labelling" => State(c)' = "asked"
           /\ call'[c].pc = "ready" /\ Looked(c)' => State(c)' = "looked"
           /\ call'[c].pc = "ready" /\ ~Looked(c)' => State(c)' = "asked"
           /\ call'[c] = call[c] /\ cell' = cell => State(c)' = State(c)
  BY DEF State, Looked

(* A step that changes one call changes it alone for the clients. *)
LEMMA OneCallMoves ==
    ASSUME NEW c \in Calls, cell' = cell, \A d \in Calls \ {c} : call'[d] = call[d]
    PROVE  /\ [d \in Calls |-> call'[d].request] =
                [[d \in Calls |-> call[d].request] EXCEPT ![c] = call'[c].request]
           /\ [d \in Calls |-> State(d)'] =
                [[d \in Calls |-> State(d)] EXCEPT ![c] = State(c)']
           /\ [d \in Calls |-> call'[d].names] =
                [[d \in Calls |-> call[d].names] EXCEPT ![c] = call'[c].names]
<1>1. \A d \in Calls \ {c} : State(d)' = State(d)
  BY NextStateIs
<1> QED BY <1>1

(* A step that the clients do not notice. *)
LEMMA NobodyMoves ==
    ASSUME \A d \in Calls : /\ call'[d].request = call[d].request
                            /\ State(d)' = State(d)
                            /\ call'[d].names = call[d].names
    PROVE  /\ [d \in Calls |-> call'[d].request] = [d \in Calls |-> call[d].request]
           /\ [d \in Calls |-> State(d)'] = [d \in Calls |-> State(d)]
           /\ [d \in Calls |-> call'[d].names] = [d \in Calls |-> call[d].names]
  OBVIOUS

LEMMA ChangeRefines ==
    ASSUME IInv, NEW s \in Series, Ingest(s) \/ Drop(s)
    PROVE  Promise!Change
<1>1. UNCHANGED <<cell, call>> /\ series' \in SUBSET Series
  BY DEF IInv, Typed, Ingest, Drop
<1>2. \A d \in Calls : State(d)' = State(d)
  BY <1>1, NextStateIs
<1> QED BY <1>1, <1>2, NobodyMoves DEF Promise!Change

LEMMA BeginRefines ==
    ASSUME IInv, NEW c \in Calls, NEW r \in Requests, Begin(c, r)
    PROVE  Promise!Ask(c, r)
<1>1. /\ call' = [call EXCEPT ![c] =
                    [request |-> r, pc |-> IF cell = NoLabel THEN "labelling" ELSE "ready",
                     index |-> 1, label |-> cell, names |-> {}]]
      /\ call[c].pc \in {"idle", "ok", "err"}
      /\ UNCHANGED <<series, cell>>
      /\ call \in [Calls -> Call]
  BY DEF IInv, Typed, Begin
<1>2. /\ call'[c].request = r /\ call'[c].names = {} /\ call'[c].index = 1
      /\ call'[c].pc \in {"labelling", "ready"}
      /\ \A d \in Calls \ {c} : call'[d] = call[d]
  BY <1>1
<1>3. ~Looked(c)'
  BY <1>2, LabelFacts DEF Looked
<1>4. State(c)' = "asked" /\ State(c) \in {"idle", "ok", "err"}
  BY <1>1, <1>2, <1>3, StateIs, NextStateIs
<1> QED BY <1>1, <1>2, <1>4, OneCallMoves DEF Promise!Ask

(* A call that ends with an error fails. *)
LEMMA ErrorRefines ==
    ASSUME NEW c \in Calls, UNCHANGED <<series, cell>>,
           \A d \in Calls \ {c} : call'[d] = call[d],
           call[c].pc \in {"labelling", "ready"},
           call'[c].pc = "err", call'[c].request = call[c].request, call'[c].names = {}
    PROVE  Promise!Fail(c)
<1>1. State(c) \in {"asked", "looked"} /\ State(c)' = "err"
  BY StateIs, NextStateIs
<1>2. [d \in Calls |-> call'[d].request] = [d \in Calls |-> call[d].request]
  BY OneCallMoves
<1> QED BY <1>1, <1>2, OneCallMoves DEF Promise!Fail

(* The end of a call changes it alone. *)
LEMMA EndIs ==
    ASSUME IInv, NEW c \in Calls, NEW pc, NEW names, End(c, pc, names)
    PROVE  /\ UNCHANGED <<series, cell>>
           /\ \A d \in Calls \ {c} : call'[d] = call[d]
           /\ call'[c].pc = pc /\ call'[c].names = names
           /\ call'[c].request = call[c].request
<1>1. call \in [Calls -> Call]
  BY DEF IInv, Typed
<1> QED BY <1>1 DEF End, Call

LEMMA ProbeRefines ==
    ASSUME IInv, Unnamed, NEW c \in Calls, Probe(c) \/ ProbeFails(c)
    PROVE  \/ Promise!Fail(c)
           \/ \E l \in Labels : Promise!Settle(l)
           \/ UNCHANGED Promise!vars
<1>1. /\ Probing(c) /\ UNCHANGED series
      /\ call \in [Calls -> Call]
      /\ call[c].pc = "labelling" /\ call[c].names = {} /\ cell = NoLabel
      /\ Range(queue) = Waiting
  BY ProbingIsHead DEF IInv, Typed, Queued, Probe, ProbeFails, Probing, Unnamed
<1>2. CASE Abandon(c)
  <2>1. /\ call'[c].pc = "err" /\ call'[c].request = call[c].request
        /\ call'[c].names = call[c].names
        /\ \A d \in Calls \ {c} : call'[d] = call[d]
        /\ UNCHANGED cell
    BY <1>1, <1>2 DEF Abandon, Call
  <2> QED BY <1>1, <2>1, ErrorRefines
<1>3. ASSUME NEW l \in Labels, l \in Present(series), Settle(c, l) PROVE Promise!Settle(l)
  <2>1. ASSUME NEW d \in Calls
        PROVE  /\ call'[d].request = call[d].request
               /\ State(d)' = State(d)
               /\ call'[d].names = call[d].names
    <3>1. CASE d \in Waiting
      <4>1. /\ call'[d].request = call[d].request /\ call'[d].names = call[d].names
            /\ call'[d].pc = "ready" /\ call'[d].index = 1
        BY <1>1, <1>3, <3>1 DEF Settle, Call
      <4>2. ~Looked(d)'
        BY <4>1, LabelFacts DEF Looked
      <4>3. call[d].pc = "labelling"
        BY <3>1 DEF Waiting
      <4> QED BY <4>1, <4>2, <4>3, StateIs, NextStateIs
    <3>2. CASE d \notin Waiting
      <4>1. call'[d] = call[d]
        BY <1>1, <1>3, <3>2 DEF Settle
      <4>2. call[d].pc \in {"idle", "err"}
        BY <1>1, <3>2, CallFields DEF IInv, Labelled, Waiting
      <4> QED BY <4>1, <4>2, StateIs, NextStateIs
    <3> QED BY <3>1, <3>2
  <2>2. State(c) = "asked"
    BY <1>1, StateIs
  <2>3. cell' = l /\ ValuesOf(series, l) # {}
    BY <1>3 DEF Settle, Present
  <2> QED BY <1>1, <2>1, <2>2, <2>3, NobodyMoves DEF Promise!Settle
<1>4. CASE call' = [call EXCEPT ![c].index = @ + 1] /\ UNCHANGED <<cell, queue>>
  <2>1. /\ call'[c].pc = call[c].pc /\ call'[c].request = call[c].request
        /\ call'[c].names = call[c].names
        /\ \A d \in Calls \ {c} : call'[d] = call[d]
    BY <1>1, <1>4 DEF Call
  <2>2. \A d \in Calls : State(d)' = State(d)
    BY <1>1, <1>4, <2>1, StateIs, NextStateIs
  <2> QED BY <1>1, <1>4, <2>1, <2>2, NobodyMoves DEF Promise!vars
<1>5. IDENTITY_LABELS[call[c].index] \in Present(series)
         => IDENTITY_LABELS[call[c].index] \in Labels
  BY DEF Present
<1> QED BY <1>2, <1>3, <1>4, <1>5 DEF Probe, ProbeFails

LEMMA QueryRefines ==
    ASSUME IInv, NEW c \in Calls, Query(c)
    PROVE  Promise!AnswerQuery(c) \/ Promise!Fail(c)
<1> DEFINE r == call[c].request
           named == parse_series(build_promql(series, call[c].label, r), r)
<1>1. /\ call[c].pc = "ready" /\ r.tool = "query" /\ r \in Requests /\ series \subseteq Series
      /\ call[c].label = cell /\ cell # NoLabel /\ cell \in Labels
  BY CallFields DEF IInv, Typed, Labelled, AnswersAgree, Query
<1>2. CASE End(c, "err", {})
  BY <1>1, <1>2, EndIs, ErrorRefines
<1>3. CASE /\ r.mode # "other" /\ Parses(Literal(r))
           /\ End(c, "ok", named)
  <2>1. r.mode \in {"exact", "substring"} /\ r.start \in {"whole", "fraction"}
    BY <1>1, <1>3, RequestsAssumption
  <2>2. named = IF r.start = "whole" THEN Wanted(series, cell, r) ELSE {}
    <3>1. CASE r.start = "whole"
      BY <1>1, <1>3, <2>1, <3>1, GroupsAreWanted
    <3>2. CASE r.start = "fraction"
      BY <3>2 DEF parse_series
    <3> QED BY <2>1, <3>1, <3>2
  <2> HIDE DEF named
  <2>3. /\ UNCHANGED <<series, cell>>
        /\ \A d \in Calls \ {c} : call'[d] = call[d]
        /\ call'[c].pc = "ok" /\ call'[c].names = named
        /\ call'[c].request = r
    BY <1>3, EndIs
  <2>4. State(c)' = "ok"
    BY <2>3, NextStateIs
  <2>5. State(c) = "asked"
    BY <1>1, StateIs DEF Looked
  <2>6. [d \in Calls |-> call'[d].request] = [d \in Calls |-> call[d].request]
    BY <2>3, OneCallMoves
  <2> QED BY <1>1, <2>2, <2>3, <2>4, <2>5, <2>6, OneCallMoves DEF Promise!AnswerQuery
<1> QED BY <1>2, <1>3 DEF Query

LEMMA ListRefines ==
    ASSUME IInv, NEW c \in Calls, List(c)
    PROVE  Promise!Look(c) \/ Promise!AnswerList(c) \/ UNCHANGED Promise!vars
<1> DEFINE i == call[c].index
<1>1. /\ call[c].pc = "ready" /\ call[c].request.tool = "list" /\ call \in [Calls -> Call]
      /\ call[c].label = cell /\ cell # NoLabel /\ cell \in Labels
      /\ i \in Nat /\ i \in 1 .. Len(IDENTITY_LABELS) + 1
  BY CallFields DEF IInv, Typed, Labelled, AnswersAgree, List
<1>2. CASE /\ i <= Len(IDENTITY_LABELS)
           /\ call' = [call EXCEPT
                ![c].index = @ + 1,
                ![c].names = IF IDENTITY_LABELS[i] = call[c].label
                             THEN ValuesOf(series, call[c].label) ELSE @]
           /\ UNCHANGED <<series, cell>>
  <2>1. /\ call'[c].pc = "ready" /\ call'[c].request = call[c].request
        /\ call'[c].index = i + 1 /\ UNCHANGED <<series, cell>>
        /\ \A d \in Calls \ {c} : call'[d] = call[d]
    BY <1>1, <1>2 DEF Call
  <2>2. i \in DOMAIN IDENTITY_LABELS /\ DOMAIN IDENTITY_LABELS \subseteq Nat
    BY <1>1, <1>2, LabelFacts
  <2>3. [d \in Calls |-> call'[d].request] = [d \in Calls |-> call[d].request]
    BY <2>1, OneCallMoves
  <2>4. CASE IDENTITY_LABELS[i] = cell
    <3>1. \A j \in DOMAIN IDENTITY_LABELS : IDENTITY_LABELS[j] = cell => j = i
      BY <2>2, <2>4, LabelsAssumption DEF IsInjective
    <3>2. ~Looked(c)
      BY <1>1, <3>1 DEF Looked
    <3>3. Looked(c)'
      BY <1>1, <1>2, <2>1, <2>2, <2>4 DEF Looked
    <3>4. State(c) = "asked" /\ State(c)' = "looked"
      BY <1>1, <2>1, <3>2, <3>3, StateIs, NextStateIs
    <3>5. call'[c].names = ValuesOf(series, cell)
      BY <1>1, <1>2, <2>4 DEF Call
    <3> QED BY <1>1, <2>1, <2>3, <3>4, <3>5, OneCallMoves DEF Promise!Look
  <2>5. CASE IDENTITY_LABELS[i] # cell
    <3>1. \A j \in DOMAIN IDENTITY_LABELS : IDENTITY_LABELS[j] = cell => (j < i <=> j < i + 1)
      BY <1>1, <2>2, <2>5
    <3>2. Looked(c)' <=> Looked(c)
      BY <1>1, <1>2, <2>1, <3>1 DEF Looked
    <3>3. \A d \in Calls : State(d)' = State(d)
      BY <1>1, <1>2, <2>1, <3>2, StateIs, NextStateIs
    <3>4. call'[c].names = call[c].names
      BY <1>1, <1>2, <2>5 DEF Call
    <3> QED BY <2>1, <3>3, <3>4, NobodyMoves DEF Promise!vars
  <2> QED BY <2>4, <2>5
<1>3. CASE i > Len(IDENTITY_LABELS) /\ End(c, "ok", call[c].names)
  <2>1. /\ UNCHANGED <<series, cell>>
        /\ \A d \in Calls \ {c} : call'[d] = call[d]
        /\ call'[c].pc = "ok" /\ call'[c].names = call[c].names
        /\ call'[c].request = call[c].request
    BY <1>3, EndIs
  <2>2. \E j \in DOMAIN IDENTITY_LABELS : IDENTITY_LABELS[j] = cell
    BY <1>1 DEF Labels, Range
  <2>3. Looked(c)
    BY <1>1, <1>3, <2>2, LabelFacts DEF Looked
  <2>4. State(c) = "looked" /\ State(c)' = "ok"
    BY <1>1, <2>1, <2>3, StateIs, NextStateIs
  <2>5. /\ [d \in Calls |-> call'[d].request] = [d \in Calls |-> call[d].request]
        /\ [d \in Calls |-> call'[d].names] = [d \in Calls |-> call[d].names]
    BY <2>1, OneCallMoves
  <2> QED BY <2>1, <2>4, <2>5, OneCallMoves DEF Promise!AnswerList
<1> QED BY <1>2, <1>3 DEF List

(* The MCP server implements Answers: the probing, the permit, the text of *)
(* the queries and the further requests of a listing are invisible to the  *)
(* clients, for whom each call is asked and answered in one step each, a   *)
(* listing with one look in between, whatever fails and for any calls,     *)
(* labels and series.                                                      *)
THEOREM RefinesAnswers == Spec => ImplementsAnswers
<1>1. Init => Promise!Init
  <2> SUFFICES ASSUME Init PROVE Promise!Init
    OBVIOUS
  <2>1. (CHOOSE r \in Requests : TRUE) \in Requests
    BY RequestsAssumption
  <2>2. \A c \in Calls : /\ call[c].request \in Requests /\ call[c].pc = "idle"
                         /\ call[c].names = {}
    BY <2>1 DEF Init
  <2>3. \A c \in Calls : State(c) = "idle"
    BY <2>2, StateIs
  <2> QED BY <2>2, <2>3 DEF Init, Promise!Init
<1>2. IInv /\ Unnamed /\ [Next]_vars => [Promise!Next]_(Promise!vars)
  <2> SUFFICES ASSUME IInv, Unnamed, [Next]_vars
               PROVE  Promise!Next \/ UNCHANGED Promise!vars
    OBVIOUS
  <2>1. ASSUME NEW s \in Series, Ingest(s) \/ Drop(s) PROVE Promise!Next
    BY <2>1, ChangeRefines DEF Promise!Next
  <2>2. ASSUME NEW c \in Calls, NEW r \in Requests, Begin(c, r) PROVE Promise!Next
    BY <2>2, BeginRefines DEF Promise!Next
  <2>3. ASSUME NEW c \in Calls, Probe(c) \/ ProbeFails(c)
        PROVE  Promise!Next \/ UNCHANGED Promise!vars
    BY <2>3, ProbeRefines DEF Promise!Next
  <2>4. ASSUME NEW c \in Calls, Query(c) PROVE Promise!Next
    BY <2>4, QueryRefines DEF Promise!Next
  <2>5. ASSUME NEW c \in Calls, List(c) PROVE Promise!Next \/ UNCHANGED Promise!vars
    BY <2>5, ListRefines DEF Promise!Next
  <2>6. ASSUME NEW c \in Calls, RequestFails(c) PROVE Promise!Next
    <3>1. call[c].pc = "ready" /\ End(c, "err", {})
      BY <2>6 DEF RequestFails
    <3> QED BY <3>1, EndIs, ErrorRefines DEF Promise!Next
  <2>7. CASE UNCHANGED vars
    <3>1. UNCHANGED <<series, cell, call>>
      BY <2>7 DEF vars
    <3>2. \A d \in Calls : State(d)' = State(d)
      BY <3>1, NextStateIs
    <3> QED BY <3>1, <3>2, NobodyMoves DEF Promise!vars
  <2> QED BY <2>1, <2>2, <2>3, <2>4, <2>5, <2>6, <2>7 DEF Next, Step
<1> QED BY <1>1, <1>2, QueriesInvariant, NothingNamedYet, PTL
        DEF Spec, ImplementsAnswers, Promise!Spec

-----------------------------------------------------------------------------
(* What escape_regex makes of a dash or a dot is no escape sequence of a   *)
(* PromQL string: a query by part of a name is refused exactly when the    *)
(* argument has a character that is special in a pattern, one by the whole *)
(* name never is - the extent of what SubstringFinds is refuted by.        *)
THEOREM RefusedExactly ==
    ASSUME NEW r \in Requests
    PROVE  /\ r.mode = "exact" => Parses(Literal(r))
           /\ r.mode # "exact" =>
                 (Parses(Literal(r)) <=> Range(r.workload) \cap RegexSpecials = {})
<1> DEFINE w == r.workload
<1>1. Plain(w)
  BY RequestsAssumption
<1>2. \A c \in Range(w) : c \notin StringSpecials
  BY <1>1, Zenon DEF Plain, StringSpecials
<1>3. RegexSpecials \cap GoEscapes \subseteq StringSpecials
  BY DEF RegexSpecials, GoEscapes, StringSpecials
<1>4. \A i \in DOMAIN w : w[i] \in Range(w)
  BY DEF Range
<1>5. \A specials : /\ DOMAIN Escaped(w, specials) = DOMAIN w
                    /\ \A i \in DOMAIN w : /\ Escaped(w, specials)[i].char = w[i]
                                           /\ Escaped(w, specials)[i].backslash <=> w[i] \in specials
  BY DEF Escaped
<1> HIDE DEF w
<1>6. Parses(escape_string(w))
  BY <1>2, <1>4, <1>5 DEF Parses, escape_string
<1>7. Parses(escape_regex(w)) <=> \A i \in DOMAIN w : w[i] \in RegexSpecials => w[i] \in GoEscapes
  BY <1>5 DEF Parses, escape_regex
<1>8. Parses(escape_regex(w)) <=> \A i \in DOMAIN w : w[i] \notin RegexSpecials
  BY <1>2, <1>3, <1>4, <1>7
<1>9. (\A i \in DOMAIN w : w[i] \notin RegexSpecials) <=> Range(w) \cap RegexSpecials = {}
  BY DEF Range
<1> QED BY <1>6, <1>8, <1>9 DEF Literal, w

-----------------------------------------------------------------------------
(* The permit goes round: a call that waits for it is passed by nobody,    *)
(* and each step of the one that has it fills the cell, hands the permit   *)
(* on, or goes on to the next label, of which there are finitely many.     *)
PermitGoesRound ==
    [][/\ \A i \in DOMAIN queue, j \in DOMAIN queue' : queue[i] = queue'[j] => j <= i
       /\ \A c \in Calls : Probe(c) \/ ProbeFails(c) =>
             \/ cell' # NoLabel /\ queue' = <<>>
             \/ queue' = Tail(queue)
             \/ /\ queue' = queue
                /\ call'[c].index = call[c].index + 1
                /\ call'[c].index <= Len(IDENTITY_LABELS)]_vars

LEMMA TailShifts ==
    ASSUME NEW q \in Seq(Calls), q # <<>>
    PROVE  \A j \in DOMAIN Tail(q) : /\ j \in Nat /\ j + 1 \in DOMAIN q
                                     /\ Tail(q)[j] = q[j + 1]
  OBVIOUS

LEMMA AppendAdds ==
    ASSUME NEW q \in Seq(Calls), NEW c \in Calls
    PROVE  \A j \in DOMAIN Append(q, c) : \/ Append(q, c)[j] = c
                                          \/ j \in DOMAIN q /\ Append(q, c)[j] = q[j]
  OBVIOUS

LEMMA NobodyJumps ==
    ASSUME NEW q \in Seq(Calls), IsInjective(q), NEW p,
           \/ p = q \/ p = <<>>
           \/ q # <<>> /\ p = Tail(q)
           \/ \E c \in Calls : c \notin Range(q) /\ p = Append(q, c)
    PROVE  \A i \in DOMAIN q, j \in DOMAIN p : q[i] = p[j] => j <= i
<1>1. DOMAIN q \subseteq Nat /\ \A i, j \in DOMAIN q : q[i] = q[j] => i = j
  BY DEF IsInjective
<1>2. CASE p = q
  BY <1>1, <1>2
<1>3. CASE p = <<>>
  BY <1>3
<1>4. CASE q # <<>> /\ p = Tail(q)
  <2>1. \A j \in DOMAIN p : j \in Nat /\ j + 1 \in DOMAIN q /\ p[j] = q[j + 1]
    BY <1>4, TailShifts
  <2>2. \A i \in DOMAIN q, j \in DOMAIN p : q[i] = p[j] => i = j + 1
    BY <1>1, <2>1, Zenon
  <2>3. \A i, j \in Nat : i = j + 1 => j <= i
    OBVIOUS
  <2> QED BY <1>1, <2>1, <2>2, <2>3, Zenon
<1>5. ASSUME NEW c \in Calls, c \notin Range(q), p = Append(q, c)
      PROVE  \A i \in DOMAIN q, j \in DOMAIN p : q[i] = p[j] => j <= i
  <2>1. \A j \in DOMAIN p : p[j] = c \/ (j \in DOMAIN q /\ p[j] = q[j])
    BY <1>5, AppendAdds
  <2>2. \A i \in DOMAIN q : q[i] # c
    BY <1>5 DEF Range
  <2>3. \A i \in DOMAIN q, j \in DOMAIN p : q[i] = p[j] => i = j
    BY <1>1, <2>1, <2>2, Zenon
  <2>4. \A i \in Nat : i <= i
    OBVIOUS
  <2> QED BY <1>1, <2>3, <2>4, Zenon
<1> QED BY <1>2, <1>3, <1>4, <1>5

(* The safety part of what lets every call end: nobody is passed in the    *)
(* queue at the cell, and who has the permit gives it up after finitely    *)
(* many answers of Prometheus.                                             *)
THEOREM PermitIsPassed == Spec => PermitGoesRound
<1> DEFINE Round ==
       /\ \A i \in DOMAIN queue, j \in DOMAIN queue' : queue[i] = queue'[j] => j <= i
       /\ \A c \in Calls : Probe(c) \/ ProbeFails(c) =>
             \/ cell' # NoLabel /\ queue' = <<>>
             \/ queue' = Tail(queue)
             \/ /\ queue' = queue
                /\ call'[c].index = call[c].index + 1
                /\ call'[c].index <= Len(IDENTITY_LABELS)
<1>1. IInv /\ IInv' /\ [Next]_vars => [Round]_vars
  <2> SUFFICES ASSUME IInv, IInv', Next PROVE Round
    OBVIOUS
  <2>1. /\ queue \in Seq(Calls) /\ IsInjective(queue) /\ queue' \in Seq(Calls)
        /\ Range(queue) = Waiting /\ call \in [Calls -> Call]
    BY DEF IInv, Queued, Typed
  <2>2. ASSUME NEW c \in Calls, Probe(c) \/ ProbeFails(c)
        PROVE  \/ cell' # NoLabel /\ queue' = <<>>
               \/ queue # <<>> /\ queue' = Tail(queue)
               \/ /\ queue' = queue
                  /\ call'[c].index = call[c].index + 1
                  /\ call'[c].index <= Len(IDENTITY_LABELS)
    <3>1. queue # <<>> /\ call[c].index \in Nat /\ Len(IDENTITY_LABELS) \in Nat
      BY <2>2, ProbingIsHead, CallFields, LabelFacts DEF IInv, Probe, ProbeFails
    <3>2. CASE Abandon(c)
      BY <3>1, <3>2 DEF Abandon
    <3>3. ASSUME NEW l \in Labels, Settle(c, l) PROVE cell' # NoLabel /\ queue' = <<>>
      BY <3>3, LabelFacts DEF Settle
    <3>4. CASE /\ call[c].index < Len(IDENTITY_LABELS)
               /\ call' = [call EXCEPT ![c].index = @ + 1]
               /\ UNCHANGED <<cell, queue>>
      <4>1. call'[c].index = call[c].index + 1
        BY <2>1, <3>4 DEF Call
      <4> QED BY <3>1, <3>4, <4>1
    <3> QED BY <2>2, <3>2, <3>3, <3>4 DEF Probe, ProbeFails, Present
  <2>3. ASSUME NEW c \in Calls, NEW r \in Requests, Begin(c, r)
        PROVE  queue' = queue \/ (c \notin Range(queue) /\ queue' = Append(queue, c))
    BY <2>1, <2>3 DEF Begin, Waiting
  <2>4. \/ queue' = queue \/ queue' = <<>>
        \/ queue # <<>> /\ queue' = Tail(queue)
        \/ \E c \in Calls : c \notin Range(queue) /\ queue' = Append(queue, c)
    <3>1. ASSUME NEW s \in Series, Ingest(s) \/ Drop(s) PROVE queue' = queue
      BY <3>1 DEF Ingest, Drop
    <3>2. ASSUME NEW c \in Calls, Query(c) \/ List(c) \/ RequestFails(c) PROVE queue' = queue
      BY <3>2 DEF Query, List, RequestFails, End
    <3> QED BY <2>2, <2>3, <3>1, <3>2 DEF Next, Step
  <2>5. \A i \in DOMAIN queue, j \in DOMAIN queue' : queue[i] = queue'[j] => j <= i
    BY <2>1, <2>4, NobodyJumps
  <2> QED BY <2>2, <2>5
<1> QED BY <1>1, QueriesInvariant, PTL DEF Spec, PermitGoesRound
=============================================================================
