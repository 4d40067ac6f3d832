----------------------------- MODULE PromQueries -----------------------------
(***************************************************************************)
(* The MCP server.  Each tool call is a task of its own: it learns the     *)
(* label that names workloads from a cell that is filled once, by probing  *)
(* Prometheus for one label after the other, and then asks for the series  *)
(* of a workload, or lists the workloads there are.  Every request is an   *)
(* await: between two of them Prometheus ingests and drops series, and the *)
(* other calls go on.                                                      *)
(*                                                                         *)
(* A name is a sequence of characters or of longer parts without special   *)
(* characters.  Containers, pods and namespaces have neither a quote nor a *)
(* backslash nor a line break in their names, and only arguments without   *)
(* one are modelled.                                                       *)
(***************************************************************************)
EXTENDS Integers, Sequences, FiniteSets, SequencesExt

CONSTANTS
    Calls,            \* tool calls that may be in progress at once
    IDENTITY_LABELS,  \* the labels that can name a workload, best first
    Series,           \* series Prometheus may hold: from label to name
    Requests,         \* what may be asked for
    NoLabel

VARIABLES
    series,     \* what Prometheus holds
    cell,       \* PromClient.identity_label
    queue,      \* the calls at get_or_try_init: the first one probes
    call,       \* the state of each call
    always,     \* labels with series at every moment of the current probing
    sometimes   \* labels with series at some moment of it

vars == <<series, cell, queue, call, always, sometimes>>

Labels == Range(IDENTITY_LABELS)
ValuesOf(S, l) == {s[l] : s \in {t \in S : l \in DOMAIN t}}
Present(S) == {l \in Labels : ValuesOf(S, l) # {}}
Names == UNION {Range(s) : s \in Series}

(* A call: what it asks for, how far it is, the index of the label it asks *)
(* Prometheus about, and what it answers.                                  *)
Call == [request : Requests,
         pc : {"idle", "labelling", "ready", "ok", "err"},
         index : 1..Len(IDENTITY_LABELS) + 1,
         label : Labels \cup {NoLabel},
         names : SUBSET (Names \cup {<<>>})]

(* Arguments without a quote, a backslash or a line break. *)
Plain(w) == Range(w) \cap {"\\", "\"", "\n"} = {}

ASSUME RequestsAssumption ==
    /\ Requests # {}
    /\ Requests \subseteq [tool : {"query", "list"},
                           mode : {"substring", "exact", "other"},
                           workload : Seq(STRING),
                           start : {"whole", "fraction"}]
    /\ \A r \in Requests : Plain(r.workload)
ASSUME LabelsAssumption ==
    /\ NoLabel \notin Labels
    /\ IDENTITY_LABELS \in Seq(Labels) \ {<<>>} /\ IsInjective(IDENTITY_LABELS)
(* A label without a value is a label the series does not have. *)
ASSUME SeriesAssumption ==
    \A s \in Series : \A l \in DOMAIN s : s[l] \in Seq(STRING) \ {<<>>}

----------------------------------------------------------------------------
(* The text of a query.  A literal is a sequence of characters, each with  *)
(* or without a backslash before it.                                       *)
RegexSpecials == {"\\", ".", "+", "*", "?", "(", ")", "|", "[", "]", "{", "}", "^", "$", "-"}
StringSpecials == {"\\", "\"", "\n"}

Escaped(w, specials) ==
    [i \in DOMAIN w |-> [char |-> w[i], backslash |-> w[i] \in specials]]

(* Fault: nothing is escaped in a pattern. *)
escape_nothing(w) == Escaped(w, {})

escape_regex(w) == Escaped(w, RegexSpecials)
escape_string(w) == Escaped(w, StringSpecials)

(* What PromQL accepts in a double-quoted string: a backslash begins one   *)
(* of Go's escape sequences.                                               *)
GoEscapes == {"a", "b", "f", "n", "r", "t", "v", "\\", "\"", "'"}
Parses(lit) == \A i \in DOMAIN lit : lit[i].backslash => lit[i].char \in GoEscapes

(* A regular expression's character as Prometheus reads it.                *)
CharMatches(item, c) == item.char = c \/ (item.char = "." /\ ~item.backslash)

(* ".*lit.*", anchored at both ends, and "lit".                            *)
RegexMatches(lit, name) ==
    \E at \in 0..Len(name) - Len(lit) :
        \A i \in DOMAIN lit : CharMatches(lit[i], name[at + i])
StringMatches(lit, name) ==
    /\ Len(lit) = Len(name)
    /\ \A i \in DOMAIN lit : lit[i].char = name[i]

Literal(r) == IF r.mode = "exact" THEN escape_string(r.workload)
                                  ELSE escape_regex(r.workload)

(* A series without the label matches as if its value were empty.          *)
ValueIn(s, l) == IF l \in DOMAIN s THEN s[l] ELSE <<>>

(* The groups of sum by(label) over the selected series.                   *)
build_promql(S, l, r) ==
    {ValueIn(s, l) : s \in {t \in S :
        IF r.mode = "exact" THEN StringMatches(Literal(r), ValueIn(t, l))
                            ELSE RegexMatches(Literal(r), ValueIn(t, l))}}

(* Fault: the groups are taken as they are. *)
parse_all(groups, r) == IF r.start = "fraction" THEN {} ELSE groups

(* The samples of a range that begins at a fraction of a second are taken  *)
(* for unreadable, and a group without samples or without the label is     *)
(* left out.                                                               *)
parse_series(groups, r) == IF r.start = "fraction" THEN {} ELSE groups \ {<<>>}

----------------------------------------------------------------------------
Init ==
    /\ series = {}
    /\ cell = NoLabel
    /\ queue = <<>>
    /\ call = [c \in Calls |-> [request |-> CHOOSE r \in Requests : TRUE, pc |-> "idle",
                               index |-> 1, label |-> NoLabel, names |-> {}]]
    /\ always = {}
    /\ sometimes = {}

(* What is remembered of the probing that is in progress after a step.     *)
Watch ==
    IF queue' = <<>> THEN always' = {} /\ sometimes' = {}
    ELSE IF queue = <<>> \/ Head(queue') # Head(queue)
         THEN always' = Present(series') /\ sometimes' = Present(series')
         ELSE /\ always' = always \cap Present(series')
              /\ sometimes' = sometimes \cup Present(series')

(* Prometheus takes in a series, or drops one that is too old. *)
Ingest(s) ==
    /\ s \notin series
    /\ series' = series \cup {s}
    /\ UNCHANGED <<cell, queue, call>>
    /\ Watch

Drop(s) ==
    /\ s \in series
    /\ series' = series \ {s}
    /\ UNCHANGED <<cell, queue, call>>
    /\ Watch

(* A tool call begins.  While the cell is empty it queues for the permit.  *)
Begin(c, r) ==
    /\ call[c].pc \in {"idle", "ok", "err"}
    /\ call' = [call EXCEPT ![c] =
            [request |-> r, pc |-> IF cell = NoLabel THEN "labelling" ELSE "ready",
             index |-> 1, label |-> cell, names |-> {}]]
    /\ queue' = IF cell = NoLabel THEN Append(queue, c) ELSE queue
    /\ UNCHANGED <<series, cell>>
    /\ Watch

(* Fault: who waits for the permit probes anew when it gets it. *)
SettleForOne(c, l) ==
    /\ cell' = l
    /\ queue' = Tail(queue)
    /\ call' = [call EXCEPT ![c].pc = "ready", ![c].label = l, ![c].index = 1]

(* The cell is filled: everyone who waits for it has the label. *)
Settle(c, l) ==
    /\ cell' = l
    /\ queue' = <<>>
    /\ call' = [d \in Calls |->
            IF d \in Range(queue) THEN [call[d] EXCEPT !.pc = "ready", !.label = l, !.index = 1]
                                  ELSE call[d]]

(* Fault: the next call goes on where this one stopped. *)
AbandonAt(c) ==
    /\ queue' = Tail(queue)
    /\ call' = [d \in Calls |->
            IF d = c THEN [call[c] EXCEPT !.pc = "err"]
            ELSE IF queue' # <<>> /\ d = Head(queue')
                 THEN [call[d] EXCEPT !.index = call[c].index] ELSE call[d]]
    /\ UNCHANGED cell

(* Fault: the permit is kept by the call that failed. *)
AbandonKeeping(c) ==
    /\ call' = [call EXCEPT ![c].pc = "err"]
    /\ UNCHANGED <<cell, queue>>

(* The probing fails: the permit goes to the next call, which begins anew. *)
Abandon(c) ==
    /\ queue' = Tail(queue)
    /\ call' = [call EXCEPT ![c].pc = "err"]
    /\ UNCHANGED cell

Probing(c) == call[c].pc = "labelling" /\ c = Head(queue)

(* identity_label: one candidate's values. *)
Probe(c) ==
    /\ Probing(c)
    /\ LET l == IDENTITY_LABELS[call[c].index] IN
       \/ /\ l \in Present(series)
          /\ Settle(c, l)
       \/ /\ l \notin Present(series)
          /\ call[c].index < Len(IDENTITY_LABELS)
          /\ call' = [call EXCEPT ![c].index = @ + 1]
          /\ UNCHANGED <<cell, queue>>
       \/ /\ l \notin Present(series)
          /\ call[c].index = Len(IDENTITY_LABELS)
          /\ Abandon(c)
    /\ UNCHANGED series
    /\ Watch

ProbeFails(c) ==
    /\ Probing(c)
    /\ Abandon(c)
    /\ UNCHANGED series
    /\ Watch

End(c, pc, names) ==
    /\ call' = [call EXCEPT ![c].pc = pc, ![c].names = names]
    /\ UNCHANGED <<series, cell, queue, always, sometimes>>

(* run: the mode is read, the query built and sent. *)
Query(c) ==
    LET r == call[c].request IN
    /\ call[c].pc = "ready"
    /\ r.tool = "query"
    /\ \/ /\ r.mode # "other"
          /\ Parses(Literal(r))
          /\ End(c, "ok", parse_series(build_promql(series, call[c].label, r), r))
       \/ /\ r.mode = "other" \/ ~Parses(Literal(r))
          /\ End(c, "err", {})

(* list_workloads: the values of each label in turn, then the active ones. *)
List(c) ==
    LET i == call[c].index IN
    /\ call[c].pc = "ready"
    /\ call[c].request.tool = "list"
    /\ \/ /\ i <= Len(IDENTITY_LABELS)
          /\ call' = [call EXCEPT
                ![c].index = @ + 1,
                ![c].names = IF IDENTITY_LABELS[i] = call[c].label
                             THEN ValuesOf(series, call[c].label) ELSE @]
          /\ UNCHANGED <<series, cell, queue, always, sometimes>>
       \/ /\ i > Len(IDENTITY_LABELS)
          /\ End(c, "ok", call[c].names)

(* A request fails: the connection, the status or the body.  Only the      *)
(* query for the active workloads does without an answer.                  *)
RequestFails(c) ==
    /\ call[c].pc = "ready"
    /\ call[c].request.tool = "list" => call[c].index <= Len(IDENTITY_LABELS)
    /\ End(c, "err", {})

Step(c) == Probe(c) \/ ProbeFails(c) \/ Query(c) \/ List(c) \/ RequestFails(c)

Next ==
    \/ \E s \in Series : Ingest(s) \/ Drop(s)
    \/ \E c \in Calls, r \in Requests : Begin(c, r)
    \/ \E c \in Calls : Step(c)

Spec == Init /\ [][Next]_vars /\ \A c \in Calls : WF_vars(Step(c))
----------------------------------------------------------------------------
(* Who waits at the cell is in the queue, once, and nobody waits at a cell *)
(* that is filled.                                                         *)
TypeOK ==
    /\ series \subseteq Series
    /\ cell \in Labels \cup {NoLabel}
    /\ queue \in Seq(Calls) /\ IsInjective(queue)
    /\ call \in [Calls -> Call]
    /\ Range(queue) = {c \in Calls : call[c].pc = "labelling"}
    /\ cell # NoLabel => queue = <<>>
    /\ always \subseteq sometimes /\ sometimes \subseteq Labels

Rank(l) == CHOOSE i \in DOMAIN IDENTITY_LABELS : IDENTITY_LABELS[i] = l

(* The label that is settled for ever is one that had series while it was  *)
(* looked for, and is no worse than any that had series all that time,     *)
(* whatever Prometheus takes in or drops between the probes and whoever    *)
(* failed before.                                                          *)
SettlesOnPresent ==
    [][cell # cell' =>
        /\ cell' \in sometimes
        /\ \A l \in always : Rank(cell') <= Rank(l)]_vars

HasPart(name, part) ==
    \E at \in 0..Len(name) - Len(part) : SubSeq(name, at + 1, at + Len(part)) = part

(* The workloads asked for: every one whose name is, or contains, the      *)
(* argument.                                                               *)
Wanted(S, l, r) ==
    {n \in ValuesOf(S, l) :
        IF r.mode = "exact" THEN n = r.workload ELSE HasPart(n, r.workload)}

(* An answer whose range begins at a whole second names exactly the        *)
(* workloads asked for, among those that Prometheus holds at that moment:  *)
(* escaping, matching and the filter on the result leave out none and add  *)
(* none, be it a series without the label.                                 *)
AnswersWhatIsAsked ==
    [][\A c \in Calls :
        (/\ call[c].pc = "ready" /\ call'[c].pc = "ok"
         /\ call[c].request.tool = "query" /\ call[c].request.start = "whole")
        => call'[c].names = Wanted(series, cell, call[c].request)]_vars

(* A listing has asked for the names of the label that is settled. *)
Looked(c) ==
    /\ call[c].pc = "ready" /\ call[c].request.tool = "list"
    /\ \E i \in DOMAIN IDENTITY_LABELS : i < call[c].index /\ IDENTITY_LABELS[i] = cell

State(c) ==
    IF Looked(c) THEN "looked"
    ELSE IF call[c].pc \in {"labelling", "ready"} THEN "asked" ELSE call[c].pc

Promise == INSTANCE Answers WITH
    label <- cell,
    request <- [c \in Calls |-> call[c].request],
    state <- [c \in Calls |-> State(c)],
    names <- [c \in Calls |-> call[c].names]

(* The tool calls, with the probing, the permit that goes round, the text  *)
(* of the queries and the requests that fail, do what Answers promises:    *)
(* the label is chosen once and for everybody, and every answer is, under  *)
(* that label, true of one moment of the call it is given to.              *)
ImplementsAnswers == Promise!Spec

(* Every call ends, though the one that probes for it fails: Prometheus    *)
(* answers a request or the connection breaks, and the permit goes round.  *)
CallsEnd == \A c \in Calls : call[c].pc \in {"labelling", "ready"} ~> call[c].pc \in {"ok", "err"}

(* What the match mode and the tool's argument say of a substring: that    *)
(* otel-agent also finds otel-agent-qsm7c.  A query that Prometheus        *)
(* receives is answered with the workloads that contain the argument.      *)
SubstringFinds ==
    [][\A c \in Calls :
        (Query(c) /\ call[c].request.mode = "substring" /\ call[c].request.start = "whole")
        => /\ call'[c].pc = "ok"
           /\ call'[c].names = Wanted(series, cell, call[c].request)]_vars
=============================================================================
