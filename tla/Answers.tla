------------------------------- MODULE Answers -------------------------------
(***************************************************************************)
(* What the MCP server promises its clients: one label, chosen once among  *)
(* those with series, names the workloads in all answers, and an answer is *)
(* true of one moment between the question and the answer.  How the label  *)
(* is found, who waits for it, how a query is written and what Prometheus  *)
(* makes of it is PromQueries.                                             *)
(***************************************************************************)
CONSTANTS
    Calls, Series, Requests,
    Labels, NoLabel,
    ValuesOf(_, _),   \* the names that a set of series has under a label
    Wanted(_, _, _)   \* those of them a request asks for

VARIABLES
    series,    \* what Prometheus holds
    label,     \* the label that names workloads
    request,   \* request[c]: what call c asks for
    state,     \* state[c]: "idle", "asked", "looked", "ok" or "err"
    names      \* names[c]: what it has been told, or is about to be

vars == <<series, label, request, state, names>>

Init ==
    /\ series = {}
    /\ label = NoLabel
    /\ request \in [Calls -> Requests]
    /\ state = [c \in Calls |-> "idle"]
    /\ names = [c \in Calls |-> {}]

(* Prometheus takes in and drops series. *)
Change ==
    /\ series' \in SUBSET Series
    /\ UNCHANGED <<label, request, state, names>>

Ask(c, r) ==
    /\ state[c] \in {"idle", "ok", "err"}
    /\ request' = [request EXCEPT ![c] = r]
    /\ state' = [state EXCEPT ![c] = "asked"]
    /\ names' = [names EXCEPT ![c] = {}]
    /\ UNCHANGED <<series, label>>

(* Once, and because somebody asks. *)
Settle(l) ==
    /\ label = NoLabel
    /\ \E c \in Calls : state[c] = "asked"
    /\ ValuesOf(series, l) # {}
    /\ label' = l
    /\ UNCHANGED <<series, request, state, names>>

(* A query over a range that begins at a whole second is answered with the *)
(* workloads it asks for, at the moment of the answer; one over another    *)
(* range with none.                                                        *)
AnswerQuery(c) ==
    /\ state[c] = "asked" /\ label # NoLabel
    /\ request[c].tool = "query"
    /\ names' = [names EXCEPT ![c] = IF request[c].start = "whole"
                                     THEN Wanted(series, label, request[c]) ELSE {}]
    /\ state' = [state EXCEPT ![c] = "ok"]
    /\ UNCHANGED <<series, label, request>>

(* A listing is of the workloads at a moment before the answer. *)
Look(c) ==
    /\ state[c] = "asked" /\ label # NoLabel
    /\ request[c].tool = "list"
    /\ names' = [names EXCEPT ![c] = ValuesOf(series, label)]
    /\ state' = [state EXCEPT ![c] = "looked"]
    /\ UNCHANGED <<series, label, request>>

AnswerList(c) ==
    /\ state[c] = "looked"
    /\ state' = [state EXCEPT ![c] = "ok"]
    /\ UNCHANGED <<series, label, request, names>>

(* A call that fails names nothing. *)
Fail(c) ==
    /\ state[c] \in {"asked", "looked"}
    /\ state' = [state EXCEPT ![c] = "err"]
    /\ names' = [names EXCEPT ![c] = {}]
    /\ UNCHANGED <<series, label, request>>

Next ==
    \/ Change
    \/ \E l \in Labels : Settle(l)
    \/ \E c \in Calls, r \in Requests : Ask(c, r)
    \/ \E c \in Calls : AnswerQuery(c) \/ Look(c) \/ AnswerList(c) \/ Fail(c)

Spec == Init /\ [][Next]_vars
=============================================================================
