------------------------------- MODULE CpuIdle -------------------------------
(***************************************************************************)
(* The idle-state tracer of metrics_tracer.  The kernel fires cpu_idle     *)
(* when a CPU enters an idle state and, with PWR_EVENT_EXIT, when it       *)
(* leaves it; the program remembers the last state it emitted for the CPU  *)
(* and emits an event when that changes.  The metrics loader records each  *)
(* event in the cpu_idle_state gauge.                                      *)
(***************************************************************************)
EXTENDS Naturals, FiniteSets

CONSTANTS
    IdleCpus,         \* CPUs of the node
    IdleStates,       \* idle states of a CPU
    PWR_EVENT_EXIT,   \* what the event of leaving one carries, 4294967295
    MaxLastStates     \* capacity of the map cpu_idle_last_state (256)

VARIABLES
    current,    \* current[c]: the idle state of c, PWR_EVENT_EXIT when it runs
    lastState,  \* the map cpu_idle_last_state
    gauge       \* the gauge cpu_idle_state: by CPU, once it was recorded

idleVars == <<current, lastState, gauge>>

States == IdleStates \cup {PWR_EVENT_EXIT}

IdleInit ==
    /\ current = [c \in IdleCpus |-> PWR_EVENT_EXIT]
    /\ lastState = <<>>
    /\ gauge = <<>>

Put(f, c, v) == [d \in DOMAIN f \cup {c} |-> IF d = c THEN v ELSE f[d]]

(* The branch on which the program emits nothing. *)
Skipped(c, s) ==
    /\ c \in DOMAIN lastState
    /\ lastState[c] = s \/ lastState[c] = PWR_EVENT_EXIT

(* A failed insert is ignored: the event is emitted all the same. *)
Remember(c, s) ==
    \/ /\ c \in DOMAIN lastState \/ Cardinality(DOMAIN lastState) < MaxLastStates
       /\ lastState' = Put(lastState, c, s)
    \/ /\ c \notin DOMAIN lastState /\ Cardinality(DOMAIN lastState) >= MaxLastStates
       /\ UNCHANGED lastState

cpu_idle(c, s) ==
    \/ /\ Skipped(c, s)
       /\ UNCHANGED <<lastState, gauge>>
    \/ /\ ~Skipped(c, s)
       /\ Remember(c, s)
       /\ gauge' = Put(gauge, c, s)

EnterIdle(c) ==
    /\ current[c] = PWR_EVENT_EXIT
    /\ \E s \in IdleStates : current' = [current EXCEPT ![c] = s] /\ cpu_idle(c, s)

ExitIdle(c) ==
    /\ current[c] # PWR_EVENT_EXIT
    /\ current' = [current EXCEPT ![c] = PWR_EVENT_EXIT]
    /\ cpu_idle(c, PWR_EVENT_EXIT)

IdleNext == \E c \in IdleCpus : EnterIdle(c) \/ ExitIdle(c)

IdleSpec == IdleInit /\ [][IdleNext]_idleVars

(* What record_cpu_idle says of the gauge, that it is updated to the latest *)
(* C-state of the CPU: once a CPU was recorded, the gauge is its state.     *)
GaugeIsLatest == \A c \in DOMAIN gauge : gauge[c] = current[c]
=============================================================================
