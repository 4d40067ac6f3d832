CONSTANTS
    IdleCpus = {c1, c2}
    IdleStates = {state0, state1}
    PWR_EVENT_EXIT = exit
    MaxLastStates = 2
SPECIFICATION IdleSpec
INVARIANT GaugeIsLatest
