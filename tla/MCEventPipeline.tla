--------------------------- MODULE MCEventPipeline ---------------------------
(* Two CPUs, both processes, two concurrent calls. *)
EXTENDS EventPipeline, TLC

CONSTANTS loader, agent, none, q1, q2

MCReaders == {loader, agent}
MCCalls == {q1, q2}
MCMaxStarts == [r \in MCReaders |-> IF r = agent THEN 2 ELSE 1]
Symmetry == Permutations(MCCalls)
=============================================================================
