----------------------------- MODULE MCBlocklist -----------------------------
(* Two addresses, in two bytes, and an argument that is none; two commands   *)
(* at a time; lists that are empty, good, or bad from the start.             *)
EXTENDS Blocklist, TLC

CONSTANTS malformed

MCAddresses == {<<10, 0>>, <<10, 1>>}
MCMalformed == {malformed}
Symmetry == Permutations(Clis)
MCCharts == {<<>>, << <<10, 0>> >>, <<malformed>>}
=============================================================================
