------------------------------- MODULE Delivery -------------------------------
(***************************************************************************)
(* What the users of the agent are promised of one kind of record, however *)
(* many rings, batches, channels, processes and restarts lie between: the  *)
(* records that an eBPF program writes arrive one by one, those of a CPU   *)
(* in the order in which it wrote them and none twice.  Any may be lost.   *)
(***************************************************************************)
EXTENDS Naturals, Sequences

VARIABLES
    written,   \* records written so far: record number n is the n-th
    received   \* the records that the users' calls have received, in order

vars == <<written, received>>

Init ==
    /\ written = 0
    /\ received = <<>>

Write ==
    /\ written' = written + 1
    /\ UNCHANGED received

(* The calls have nothing of the record's CPU that is as new. *)
IsNews(record) ==
    \A i \in DOMAIN received : received[i].cpu = record.cpu => received[i].id < record.id

(* A record that was written, and that the agent forwards, is received. *)
Receive ==
    /\ Len(received') = Len(received) + 1
    /\ LET record == received'[Len(received) + 1] IN
          /\ received' = Append(received, record)
          /\ record.id =< written
          /\ record.sendable
          /\ IsNews(record)
    /\ UNCHANGED written

Next == Write \/ Receive

Spec == Init /\ [][Next]_vars
=============================================================================
