------------------------------ MODULE Custody -------------------------------
(***************************************************************************)
(* What a durable log promises the rest of the system, with neither        *)
(* files, frames nor fsync: how many transactions it has received and how  *)
(* many of them it has promised never to need again from the source.  The  *)
(* replication slot is acknowledged to the promise, so the source is free  *)
(* to discard what it covers.                                              *)
(***************************************************************************)
EXTENDS Integers

VARIABLES
    received,   \* transactions delivered by the source
    promised    \* transactions the slot may be acknowledged to

Init ==
    /\ received = 0
    /\ promised = 0

Receive ==
    /\ received' = received + 1
    /\ UNCHANGED promised

Promise ==
    /\ promised' \in promised..received
    /\ UNCHANGED received

\* A restart forgets what was never promised, and nothing else: it may find
\* more than was promised, and then promises it.
Recover ==
    /\ received' \in promised..received
    /\ promised' = received'

Next == Receive \/ Promise \/ Recover

Spec == Init /\ [][Next]_<<received, promised>>
=============================================================================
