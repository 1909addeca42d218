--------------------------- MODULE MCSourceSync ----------------------------
(* Instances of SourceSync for TLC: a daemon that synchronises what is     *)
(* missing and the sync command, which forces; a cloned source of one file *)
(* and a directory that has a second file in some of its revisions.  One   *)
(* of the processes fails, and one of the sources is edited.               *)
EXTENDS SourceSync

CONSTANTS daemon, command, mesosphere, mantl

TwoIndexes == [s \in {mesosphere, mantl} |-> IF s = mesosphere THEN 0 ELSE 1]
OneIndex == [s \in {mantl} |-> 0]

OneFileOrTwo == [s \in {mesosphere, mantl} |-> IF s = mesosphere THEN {{1}} ELSE {{1}, {1, 2}}]
TwoFiles == [s \in {mantl} |-> {{1, 2}}]

OneFault == \A p, q \in Procs : faults[p] > 0 /\ faults[q] > 0 => p = q
OneEdited == \A s, t \in Sources : rev[s] > 1 /\ rev[t] > 1 => s = t
=============================================================================
