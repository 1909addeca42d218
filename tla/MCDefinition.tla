--------------------------- MODULE MCDefinition ----------------------------
(* Instances of Definition for TLC: a complete base repository and another *)
(* laid over it with a mantl.json, a config.json or a whole version.       *)
EXTENDS Definition, TLC

CONSTANTS v1, v2

Low == CHOOSE r \in Repos : \A q \in Repos : r <= q
High == CHOOSE r \in Repos : \A q \in Repos : q <= r
First == CHOOSE i \in Indexes : \A j \in Indexes : i <= j
Second == CHOOSE i \in Indexes : \A j \in Indexes : j <= i

TwoNames == [i \in Indexes |-> IF i = First THEN {v1} ELSE {v2}]
SecondMayPanic == [i \in Indexes |-> IF i = First THEN {v1} ELSE {v2, Malformed}]

Base == {<<Low, i, f>> : i \in Indexes, f \in Files \ {MantlJson}}
Overlay == {High} \X Indexes \X {MantlJson}
Whole == {High} \X {Second} \X Files

BasesAndOverlays ==
    {Base \cup o : o \in SUBSET Overlay}
        \cup {Base \cup Whole, Base \cup {<<Low, First, MantlJson>>} \cup Overlay,
              Whole \cup {<<Low, First, 2>>, <<Low, First, MantlJson>>}}
JustBase == {Base}

\* Once a Get has failed or the request has been answered, no property but
\* TypeOK says anything more of the request.  Of behaviours with an empty file
\* only RequestHonoured and NewestChosen do, and they are proved.  What
\* RepositoriesSpec says of the writes does not depend on any of these.
Undecided == ~failed /\ ~blank /\ pc \notin {"done", "error", "panic"}

Sym == Permutations(Texts \ {Empty}) \cup Permutations(Syncs)
=============================================================================
