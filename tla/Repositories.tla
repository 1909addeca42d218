--------------------------- MODULE Repositories ----------------------------
(***************************************************************************)
(* What a reader of the package repositories in Consul may rely on while   *)
(* synchronisations write them, crash and overlap: files appear in the     *)
(* order of the walk and stay, the name of a source is there only with all *)
(* of its lasting files, and a timestamp only with the name.  Which        *)
(* processes synchronise, and what a file holds, does not show here.       *)
(* SourceSync, the model of the synchronisations, and Definition, the      *)
(* model of a request, are both shown to implement this module.            *)
(***************************************************************************)
CONSTANTS
    Sources, Index,  \* the sources, and the repository of each
    Files, Before,   \* their files, and the order in which a walk meets them
    None             \* no source

VARIABLES
    lasting,  \* lasting[s]: the files that no synchronisation of s may miss
    held,     \* held[i]: the files that repository i holds in Consul
    name,     \* name[i]: the source whose name is stored there
    stamped   \* the repositories with a timestamp

vars == <<lasting, held, name, stamped>>

Repository == {Index[s] : s \in Sources}

\* The lasting files of s that a walk meets before f.
Earlier(s, f) == {g \in lasting[s] : <<g, f>> \in Before}

(* A file is there with the lasting files before it, a name with all of    *)
(* them, and a timestamp with the name.                                    *)
Orderly ==
    \A s \in Sources :
        /\ \A f \in held[Index[s]] : Earlier(s, f) \subseteq held[Index[s]]
        /\ name[Index[s]] = s => lasting[s] \subseteq held[Index[s]]
        /\ Index[s] \in stamped => name[Index[s]] = s

\* As earlier synchronisations have left the repositories.
Init ==
    /\ lasting \in [Sources -> SUBSET Files]
    /\ held \in [Repository -> SUBSET Files]
    /\ name \in [Repository -> Sources \cup {None}]
    /\ stamped \in SUBSET Repository
    /\ Orderly

\* Files of the sources go, or turn out to be unreadable.
Dwindle ==
    /\ UNCHANGED <<held, name, stamped>>
    /\ lasting' \in [Sources -> SUBSET Files]
    /\ \A s \in Sources : lasting'[s] \subseteq lasting[s]

Appear(s, f) ==
    /\ f \notin held[Index[s]]
    /\ Earlier(s, f) \subseteq held[Index[s]]
    /\ held' = [held EXCEPT ![Index[s]] = @ \cup {f}]
    /\ UNCHANGED <<lasting, name, stamped>>

Name(s) ==
    /\ lasting[s] \subseteq held[Index[s]]
    /\ name' = [name EXCEPT ![Index[s]] = s]
    /\ UNCHANGED <<lasting, held, stamped>>

Stamp(s) ==
    /\ name[Index[s]] = s
    /\ stamped' = stamped \cup {Index[s]}
    /\ UNCHANGED <<lasting, held, name>>

Next ==
    \/ Dwindle
    \/ \E s \in Sources : Name(s) \/ Stamp(s) \/ \E f \in Files : Appear(s, f)

Spec == Init /\ [][Next]_vars
=============================================================================
