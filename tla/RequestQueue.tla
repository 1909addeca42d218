---------------------------- MODULE RequestQueue ----------------------------
(***************************************************************************)
(* What the Consul request queue promises to somebody who asks for a       *)
(* package by writing a key under mantl-install/apps/: an at-least-once    *)
(* queue in which the acknowledgement names the key and not the value.     *)
(*                                                                         *)
(* A write is identified by the pair it leaves in Consul, and Consul's     *)
(* ModifyIndex makes every pair new.  A pair leaves the queue when a       *)
(* client overwrites or removes it, which is on record, or when some       *)
(* handled pair of the SAME KEY is acknowledged.  ConsulMonitor and        *)
(* InstallQueue, the models of the code, are shown to implement this       *)
(* module, with two meanings of "handled".                                 *)
(***************************************************************************)
EXTENDS Naturals

CONSTANTS
    Pair    \* the key/value pairs a client may write: records with key and index

VARIABLES
    queue,      \* the pairs now under the prefix, at most one for each key
    submitted,  \* every pair ever written
    handled,    \* every pair that was acted upon
    withdrawn   \* every pair a client has overwritten or removed

vars == <<queue, submitted, handled, withdrawn>>

Init ==
    /\ queue = {}
    /\ submitted = {}
    /\ handled = {}
    /\ withdrawn = {}

Without(key) == {p \in queue : p.key # key}

Overwritten(key) == withdrawn' = withdrawn \cup (queue \ Without(key))

Submit(p) ==
    /\ \A q \in submitted : q.index < p.index
    /\ queue' = Without(p.key) \cup {p}
    /\ submitted' = submitted \cup {p}
    /\ Overwritten(p.key)
    /\ UNCHANGED handled

Withdraw(key) ==
    /\ queue' = Without(key)
    /\ Overwritten(key)
    /\ UNCHANGED <<submitted, handled>>

\* The pair may have left the queue since it was read.
Handle(p) ==
    /\ handled' = handled \cup {p}
    /\ UNCHANGED <<queue, submitted, withdrawn>>

Acknowledge(p) ==
    /\ queue' = Without(p.key)
    /\ UNCHANGED <<submitted, handled, withdrawn>>

Next ==
    \/ \E p \in Pair : Submit(p)
    \/ \E q \in queue : Withdraw(q.key)
    \/ \E p \in submitted : Handle(p)
    \/ \E p \in handled : Acknowledge(p)

Spec == Init /\ [][Next]_vars
=============================================================================
