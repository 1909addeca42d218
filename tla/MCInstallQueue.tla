--------------------------- MODULE MCInstallQueue ---------------------------
(* The instance of ConsulMonitor and InstallQueue for TLC: two keys that    *)
(* ask for one app, as two requests for the same package do.  Key 0 is the  *)
(* folder key, which Consul lists first and whose value nothing reads: it   *)
(* is written once, if at all.                                              *)
EXTENDS InstallQueue

OneApp == [key \in Keys |-> 9]

Folder == {p \in submitted : p.key = AppsRoot}
FolderOnce == Folder \subseteq {p \in Pair : p.valid} /\ Cardinality(Folder) <= 1

OneFault == \A n, m \in Instances : faults[n] > 0 /\ faults[m] > 0 => n = m

OneLate == Cardinality(late) <= 1
=============================================================================
