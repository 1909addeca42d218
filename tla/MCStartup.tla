----------------------------- MODULE MCStartup -----------------------------
(* Configurations of the daemon for TLC: with and without a file, a Vault  *)
(* token and configured addresses, and four that need not serve.  The      *)
(* sources are the two of the README, one of them on the default's index.  *)
EXTENDS Startup

TwoSources == {"mesosphere", "mantl"}
Universe == "universe"
Indexes == [s \in TwoSources \cup {Universe} |-> IF s = "mantl" THEN 1 ELSE 0]

Plain == [Defaults EXCEPT !.file = TRUE]

Various ==
    {Defaults, Plain, [Plain EXCEPT !.explicit = {"mesos"}],
     [Plain EXCEPT !.token = "plain", !.vault = Secrets],
     [Plain EXCEPT !.explicit = Peers, !.token = "plain", !.vault = {"marathon-user"}],
     [Plain EXCEPT !.force = TRUE], [Plain EXCEPT !.interval = 0],
     [Plain EXCEPT !.token = "plain"],
     [Plain EXCEPT !.token = "wrapped", !.vault = Secrets]}
=============================================================================
