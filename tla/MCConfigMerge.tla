--------------------------- MODULE MCConfigMerge ---------------------------
(* The documents for TLC: the client and the mantl.json of the first       *)
(* installation say anything; in the second one the client gives a map and *)
(* the package none, so that apiConfig comes to be shared.                 *)
EXTENDS ConfigMerge

CONSTANTS r1, r2

Doc(m, b, z, h) == [mantl |-> m, balancer |-> b, zookeeper |-> z, hosts |-> h]

Empty == Doc("absent", "absent", "absent", "absent")
Balanced == Doc("map", "value", "absent", "absent")
Zookept == Doc("map", "absent", "map", "value")

AnyAndSharing ==
    [o \in {r1, r2} \X Layer |->
        CASE o[1] = r1 /\ o[2] = "config.json" -> {Empty, Balanced, Zookept}
          [] o[1] = r1 /\ o[2] # "config.json" -> Shape
          [] o = <<r2, "user">>               -> {Balanced}
          [] o = <<r2, "mantl.json">>         -> {Empty}
          [] o = <<r2, "config.json">>        -> {Zookept}]
=============================================================================
