-------------------------- MODULE MCBucketSettings --------------------------
(* An instance of BucketSettings for TLC: what may happen together.         *)
EXTENDS BucketSettings

MCWants   == SUBSET (1 .. 2)
MCPutOnly == {2}

MCScenarios ==
    { [wants |-> {{}, {2}}, users |-> AllUsers, gens |-> 2,
       faults |-> {"crash", "error", "lost", "lag", "externalDelete"}, most |-> 1],
      [wants |-> {{}, {1, 2}}, users |-> {"edit", "delete"}, gens |-> 2,
       faults |-> {"error"}, most |-> 1] }
=============================================================================
