------------------------- MODULE MCZoneAssociation --------------------------
(* An instance of ZoneAssociation for TLC: what may happen together.        *)
EXTENDS ZoneAssociation

MCWants == {"vpc-1", "vpc-2"}

MCMishaps == {"crash", "error", "lost", "externalDelete"}

MCScenarios ==
    { [wants |-> {"vpc-1"}, users |-> {"abandon", "delete"}, gens |-> 1,
       faults |-> MCMishaps \union {"lag"}, most |-> 3],
      [wants |-> {"vpc-1"}, users |-> {"abandon", "delete"}, gens |-> 1,
       faults |-> MCMishaps \union {"dependency"}, most |-> 3],
      [wants |-> MCWants, users |-> AllUsers, gens |-> 3,
       faults |-> {"lag", "dependency", "externalDelete"}, most |-> 2],
      [wants |-> MCWants, users |-> AllUsers, gens |-> 3,
       faults |-> MCMishaps, most |-> 1] }
=============================================================================
