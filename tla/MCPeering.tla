----------------------------- MODULE MCPeering ------------------------------
(* An instance of Peering for TLC: what may happen together.                *)
EXTENDS Peering

MCWants == {"auto", "manual"}

MCScenarios ==
    { [wants |-> MCWants, users |-> AllUsers, gens |-> 2,
       faults |-> {"error", "refused", "failure"}, most |-> 1],
      [wants |-> {"auto"}, users |-> AllUsers, gens |-> 1,
       faults |-> {"crash", "error", "lost", "lag", "externalDelete"}, most |-> 2],
      [wants |-> MCWants, users |-> AllUsers, gens |-> 2,
       faults |-> {"crash", "externalDelete"}, most |-> 1] }
=============================================================================
