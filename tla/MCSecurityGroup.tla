-------------------------- MODULE MCSecurityGroup ---------------------------
(* An instance of SecurityGroup for TLC: what may happen together.          *)
EXTENDS SecurityGroupNamed

MCWants == {[in |-> "http", out |-> ""], [in |-> "ssh", out |-> "dns"]}

MCScenarios ==
    { [wants |-> MCWants, users |-> AllUsers, gens |-> 3,
       faults |-> {"crash", "error", "lost"}, most |-> 2],
      [wants |-> MCWants, users |-> AllUsers, gens |-> 3,
       faults |-> {"error"}, most |-> 1],
      [wants |-> MCWants, users |-> AllUsers, gens |-> 2,
       faults |-> {"crash", "lost", "lag", "drift"}, most |-> 2],
      [wants |-> MCWants, users |-> AllUsers, gens |-> 2,
       faults |-> {"crash", "lost", "externalDelete"}, most |-> 2] }
=============================================================================
