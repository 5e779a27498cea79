----------------------------- MODULE MCNetwork -----------------------------
(* An instance of Network for TLC: what may happen together.                *)
EXTENDS NetworkNamed

MCTags == {"t"}

Plain == [ipv6 |-> FALSE, ranges |-> {},    tags |-> {}]
Wider == [ipv6 |-> FALSE, ranges |-> {"r"}, tags |-> MCTags]
Dual  == [ipv6 |-> TRUE,  ranges |-> {},    tags |-> MCTags]
Small == [tags |-> {}]
Named == [tags |-> MCTags]

MCVpcWants    == {Plain, Wider, Dual}
MCSubnetWants == {Small, Named}

MCScenarios ==
    { [wants |-> {Dual, Small}, users |-> {"delete"}, gens |-> 1,
       faults |-> {"crash", "lost", "externalDelete"}, most |-> 1],
      [wants |-> {Plain, Small}, users |-> {"delete"}, gens |-> 1,
       faults |-> {"crash", "error", "lost"}, most |-> 2],
      [wants |-> {Plain, Wider, Small}, users |-> {"edit"}, gens |-> 2,
       faults |-> {"externalDelete", "drift", "error"}, most |-> 2],
      [wants |-> {Plain, Small, Named}, users |-> {"edit", "delete"}, gens |-> 2,
       faults |-> {"lost"}, most |-> 1] }
=============================================================================
