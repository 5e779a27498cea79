---------------------------- MODULE MCNatGateway ----------------------------
(* An instance of NatGateway for TLC: what may happen together.             *)
EXTENDS NatGateway

CONSTANTS a, b   \* two subnets and their CRs

Want(kind, subnet, tags) == [kind |-> kind, subnet |-> subnet, tags |-> tags]

MCSubnets == {a, b}
MCTags == {"t"}

\* A spec, its edits to the other kind, tagged or not, and to another subnet.
Public   == Want("public", a, {})
Private  == Want("private", a, {"t"})
Tagged   == Want("public", a, {"t"})
Moved    == Want("private", b, {})
MCWants  == {Public, Private, Tagged, Moved}

\* One failed call or write; what loses the identifier of the gateway;
\* what AWS does on its own; what edits and lost identifiers do together; and
\* a Subnet CR that changes.
MCScenarios ==
    { [wants |-> {Public, Private}, users |-> AllUsers, gens |-> 2,
       faults |-> {"error", "refused"}, most |-> 1],
      [wants |-> {Tagged}, users |-> AllUsers \ {"edit"}, gens |-> 1,
       faults |-> AllFaults \ {"drift", "dependency"}, most |-> 2],
      [wants |-> {Public, Private}, users |-> AllUsers, gens |-> 2,
       faults |-> {"crash", "failure", "externalDelete"}, most |-> 1],
      [wants |-> {Private, Moved}, users |-> {"edit", "delete"}, gens |-> 2,
       faults |-> {"crash", "lost"}, most |-> 1],
      [wants |-> {Private}, users |-> {"delete"}, gens |-> 1,
       faults |-> {"crash", "dependency"}, most |-> 2] }
=============================================================================
