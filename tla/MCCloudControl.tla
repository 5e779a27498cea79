-------------------------- MODULE MCCloudControl --------------------------
(* Instances of CloudControl for TLC.  In the first, one property with two  *)
(* values, so that an edit and a missing property are possible; in the      *)
(* second, a property that AWS updates and one that it does not.            *)
EXTENDS CloudControl

CONSTANTS a, b

MCNone     == {}

MCKeys     == {"p"}
MCVals     == {a, b}
MCWants    == [MCKeys -> MCVals]
MCUpdates  == {"UPDATE"}
MCEditors  == {"edit", "delete"}
MCMishaps  == AllFaults \ {"drift"}
MCSymmetry == Permutations(MCVals)

MCTwoKeys  == {"p", "q"}
MCOneWant  == {[k \in MCTwoKeys |-> a]}
MCFixed    == {"q"}
MCAllOps   == Ops
MCRemovals == {"delete"}
MCLeavers  == {"abandon", "delete"}
MCDamage   == {"crash", "awsFailure", "drift"}
=============================================================================
