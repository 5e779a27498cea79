------------------------- MODULE SecurityGroupNamed -------------------------
(***************************************************************************)
(* SecurityGroup under names of its own, for a module that EXTENDS another *)
(* kind besides.  The CR, its cache and its worker are those of Reconciler. *)
(***************************************************************************)
EXTENDS Reconciler

CONSTANTS MaxIds, VpcGoes
VARIABLES group, rules, made, vpcKnown, other

G == INSTANCE SecurityGroup

ASSUME SecurityGroupAssumption == G!Parameters

GroupSpec     == G!Spec
GroupFairSpec == G!FairSpec

\* A CR that is gone left no group behind, and the rules are those that the
\* status speaks of, with what makes this inductive.
GroupInv == G!GroupInv

\* A status that is Ready in the current generation means that the group has
\* the rules of this generation.
ReadyMeansApplied == G!ReadyMeansApplied

\* The group and its rules follow the spec in the end, or go with the CR.
GroupConverges == G!Converges

=============================================================================
