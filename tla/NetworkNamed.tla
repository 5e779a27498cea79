---------------------------- MODULE NetworkNamed ----------------------------
(***************************************************************************)
(* Network under names of its own, for a module that EXTENDS another kind  *)
(* besides.  The subnet's CR, cache and worker are those of Reconciler.    *)
(***************************************************************************)
EXTENDS Reconciler

CONSTANTS VpcWants, MaxVpcs, MaxSubnets, Ipv6Quota, NetworkTags
VARIABLES vapi, vcache, vcfresh, vw, vwfresh, vstep, vpcs, vmade, subnets, smade

N == INSTANCE Network WITH SubnetWants <- Wants, Tags <- NetworkTags

ASSUME NetworkAssumption == N!Parameters

NetworkSpec     == N!Spec
NetworkFairSpec == N!FairSpec

\* The CRs of a subnet and of its VPC speak of one VPC and one subnet, whatever
\* happens to the two, with what makes this inductive.
NetworkInv == N!NetworkInv

\* A subnet whose CR is gone and was not abandoned is gone, also when its
\* identifier never reached the status, unless an edit took the lookup off it.
NoOrphanSubnet == N!NoOrphanSubnet

\* Two CRs under deletion go away, in whatever order they are deleted.
BothGo == N!DeletionCompletes

\* Both CRs are Ready and the subnet lies in the VPC, for good, or go.
NetworkConverges == N!Converges

=============================================================================
