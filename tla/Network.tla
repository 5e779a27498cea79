------------------------------ MODULE Network ------------------------------
(***************************************************************************)
(* A VPC and a Subnet in it: two custom resources, each with its own       *)
(* worker, informer cache and users, in one process and one AWS account.   *)
(* The subnet's worker reads the VPC's CR from the cache of the VPC's      *)
(* informer; EC2 keeps a VPC as long as it has subnets.                    *)
(***************************************************************************)
EXTENDS Naturals, FiniteSets, TLC

CONSTANTS VpcWants, SubnetWants, Tags, Scenarios, MaxVpcs, MaxSubnets, Ipv6Quota

VARIABLES
    vapi, vcache, vcfresh, vw, vwfresh, vstep,   \* the VPC's CR and worker
    api, cache, cfresh, w, wfresh, step,         \* the subnet's
    vpcs, vmade, subnets, smade,                 \* EC2
    faults, scenario                             \* common to both

vpcSide    == <<vapi, vcache, vcfresh, vw, vwfresh, vstep, vpcs, vmade>>
subnetSide == <<api, cache, cfresh, w, wfresh, step, subnets, smade>>
vars       == <<vapi, vcache, vcfresh, vw, vwfresh, vstep, vpcs, vmade,
                api, cache, cfresh, w, wfresh, step, subnets, smade,
                faults, scenario>>

\* The VPCs that have subnets.
Occupied == {subnets[i].vpc : i \in DOMAIN subnets}

\* resolveVPCID of the subnet: a cached VPC with an identifier.
Resolved == IF vcache.exists THEN vcache.st.id ELSE 0

V == INSTANCE VPC WITH
    Wants <- VpcWants, api <- vapi, cache <- vcache, cfresh <- vcfresh, w <- vw,
    wfresh <- vwfresh, step <- vstep, made <- vmade, occupied <- Occupied

S == INSTANCE Subnet WITH
    Wants <- SubnetWants, made <- smade, vpc <- Resolved, vpcs <- DOMAIN vpcs

Parameters ==
    /\ MaxVpcs \in Nat /\ MaxSubnets \in Nat /\ Ipv6Quota \in Nat
    /\ VpcWants \subseteq V!Specs /\ SubnetWants \subseteq S!Specs
    /\ V!AreScenarios(Scenarios)

-----------------------------------------------------------------------------
Init == V!Init /\ S!Init

VpcWork    == V!Work /\ UNCHANGED subnetSide
SubnetWork == S!Work /\ UNCHANGED vpcSide
VpcWatch    == V!WatchDelivers /\ UNCHANGED subnetSide
SubnetWatch == S!WatchDelivers /\ UNCHANGED vpcSide

VpcOther ==
    /\ V!SyncFails \/ V!CallError \/ V!Outside \/ V!ExternalDelete \/ V!Drift
    /\ UNCHANGED subnetSide
SubnetOther ==
    /\ S!SyncFails \/ S!CallError \/ S!Outside \/ S!ExternalDelete
    /\ UNCHANGED vpcSide

\* The process dies under both workers and is started again.
Dies ==
    /\ V!Return /\ S!Return
    /\ UNCHANGED <<vapi, vcache, vcfresh, api, cache, cfresh,
                   vpcs, vmade, subnets, smade>>

Crash ==
    /\ vstep.at # "idle" \/ step.at # "idle"
    /\ Dies /\ V!Fault("crash")

Panic == vstep.at = "panic" /\ Dies /\ V!NoFault

Next ==
    \/ VpcWork \/ SubnetWork \/ VpcWatch \/ SubnetWatch
    \/ VpcOther \/ SubnetOther \/ Crash \/ Panic

Spec == Init /\ [][Next]_vars

(* As in NatGateway, for each of the two workers and informers.             *)
FairSpec ==
    /\ Spec
    /\ WF_vars(VpcWork) /\ WF_vars(SubnetWork) /\ WF_vars(Panic)
    /\ WF_vars(VpcWatch) /\ SF_vars(vstep.at = "idle" /\ VpcWatch)
    /\ WF_vars(SubnetWatch) /\ SF_vars(step.at = "idle" /\ SubnetWatch)

-----------------------------------------------------------------------------
(* Properties.                                                              *)

\* Every variable has its type.
TypeOK == V!TypeOK /\ S!TypeOK

\* The subnet that the status of the one CR identifies lies in the VPC that the
\* status of the other identifies, whichever of the two was created again, as
\* long as no reconcile starts from an old cache.
SubnetInVpc ==
    /\ V!FreeOf({"lag"})
    /\ api.exists /\ api.st.id \in DOMAIN subnets
    /\ vapi.exists /\ vapi.st.id \in DOMAIN vpcs
    => subnets[api.st.id].vpc = vapi.st.id

\* Identifiers are given out once.
GivenOut ==
    /\ vapi.st.id <= vmade /\ vcache.st.id <= vmade
    /\ vstep.at # "idle" => vw.st.id <= vmade
    /\ api.st.id <= smade /\ cache.st.id <= smade
    /\ step.at # "idle" => w.st.id <= smade
    /\ step.at \in {"lookup", "create"} => step.local \in 1 .. vmade

\* Without old caches all speak of one VPC: what its CR says is replaced only
\* when that VPC is gone, and it is not gone as long as it has subnets.
OneVpc == V!FreeOf({"lag"}) =>
    /\ \A i \in DOMAIN subnets : subnets[i].vpc = vapi.st.id
    /\ vcache.st.id \in DOMAIN vpcs => vcache.st.id = vapi.st.id
    /\ step.at \in {"lookup", "create"} /\ step.local \in DOMAIN vpcs =>
          step.local = vapi.st.id
    /\ vstep.at # "idle" =>
          \/ vw.st.id = vapi.st.id
          \/ vstep.at = "save" /\ vapi.st.id \notin DOMAIN vpcs
    /\ vstep.at = "create" => vapi.st.id \notin DOMAIN vpcs

\* If moreover nobody else deletes, the VPC stays until its CR is deleted, so
\* the one subnet is found again in it, and gone when its CR lets go of it.
VpcStays ==
    /\ vcache.st.id \in {0, vapi.st.id}
    /\ \/ vapi.st.id \in {0} \union DOMAIN vpcs
       \/ vcache.deleting /\ vstep.at \in V!Removing \union {"idle"}
    /\ vstep.at = "save" => vw.st.id \in {0} \union DOMAIN vpcs

\* Without an edit, all that the spec lists has been on the subnet from the
\* start.
Labelled ==
    /\ step.at # "idle" /\ wfresh => w.want = api.want
    /\ "edit" \notin scenario.users =>
          /\ cache.want = api.want
          /\ step.at # "idle" => w.want = api.want
          /\ \A i \in DOMAIN subnets : api.want.tags \subseteq subnets[i].tags

\* The subnets that a lookup by the tags of this spec can find.
Tagged(want) == {i \in DOMAIN subnets : want.tags \subseteq subnets[i].tags}

SubnetFound ==
    /\ smade <= 1
    /\ smade = 1 /\ DOMAIN subnets = {} =>
          cache.deleting /\ step.at \in S!Removing \union {"idle"}
    /\ ~api.finalizer => smade = 0
    /\ step.at = "release" /\ ~w.abandon => Tagged(w.want) = {}

SoleSubnet == V!FreeOf({"lag", "externalDelete"}) => VpcStays /\ SubnetFound

\* A subnet whose CR is gone and was not abandoned is gone, also when its
\* identifier never reached the status, unless its tags lack one that the spec
\* listed in the end; and that takes an edit.  (From an old cache the VPC may
\* be created a second time, and the subnet then again in that one.)
NoOrphanSubnet ==
    V!FreeOf({"lag", "externalDelete"}) /\ ~api.exists /\ ~api.abandon
        => /\ Tagged(api.want) = {}
           /\ "edit" \notin scenario.users => DOMAIN subnets = {}

\* The inductive invariant: the state is well formed, each worker keeps the
\* protocol of its finalizer, and the two CRs speak of one VPC and its subnet.
NetworkInv ==
    /\ TypeOK /\ V!Protocol(V!Removing) /\ S!Protocol(S!Removing)
    /\ GivenOut /\ SubnetInVpc /\ OneVpc /\ Labelled /\ SoleSubnet

\* The CR of the subnet went without it, by intent or after an edit.
LeftBehind ==
    /\ ~api.exists /\ DOMAIN subnets # {}
    /\ api.abandon \/ "edit" \in scenario.users

\* Two CRs under deletion go away, in whatever order they are deleted: that of
\* the VPC waits until the subnet is gone, and in vain if that is left behind.
\* Nobody deletes in AWS meanwhile.
DeletionCompletes == V!FreeOf({"externalDelete"}) =>
    vapi.deleting /\ api.deleting ~>
        ~api.exists /\ (~vapi.exists \/ LeftBehind)

\* When faults and edits have stopped, both are Ready for their generation, the
\* VPC has the ranges of the spec, both have the tags of theirs, and the subnet
\* lies in the VPC, for good.
Converges == V!FreeOf({"crash", "lost"}) =>
    <>[](\/ ~vapi.exists \/ ~api.exists
         \/ /\ vapi.st.ready /\ vapi.st.obsGen = vapi.gen
            /\ vapi.st.id \in DOMAIN vpcs
            /\ vpcs[vapi.st.id].ranges = vapi.want.ranges
            /\ vpcs[vapi.st.id].tags = vapi.want.tags
            /\ api.st.ready /\ api.st.obsGen = api.gen
            /\ api.st.id \in DOMAIN subnets
            /\ subnets[api.st.id] = [vpc |-> vapi.st.id, tags |-> api.want.tags])

=============================================================================
