-------------------------------- MODULE VPC --------------------------------
(***************************************************************************)
(* The VPC kind (vpc_controller.go).  EC2 gives a VPC an identifier and    *)
(* does not mind two with the same address range; it does not delete one   *)
(* that has subnets.  Attributes, IPv6 block and further address ranges    *)
(* are set on every reconcile, the last two after a comparison.            *)
(*                                                                         *)
(* What the two ModifyVpcAttribute calls set is left out: they are one     *)
(* call that may fail.                                                     *)
(***************************************************************************)
EXTENDS Reconciler

CONSTANTS
    MaxVpcs,    \* bound on the VPCs EC2 gives out
    Ipv6Quota,  \* IPv6 blocks that EC2 gives one VPC
    Tags        \* the tags that a spec may list, each with its own key

VARIABLES
    vpcs,      \* EC2: identifier -> a VPC with the spec's main range
    made,      \* EC2: how many it has created
    occupied   \* EC2: the VPCs that have subnets; changed by others only

aws  == <<vpcs, made>>
vars == <<api, cache, cfresh, w, wfresh, step, faults, scenario,
          vpcs, made, occupied>>

Ids == 1 .. MaxVpcs
None == 0
Ranges == (UNION {want.ranges : want \in Wants}) \union {"drifted"}
Specs == [ipv6 : BOOLEAN, ranges : SUBSET Ranges, tags : SUBSET Tags]
Vpcs == [blocks : 0 .. Ipv6Quota, ranges : SUBSET Ranges, tags : SUBSET Tags]
Statuses == [id : Ids \union {None}, ipv6 : BOOLEAN, obsGen : Nat, ready : BOOLEAN]
BlankStatus == [id |-> None, ipv6 |-> FALSE, obsGen |-> 0, ready |-> FALSE]

\* f with the value v at x, where f had none.
Extend(f, x, v) ==
    [y \in DOMAIN f \union {x} |-> IF y \in DOMAIN f THEN f[y] ELSE v]

Present == w.st.id \in DOMAIN vpcs
Mine == vpcs[w.st.id]

-----------------------------------------------------------------------------
(* reconcileVPC.                                                            *)

\* Mutated form: every error of the call means that there is no such VPC.
GetOrCreate ==
    /\ step.at = "read"
    /\ \/ Goto(IF Present THEN "attributes" ELSE "create", w) /\ NoFault
       \/ Goto("create", w) /\ Fault("error")
    /\ UNCHANGED <<k8s, aws>>

\* Mutated form: an identifier in the status is taken for a VPC in EC2.
GetKnown ==
    /\ step.at = "read"
    /\ Goto(IF w.st.id # None THEN "attributes" ELSE "create", w)
    /\ UNCHANGED <<k8s, aws>> /\ NoFault

Get ==
    /\ step.at = "read"
    /\ Goto(IF Present THEN "attributes" ELSE "create", w)
    /\ UNCHANGED <<k8s, aws>> /\ NoFault

Create ==
    /\ step.at = "create" /\ made < MaxVpcs
    /\ made' = made + 1
    /\ vpcs' = Extend(vpcs, made',
                      [blocks |-> 0, ranges |-> {}, tags |-> w.want.tags])
    /\ \/ Save([w EXCEPT !.st.id = made'], "attributes", "report") /\ NoFault
       \/ Report /\ Fault("lost")
    /\ UNCHANGED k8s

ModifyAttributes ==
    /\ step.at = "attributes" /\ Present
    /\ Goto(IF w.want.ipv6 /\ ~w.st.ipv6 THEN "ipv6" ELSE "getRanges", w)
    /\ UNCHANGED <<k8s, aws>> /\ NoFault

\* The answer may name the block or leave it to be described later.
AssociateIpv6 ==
    /\ step.at = "ipv6" /\ Present /\ Mine.blocks < Ipv6Quota
    /\ vpcs' = [vpcs EXCEPT ![w.st.id].blocks = @ + 1]
    /\ \/ \E named \in BOOLEAN :
             Goto("getRanges", [w EXCEPT !.st.ipv6 = named]) /\ NoFault
       \/ Report /\ Fault("lost")
    /\ UNCHANGED <<k8s, made>>

\* What is missing and what is too much, as of this call.
GetRanges ==
    /\ step.at = "getRanges" /\ Present
    /\ GotoWith("ranges", w, [add  |-> w.want.ranges \ Mine.ranges,
                              drop |-> Mine.ranges \ w.want.ranges])
    /\ UNCHANGED <<k8s, aws>> /\ NoFault

\* GetVPC answers nil, which reconcileVPC dereferences.
NilVpc ==
    /\ step.at = "getRanges" /\ ~Present
    /\ Goto("panic", w)
    /\ UNCHANGED <<k8s, aws>> /\ NoFault

SyncRange(range, ranges, rest) ==
    /\ Present
    /\ vpcs' = [vpcs EXCEPT ![w.st.id].ranges = ranges]
    /\ \/ GotoWith("ranges", w, rest) /\ NoFault
       \/ Report /\ Fault("lost")
    /\ UNCHANGED <<k8s, made>>

Associate ==
    /\ step.at = "ranges"
    /\ \E r \in step.local.add :
        SyncRange(r, Mine.ranges \union {r}, [step.local EXCEPT !.add = @ \ {r}])

Disassociate ==
    /\ step.at = "ranges" /\ step.local.add = {}
    /\ \E r \in step.local.drop :
        SyncRange(r, Mine.ranges \ {r}, [step.local EXCEPT !.drop = @ \ {r}])

RangesDone == step.at = "ranges" /\ step.local.add = {} /\ step.local.drop = {}

\* SyncResourceTags adds what is missing, then removes what is not listed.
SetTags(tags) == vpcs' = [vpcs EXCEPT ![w.st.id].tags = tags]

\* Tags, and Ready.
Synced ==
    /\ RangesDone /\ Present
    /\ SetTags(w.want.tags)
    /\ Save(ReadyNow(Observed(w)), "idle", "report")
    /\ UNCHANGED <<k8s, made>> /\ NoFault

SyncFails ==
    /\ RangesDone /\ Present
    /\ \/ /\ SetTags(Mine.tags \union w.want.tags)
          /\ Fault("error") \/ Fault("lost")
       \/ SetTags(w.want.tags) /\ Fault("lost")
    /\ Report
    /\ UNCHANGED <<k8s, made>>

\* A VPC that is gone has no tags, and is told nothing if it needs none.
SyncedGone ==
    /\ RangesDone /\ ~Present
    /\ IF w.want.tags = {}
       THEN Save(ReadyNow(Observed(w)), "idle", "report") ELSE Report
    /\ UNCHANGED <<k8s, aws>> /\ NoFault

\* The VPC is gone, or has its quota of blocks.
Refused ==
    /\ \/ step.at = "attributes" /\ ~Present
       \/ step.at = "ipv6" /\ ~Present
       \/ step.at = "ipv6" /\ Present /\ Mine.blocks = Ipv6Quota
       \/ /\ step.at = "ranges" /\ ~Present
          /\ step.local.add \union step.local.drop # {}
    /\ Report
    /\ UNCHANGED <<k8s, aws>> /\ NoFault

CallError ==
    /\ \/ step.at \in {"read", "create", "attributes", "ipv6",
                       "getRanges", "ranges"} /\ Report
       \/ step.at = "delete" /\ Return
    /\ Fault("error")
    /\ UNCHANGED <<k8s, aws>>

-----------------------------------------------------------------------------
(* The delete path of Reconcile.                                            *)

\* findVPCID: by range and the tags of the spec.
Matches == {i \in DOMAIN vpcs : w.want.tags \subseteq vpcs[i].tags}

Target ==
    IF w.st.id # None THEN {w.st.id} \intersect DOMAIN vpcs
    ELSE IF Cardinality(Matches) = 1 THEN Matches ELSE {}

Without(ids) == [i \in DOMAIN vpcs \ ids |-> vpcs[i]]

\* Mutated form: a VPC that is not found is an error.
DeleteFound ==
    /\ step.at = "delete" /\ Target # {} /\ Target \intersect occupied = {}
    /\ vpcs' = Without(Target)
    /\ \/ Goto("release", w) /\ NoFault
       \/ Return /\ Fault("lost")
    /\ UNCHANGED <<k8s, made>>

Delete ==
    /\ step.at = "delete" /\ Target \intersect occupied = {}
    /\ vpcs' = Without(Target)
    /\ \/ Goto("release", w) /\ NoFault
       \/ Target # {} /\ Return /\ Fault("lost")
    /\ UNCHANGED <<k8s, made>>

\* DependencyViolation.
DeleteRefused ==
    /\ step.at = "delete" /\ Target \intersect occupied # {}
    /\ Return
    /\ UNCHANGED <<k8s, aws>> /\ NoFault

-----------------------------------------------------------------------------
ExternalDelete ==
    /\ \E i \in DOMAIN vpcs \ occupied : vpcs' = Without({i})
    /\ Fault("externalDelete")
    /\ UNCHANGED <<k8s, worker, made>>

Drift ==
    /\ \E i \in DOMAIN vpcs :
        vpcs' = [vpcs EXCEPT ![i].ranges = @ \union {"drifted"}]
    /\ Fault("drift")
    /\ UNCHANGED <<k8s, worker, made>>

Init == InitKube(BlankStatus) /\ vpcs = [i \in {} |-> i] /\ made = 0

Reconcile == SharedWork /\ UNCHANGED aws
Work ==
    \/ Reconcile
    \/ Get \/ Create \/ ModifyAttributes \/ AssociateIpv6 \/ GetRanges \/ NilVpc
    \/ Associate \/ Disassociate \/ Synced \/ SyncedGone \/ Refused
    \/ Delete \/ DeleteRefused

Outside == (PersistError \/ Users) /\ UNCHANGED aws
WatchDelivers == CacheSync /\ UNCHANGED aws

Labels == {"idle", "save", "addFinalizer", "read", "delete", "release", "create",
           "attributes", "ipv6", "getRanges", "ranges", "panic"}
Exits == {"idle", "attributes"}
Removing == {"delete", "release"}

\* Every variable has its type.
TypeOK ==
    /\ KubeOK(Statuses, Labels, Exits)
    /\ made \in 0 .. MaxVpcs /\ DOMAIN vpcs \subseteq 1 .. made
    /\ \A i \in DOMAIN vpcs : vpcs[i] \in Vpcs
    /\ occupied \subseteq DOMAIN vpcs
    /\ step.at = "ranges" =>
          step.local \in [add : SUBSET Ranges, drop : SUBSET Ranges]

=============================================================================
