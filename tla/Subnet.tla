------------------------------- MODULE Subnet -------------------------------
(***************************************************************************)
(* The Subnet kind (subnet_controller.go).  It waits for the CR of its VPC *)
(* to have an identifier, and adopts the subnet that has the spec's range  *)
(* in that VPC before it creates one.  The range is immutable; the         *)
(* reference to the VPC is not edited here, the tags may be.               *)
(***************************************************************************)
EXTENDS Reconciler

CONSTANTS
    MaxSubnets,   \* bound on the subnets EC2 gives out
    Tags          \* the tags that a spec may list, each with its own key

VARIABLES
    subnets,   \* EC2: identifier -> a subnet with the spec's range
    made,      \* EC2: how many it has created
    vpc,       \* what resolveVPCID answers, 0 when it does not
    vpcs       \* EC2: the VPCs that exist; changed by others only

aws == <<subnets, made>>

Specs == [tags : SUBSET Tags]
Ids == 1 .. MaxSubnets
None == 0
Statuses == [id : Ids \union {None}, obsGen : Nat, ready : BOOLEAN]
BlankStatus == [id |-> None, obsGen |-> 0, ready |-> FALSE]

\* f with the value v at x, where f had none.
Extend(f, x, v) ==
    [y \in DOMAIN f \union {x} |-> IF y \in DOMAIN f THEN f[y] ELSE v]

Present == w.st.id \in DOMAIN subnets
In(v) == {i \in DOMAIN subnets : subnets[i].vpc = v}

\* SyncResourceTags adds what is missing, then removes what is not listed.
SetTags(tags) == subnets' = [subnets EXCEPT ![w.st.id].tags = tags]

-----------------------------------------------------------------------------
(* reconcileSubnet.                                                         *)

\* The rest of the reconcile remembers the VPC it resolved.
Describe ==
    /\ step.at = "read" /\ vpc # None
    /\ GotoWith(IF Present THEN "modify" ELSE "lookup", w, vpc)
    /\ UNCHANGED <<k8s, aws>> /\ NoFault

\* Waiting for the VPC, or its CR is gone.
NoVpc ==
    /\ step.at = "read" /\ vpc = None
    /\ \/ Return \/ Report
    /\ UNCHANGED <<k8s, aws>> /\ NoFault

Lookup ==
    /\ step.at = "lookup"
    /\ IF In(step.local) # {}
       THEN \E i \in In(step.local) :
               Save([w EXCEPT !.st.id = i], "modify", "report")
       ELSE GotoWith("create", w, step.local)
    /\ UNCHANGED <<k8s, aws>> /\ NoFault

\* EC2 refuses a range that is taken in the VPC, and a VPC that is gone.
Create ==
    /\ step.at = "create" /\ made < MaxSubnets
    /\ step.local \in vpcs /\ In(step.local) = {}
    /\ made' = made + 1
    /\ subnets' = Extend(subnets, made', [vpc |-> step.local, tags |-> w.want.tags])
    /\ \/ Save([w EXCEPT !.st.id = made'], "modify", "report") /\ NoFault
       \/ Report /\ Fault("lost")
    /\ UNCHANGED k8s

CreateRefused ==
    /\ step.at = "create" /\ (step.local \notin vpcs \/ In(step.local) # {})
    /\ Report
    /\ UNCHANGED <<k8s, aws>> /\ NoFault

\* ModifySubnetAttribute, tags, and Ready.
Modify ==
    /\ step.at = "modify" /\ Present
    /\ SetTags(w.want.tags)
    /\ Save(ReadyNow(Observed(w)), "idle", "report")
    /\ UNCHANGED <<k8s, made>> /\ NoFault

SyncFails ==
    /\ step.at = "modify" /\ Present
    /\ \/ /\ SetTags(subnets[w.st.id].tags \union w.want.tags)
          /\ Fault("error") \/ Fault("lost")
       \/ SetTags(w.want.tags) /\ Fault("lost")
    /\ Report
    /\ UNCHANGED <<k8s, made>>

\* The subnet is gone.
ModifyRefused ==
    /\ step.at = "modify" /\ ~Present
    /\ Report
    /\ UNCHANGED <<k8s, aws>> /\ NoFault

CallError ==
    /\ \/ step.at \in {"read", "lookup", "create", "modify"} /\ Report
       \/ step.at = "delete" /\ Return
    /\ Fault("error")
    /\ UNCHANGED <<k8s, aws>>

-----------------------------------------------------------------------------
(* The delete path of Reconcile.                                            *)

\* findSubnetID: by range and the tags of the spec, and in the VPC as long as
\* that resolves.
Matches ==
    {i \in DOMAIN subnets :
        w.want.tags \subseteq subnets[i].tags /\ vpc \in {None, subnets[i].vpc}}

\* Mutated form: no lookup when the status has no identifier.
TargetOfStatus == {w.st.id} \intersect DOMAIN subnets

Target ==
    IF w.st.id # None THEN {w.st.id} \intersect DOMAIN subnets
    ELSE IF Cardinality(Matches) = 1 THEN Matches ELSE {}

Without(ids) == [i \in DOMAIN subnets \ ids |-> subnets[i]]

Delete ==
    /\ step.at = "delete"
    /\ subnets' = Without(Target)
    /\ \/ Goto("release", w) /\ NoFault
       \/ Target # {} /\ Return /\ Fault("lost")
    /\ UNCHANGED <<k8s, made>>

-----------------------------------------------------------------------------
ExternalDelete ==
    /\ \E i \in DOMAIN subnets : subnets' = Without({i})
    /\ Fault("externalDelete")
    /\ UNCHANGED <<k8s, worker, made>>

Init == InitKube(BlankStatus) /\ subnets = [i \in {} |-> i] /\ made = 0

Reconcile == SharedWork /\ UNCHANGED aws
Work ==
    \/ Reconcile
    \/ Describe \/ NoVpc \/ Lookup \/ Create \/ CreateRefused
    \/ Modify \/ ModifyRefused \/ Delete

Outside == (PersistError \/ Users) /\ UNCHANGED aws
WatchDelivers == CacheSync /\ UNCHANGED aws

Labels == {"idle", "save", "addFinalizer", "read", "delete", "release",
           "lookup", "create", "modify"}
Exits == {"idle", "modify"}
Removing == {"delete", "release"}

\* Every variable has its type.
TypeOK ==
    /\ KubeOK(Statuses, Labels, Exits)
    /\ made \in 0 .. MaxSubnets /\ DOMAIN subnets \subseteq 1 .. made
    /\ \A i \in DOMAIN subnets :
          subnets[i] \in [vpc : vpcs, tags : SUBSET Tags]

=============================================================================
