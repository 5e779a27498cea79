--------------------------- MODULE SecurityGroup ---------------------------
(***************************************************************************)
(* The SecurityGroup kind (securitygroup_controller.go).  The group has    *)
(* rules of its own that are replaced call by call, first those for        *)
(* incoming, then those for outgoing traffic, and only when the spec       *)
(* changed or this very reconcile created the group.  A lost identifier is *)
(* looked up by name, on deletion only.                                    *)
(***************************************************************************)
EXTENDS Reconciler

CONSTANTS
    MaxIds,    \* bound on the groups EC2 gives out
    VpcGoes    \* the VPC's CR may disappear while the VPC is empty

Parameters ==
    /\ MaxIds \in Nat /\ VpcGoes \in BOOLEAN
    /\ Wants \subseteq [in : STRING, out : STRING]

VARIABLES
    group,     \* EC2: the group of this name in the VPC, or None
    rules,     \* EC2: its rules, [in, out]; "" is no rule
    made,      \* EC2: how many groups it has created
    vpcKnown,  \* the VPC that the spec refers to resolves
    other      \* EC2: a group of the same name in another VPC exists

aws  == <<group, rules, made, vpcKnown, other>>
vars == <<api, cache, cfresh, w, wfresh, step, faults, scenario,
          group, rules, made, vpcKnown, other>>

Ids == 1 .. MaxIds
None == 0
\* AWS starts every group with a rule that lets everything out.
NewRules == [in |-> "", out |-> "all"]
RuleSets == {want.in : want \in Wants} \union {want.out : want \in Wants}
            \union {"", "all", "drifted"}
Statuses == [id : Ids \union {None}, obsGen : Nat, ready : BOOLEAN]
BlankStatus == [id |-> None, obsGen |-> 0, ready |-> FALSE]

Present == w.st.id # None /\ w.st.id = group

\* Where the rules are replaced.
RuleCalls == {"ingress", "authorizeIngress", "egress", "authorizeEgress"}

-----------------------------------------------------------------------------
(* reconcileSG.                                                             *)

\* Mutated form: the rules are left to the reconcile after the next edit.
DescribeUnchanged ==
    /\ step.at = "read" /\ vpcKnown
    /\ Goto(IF ~Present THEN "create"
            ELSE IF w.st.obsGen < w.gen - 1 THEN "ingress" ELSE "tags", w)
    /\ UNCHANGED <<k8s, aws>> /\ NoFault

Describe ==
    /\ step.at = "read" /\ vpcKnown
    /\ Goto(IF ~Present THEN "create"
            ELSE IF w.st.obsGen # w.gen THEN "ingress" ELSE "tags", w)
    /\ UNCHANGED <<k8s, aws>> /\ NoFault

\* Waiting for the VPC.
NoVpc ==
    /\ step.at = "read" /\ ~vpcKnown
    /\ \/ Return \/ Report
    /\ UNCHANGED <<k8s, aws>> /\ NoFault

Create ==
    /\ step.at = "create" /\ group = None /\ vpcKnown /\ made < MaxIds
    /\ made' = made + 1 /\ group' = made' /\ rules' = NewRules
    /\ \/ Save([w EXCEPT !.st.id = made'], "ingress", "report") /\ NoFault
       \/ Report /\ Fault("lost")
    /\ UNCHANGED <<k8s, vpcKnown, other>>

\* InvalidGroup.Duplicate, or no such VPC.
CreateRefused ==
    /\ step.at = "create" /\ (group # None \/ ~vpcKnown)
    /\ Report
    /\ UNCHANGED <<k8s, aws>> /\ NoFault

\* One of the four calls that replace the rules of one direction.
Replace(label, new, next) ==
    /\ step.at = label /\ Present
    /\ rules' = new
    /\ \/ Goto(next, w) /\ NoFault
       \/ Report /\ Fault("lost")
    /\ UNCHANGED <<k8s, group, made, vpcKnown, other>>

RevokeIngress ==
    Replace("ingress", [rules EXCEPT !.in = ""], "authorizeIngress")
AuthorizeIngress ==
    Replace("authorizeIngress", [rules EXCEPT !.in = w.want.in], "egress")
\* No rule in the spec means: leave what is there.
RevokeEgress ==
    /\ step.at = "egress" => w.want.out # ""
    /\ Replace("egress", [rules EXCEPT !.out = ""], "authorizeEgress")
AuthorizeEgress ==
    Replace("authorizeEgress", [rules EXCEPT !.out = w.want.out], "tags")

KeepEgress ==
    /\ step.at = "egress" /\ w.want.out = "" /\ Present
    /\ Goto("tags", w)
    /\ UNCHANGED <<k8s, aws>> /\ NoFault

\* The group went away while its rules were replaced.
GroupGone ==
    /\ step.at \in RuleCalls /\ ~Present
    /\ Report
    /\ UNCHANGED <<k8s, aws>> /\ NoFault

Synced ==
    /\ step.at = "tags"
    /\ Save(ReadyNow(Observed(w)), "idle", "report")
    /\ UNCHANGED <<k8s, aws>> /\ NoFault

CallError ==
    /\ \/ step.at \in {"read", "create", "ingress", "authorizeIngress",
                       "egress", "authorizeEgress", "tags"} /\ Report
       \/ step.at = "delete" /\ Return
    /\ Fault("error")
    /\ UNCHANGED <<k8s, aws>>

-----------------------------------------------------------------------------
(* The delete path of Reconcile.                                            *)

\* findGroupID: the groups of this name, in the VPC as long as it resolves.
Matches ==
    (IF group # None THEN {"own"} ELSE {})
    \union (IF other /\ ~vpcKnown THEN {"other"} ELSE {})

\* Mutated form: no lookup when the status has no identifier.
TargetOfStatus == IF Present THEN "own" ELSE ""

\* What is to be deleted: nothing, unless there is exactly one match.
Target ==
    IF w.st.id # None THEN (IF Present THEN "own" ELSE "")
    ELSE IF Cardinality(Matches) = 1 THEN CHOOSE m \in Matches : TRUE ELSE ""

\* Mutated form: a group that does not exist cannot be deleted.
DeleteFound ==
    /\ step.at = "delete"
    /\ group' = IF Target = "own" THEN None ELSE group
    /\ IF w.st.id = None \/ Present THEN Goto("release", w) ELSE Return
    /\ UNCHANGED <<k8s, rules, made, vpcKnown, other>> /\ NoFault

Delete ==
    /\ step.at = "delete"
    /\ group' = IF Target = "own" THEN None ELSE group
    /\ other' = (other /\ Target # "other")
    /\ \/ Goto("release", w) /\ NoFault
       \/ Target # "" /\ Return /\ Fault("lost")
    /\ UNCHANGED <<k8s, rules, made, vpcKnown>>

-----------------------------------------------------------------------------
(* AWS and others.                                                          *)

VpcGone ==
    /\ VpcGoes /\ vpcKnown /\ group = None
    /\ vpcKnown' = FALSE
    /\ UNCHANGED <<k8s, worker, group, rules, made, other>> /\ NoFault

ExternalDelete ==
    /\ group # None /\ group' = None
    /\ Fault("externalDelete")
    /\ UNCHANGED <<k8s, worker, rules, made, vpcKnown, other>>

Drift ==
    /\ group # None /\ rules' = [rules EXCEPT !.in = "drifted"]
    /\ Fault("drift")
    /\ UNCHANGED <<k8s, worker, group, made, vpcKnown, other>>

-----------------------------------------------------------------------------
Init ==
    /\ InitKube(BlankStatus)
    /\ group = None /\ rules = NewRules /\ made = 0
    /\ vpcKnown = TRUE /\ other = TRUE

Reconcile == SharedWork /\ UNCHANGED aws
Work ==
    \/ Reconcile
    \/ Describe \/ NoVpc \/ Create \/ CreateRefused
    \/ RevokeIngress \/ AuthorizeIngress
    \/ RevokeEgress \/ AuthorizeEgress \/ KeepEgress
    \/ GroupGone \/ Synced \/ Delete

Outside == (PersistError \/ Crash \/ Users) /\ UNCHANGED aws
WatchDelivers == CacheSync /\ UNCHANGED aws

Next ==
    \/ Work \/ CallError \/ Outside \/ WatchDelivers
    \/ VpcGone \/ ExternalDelete \/ Drift

Spec == Init /\ [][Next]_vars

(* As in NatGateway.                                                        *)
FairSpec ==
    /\ Spec
    /\ WF_vars(Work)
    /\ WF_vars(WatchDelivers) /\ SF_vars(step.at = "idle" /\ WatchDelivers)

-----------------------------------------------------------------------------
(* Properties.                                                              *)

Labels == {"idle", "save", "addFinalizer", "read", "delete", "release",
           "create", "ingress", "authorizeIngress", "egress",
           "authorizeEgress", "tags"}
Exits == {"idle", "ingress"}
Removing == {"delete", "release"}

\* Every variable has its type.
TypeOK ==
    /\ KubeOK(Statuses, Labels, Exits)
    /\ group \in Ids \union {None} /\ made \in 0 .. MaxIds
    /\ rules \in [in : RuleSets, out : RuleSets]
    /\ vpcKnown \in BOOLEAN /\ other \in BOOLEAN

\* The group has the rules of a copy's spec.
Fits(cr) ==
    /\ rules.in = cr.want.in
    /\ cr.want.out # "" => rules.out = cr.want.out

Applied == Fits(api)

\* While nobody touches the group in AWS and the cache is current, a status
\* Ready in the current generation means that the group has the rules of this
\* generation, although they are replaced in four calls any of which may fail
\* or be cut off.
ReadyMeansApplied ==
    /\ FreeOf({"lag", "drift", "externalDelete"})
    /\ api.exists /\ ~api.deleting /\ api.st.ready /\ api.st.obsGen = api.gen
    => group = api.st.id /\ Applied

\* A CR that is gone and was not abandoned leaves no group in its VPC, also
\* when the identifier never reached the status.
NoOrphan ==
    FreeOf({"externalDelete"}) /\ ~api.exists /\ ~api.abandon => group = None

\* One group ever, which every identifier means; it goes on the path of the
\* deletion only, before the CR is released.
SoleGroup ==
    /\ made <= 1 /\ group \in {None, made}
    /\ {api.st.id, cache.st.id} \subseteq {None, made}
    /\ step.at # "idle" => w.st.id \in {None, made}
    /\ made = 1 /\ group = None =>
          cache.deleting /\ step.at \in Removing \union {"idle"}
    /\ ~api.finalizer => made = 0
    /\ step.at = "release" /\ ~w.abandon => group = None

\* What a copy says of the generation it has observed is true.
Truthful(cr) ==
    /\ cr.st.obsGen <= cr.gen
    /\ cr.st.obsGen = cr.gen => cr.st.id # None /\ cr.st.id = group /\ Fits(cr)

\* The rules change only while nothing claims that they are those of the
\* worker's generation, and the claim is made when they are.
RulesFollow ==
    /\ Truthful(api)
    /\ step.at # "idle" =>
          /\ Truthful(w) /\ w.gen <= api.gen
          /\ w.gen = api.gen => w.want = api.want
    /\ step.at \notin {"idle", "save"} => w.st = api.st
    /\ \/ step.at \in RuleCalls \union {"create"}
       \/ step.at = "save" /\ step.ok = "ingress"
       => w.st.obsGen < w.gen /\ api.st.obsGen < w.gen
    /\ step.at \in {"egress", "authorizeEgress"} => rules.in = w.want.in
    /\ step.at = "tags" => Present /\ Fits(w)

\* The state is well formed, a CR that is gone left nothing behind, and the
\* rules are those that the status speaks of; with what makes this inductive.
GroupInv ==
    /\ TypeOK /\ Protocol(Removing) /\ (~vpcKnown => group = None)
    /\ NoOrphan
    /\ FreeOf({"externalDelete"}) => SoleGroup
    /\ FreeOf({"lag", "drift", "externalDelete"}) /\ api.exists /\ ~api.deleting
          => RulesFollow

InSync ==
    /\ group # None /\ Applied
    /\ api.st = [id |-> group, obsGen |-> api.gen, ready |-> TRUE]

\* When edits and faults have stopped, a CR under deletion is gone, and for any
\* other the group has the rules of the spec and the status says so, for good,
\* unless the VPC is missing, the answer to the create may have been lost, or
\* somebody may have changed the group in AWS.
Converges ==
    <>[](\/ ~api.exists
         \/ /\ ~api.deleting
            /\ vpcKnown /\ FreeOf(AllFaults \ {"error"}) => InSync)

=============================================================================
