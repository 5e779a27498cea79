----------------------------- MODULE NatGateway -----------------------------
(***************************************************************************)
(* The NatGateway kind (natgateway_controller.go).  A public gateway needs *)
(* an Elastic IP, which the reconciler allocates before the gateway and    *)
(* releases after it.  Neither call is idempotent, and the two identifiers *)
(* are known only to the worker until the status write.                    *)
(***************************************************************************)
EXTENDS Reconciler

CONSTANTS
    MaxIds,   \* bound on the gateways and addresses AWS gives out
    Subnets,  \* the subnets, each with a Subnet CR of its own to begin with
    Tags      \* the tags that a spec may list

\* A spec: the kind of gateway, the Subnet CR that it refers to, its tags.
Specs == [kind : {"public", "private"}, subnet : Subnets, tags : SUBSET Tags]

ASSUME NatGatewayAssumption ==
    MaxIds \in Nat /\ Wants \subseteq Specs /\ 0 \notin Subnets

VARIABLES
    gws,     \* AWS: identifier -> a gateway that it remembers
    eips,    \* AWS: the allocated addresses
    made,    \* AWS: how many gateways it has created
    given,   \* AWS: how many addresses it has allocated
    refs,    \* Subnet CR -> the subnet in its status, None without one
    target   \* the worker's subnetID, from reconcileNATGateway's first line on

aws  == <<gws, eips, made, given, refs, target>>
vars == <<api, cache, cfresh, w, wfresh, step, faults, scenario,
          gws, eips, made, given, refs, target>>

Ids == 1 .. MaxIds
None == 0
States == {"pending", "available", "failed", "deleting", "deleted"}
Places == Subnets \union {None}
Gateways == [state : States, eip : Ids \union {None},
             subnet : Places, tags : SUBSET Tags]
Statuses == [nat : Ids \union {None}, eip : Ids \union {None},
             obsGen : Nat, ready : BOOLEAN]
BlankStatus == [nat |-> None, eip |-> None, obsGen |-> 0, ready |-> FALSE]

Known(g) == g \in DOMAIN gws
InState(g, states) == g \in DOMAIN gws /\ gws[g].state \in states

\* AWS holds on to the address of a gateway that is not deleted or failed.
InUse(e) == \E g \in DOMAIN gws :
    gws[g].eip = e /\ gws[g].state \in {"pending", "available", "deleting"}

\* resolveSubnetID: None for any of its errors.
Resolved(want) == refs[want.subnet]

\* The filters of the lookup: the subnet, and every tag of the spec.  Without
\* a subnet there is no lookup, and nothing found.
Matches(g, want) ==
    /\ Resolved(want) # None /\ gws[g].subnet = Resolved(want)
    /\ want.tags \subseteq gws[g].tags

With(copy, g, e) == [copy EXCEPT !.st.nat = g, !.st.eip = e]

-----------------------------------------------------------------------------
(* reconcileNATGateway.                                                     *)

\* Where creation begins: an address first, for a public gateway.
Create(copy) ==
    /\ Goto(IF w.want.kind = "public" THEN "allocate" ELSE "create", copy)
    /\ target' = Resolved(w.want)

\* No Subnet CR is an error to report; one without an identifier is waited for.
Unresolved ==
    /\ step.at = "read" /\ Resolved(w.want) = None
    /\ Report \/ Return
    /\ UNCHANGED <<k8s, aws>> /\ NoFault

Finds(states) ==
    /\ step.at = "read" /\ Resolved(w.want) # None
    /\ InState(w.st.nat, states)

\* SyncResourceTags adds what is missing, then removes what is not listed.
SetTags(tags) == gws' = [gws EXCEPT ![w.st.nat].tags = tags]

Available ==
    /\ Finds({"available"})
    /\ SetTags(w.want.tags)
    /\ Save(ReadyNow(Observed(w)), "idle", "report")
    /\ UNCHANGED <<k8s, eips, made, given, refs, target>> /\ NoFault

SyncFails ==
    /\ Finds({"available"})
    /\ \/ /\ SetTags(gws[w.st.nat].tags \union w.want.tags)
          /\ Fault("error") \/ Fault("lost")
       \/ SetTags(w.want.tags) /\ Fault("lost")
    /\ Report
    /\ UNCHANGED <<k8s, eips, made, given, refs, target>>

\* Mutated form: a failed gateway is waited for like a pending one.
PendingOrFailed ==
    /\ Finds({"pending", "failed"})
    /\ Report
    /\ UNCHANGED <<k8s, aws>> /\ NoFault

StillPending ==
    /\ Finds({"pending"})
    /\ Report
    /\ UNCHANGED <<k8s, aws>> /\ NoFault

\* Anything else, "deleting" included, is replaced.  The identifiers are
\* dropped when AWS still describes the old gateway.
NoGateway ==
    /\ step.at = "read" /\ Resolved(w.want) # None
    /\ ~InState(w.st.nat, {"available", "pending"})
    /\ Create(IF Known(w.st.nat) THEN With(w, None, None) ELSE w)
    /\ UNCHANGED <<k8s, gws, eips, made, given, refs>> /\ NoFault

AllocateAddress ==
    /\ step.at = "allocate" /\ given < MaxIds
    /\ given' = given + 1
    /\ eips' = eips \union {given'}
    /\ \/ GotoWith("create", w, given') /\ NoFault
       \/ Report /\ Fault("lost")
    /\ UNCHANGED <<k8s, gws, made, refs, target>>

CreateNatGateway ==
    /\ step.at = "create" /\ made < MaxIds
    /\ made' = made + 1
    /\ gws' = [g \in DOMAIN gws \union {made'} |->
                 IF g = made'
                 THEN [state |-> "pending", eip |-> step.local,
                       subnet |-> target, tags |-> w.want.tags]
                 ELSE gws[g]]
    /\ \/ Save(With(w, made', step.local), "report", "report") /\ NoFault
       \/ GotoWith("undo", w, step.local) /\ Fault("lost")
    /\ UNCHANGED <<k8s, eips, given, refs, target>>

CreateRefused ==
    /\ step.at = "create"
    /\ GotoWith("undo", w, step.local)
    /\ Fault("refused")
    /\ UNCHANGED <<k8s, aws>>

Release(e) == IF InUse(e) THEN UNCHANGED eips ELSE eips' = eips \ {e}

\* Mutated form: the address is kept when the gateway could not be created.
KeepAddress ==
    /\ step.at = "undo"
    /\ Report
    /\ UNCHANGED <<k8s, aws>> /\ NoFault

\* Whatever ReleaseAddress answers, the error of the create is reported.
UndoAllocate ==
    /\ step.at = "undo"
    /\ Report
    /\ \/ Release(step.local) /\ NoFault
       \/ UNCHANGED eips /\ Fault("error")
    /\ UNCHANGED <<k8s, gws, made, given, refs, target>>

CallError ==
    /\ \/ step.at = "allocate" /\ Report
       \/ step.at = "read" /\ Resolved(w.want) # None /\ Report
       \/ step.at \in {"deleteGateway", "deleteAddress"} /\ Return
    /\ Fault("error")
    /\ UNCHANGED <<k8s, aws>>

-----------------------------------------------------------------------------
(* The delete path of Reconcile.                                            *)

\* adoptNatGateway: what the lookup by subnet and tags returns.
Candidates ==
    {g \in DOMAIN gws : gws[g].state # "deleted" /\ Matches(g, w.want)}

\* Mutated form: no lookup when the status has no identifier.
DeleteWithoutLookup ==
    /\ step.at = "delete"
    /\ Goto(IF w.st.nat = None THEN "release" ELSE "deleteGateway", w)
    /\ UNCHANGED <<k8s, aws>> /\ NoFault

Adopt ==
    /\ step.at = "delete"
    /\ IF w.st.nat # None
       THEN Goto("deleteGateway", w)
       ELSE IF Cardinality(Candidates) = 1
            THEN \E g \in Candidates :
                    Goto("deleteGateway",
                         With(w, g, IF gws[g].eip # None THEN gws[g].eip
                                                         ELSE w.st.eip))
            ELSE Goto("release", w)
    /\ UNCHANGED <<k8s, aws>> /\ NoFault

\* The lookup is made and fails.
AdoptError ==
    /\ step.at = "delete" /\ w.st.nat = None /\ Resolved(w.want) # None
    /\ Return
    /\ Fault("error")
    /\ UNCHANGED <<k8s, aws>>

DeleteNatGateway ==
    /\ step.at = "deleteGateway"
    /\ gws' = IF InState(w.st.nat, {"pending", "available", "failed"})
              THEN [gws EXCEPT ![w.st.nat].state = "deleting"] ELSE gws
    /\ Goto(IF w.st.eip = None THEN "release" ELSE "await", w)
    /\ UNCHANGED <<k8s, eips, made, given, refs, target>> /\ NoFault

\* Still deleting: one bare status update, and look again in 15 seconds.
AwaitDeleted ==
    /\ step.at = "await"
    /\ Known(w.st.nat) /\ ~InState(w.st.nat, {"deleted", "failed"})
    /\ IF wfresh /\ api.exists
       THEN api' = [api EXCEPT !.st = w.st] /\ cfresh' = FALSE
       ELSE UNCHANGED <<api, cfresh>>
    /\ Return
    /\ UNCHANGED <<cache, aws>> /\ NoFault

\* Mutated form: the address is not released with the gateway.
ForgetAddress ==
    /\ step.at = "await"
    /\ Goto("release", w)
    /\ UNCHANGED <<k8s, aws>> /\ NoFault

\* A failed describe goes on to the release too.
GatewayDeleted ==
    /\ step.at = "await"
    /\ \/ ~Known(w.st.nat) /\ NoFault
       \/ InState(w.st.nat, {"deleted", "failed"}) /\ NoFault
       \/ Fault("error")
    /\ Goto("deleteAddress", w)
    /\ UNCHANGED <<k8s, aws>>

ReleaseAddress ==
    /\ step.at = "deleteAddress"
    /\ Release(w.st.eip)
    /\ IF InUse(w.st.eip) THEN Return ELSE Goto("release", w)
    /\ UNCHANGED <<k8s, gws, made, given, refs, target>> /\ NoFault

-----------------------------------------------------------------------------
(* AWS.                                                                     *)

Move(from, to) ==
    \E g \in DOMAIN gws :
        gws[g].state \in from /\ gws' = [gws EXCEPT ![g].state = to]

AwsAvailable ==
    Move({"pending"}, "available") /\ NoFault
        /\ UNCHANGED <<k8s, worker, eips, made, given, refs, target>>
AwsDeleted ==
    Move({"deleting"}, "deleted") /\ NoFault
        /\ UNCHANGED <<k8s, worker, eips, made, given, refs, target>>
AwsFailed ==
    Move({"pending"}, "failed") /\ Fault("failure")
        /\ UNCHANGED <<k8s, worker, eips, made, given, refs, target>>
ExternalDelete ==
    Move({"pending", "available"}, "deleting") /\ Fault("externalDelete")
        /\ UNCHANGED <<k8s, worker, eips, made, given, refs, target>>

\* A deleted or failed gateway is described for about an hour.
AwsForget ==
    /\ \E g \in DOMAIN gws :
        /\ gws[g].state \in {"deleted", "failed"}
        /\ gws' = [h \in DOMAIN gws \ {g} |-> gws[h]]
    /\ UNCHANGED <<k8s, worker, eips, made, given, refs, target>> /\ NoFault

-----------------------------------------------------------------------------
(* The Subnet CRs.                                                          *)

\* One is deleted, loses its identifier, or comes to name another subnet.
SubnetChanges ==
    /\ \E ref \in Subnets, place \in Places :
        refs[ref] # place /\ refs' = [refs EXCEPT ![ref] = place]
    /\ Fault("dependency")
    /\ UNCHANGED <<k8s, worker, gws, eips, made, given, target>>

SubnetReady ==
    /\ \E ref \in Subnets, place \in Subnets :
        refs[ref] = None /\ refs' = [refs EXCEPT ![ref] = place]
    /\ UNCHANGED <<k8s, worker, gws, eips, made, given, target>> /\ NoFault

-----------------------------------------------------------------------------
Init ==
    /\ InitKube(BlankStatus)
    /\ gws = [g \in {} |-> g] /\ eips = {} /\ made = 0 /\ given = 0
    /\ refs = [ref \in Subnets |-> ref] /\ target = None

Reconcile == SharedWork /\ UNCHANGED aws
Work ==
    \/ Reconcile
    \/ Unresolved \/ Available \/ StillPending \/ NoGateway
    \/ AllocateAddress \/ CreateNatGateway \/ UndoAllocate
    \/ Adopt \/ DeleteNatGateway \/ AwaitDeleted
    \/ GatewayDeleted \/ ReleaseAddress

Outside == (PersistError \/ Crash \/ Users) /\ UNCHANGED aws
WatchDelivers == CacheSync /\ UNCHANGED aws
Handlers == AwsAvailable \/ AwsDeleted

Next ==
    \/ Work \/ SyncFails \/ CreateRefused \/ CallError \/ AdoptError
    \/ Outside \/ WatchDelivers
    \/ Handlers \/ AwsFailed \/ AwsForget \/ ExternalDelete
    \/ SubnetChanges \/ SubnetReady

Spec == Init /\ [][Next]_vars

(* Every return of Reconcile leads to another one; the watch catches up in  *)
(* the end, and again and again before a reconcile starts; AWS finishes.    *)
FairSpec ==
    /\ Spec
    /\ WF_vars(Work) /\ WF_vars(Handlers)
    /\ WF_vars(WatchDelivers) /\ SF_vars(step.at = "idle" /\ WatchDelivers)

-----------------------------------------------------------------------------
(* Properties.                                                              *)

LocalLabels == {"create", "undo"}
Labels == {"idle", "save", "addFinalizer", "read", "delete", "release",
           "allocate", "create", "undo", "deleteGateway", "await",
           "deleteAddress"}
Exits == {"idle", "report"}

\* Every variable has its type, and only the labels between the allocation of
\* an address and the creation of its gateway have one at hand.
TypeOK ==
    /\ KubeOK(Statuses, Labels, Exits)
    /\ step.local # 0 => step.at \in LocalLabels /\ step.local \in Ids
    /\ DOMAIN gws \subseteq Ids /\ \A g \in DOMAIN gws : gws[g] \in Gateways
    /\ eips \subseteq Ids /\ made \in 0 .. MaxIds /\ given \in 0 .. MaxIds
    /\ refs \in [Subnets -> Places] /\ target \in Places

Running == {g \in DOMAIN gws : gws[g].state \in {"pending", "available"}}

\* The worker's copy, or the stored status, names this.
InHand(field, x) ==
    api.st[field] = x \/ (step.at # "idle" /\ w.st[field] = x)

\* One call or write fails, or the creation is refused, and nothing else.
OneBadCall == FreeOf(AllFaults \ {"error", "refused"}) /\ scenario.most = 1

\* No one failed call, failed status write or refused creation loses track of
\* what exists in AWS: every running gateway and every address is named by
\* the stored status or held by the worker, whose second write repairs a
\* failed first one.
Accounted == OneBadCall =>
    /\ \A g \in Running : InHand("nat", g)
    /\ \A e \in eips : InHand("eip", e) \/ step.local = e

-----------------------------------------------------------------------------
(* What makes this inductive, and the release of the finalizer safe.        *)

\* The path of the deletion, and its labels after DeleteNatGateway.
Removing == {"delete", "deleteGateway", "await", "deleteAddress", "release"}
Waiting  == {"await", "deleteAddress"}

\* Identifiers are given out once, and none before the finalizer is stored.
GivenOut ==
    /\ DOMAIN gws \subseteq 1 .. made /\ eips \subseteq 1 .. given
    /\ api.st.nat <= made /\ cache.st.nat <= made
    /\ step.at # "idle" => w.st.nat <= made
    /\ ~api.finalizer => made = 0

\* Once the worker of a CR that is not abandoned has deleted what its copy
\* names, found it or not, this does not run; a current copy names what the
\* status does, if that names anything, and has the spec.
Released == step.at = "release" /\ ~w.abandon
ReleaseEarned ==
    /\ step.at \in Waiting \/ Released => w.st.nat \notin Running
    /\ step.at \in Waiting \union {"deleteGateway"} => w.st.nat # None
    /\ step.at \in Removing /\ wfresh =>
          api.st.nat \in {w.st.nat, None} /\ w.want = api.want

\* The Subnet CRs keep their identifiers.
Settled == FreeOf({"dependency"})

\* A gateway that is the only one ever created does not escape the lookup when
\* the copy's spec describes it.
SoleFound == Settled /\ Released /\ made = 1 =>
    \A g \in Running : ~Matches(g, w.want)

\* The spec of a CR that is not edited describes every gateway made for it.
Unedited == "edit" \notin scenario.users =>
    /\ cache.want = api.want /\ (step.at # "idle" => w.want = api.want)
    /\ step.at \in {"allocate", "create"} => target = Resolved(api.want)
    /\ \A g \in DOMAIN gws : Matches(g, api.want)
Described == Settled => refs = [ref \in Subnets |-> ref] /\ Unedited

\* The status that the worker goes by.
Held == (IF step.at = "idle" THEN api ELSE w).st
AsStored == w.st.nat = api.st.nat /\ w.st.eip = api.st.eip

\* After one bad call at most the worker knows all there is, the status does
\* unless a write of it cannot fail any more, and nothing is taken away before
\* the deletion.
Attentive == OneBadCall =>
    /\ DOMAIN gws \subseteq {Held.nat} /\ eips \subseteq {Held.eip, step.local}
    /\ Held.nat = None => Held.eip = None
    /\ step.at \notin {"idle", "save"} => AsStored
    /\ step.at = "save" /\ step.err = "idle" => AsStored \/ faults = 1
    /\ ~cache.deleting \/ step.at \notin Removing \union {"idle"} =>
          /\ DOMAIN gws = Running
          /\ Held.nat # None => Held.nat \in Running
    /\ step.at \in {"allocate", "create", "undo"} => Held.nat = None
    /\ step.at = "undo" => faults = 1
    /\ Released => eips = {}

\* The gateway's state is well formed and nothing in AWS is forgotten, with
\* what keeps this so between the steps.
GatewayInv ==
    /\ TypeOK /\ Protocol(Removing) /\ GivenOut
    /\ ReleaseEarned /\ SoleFound /\ Described /\ Attentive
    /\ Accounted

\* After no more than one failed call, neither a running gateway nor an
\* address remains in AWS when the finalizer goes from a CR that was not
\* abandoned.
ReleasedClean ==
    [][OneBadCall /\ api.exists /\ ~api'.exists /\ api.finalizer /\ ~api.abandon
         => Running = {} /\ eips = {}]_vars

\* Even when the identifier of the only gateway ever created was lost (crash,
\* lost answer, lost status write, stale cache), deletion finds it again, by the
\* subnet and the tags of the last spec: a gateway that still runs is none that
\* these describe, and there is no such gateway unless the spec was edited.
\* Where the subnet reference stops resolving, the lookup is skipped and the
\* code promises nothing.
SoleGatewayRemoved ==
    Settled /\ ~api.exists /\ ~api.abandon /\ made = 1 =>
        /\ \A g \in Running : ~Matches(g, api.want)
        /\ "edit" \notin scenario.users => Running = {}

\* When edits and faults have stopped, a CR under deletion is gone, and any
\* other whose subnet reference resolves names an available gateway with the
\* spec's tags and has its generation observed, for good.
Converges ==
    <>[](\/ ~api.exists
         \/ /\ ~api.deleting
            /\ \/ Resolved(api.want) = None
               \/ /\ InState(api.st.nat, {"available"})
                  /\ gws[api.st.nat].tags = api.want.tags
                  /\ api.st.obsGen = api.gen)

\* The life of a managed resource: calls are the gateways created.
Managed == INSTANCE ManagedResource WITH
    Calls <- Ids,
    phase <- Phase,
    keep  <- api.abandon,
    calls <- 1 .. made,
    owned <- api.st.nat \in Running

\* The kind implements ManagedResource, whatever fails.
ImplementsManaged == Managed!Spec

=============================================================================
