-------------------------- MODULE ZoneAssociation --------------------------
(***************************************************************************)
(* The HostedZoneVPCAssociation kind (hostedzonevpcassociation_controller  *)
(* .go): a private hosted zone of one account and a VPC of another.  The   *)
(* zone's account authorizes, the VPC's account associates, and the zone's *)
(* account takes the authorization back.  The identifiers come from the    *)
(* spec and are stored before AWS is asked for anything.                   *)
(***************************************************************************)
EXTENDS Reconciler

CONSTANT CrossAccount   \* spec.vpcProviderRef is set

ASSUME ZoneAssociationAssumption == CrossAccount \in BOOLEAN

VARIABLES
    assoc,   \* Route 53: the VPCs associated with the zone
    auth     \* Route 53: the VPCs that may be associated from their account

aws  == <<assoc, auth>>
vars == <<api, cache, cfresh, w, wfresh, step, faults, scenario,
          assoc, auth>>

None == ""
Statuses == [vpc : Wants \union {None}, obsGen : Nat, ready : BOOLEAN]
BlankStatus == [vpc |-> None, obsGen |-> 0, ready |-> FALSE]

-----------------------------------------------------------------------------
(* reconcileAssociation.  A spec is the VPC it names.  The status write of  *)
(* Resolve brings back the newest spec, but the rest of the reconcile goes  *)
(* on with the VPC resolved before, which the status holds.                 *)

\* Mutated form: the identifiers are stored with the result.
ResolveUnsaved ==
    /\ step.at = "read"
    /\ Goto("get", [w EXCEPT !.st.vpc = w.want])
    /\ UNCHANGED <<k8s, aws>> /\ NoFault

Resolve ==
    /\ step.at = "read"
    /\ Save([w EXCEPT !.st.vpc = w.want], "get", "report")
    /\ UNCHANGED <<k8s, aws>> /\ NoFault

\* A zone or VPC that is referred to by name is missing, which is reported from
\* the copy as it was read, or has no identifier yet, which is waited for.
Unresolved ==
    /\ step.at = "read"
    /\ Report \/ Return
    /\ Fault("dependency")
    /\ UNCHANGED <<k8s, aws>>

\* Mutated form: what was associated once is not looked at again.
GetHostedZoneOnce ==
    /\ step.at = "get"
    /\ Goto(IF w.st.vpc \in assoc \/ w.st.obsGen = w.gen THEN "done"
            ELSE IF CrossAccount THEN "authorize" ELSE "associate", w)
    /\ UNCHANGED <<k8s, aws>> /\ NoFault

GetHostedZone ==
    /\ step.at = "get"
    /\ Goto(IF w.st.vpc \in assoc THEN "done"
            ELSE IF CrossAccount THEN "authorize" ELSE "associate", w)
    /\ UNCHANGED <<k8s, aws>> /\ NoFault

\* In the zone's account; repeating it changes nothing.
Authorize ==
    /\ step.at = "authorize"
    /\ auth' = auth \union {w.st.vpc}
    /\ \/ Goto("associate", w) /\ NoFault
       \/ Report /\ Fault("lost")
    /\ UNCHANGED <<k8s, assoc>>

\* In the VPC's account.  AWS refuses without an authorization; a VPC that
\* is associated already is no error.
Associate ==
    /\ step.at = "associate"
    /\ CrossAccount => w.st.vpc \in auth \union assoc
    /\ assoc' = assoc \union {w.st.vpc}
    /\ \/ Goto(IF CrossAccount THEN "cleanup" ELSE "done", w) /\ NoFault
       \/ Report /\ Fault("lost")
    /\ UNCHANGED <<k8s, auth>>

\* Mutated form: the authorization is left where it is.
KeepAuthorization ==
    /\ step.at = "cleanup"
    /\ Goto("done", w)
    /\ UNCHANGED <<k8s, aws>> /\ NoFault

\* Best effort, whatever the answer.
Cleanup ==
    /\ step.at = "cleanup"
    /\ \/ auth' = auth \ {w.st.vpc} /\ NoFault
       \/ UNCHANGED auth /\ Fault("error")
    /\ Goto("done", w)
    /\ UNCHANGED <<k8s, assoc>>

Synced ==
    /\ step.at = "done"
    /\ Save(ReadyNow(Observed(w)), "idle", "report")
    /\ UNCHANGED <<k8s, aws>> /\ NoFault

\* An AWS call, or the resolver of the other account's provider, fails.
CallError ==
    /\ \/ step.at \in {"get", "authorize", "associate"} /\ Report
       \/ step.at = "delete" /\ w.st.vpc # None /\ Return
    /\ Fault("error")
    /\ UNCHANGED <<k8s, aws>>

\* Mutated form: a failed call does not keep the finalizer.
DisassociateOnce ==
    /\ step.at = "delete"
    /\ \/ assoc' = assoc \ {w.st.vpc} /\ NoFault
       \/ UNCHANGED assoc /\ Fault("error")
    /\ Goto("release", w)
    /\ UNCHANGED <<k8s, auth>>

\* deleteAssociation: what the status names; not associated counts as done.
Disassociate ==
    /\ step.at = "delete"
    /\ assoc' = assoc \ {w.st.vpc}
    /\ \/ Goto("release", w) /\ NoFault
       \/ Return /\ Fault("lost")
    /\ UNCHANGED <<k8s, auth>>

\* Somebody disassociates the VPC.
ExternalDelete ==
    /\ \E v \in assoc : assoc' = assoc \ {v}
    /\ Fault("externalDelete")
    /\ UNCHANGED <<k8s, worker, auth>>

-----------------------------------------------------------------------------
Init == InitKube(BlankStatus) /\ assoc = {} /\ auth = {}

Reconcile == SharedWork /\ UNCHANGED aws
Work ==
    \/ Reconcile
    \/ Resolve \/ GetHostedZone \/ Authorize \/ Associate \/ Cleanup
    \/ Synced \/ Disassociate

Outside == (PersistError \/ Crash \/ Users) /\ UNCHANGED aws
WatchDelivers == CacheSync /\ UNCHANGED aws

Next == Work \/ Unresolved \/ CallError \/ Outside \/ WatchDelivers \/ ExternalDelete

Spec == Init /\ [][Next]_vars

(* As in NatGateway.                                                        *)
FairSpec ==
    /\ Spec
    /\ WF_vars(Work)
    /\ WF_vars(WatchDelivers) /\ SF_vars(step.at = "idle" /\ WatchDelivers)

-----------------------------------------------------------------------------
(* Properties.                                                              *)

Labels == {"idle", "save", "addFinalizer", "read", "delete", "release",
           "get", "authorize", "associate", "cleanup", "done"}
Exits == {"idle", "get"}

\* Every variable has its type.
TypeOK ==
    /\ KubeOK(Statuses, Labels, Exits)
    /\ assoc \subseteq Wants /\ auth \subseteq Wants

\* The spec stays, and what is reported of a reference that does not resolve
\* comes from a copy with the identifiers: a report from one that was read
\* before they were stored takes them out of the status.
Steady ==
    /\ "edit" \notin scenario.users
    /\ FreeOf({"lag"}) \/ FreeOf({"dependency"})

\* As long as that holds, a CR that is gone and was not abandoned leaves no
\* association, whatever crashes, is lost or fails: the identifiers are stored
\* before AWS is asked.
NoOrphan == Steady /\ ~api.exists /\ ~api.abandon => assoc = {}

-----------------------------------------------------------------------------
(* The inductive invariant behind NoOrphan and ImplementsManaged.           *)

Associating == {"get", "authorize", "associate", "cleanup", "done"}
Removing == {"delete", "release"}

\* Nothing is asked of Route 53 before the finalizer is stored.
Untouched == ~api.finalizer => assoc = {} /\ auth = {}

\* On the path of the deletion a copy is either stale or says what is stored,
\* and at its end the association it names is gone unless it is abandoned.
ReleaseEarned ==
    /\ step.at \in Removing /\ wfresh => w.st = api.st
    /\ step.at = "release" => w.abandon \/ w.st.vpc \notin assoc

\* Once resolved, the VPC is in the copy and, when AWS is asked, in the status.
Recorded ==
    /\ step.at = "save" /\ step.ok = "get" => w.st.vpc = w.want
    /\ step.at \in Associating => w.st.vpc \in Wants /\ api.st.vpc = w.st.vpc

\* Meanwhile nothing but the VPC of the spec is ever associated, and then the
\* status names it.
OneVpc ==
    Steady =>
        /\ cache.want = api.want
        /\ step.at # "idle" => w.want = api.want
        /\ step.at = "read" /\ FreeOf({"lag"}) => w.st.vpc = api.st.vpc
        /\ step.at \in Associating => w.st.vpc = api.want
        /\ step.at = "save" => w.st.vpc \in {api.want, api.st.vpc}
        /\ assoc \subseteq {api.want}
        /\ assoc # {} => api.st.vpc = api.want

\* As long as every call and write succeeds, only a reconcile between its
\* request of an authorization and its cleanup leaves one, its own, and only
\* for another account's VPC.
Handshake ==
    FreeOf({"crash", "error", "lost"}) =>
        /\ step.at = "authorize" => CrossAccount
        /\ auth # {} => /\ CrossAccount /\ step.at \in {"associate", "cleanup"}
                       /\ auth = {w.st.vpc}

\* What a reconcile may rely on between its steps, whatever is interleaved with
\* it: well enough for a CR that is gone to have left nothing behind.
Lasting ==
    /\ TypeOK /\ Protocol(Removing) /\ Untouched /\ ReleaseEarned
    /\ Recorded /\ OneVpc /\ NoOrphan

\* With the authorizations, which outlast only what fails.
AssociationInv == Lasting /\ Handshake

-----------------------------------------------------------------------------
(* What the handshake gives back, liveness, and the refinement.             *)

\* When every call and write succeeds, nobody is authorized between two
\* reconciles.
AuthorizationTransient ==
    FreeOf({"crash", "error", "lost"}) /\ step.at = "idle" => auth = {}

\* When edits and faults have stopped, a CR under deletion is gone; for any
\* other the VPC of the spec is associated and the status says so, for good.
Converges ==
    <>[](\/ ~api.exists
         \/ /\ ~api.deleting /\ api.want \in assoc
            /\ api.st = [vpc |-> api.want, obsGen |-> api.gen, ready |-> TRUE])

\* The life of a managed resource: calls are the VPCs known to Route 53.
Managed == INSTANCE ManagedResource WITH
    Calls <- Wants,
    phase <- Phase,
    keep  <- api.abandon,
    calls <- assoc \union auth,
    owned <- api.st.vpc \in assoc

\* The kind implements ManagedResource, whatever fails and whoever edits.
ImplementsManaged == Managed!Spec

=============================================================================
