------------------------------ MODULE Peering ------------------------------
(***************************************************************************)
(* The VPCPeeringConnection kind (vpcpeeringconnection_controller.go): a   *)
(* handshake of two accounts.  The requester asks, the accepter agrees or  *)
(* not, either may delete, and the operator may act for both: it accepts   *)
(* in the peer's account when spec.autoAccept or accepterProviderRef says  *)
(* so.  The identifier is the only handle on the connection.               *)
(***************************************************************************)
EXTENDS Reconciler

CONSTANT MaxIds   \* bound on the connections AWS gives out

ASSUME PeeringAssumption ==
    MaxIds \in Nat /\ Wants \subseteq {"auto", "manual"}

VARIABLES
    pcx,     \* AWS: identifier -> state of a connection it remembers
    made,    \* AWS: how many connections it has created
    agreed   \* AWS: the connections that were active once

aws  == <<pcx, made, agreed>>
vars == <<api, cache, cfresh, w, wfresh, step, faults, scenario,
          pcx, made, agreed>>

Ids  == 1 .. MaxIds
None == 0

\* "ended" stands for rejected, expired and failed.
Transient == {"initiating", "pending", "provisioning"}
Alive     == Transient \union {"active"}
States    == Alive \union {"ended", "deleting", "deleted"}

Statuses == [id : Ids \union {None}, code : States \union {""},
             obsGen : Nat, ready : BOOLEAN]
BlankStatus == [id |-> None, code |-> "", obsGen |-> 0, ready |-> FALSE]

InState(p, states) == p \in DOMAIN pcx /\ pcx[p] \in states
Live == {p \in DOMAIN pcx : pcx[p] \in Alive}

Become(p, state) == pcx' = [pcx EXCEPT ![p] = state]

-----------------------------------------------------------------------------
(* reconcileVPCPeeringConnection: find the connection or ask for one.       *)

\* Mutated form: a connection AWS no longer knows is an error, not a gap.
DescribeKnown ==
    /\ step.at = "read"
    /\ IF w.st.id = None THEN Goto("create", w)
       ELSE IF w.st.id \in DOMAIN pcx
            THEN GotoWith("described", w, pcx[w.st.id]) ELSE Report
    /\ UNCHANGED <<k8s, aws>> /\ NoFault

Describe ==
    /\ step.at = "read"
    /\ IF InState(w.st.id, Alive \union {"ended"})
       THEN GotoWith("described", w, pcx[w.st.id])
       ELSE Goto("create", [w EXCEPT !.st.id = None])
    /\ UNCHANGED <<k8s, aws>> /\ NoFault

\* AWS may answer a second request for the same two VPCs with the first one's
\* connection, as long as that lives; the code counts on neither.
Requested(p, state) ==
    \/ Save([w EXCEPT !.st.id = p, !.st.code = state], "created", "report")
       /\ NoFault
    \/ Report /\ Fault("lost")

\* Mutated form: the identifier is left to the status write at the end.
CreateUnsaved ==
    /\ step.at = "create" /\ made < MaxIds
    /\ made' = made + 1
    /\ pcx' = (made' :> "initiating") @@ pcx
    /\ GotoWith("judge", w, "initiating") /\ NoFault
    /\ UNCHANGED <<k8s, agreed>>

Create ==
    /\ step.at = "create" /\ made < MaxIds
    /\ made' = made + 1
    /\ pcx' = [p \in DOMAIN pcx \union {made'} |->
                 IF p = made' THEN "initiating" ELSE pcx[p]]
    /\ Requested(made', "initiating")
    /\ UNCHANGED <<k8s, agreed>>

CreateAgain ==
    /\ step.at = "create"
    /\ \E p \in Live : Requested(p, pcx[p])
    /\ UNCHANGED <<k8s, aws>>

-----------------------------------------------------------------------------
(* Accept for the other side when asked to, then report what AWS said.      *)

\* The state of the connection as last described, or as created.
Code == IF step.at = "created" THEN w.st.code ELSE step.local
Found == step.at \in {"created", "described"}
Acceptable == Found /\ Code = "pending" /\ w.want = "auto"
Judged == step.at = "judge" \/ (Found /\ ~Acceptable)

\* In the accepter's account.  Only a pending request can be accepted.
Accept ==
    /\ Acceptable
    /\ IF InState(w.st.id, {"pending"})
       THEN Become(w.st.id, "provisioning") /\ Goto("redescribe", w)
       ELSE UNCHANGED pcx /\ Report
    /\ UNCHANGED <<k8s, made, agreed>> /\ NoFault

\* A failed or empty answer leaves the state as described before.
DescribeAgain ==
    /\ step.at = "redescribe"
    /\ \/ /\ w.st.id \in DOMAIN pcx /\ NoFault
          /\ GotoWith("judge", w, pcx[w.st.id])
       \/ /\ w.st.id \notin DOMAIN pcx /\ NoFault
          /\ GotoWith("judge", w, "pending")
       \/ GotoWith("judge", w, "pending") /\ Fault("error")
    /\ UNCHANGED <<k8s, aws>>

WithCode == [w EXCEPT !.st.code = Code]

\* Mutated form: an accepted connection counts as active.
ActiveOrAccepted ==
    /\ Judged /\ Code \in {"active", "provisioning"}
    /\ Save(ReadyNow(Observed(WithCode)), "idle", "report")
    /\ UNCHANGED <<k8s, aws>> /\ NoFault

Active ==
    /\ Judged /\ Code = "active"
    /\ Save(ReadyNow(Observed(WithCode)), "idle", "report")
    /\ UNCHANGED <<k8s, aws>> /\ NoFault

\* Look again in 30 seconds.
Waiting ==
    /\ Judged /\ Code \in Transient
    /\ Save(NotReady(WithCode), "idle", "report")
    /\ UNCHANGED <<k8s, aws>> /\ NoFault

Ended ==
    /\ Judged /\ Code \in {"ended", "deleting", "deleted"}
    /\ Continue("report", WithCode, wfresh)
    /\ UNCHANGED <<k8s, aws>> /\ NoFault

CallError ==
    /\ \/ step.at \in {"read", "create"} \/ Acceptable
    /\ Report
    /\ Fault("error")
    /\ UNCHANGED <<k8s, aws>>

-----------------------------------------------------------------------------
(* deleteVPCPeeringConnection.                                              *)

\* Mutated form: the finalizer goes whatever AWS answers.
DeleteAnyhow ==
    /\ step.at = "delete"
    /\ \/ Become(w.st.id, "deleting") /\ InState(w.st.id, Alive)
       \/ UNCHANGED pcx
    /\ Goto("release", w)
    /\ UNCHANGED <<k8s, made, agreed>> /\ NoFault

\* Without an identifier there is nothing to look for; AWS accepts the
\* deletion of a live connection, and one it does not know is done.
Delete ==
    /\ step.at = "delete"
    /\ IF InState(w.st.id, Alive) THEN Become(w.st.id, "deleting")
       ELSE UNCHANGED pcx
    /\ Goto("release", w)
    /\ ~InState(w.st.id, {"ended"})
    /\ UNCHANGED <<k8s, made, agreed>> /\ NoFault

\* AWS does not delete a rejected or failed connection; it forgets it.
DeleteRefused ==
    /\ step.at = "delete"
    /\ \/ InState(w.st.id, {"ended"}) /\ NoFault
       \/ w.st.id # None /\ Fault("error")
    /\ Return
    /\ UNCHANGED <<k8s, aws>>

-----------------------------------------------------------------------------
(* AWS and the other account.                                               *)

Move(from, to) ==
    /\ \E p \in DOMAIN pcx : pcx[p] \in from /\ Become(p, to)
    /\ UNCHANGED <<k8s, worker, made>>

AwsReady ==
    /\ \E p \in DOMAIN pcx : /\ pcx[p] = "provisioning" /\ Become(p, "active")
                             /\ agreed' = agreed \union {p}
    /\ UNCHANGED <<k8s, worker, made>> /\ NoFault
AwsPending == Move({"initiating"}, "pending") /\ UNCHANGED agreed /\ NoFault
AwsDeleted == Move({"deleting"}, "deleted") /\ UNCHANGED agreed /\ NoFault
AwsFailed ==
    Move({"initiating"}, "ended") /\ UNCHANGED agreed /\ Fault("failure")

PeerAccepts ==
    Move({"pending"}, "provisioning") /\ UNCHANGED agreed /\ NoFault
\* Rejected, or left alone for a week.
PeerRejects ==
    Move({"pending"}, "ended") /\ UNCHANGED agreed /\ Fault("refused")
ExternalDelete ==
    Move(Alive, "deleting") /\ UNCHANGED agreed /\ Fault("externalDelete")

\* What ended or was deleted is described for hours or days.
AwsForget ==
    /\ \E p \in DOMAIN pcx :
        /\ pcx[p] \in {"ended", "deleted"}
        /\ pcx' = [q \in DOMAIN pcx \ {p} |-> pcx[q]]
    /\ UNCHANGED <<k8s, worker, made, agreed>> /\ NoFault

-----------------------------------------------------------------------------
Init ==
    /\ InitKube(BlankStatus)
    /\ pcx = [p \in {} |-> p] /\ made = 0 /\ agreed = {}

Reconcile == SharedWork /\ UNCHANGED aws
Work ==
    \/ Reconcile
    \/ Describe \/ Create \/ CreateAgain \/ Accept \/ DescribeAgain
    \/ Active \/ Waiting \/ Ended \/ Delete \/ DeleteRefused

Outside == (PersistError \/ Crash \/ Users) /\ UNCHANGED aws
WatchDelivers == CacheSync /\ UNCHANGED aws
Handlers == AwsReady \/ AwsPending \/ AwsDeleted \/ AwsForget
Peer == PeerAccepts \/ PeerRejects \/ ExternalDelete

Next ==
    \/ Work \/ CallError \/ Outside \/ WatchDelivers
    \/ Handlers \/ AwsFailed \/ Peer

Spec == Init /\ [][Next]_vars

(* As in NatGateway; nothing makes the other account do anything.           *)
FairSpec ==
    /\ Spec
    /\ WF_vars(Work) /\ WF_vars(Handlers)
    /\ WF_vars(WatchDelivers) /\ SF_vars(step.at = "idle" /\ WatchDelivers)

-----------------------------------------------------------------------------
(* Properties.                                                              *)

Labels == {"idle", "save", "addFinalizer", "read", "delete", "release",
           "create", "created", "described", "redescribe", "judge"}
Exits == {"idle", "created"}

\* Every variable has its type, and a state is at hand where it is needed.
TypeOK ==
    /\ KubeOK(Statuses, Labels, Exits)
    /\ step.at \in {"described", "judge"} => step.local \in States
    /\ step.at = "created" => w.st.code \in States
    /\ DOMAIN pcx \subseteq Ids /\ \A p \in DOMAIN pcx : pcx[p] \in States
    /\ made \in 0 .. MaxIds /\ agreed \subseteq Ids

\* Both sides agreed to every connection a Ready status names, as long as
\* nobody deletes connections behind the operator's back.
ReadyOnlyAgreed ==
    FreeOf({"externalDelete"}) /\ api.exists /\ api.st.ready
        => api.st.id \in agreed

\* The path of the deletion.
Removing == {"delete", "release"}

\* A copy is released only when the connection it names is not alive, and a
\* current copy on that path names the one that is stored.
ReleaseEarned ==
    /\ step.at = "release" /\ ~w.abandon => w.st.id \notin Live
    /\ step.at \in Removing /\ wfresh => w.st = api.st

\* What AWS gave out, and what it says of the connection at hand.
Judging == step.at \in {"described", "judge"}
NewlyCreated == step.at = "created" \/ (step.at = "save" /\ step.ok = "created")
GivenOut ==
    /\ DOMAIN pcx \union agreed \subseteq 1 .. made
    /\ \A p \in DOMAIN pcx : pcx[p] = "active" => p \in agreed
    /\ Judging /\ step.local = "active" => w.st.id \in agreed
    /\ NewlyCreated =>
          w.st.code \in Alive /\ (w.st.code = "active" => w.st.id \in agreed)

\* An agreement lasts until the operator deletes, so that no worker asks for a
\* second connection with a copy that is Ready.
AgreedOn(cr) == cr.st.ready => cr.st.id \in agreed
Agreement == FreeOf({"externalDelete"}) =>
    /\ AgreedOn(api) /\ AgreedOn(cache) /\ (step.at # "idle" => AgreedOn(w))
    /\ step.at = "create" => ~w.st.ready
    /\ ~cache.deleting \/ step.at \notin Removing \union {"idle"} =>
          \A p \in agreed : InState(p, {"active"})

\* A scenario in which the operator may lose the outcome of one call or write
\* at most.
Careful == FreeOf({"crash", "lost", "lag"}) /\ scenario.most = 1

\* The only connection alive is then the one of the worker's copy, or of the
\* status while there is no worker, and a write that would lose it cannot fail.
Attentive == Careful =>
    /\ Live \subseteq {(IF step.at = "idle" THEN api ELSE w).st.id}
    /\ step.at \notin {"idle", "create", "save"} => w.st.id = api.st.id
    /\ step.at = "create" => Live = {}
    /\ step.at = "save" /\ step.err = "idle" =>
          faults = 1 \/ w.st.id = api.st.id \/ Live = {}

\* The state is well formed and Ready means an agreement, with what keeps this
\* so between the steps.
PeeringInv ==
    /\ TypeOK /\ Protocol(Removing) /\ ReleaseEarned /\ GivenOut
    /\ Agreement /\ Attentive
    /\ ReadyOnlyAgreed

\* When the finalizer goes from a CR that was not abandoned, no connection of
\* it is left between the two networks, unless its identifier was lost.
ReleasedClean ==
    [][Careful /\ api.exists /\ ~api'.exists /\ api.finalizer /\ ~api.abandon
         => Live = {}]_vars

\* When edits and faults have stopped, rejections included, a CR under deletion
\* is gone, and a connection that the operator may accept is active and
\* reported so, for good.
Converges ==
    <>[](\/ ~api.exists
         \/ ~api.deleting /\ api.want = "manual"
         \/ /\ ~api.deleting /\ InState(api.st.id, {"active"})
            /\ api.st.ready /\ api.st.obsGen = api.gen)

\* The life of a managed resource: calls are the connections created.
Managed == INSTANCE ManagedResource WITH
    Calls <- Ids,
    phase <- Phase,
    keep  <- api.abandon,
    calls <- 1 .. made,
    owned <- api.st.id \in Live

\* The kind implements ManagedResource, whatever fails.
ImplementsManaged == Managed!Spec

=============================================================================
