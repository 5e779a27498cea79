----------------------------- MODULE DBInstance -----------------------------
(***************************************************************************)
(* The DBInstance kind (dbinstance_controller.go).  The spec names the     *)
(* instance, which takes minutes to create, modify and delete; the status  *)
(* only says (by its ARN) whether the operator knows that it exists.       *)
(***************************************************************************)
EXTENDS Reconciler

CONSTANTS
    Values,           \* values of the settings, among them Unset
    EarlierSnapshots  \* an earlier instance of the name may have left its snapshot

Unset == "unset"

\* What an instance is created with, by what becomes of it afterwards.  always:
\* class, storage, multiAZ.  option: what is only sent when it is set, such as
\* windows, monitoring and security groups.  logs: exports to CloudWatch, which
\* are only ever added.  fixed: what is never sent again, such as engineVersion,
\* storageType, port, tags, password and parameter group.
Settings == [always : Values, option : Values, logs : SUBSET Values, fixed : Values,
             protect : BOOLEAN]

\* want.skip is spec.skipFinalSnapshot.
ASSUME DBInstanceAssumption ==
    /\ Unset \in Values /\ EarlierSnapshots \subseteq BOOLEAN
    /\ Wants \subseteq [set : Settings, skip : BOOLEAN]

VARIABLES
    state,     \* RDS: the instance's status, "none" when there is none
    has,       \* RDS: the instance's settings
    snapshot   \* RDS: "<identifier>-final" exists

aws  == <<state, has, snapshot>>
vars == <<api, cache, cfresh, w, wfresh, step, faults, scenario,
          state, has, snapshot>>

\* "other" is every status that IsTransient does not list.
TransientStates == {"creating", "modifying"}
States == TransientStates \union {"none", "available", "other", "deleting"}

Statuses == [arn : BOOLEAN, obsGen : Nat, ready : BOOLEAN]
BlankStatus == [arn |-> FALSE, obsGen |-> 0, ready |-> FALSE]

\* ModifyDBInstance, as updateDBInstance calls it.
Modified(old, set) ==
    [always |-> set.always,
     option |-> IF set.option = Unset THEN old.option ELSE set.option,
     logs |-> old.logs \union set.logs, fixed |-> old.fixed, protect |-> set.protect]

\* Everything of a spec that updateDBInstance sends is in the settings.
Carries(settings, want) ==
    /\ settings.always = want.set.always /\ settings.protect = want.set.protect
    /\ want.set.option # Unset => settings.option = want.set.option
    /\ want.set.logs \subseteq settings.logs

-----------------------------------------------------------------------------
(* reconcileDBInstance.                                                     *)

\* Polled; the status write may fail.
Busy ==
    /\ step.at = "read" /\ w.st.arn /\ state \in TransientStates
    /\ Save(NotReady(w), "idle", "idle")
    /\ UNCHANGED <<k8s, aws>> /\ NoFault

Available ==
    /\ step.at = "read" /\ w.st.arn /\ state = "available"
    /\ IF w.st.obsGen = w.gen
       THEN Save(ReadyNow(w), "idle", "report")
       ELSE Goto("modify", w)
    /\ UNCHANGED <<k8s, aws>> /\ NoFault

\* Every other answer, and no ARN, lead to a create.
Otherwise ==
    /\ step.at = "read"
    /\ w.st.arn => state \in {"none", "other", "deleting"}
    /\ Goto("create", w)
    /\ UNCHANGED <<k8s, aws>> /\ NoFault

\* The ARN goes to the status in a write whose error is ignored.
Create ==
    /\ step.at = "create" /\ state = "none"
    /\ state' = "creating" /\ has' = w.want.set
    /\ \/ Save(NotReady([w EXCEPT !.st.arn = TRUE]), "idle", "idle") /\ NoFault
       \/ Report /\ Fault("lost")
    /\ UNCHANGED <<k8s, snapshot>>

\* DBInstanceAlreadyExists.
CreateRefused ==
    /\ step.at = "create" /\ state # "none"
    /\ Report
    /\ UNCHANGED <<k8s, aws>> /\ NoFault

\* Mutated form: the generation is observed before the instance is modified.
ModifyLater ==
    /\ step.at = "modify"
    /\ Save(ReadyNow(Observed(w)), "idle", "report")
    /\ UNCHANGED <<k8s, aws>> /\ NoFault

Modify ==
    /\ step.at = "modify"
    /\ IF state = "available"
       THEN /\ state' = "modifying" /\ has' = Modified(has, w.want.set)
            /\ \/ Save(ReadyNow(Observed(w)), "idle", "report") /\ NoFault
               \/ Report /\ Fault("lost")
       ELSE Report /\ UNCHANGED <<state, has>> /\ NoFault
    /\ UNCHANGED <<k8s, snapshot>>

\* An AWS call, or the read of the password or of a security group, fails.
CallError ==
    /\ \/ step.at \in {"read", "create", "modify"} /\ Report
       \/ step.at = "delete" /\ Return
    /\ Fault("error")
    /\ UNCHANGED <<k8s, aws>>

-----------------------------------------------------------------------------
(* deleteDBInstance: by the name in the spec, with a final snapshot unless   *)
(* the spec says not to take one.                                           *)

\* RDS does not delete the instance: it is protected, or the final snapshot's
\* name is taken.
Refuses == has.protect \/ (snapshot /\ ~w.want.skip)

Deletable == state \notin {"none", "deleting"} /\ ~Refuses

DeleteInstance ==
    /\ state' = "deleting" /\ snapshot' = (snapshot \/ ~w.want.skip)
    /\ Goto("release", w)

\* Mutated form: an instance whose ARN is not in the status is not deleted.
DeleteKnown ==
    /\ step.at = "delete"
    /\ \/ w.st.arn /\ Deletable /\ DeleteInstance
       \/ (w.st.arn => state = "none") /\ Goto("release", w) /\ UNCHANGED <<state, snapshot>>
    /\ UNCHANGED <<k8s, has>> /\ NoFault

\* Mutated form: an instance that is gone cannot be deleted.
DeleteFound ==
    /\ step.at = "delete"
    /\ \/ Deletable /\ DeleteInstance
       \/ state = "none" /\ Return /\ UNCHANGED <<state, snapshot>>
    /\ UNCHANGED <<k8s, has>> /\ NoFault

Delete ==
    /\ step.at = "delete"
    /\ \/ Deletable /\ DeleteInstance
       \/ state = "none" /\ Goto("release", w) /\ UNCHANGED <<state, snapshot>>
    /\ UNCHANGED <<k8s, has>> /\ NoFault

\* Or the status of the instance forbids a deletion now.
DeleteRefused ==
    /\ step.at = "delete" /\ state # "none"
    /\ state # "available" \/ Refuses
    /\ Return
    /\ UNCHANGED <<k8s, aws>> /\ NoFault

-----------------------------------------------------------------------------
(* RDS.                                                                     *)

Move(from, to) ==
    /\ state \in from /\ state' = to
    /\ UNCHANGED <<k8s, worker, has, snapshot>>

AwsDone == Move(TransientStates \union {"other"}, "available") /\ NoFault
AwsDeleted == Move({"deleting"}, "none") /\ NoFault
\* Storage optimization, a stop, a failure: nothing the operator asked for.
AwsBusy == Move({"available"}, "other") /\ Fault("failure")
ExternalDelete == Move({"available"}, "deleting") /\ Fault("externalDelete")

-----------------------------------------------------------------------------
Init ==
    /\ InitKube(BlankStatus)
    /\ state = "none" /\ has = api.want.set /\ snapshot \in EarlierSnapshots

Reconcile == SharedWork /\ UNCHANGED aws
Work ==
    \/ Reconcile
    \/ Busy \/ Available \/ Otherwise \/ Create \/ CreateRefused \/ Modify
    \/ Delete \/ DeleteRefused

Outside == (PersistError \/ Crash \/ Users) /\ UNCHANGED aws
WatchDelivers == CacheSync /\ UNCHANGED aws
Handlers == AwsDone \/ AwsDeleted

Next ==
    \/ Work \/ CallError \/ Outside \/ WatchDelivers
    \/ Handlers \/ AwsBusy \/ ExternalDelete

Spec == Init /\ [][Next]_vars

(* As in NatGateway.                                                        *)
FairSpec ==
    /\ Spec
    /\ WF_vars(Work) /\ WF_vars(Handlers)
    /\ WF_vars(WatchDelivers) /\ SF_vars(step.at = "idle" /\ WatchDelivers)

-----------------------------------------------------------------------------
(* Properties.                                                              *)

Labels == {"idle", "save", "addFinalizer", "read", "delete", "release",
           "create", "modify"}
Exits == {"idle"}

\* Every variable has its type.
TypeOK ==
    /\ KubeOK(Statuses, Labels, Exits)
    /\ state \in States /\ has \in Settings /\ snapshot \in BOOLEAN

\* A CR that is gone and was not abandoned leaves no instance but one that is
\* being deleted, also when its ARN never reached the status.
NoOrphan == ~api.exists /\ ~api.abandon => state \in {"none", "deleting"}

\* A status Ready in the current generation means that everything of the spec of
\* this generation that updateDBInstance sends at all is in the instance,
\* although it is modified once per generation and never compared, by a worker
\* whose copy may be old.
ObservedMeansApplied ==
    api.exists /\ api.st.ready /\ api.st.obsGen = api.gen
        /\ state \in {"modifying", "available"} => Carries(has, api.want)

\* The path of the deletion.
Removing == {"delete", "release"}

\* No instance before the finalizer, nor on a release that keeps none.
Untouched ==
    /\ ~api.finalizer => state = "none"
    /\ step.at = "release" /\ ~w.abandon => state \in {"none", "deleting"}

\* A copy is never newer than the cache, the cache than the API server, and
\* two of one generation have one spec.
Aged(old, new) == old.gen <= new.gen /\ (old.gen = new.gen => old.want = new.want)
Generations == Aged(cache, api) /\ (step.at # "idle" => Aged(w, cache))

\* No status observes a generation that the worker has not seen.
Seen ==
    /\ api.st.obsGen <= cache.gen /\ cache.st.obsGen <= cache.gen
    /\ step.at # "idle" =>
          /\ api.st.obsGen <= w.gen /\ cache.st.obsGen <= w.gen
          /\ w.st.obsGen <= w.gen

\* A copy that observes its own generation has a spec the instance carries.
Applied(cr) == cr.st.obsGen = cr.gen => Carries(has, cr.want)
Given == Applied(api) /\ Applied(cache) /\ (step.at # "idle" => Applied(w))

\* A CR that is gone left nothing behind, a status never observes a generation
\* whose spec the instance does not carry, as far as updateDBInstance sends it,
\* and what keeps this so between the steps.
InstanceInv ==
    /\ TypeOK /\ Protocol(Removing) /\ Untouched
    /\ Generations /\ Seen /\ Given
    /\ NoOrphan

\* The instance is available with what is sent of the spec of the CR, and the
\* status says so.
InSync ==
    /\ state = "available" /\ Carries(has, api.want)
    /\ api.st = [arn |-> TRUE, obsGen |-> api.gen, ready |-> TRUE]

\* "AWS refuses a delete (for example an RDS instance with deletionProtection:
\* true) and the CR would otherwise be stuck terminating" (README): a spec
\* edited after that is not sent any more.
Stuck ==
    /\ api.deleting /\ ~api.abandon
    /\ state # "none" /\ (has.protect \/ (snapshot /\ ~api.want.skip))

\* When edits and faults have stopped, a CR under deletion is gone, unless RDS
\* refuses to delete its instance and nobody abandons it; and any other is in
\* sync for good, unless the answer to the create may not have reached the status.
Converges ==
    <>[](\/ ~api.exists \/ Stuck
         \/ /\ ~api.deleting
            /\ FreeOf({"crash", "error", "lost", "lag"}) => InSync)

=============================================================================
