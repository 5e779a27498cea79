----------------------------- MODULE Reconciler -----------------------------
(***************************************************************************)
(* What every native kind's reconciler shares: the outer Reconcile (the    *)
(* same in all *_controller.go files), the status write of helpers.go, the *)
(* informer cache, and the users of one custom resource (CR).              *)
(*                                                                         *)
(* A kind's module EXTENDS this one, declares what AWS keeps, and says     *)
(* what happens from the labels "read" (reconcile<Kind>) and "delete" on.  *)
(* The actions here constrain the variables of this module only.           *)
(***************************************************************************)
EXTENDS Naturals, FiniteSets, TLC

CONSTANTS
    Wants,      \* the specs a user may write
    Scenarios   \* what may happen around the worker; one holds for a behaviour

AllUsers == {"edit", "abandon", "delete"}

\* crash: the process dies.  error: an API write or an AWS call fails without
\* effect.  lost: an AWS call takes effect and its answer is lost.  lag: the
\* cache is behind for longer than a reconcile can wait.  dependency: a CR that
\* the spec refers to changes.  The others are AWS's.
AllFaults == {"crash", "error", "lost", "lag", "dependency",
              "refused", "failure", "externalDelete", "drift"}

\* wants: the specs in use.  users and faults: what they may do.  gens and
\* most: bounds on the generation that edits reach and on how many faults
\* happen.
AreScenarios(set) ==
    \A s \in set :
        /\ DOMAIN s = {"wants", "users", "gens", "faults", "most"}
        /\ s.users \subseteq AllUsers /\ s.gens \in Nat
        /\ s.faults \subseteq AllFaults /\ s.most \in Nat

ASSUME ReconcilerAssumption == AreScenarios(Scenarios)

VARIABLES
    api,     \* the CR as the API server holds it
    cache,   \* the CR as the informer cache last saw it
    cfresh,  \* the cached resourceVersion is the current one
    w,       \* the worker's copy of the CR, NoCopy between reconciles
    wfresh,  \* the copy's resourceVersion is the current one
    step,    \* where the worker is in its reconcile, and its local variable
    faults,  \* how many faults have happened
    scenario \* the scenario of this behaviour

k8s    == <<api, cache, cfresh>>
worker == <<w, wfresh, step>>
kube   == <<api, cache, cfresh, w, wfresh, step, faults, scenario>>

-----------------------------------------------------------------------------
\* A status has at least the fields ready and obsGen.
CRs(Statuses) ==
    [exists : BOOLEAN, gen : Nat, want : Wants, deleting : BOOLEAN,
     finalizer : BOOLEAN, abandon : BOOLEAN, st : Statuses]
NoCopy == [exists |-> FALSE]

\* ok and err say where a status write leads; local is what the handler
\* keeps besides its copy, 0 when nothing.
At(label) == [at |-> label, ok |-> "", err |-> "", local |-> 0]
AtWith(label, x) == [At(label) EXCEPT !.local = x]

NotReady(cr) == [cr EXCEPT !.st.ready = FALSE]
ReadyNow(cr) == [cr EXCEPT !.st.ready = TRUE]
Observed(cr) == [cr EXCEPT !.st.obsGen = cr.gen]

Fault(kind) ==
    /\ kind \in scenario.faults /\ faults < scenario.most
    /\ faults' = faults + 1 /\ UNCHANGED scenario
NoFault == UNCHANGED <<faults, scenario>>

\* In a scenario where these faults do not happen.
FreeOf(kinds) == scenario.faults \intersect kinds = {}

\* Write the copy's status next; go on at ok, or at err if that fails.
Write(copy, ok, err, fresh) ==
    /\ step' = [at |-> "save", ok |-> ok, err |-> err, local |-> 0]
    /\ w' = copy /\ wfresh' = fresh
Save(copy, ok, err) == Write(copy, ok, err, wfresh)

Return == step' = At("idle") /\ w' = NoCopy /\ wfresh' = FALSE

\* "report" sets Ready=False and returns, whether that write succeeds or not.
Continue(exit, copy, fresh) ==
    CASE exit = "idle"   -> Return
      [] exit = "report" -> Write(NotReady(copy), "idle", "idle", fresh)
      [] OTHER -> step' = At(exit) /\ w' = copy /\ wfresh' = fresh

Goto(label, copy) == step' = At(label) /\ w' = copy /\ UNCHANGED wfresh
GotoWith(label, copy, x) ==
    step' = AtWith(label, x) /\ w' = copy /\ UNCHANGED wfresh
Report == Continue("report", w, wfresh)

-----------------------------------------------------------------------------
(* Reconcile: read the cached CR and choose what to do with it.             *)

Start(label) ==
    /\ step.at = "idle" /\ cache.exists
    /\ Continue(label, cache, cfresh)
    /\ IF cfresh THEN NoFault ELSE Fault("lag")
    /\ UNCHANGED k8s

ReconcileAbandoned ==
    /\ cache.deleting /\ cache.finalizer /\ cache.abandon
    /\ Start("release")

ReconcileDeleted ==
    /\ cache.deleting /\ cache.finalizer /\ ~cache.abandon
    /\ Start("delete")

ReconcileNew ==
    /\ ~cache.deleting /\ ~cache.finalizer
    /\ Start("addFinalizer")

ReconcileExisting ==
    /\ ~cache.deleting /\ cache.finalizer
    /\ Start("read")

\* Update of the whole object: refused unless the copy is current.
AddFinalizer ==
    /\ step.at = "addFinalizer"
    /\ IF wfresh /\ api.exists
       THEN api' = [api EXCEPT !.finalizer = TRUE] /\ cfresh' = FALSE
       ELSE UNCHANGED <<api, cfresh>>
    /\ Return
    /\ UNCHANGED cache /\ NoFault

\* Mutated form: the finalizer is patched away without a resourceVersion.
RemoveFinalizerBlindly ==
    /\ step.at = "release"
    /\ api' = [api EXCEPT !.exists = FALSE] /\ cfresh' = FALSE
    /\ Return
    /\ UNCHANGED cache /\ NoFault

\* Removing the last finalizer of a CR under deletion removes the CR.
RemoveFinalizer ==
    /\ step.at = "release"
    /\ IF wfresh /\ api.exists
       THEN api' = [api EXCEPT !.exists = FALSE] /\ cfresh' = FALSE
       ELSE UNCHANGED <<api, cfresh>>
    /\ Return
    /\ UNCHANGED cache /\ NoFault

-----------------------------------------------------------------------------
(* persistStatus: a conflict refreshes the resourceVersion from the cache   *)
(* and writes the copy's status wholesale; the server answers with the      *)
(* stored object, spec and generation included, which replaces the copy.    *)

Persist ==
    /\ step.at = "save"
    /\ api.exists /\ (wfresh \/ cfresh)
    /\ api' = [api EXCEPT !.st = w.st]
    /\ cfresh' = FALSE
    /\ Continue(step.ok, api', TRUE)
    /\ UNCHANGED cache /\ NoFault

\* The retries are used up before the cache catches up, or the CR is gone.
PersistConflict ==
    /\ step.at = "save"
    /\ \/ ~api.exists /\ NoFault
       \/ api.exists /\ ~wfresh /\ ~cfresh /\ Fault("lag")
    /\ Continue(step.err, w, wfresh)
    /\ UNCHANGED k8s

PersistError ==
    /\ step.at = "save"
    /\ Continue(step.err, w, wfresh)
    /\ Fault("error")
    /\ UNCHANGED k8s

-----------------------------------------------------------------------------
(* The environment of the CR.                                               *)

Crash ==
    /\ step.at # "idle"
    /\ Return
    /\ Fault("crash")
    /\ UNCHANGED k8s

CacheSync ==
    /\ ~cfresh
    /\ cache' = api /\ cfresh' = TRUE
    /\ UNCHANGED <<api, worker>> /\ NoFault

\* Any write to the CR makes the cache and the worker's copy stale.
UserWrite(cr) ==
    /\ api.exists /\ api' = cr
    /\ cfresh' = FALSE /\ wfresh' = FALSE
    /\ UNCHANGED <<cache, w, step>> /\ NoFault

UserEdit ==
    /\ "edit" \in scenario.users /\ api.gen < scenario.gens
    /\ \E want \in (Wants \intersect scenario.wants) \ {api.want} :
          UserWrite([api EXCEPT !.want = want, !.gen = @ + 1])

UserAbandon ==
    /\ "abandon" \in scenario.users /\ ~api.abandon
    /\ UserWrite([api EXCEPT !.abandon = TRUE])

UserDelete ==
    /\ "delete" \in scenario.users /\ ~api.deleting
    /\ UserWrite(IF api.finalizer
                 THEN [api EXCEPT !.deleting = TRUE, !.gen = @ + 1]
                 ELSE [api EXCEPT !.exists = FALSE])

-----------------------------------------------------------------------------
InitKube(status) ==
    /\ scenario \in Scenarios /\ faults = 0
    /\ \E want \in Wants \intersect scenario.wants :
        api = [exists |-> TRUE, gen |-> 1, want |-> want, deleting |-> FALSE,
               finalizer |-> FALSE, abandon |-> FALSE, st |-> status]
    /\ cache = api /\ cfresh = TRUE
    /\ w = NoCopy /\ wfresh = FALSE /\ step = At("idle")

\* What the worker does whatever the kind, when nothing goes wrong around it.
SharedWork ==
    \/ ReconcileAbandoned \/ ReconcileDeleted
    \/ ReconcileNew \/ ReconcileExisting
    \/ AddFinalizer \/ RemoveFinalizer
    \/ Persist \/ PersistConflict

Users == UserEdit \/ UserAbandon \/ UserDelete

-----------------------------------------------------------------------------
(* What a kind's worker may rely on between two steps, whatever happens     *)
(* around it.  labels: where it can be.  exits: where its status writes     *)
(* lead.  removing: the labels of the path of the deletion.                 *)

WorkerOK(Statuses, labels, exits) ==
    /\ w \in CRs(Statuses) \union {NoCopy} /\ wfresh \in BOOLEAN
    /\ step.at \in labels
    /\ step.at = "save" => step.ok \in exits /\ step.err \in {"idle", "report"}
    /\ w = NoCopy <=> step.at = "idle"

KubeOK(Statuses, labels, exits) ==
    /\ api \in CRs(Statuses) /\ cache \in CRs(Statuses) /\ cfresh \in BOOLEAN
    /\ WorkerOK(Statuses, labels, exits)
    /\ scenario \in Scenarios /\ faults \in 0 .. scenario.most

\* Nothing but AddFinalizer happens before the finalizer is stored.
FinalizerHeld ==
    /\ cache.finalizer => api.finalizer
    /\ api.deleting => api.finalizer
    /\ step.at \notin {"idle", "addFinalizer"} => api.finalizer

\* A CR is released only by a worker whose cache shows the deletion, and from
\* then on every reconcile takes the path of the deletion.
DeletionSeen(removing) ==
    /\ cache.deleting => api.deleting /\ cache.finalizer
    /\ step.at \in removing => cache.deleting
    /\ api.finalizer /\ ~api.exists =>
          cache.deleting /\ step.at \in removing \union {"idle"}

\* A copy is current or stale, and knows of no abandonment that is not stored.
CopyIsCurrent ==
    /\ cfresh => cache = api
    /\ cache.abandon => api.abandon
    /\ step.at # "idle" => (w.abandon => api.abandon)

Protocol(removing) == FinalizerHeld /\ DeletionSeen(removing) /\ CopyIsCurrent

\* Where a CR is in its life, as ManagedResource sees it.
Phase ==
    IF ~api.exists THEN "gone"
    ELSE IF ~api.finalizer THEN "new"
    ELSE IF api.deleting THEN "removing" ELSE "held"

=============================================================================
