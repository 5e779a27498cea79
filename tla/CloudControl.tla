--------------------------- MODULE CloudControl ---------------------------
(***************************************************************************)
(* The engine behind every Cloud Control kind: internal/controller/        *)
(* cc_engine.go for the generated kinds, and its twin for the generic      *)
(* CloudControlResource kind (cloudcontrolresource_controller.go), which   *)
(* differs only in that its spec may name an existing resource to adopt.   *)
(*                                                                         *)
(* One custom resource (CR) is reconciled by one worker against the AWS    *)
(* Cloud Control API.  The worker reads the CR from an informer cache that *)
(* lags the API server, works on a private copy, calls AWS, and writes the *)
(* copy's status back.  Every AWS call and every API write is a step of    *)
(* its own, so that users, the cache, AWS and crashes may act in between.  *)
(***************************************************************************)
EXTENDS Naturals, FiniteSets, Functions, TLC

CONSTANTS
    Keys,            \* top-level properties of the AWS type
    Vals,            \* values of a property
    Wants,           \* the specs a user may write
    CreateOnly,      \* properties AWS refuses to update
    SpecIdentifier,  \* spec.identifier of a CloudControlResource, or NoId
    Expiring,        \* operations whose finished requests AWS may forget
    UserKinds,       \* what users do in this instance, out of AllUsers
    FaultKinds,      \* the faults that may happen, out of AllFaults
    MaxIds,          \* bound on the resources AWS ever creates
    MaxGen,          \* bound on the generations a user's edits reach
    MaxFaults        \* bound on how many faults happen

Ops == {"CREATE", "UPDATE", "DELETE"}
AllUsers == {"edit", "abandon", "delete"}
AllFaults == {"crash", "error", "awsFailure", "downtime",
              "drift", "externalDelete"}
NoId == 0
Ids == 1 .. MaxIds
Props == UNION {[K -> Vals] : K \in SUBSET Keys}

ASSUME CloudControlAssumption ==
    /\ MaxIds \in Nat /\ MaxGen \in Nat /\ MaxFaults \in Nat
    /\ Wants \subseteq Props
    /\ CreateOnly \subseteq Keys
    /\ Expiring \subseteq Ops
    /\ UserKinds \subseteq AllUsers /\ FaultKinds \subseteq AllFaults
    /\ SpecIdentifier \in {NoId, 1} /\ SpecIdentifier <= MaxIds

VARIABLES
    api,     \* the CR as the API server holds it
    cache,   \* the CR as the informer cache last saw it
    cfresh,  \* the cached resourceVersion is the current one
    w,       \* the worker's copy of the CR
    wfresh,  \* the copy's resourceVersion is the current one
    step,    \* where the worker is in its reconcile
    reqs,    \* AWS: client token -> progress of the request it started
    live,    \* AWS: identifier -> a resource that exists
    made,    \* AWS: how many identifiers have been given out
    faults   \* how much of the fault budget is used

k8s    == <<api, cache, cfresh>>
worker == <<w, wfresh, step>>
aws    == <<reqs, live, made>>
vars   == <<api, cache, cfresh, w, wfresh, step, reqs, live, made, faults>>

-----------------------------------------------------------------------------
(* Data.  A client token identifies both the idempotent request and its     *)
(* progress: AWS answers a token it knows with the request it started.      *)

PatchOps == [op : {"add", "replace"}, path : Keys, value : Vals]
Tokens   == [op : Ops, gen : Nat, attempt : Nat, patch : SUBSET PatchOps]
NoToken  == [op |-> "", gen |-> 0, attempt |-> 0, patch |-> {}]

CRs == [exists : BOOLEAN, gen : Nat, want : Props, deleting : BOOLEAN,
        finalizer : BOOLEAN, abandon : BOOLEAN,
        token : Tokens \union {NoToken}, ident : Nat, attempt : Nat,
        obsGen : Nat, ready : BOOLEAN]

\* "GONE" is a FAILED event that DeleteFailureMeansGone recognises.
Statuses  == {"IN_PROGRESS", "SUCCESS", "FAILED", "GONE"}
Requests  == [status : Statuses, id : Nat, want : Props]
Resources == [gen : Nat, props : Props]

\* f with the value v at x, where f had none.
Extend(f, x, v) ==
    [y \in DOMAIN f \union {x} |-> IF y \in DOMAIN f THEN f[y] ELSE v]

\* Mutated form: a property that is missing in AWS is not added back.
BuildPatchReplaceOnly(lv, want) ==
    {[op |-> "replace", path |-> k, value |-> want[k]] :
        k \in {j \in DOMAIN want \intersect DOMAIN lv : lv[j] # want[j]}}

\* The JSON Patch that moves live to desired, as a set of operations.
BuildPatch(lv, want) ==
    {[op |-> IF k \in DOMAIN lv THEN "replace" ELSE "add", path |-> k,
      value |-> want[k]] :
        k \in {j \in DOMAIN want : j \notin DOMAIN lv \/ lv[j] # want[j]}}

ApplyPatch(lv, patch) ==
    [k \in DOMAIN lv \union {o.path : o \in patch} |->
        IF \E o \in patch : o.path = k
        THEN (CHOOSE o \in patch : o.path = k).value ELSE lv[k]]

\* Mutated form: a token that no retry repeats.
ClientTokenRandom(cr, op, patch) ==
    [op |-> op, gen |-> cr.gen, attempt |-> Cardinality(DOMAIN reqs),
     patch |-> patch]

\* Stable for retries of one operation on one generation and attempt.
ClientToken(cr, op, patch) ==
    [op |-> op, gen |-> cr.gen, attempt |-> cr.attempt, patch |-> patch]

Cleared(cr)  == [cr EXCEPT !.token = NoToken]

Failed(cr) == [Cleared(cr) EXCEPT !.attempt = @ + 1]
NotReady(cr) == [cr EXCEPT !.ready = FALSE]

\* st.Identifier is overwritten only by an event that carries one.
Identified(cr, id) == IF id = NoId THEN cr ELSE [cr EXCEPT !.ident = id]

-----------------------------------------------------------------------------
(* The worker's control state.                                              *)

\* Labels with nothing else to remember, labels with a token to call AWS
\* with, and where a status write leads: to a label, or to the next write.
Plain    == {"idle", "addFinalizer", "poll", "get", "delPoll", "check", "release"}
Calling  == {"issue", "track", "delIssue", "delTrack"}
Exits    == {"idle", "get", "check", "release",
             "pending", "fail", "trackFailed", "trackDone"}

Steps == [at : Plain, call : {NoToken}, ok : {""}, err : {""}]
         \union [at : Calling, call : Tokens, ok : {""}, err : {""}]
         \union [at : {"save"}, call : {NoToken}, ok : Exits, err : Exits]

At(label) == [at |-> label, call |-> NoToken, ok |-> "", err |-> ""]

BlankCR == [exists |-> FALSE, gen |-> 0, want |-> [k \in {} |-> 0],
            deleting |-> FALSE, finalizer |-> FALSE, abandon |-> FALSE,
            token |-> NoToken, ident |-> NoId, attempt |-> 0,
            obsGen |-> 0, ready |-> FALSE]

\* Write the copy's status next; then go on at ok, or at err if that fails.
Write(copy, ok, err, fresh) ==
    /\ step' = [at |-> "save", call |-> NoToken, ok |-> ok, err |-> err]
    /\ w' = copy /\ wfresh' = fresh

Save(copy, ok, err) == Write(copy, ok, err, wfresh)

\* An operation still runs: Ready=False, and look again in 30 seconds.
Pending(copy, fresh) == Write(NotReady(copy), "idle", "idle", fresh)

\* An error of reconcile: Ready=False, and retry with backoff.
RecordError(copy, fresh) == Write(NotReady(copy), "idle", "idle", fresh)

\* trackOperation, once it persisted the token of an operation that ended.
TrackFailed(copy, fresh) == Write(Failed(copy), "fail", "fail", fresh)
TrackDone(copy, fresh)   == Write(Cleared(copy), "idle", "fail", fresh)

\* Returning from Reconcile drops the copy.
Return == step' = At("idle") /\ w' = BlankCR /\ wfresh' = FALSE

Continue(exit, copy, fresh) ==
    CASE exit = "idle"        -> Return
      [] exit = "pending"     -> Pending(copy, fresh)
      [] exit = "fail"        -> RecordError(copy, fresh)
      [] exit = "trackFailed" -> TrackFailed(copy, fresh)
      [] exit = "trackDone"   -> TrackDone(copy, fresh)
      [] OTHER -> step' = At(exit) /\ w' = copy /\ wfresh' = fresh

\* Call AWS next, with this client token.
Call(label, copy, token) ==
    /\ step' = [At(label) EXCEPT !.call = token]
    /\ w' = copy
    /\ UNCHANGED wfresh

Fault(kind) ==
    kind \in FaultKinds /\ faults < MaxFaults /\ faults' = faults + 1
NoFault == UNCHANGED faults

-----------------------------------------------------------------------------
(* Reconcile: read the cached CR and choose what to do with it.             *)

Start(label) ==
    /\ step.at = "idle" /\ cache.exists
    /\ Continue(label, cache, cfresh)
    /\ UNCHANGED <<k8s, aws>> /\ NoFault

ReconcileAbandoned ==
    /\ cache.deleting /\ cache.finalizer /\ cache.abandon
    /\ Start("release")

ReconcileDeleted ==
    /\ cache.deleting /\ cache.finalizer /\ ~cache.abandon
    /\ Start(IF cache.token.op = "DELETE" THEN "delPoll" ELSE "check")

ReconcileNew ==
    /\ ~cache.deleting /\ ~cache.finalizer
    /\ Start("addFinalizer")

\* Mutated form: go on reconciling a CR under deletion.
ReconcileIgnoringDeletion ==
    /\ cache.finalizer
    /\ Start(IF cache.token = NoToken THEN "get" ELSE "poll")

ReconcileExisting ==
    /\ ~cache.deleting /\ cache.finalizer
    /\ Start(IF cache.token = NoToken THEN "get" ELSE "poll")

\* Update of the whole object: refused unless the copy is current.
AddFinalizer ==
    /\ step.at = "addFinalizer"
    /\ IF wfresh /\ api.exists
       THEN /\ api' = [api EXCEPT !.finalizer = TRUE]
            /\ cfresh' = FALSE
       ELSE UNCHANGED <<api, cfresh>>
    /\ Return
    /\ UNCHANGED <<cache, aws>> /\ NoFault

\* Mutated form: the finalizer is patched away without a resourceVersion.
RemoveFinalizerBlindly ==
    /\ step.at = "release"
    /\ api' = [api EXCEPT !.exists = FALSE]
    /\ cfresh' = FALSE
    /\ Return
    /\ UNCHANGED <<cache, aws>> /\ NoFault

\* Removing the last finalizer of a CR under deletion removes the CR.
RemoveFinalizer ==
    /\ step.at = "release"
    /\ IF wfresh /\ api.exists
       THEN /\ api' = [api EXCEPT !.exists = FALSE]
            /\ cfresh' = FALSE
       ELSE UNCHANGED <<api, cfresh>>
    /\ Return
    /\ UNCHANGED <<cache, aws>> /\ NoFault

-----------------------------------------------------------------------------
(* persistStatus: a conflict refreshes the resourceVersion from the cache   *)
(* and writes the copy's status wholesale; the server answers with the      *)
(* stored object, which replaces the copy.                                  *)

Persist ==
    /\ step.at = "save"
    /\ api.exists /\ (wfresh \/ cfresh)
    /\ api' = [api EXCEPT !.token = w.token, !.ident = w.ident,
                          !.attempt = w.attempt, !.obsGen = w.obsGen,
                          !.ready = w.ready]
    /\ cfresh' = FALSE
    /\ Continue(step.ok, api', TRUE)
    /\ UNCHANGED <<cache, aws>> /\ NoFault

\* The retries are used up before the cache catches up, or the CR is gone.
PersistConflict ==
    /\ step.at = "save"
    /\ ~api.exists \/ (~wfresh /\ ~cfresh)
    /\ Continue(step.err, w, wfresh)
    /\ UNCHANGED <<k8s, aws>> /\ NoFault

PersistError ==
    /\ step.at = "save"
    /\ Continue(step.err, w, wfresh)
    /\ Fault("error")
    /\ UNCHANGED <<k8s, aws>>

-----------------------------------------------------------------------------
(* pollRequest, called from reconcile and from deleteResource.              *)

PollRequest(here, done, failed) ==
    /\ step.at = here
    /\ LET known == w.token \in DOMAIN reqs
           ev    == reqs[w.token]
           copy  == Identified(w, ev.id)
           ended == ev.status \in {"FAILED", "GONE"}
           gone  == ev.status = "GONE" /\ w.token.op = "DELETE"
       IN \/ ~known /\ Save(Cleared(w), done, failed)
          \/ known /\ (ev.status = "SUCCESS" \/ gone)
                   /\ Save(Cleared(copy), done, failed)
          \/ known /\ ended /\ ~gone /\ Save(Failed(copy), failed, failed)
          \/ known /\ ev.status = "IN_PROGRESS" /\ Save(copy, "pending", failed)
    /\ UNCHANGED <<k8s, aws>> /\ NoFault

Poll == PollRequest("poll", "get", "fail")
\* Mutated form: a failed delete request counts as done.
DeletePollAnyEnd == PollRequest("delPoll", "release", "release")

DeletePoll == PollRequest("delPoll", "release", "check")

PollError ==
    /\ \/ step.at = "poll" /\ Continue("fail", w, wfresh)
       \/ step.at = "delPoll" /\ Continue("check", w, wfresh)
    /\ Fault("error")
    /\ UNCHANGED <<k8s, aws>>

-----------------------------------------------------------------------------
(* reconcile: compare the live resource with the spec.                      *)

\* Mutated form: spec.identifier is not adopted.
IdentifierOfStatus(cr) == cr.ident

\* A CloudControlResource without an identifier adopts spec.identifier.
Identifier(cr) == IF cr.ident = NoId THEN SpecIdentifier ELSE cr.ident

Difference == BuildPatch(live[Identifier(w)].props, w.want)

InSync ==
    /\ step.at = "get"
    /\ Identifier(w) \in DOMAIN live /\ Difference = {}
    /\ Save([w EXCEPT !.ident = Identifier(w), !.obsGen = w.gen,
                      !.ready = TRUE], "idle", "fail")
    /\ UNCHANGED <<k8s, aws>> /\ NoFault

PlanUpdate ==
    /\ step.at = "get"
    /\ Identifier(w) \in DOMAIN live /\ Difference # {}
    /\ Call("issue", [w EXCEPT !.ident = Identifier(w)],
            ClientToken(w, "UPDATE", Difference))
    /\ UNCHANGED <<k8s, aws>> /\ NoFault

PlanCreate ==
    /\ step.at = "get"
    /\ Identifier(w) \notin DOMAIN live
    /\ Call("issue", [w EXCEPT !.ident = NoId], ClientToken(w, "CREATE", {}))
    /\ UNCHANGED <<k8s, aws>> /\ NoFault

NotUpdatable ==
    /\ step.call.op = "UPDATE"
    /\ \E o \in step.call.patch : o.path \in CreateOnly

\* CreateResource, UpdateResource and DeleteResource: a new client token
\* starts a request; a known one returns the request it started, or is
\* refused when it named another resource.
Target == IF step.call.op = "CREATE" THEN NoId ELSE w.ident

Conflicting ==
    /\ step.call \in DOMAIN reqs /\ step.call.op # "CREATE"
    /\ reqs[step.call].id # Target

Request(here, next) ==
    /\ step.at = here /\ ~NotUpdatable /\ ~Conflicting
    /\ reqs' = Extend(reqs, step.call, [status |-> "IN_PROGRESS",
                                         id |-> Target, want |-> w.want])
    /\ Call(next, w, step.call)
    /\ UNCHANGED <<k8s, live, made>> /\ NoFault

Issue == Request("issue", "track")

UpdateRefused ==
    /\ step.at = "issue" /\ NotUpdatable
    /\ Save(NotReady(w), "idle", "fail")
    /\ UNCHANGED <<k8s, aws>> /\ NoFault

TokenConflict ==
    /\ Conflicting
    /\ \/ step.at = "issue" /\ Continue("fail", w, wfresh)
       \/ step.at = "delIssue" /\ Return
    /\ UNCHANGED <<k8s, aws>> /\ NoFault

\* The read or the call fails, or its answer is lost after it took effect.  The
\* copy has adopted the identifier before the read.
CallError ==
    /\ \/ /\ step.at = "get"
          /\ Continue("fail", [w EXCEPT !.ident = Identifier(w)], wfresh)
       \/ step.at \in {"issue", "track"} /\ Continue("fail", w, wfresh)
       \/ step.at \in {"delIssue", "delTrack"} /\ Return
    /\ Fault("error")
    /\ UNCHANGED <<k8s, aws>>

TrackOperation ==
    /\ step.at = "track"
    /\ LET ev   == reqs[step.call]
           copy == [Identified(w, ev.id) EXCEPT !.token = step.call]
       IN Save(copy, CASE ev.status \in {"FAILED", "GONE"} -> "trackFailed"
                       [] ev.status = "SUCCESS"            -> "trackDone"
                       [] OTHER                            -> "pending",
               "fail")
    /\ UNCHANGED <<k8s, aws>> /\ NoFault

-----------------------------------------------------------------------------
(* deleteResource.                                                          *)

DeleteDone ==
    /\ \/ step.at = "check" /\ w.ident \notin DOMAIN live
       \/ step.at = "delIssue" /\ w.ident \notin DOMAIN live
          /\ step.call \notin DOMAIN reqs
    /\ Continue("release", Cleared(w), wfresh)
    /\ UNCHANGED <<k8s, aws>> /\ NoFault

\* A failed existence check other than NotFound goes on as well.
PlanDelete ==
    /\ step.at = "check" /\ w.ident # NoId
    /\ \/ w.ident \in DOMAIN live /\ NoFault
       \/ Fault("error")
    /\ Call("delIssue", w, ClientToken(w, "DELETE", {}))
    /\ UNCHANGED <<k8s, aws>>

DeleteIssue ==
    /\ step.call \in DOMAIN reqs \/ w.ident \in DOMAIN live
    /\ Request("delIssue", "delTrack")

\* Mutated form: an accepted delete counts as done.
DeleteTrackNoWait ==
    /\ step.at = "delTrack"
    /\ Save([w EXCEPT !.token = step.call], "release", "idle")
    /\ UNCHANGED <<k8s, aws>> /\ NoFault

DeleteTrack ==
    /\ step.at = "delTrack"
    /\ Save([w EXCEPT !.token = step.call],
            IF reqs[step.call].status \in {"SUCCESS", "GONE"}
            THEN "release" ELSE "idle", "idle")
    /\ UNCHANGED <<k8s, aws>> /\ NoFault

-----------------------------------------------------------------------------
(* The environment: the process crashes, the cache catches up, users edit,  *)
(* AWS works on requests, somebody else changes resources.                  *)

Crash ==
    /\ step.at # "idle"
    /\ Return
    /\ Fault("crash")
    /\ UNCHANGED <<k8s, aws>>

CacheSync ==
    /\ ~cfresh
    /\ cache' = api /\ cfresh' = TRUE
    /\ UNCHANGED <<api, worker, aws>> /\ NoFault

\* Any write to the CR makes the cache and the worker's copy stale.
UserWrite(cr) ==
    /\ api.exists /\ api' = cr
    /\ cfresh' = FALSE /\ wfresh' = FALSE
    /\ UNCHANGED <<cache, w, step, aws>> /\ NoFault

UserEdit ==
    /\ "edit" \in UserKinds /\ api.gen < MaxGen
    /\ \E want \in Wants \ {api.want} :
          UserWrite([api EXCEPT !.want = want, !.gen = @ + 1])

UserAbandon ==
    /\ "abandon" \in UserKinds /\ ~api.abandon
    /\ UserWrite([api EXCEPT !.abandon = TRUE])

UserDelete ==
    /\ "delete" \in UserKinds /\ ~api.deleting
    /\ UserWrite(IF api.finalizer
                 THEN [api EXCEPT !.deleting = TRUE, !.gen = @ + 1]
                 ELSE [api EXCEPT !.exists = FALSE])

Running(op) == {t \in DOMAIN reqs :
                    t.op = op /\ reqs[t].status = "IN_PROGRESS"}
Finish(t, status) == [reqs EXCEPT ![t].status = status]

\* A resource may exist, and its identifier be known, before CREATE ends.
AwsMaterialise ==
    /\ made < MaxIds
    /\ \E t \in Running("CREATE") :
        /\ reqs[t].id = NoId
        /\ reqs' = [reqs EXCEPT ![t].id = made + 1]
        /\ live' = Extend(live, made + 1, [gen |-> t.gen, props |-> reqs[t].want])
    /\ made' = made + 1
    /\ UNCHANGED <<k8s, worker>> /\ NoFault

AwsCreated ==
    /\ \E t \in Running("CREATE") :
        reqs[t].id # NoId /\ reqs' = Finish(t, "SUCCESS")
    /\ UNCHANGED <<k8s, worker, live, made>> /\ NoFault

AwsUpdated ==
    /\ \E t \in Running("UPDATE") :
        /\ reqs[t].id \in DOMAIN live
        /\ live' = [live EXCEPT ![reqs[t].id].props = ApplyPatch(@, t.patch)]
        /\ reqs' = Finish(t, "SUCCESS")
    /\ UNCHANGED <<k8s, worker, made>> /\ NoFault

AwsDeleted ==
    /\ \E t \in Running("DELETE") :
        /\ reqs[t].id \in DOMAIN live
        /\ live' = Restrict(live, DOMAIN live \ {reqs[t].id})
        /\ reqs' = Finish(t, "SUCCESS")
    /\ UNCHANGED <<k8s, worker, made>> /\ NoFault

\* The resource vanished under a running UPDATE or DELETE.
AwsGone ==
    /\ \E t \in Running("UPDATE") \union Running("DELETE") :
        reqs[t].id \notin DOMAIN live /\ reqs' = Finish(t, "GONE")
    /\ UNCHANGED <<k8s, worker, live, made>> /\ NoFault

\* A handler fails; a failed CREATE may leave its resource behind.
AwsFailed ==
    /\ Fault("awsFailure")
    /\ \E op \in Ops : \E t \in Running(op) : reqs' = Finish(t, "FAILED")
    /\ UNCHANGED <<k8s, worker, live, made>>

\* AWS forgets a finished request: neither its progress nor its token remain.
Forget(t) ==
    /\ t.op \in Expiring /\ reqs[t].status # "IN_PROGRESS"
    /\ step.at = "idle"
    /\ reqs' = Restrict(reqs, DOMAIN reqs \ {t})
    /\ UNCHANGED <<k8s, worker, live, made>>

\* It takes days, so a running operator has long seen the outcome ...
Seen(t) ==
    /\ cfresh
    /\ t.op = "CREATE" => \/ reqs[t].id = api.ident
                          \/ reqs[t].id \notin DOMAIN live
    /\ t.op = "DELETE" => t # api.token \/ reqs[t].status # "FAILED"

AwsExpire == NoFault /\ \E t \in DOMAIN reqs : Seen(t) /\ Forget(t)

\* ... unless the operator was down all the while.
AwsExpireUnseen == Fault("downtime") /\ \E t \in DOMAIN reqs : Forget(t)

Drift ==
    /\ Fault("drift")
    /\ \E i \in DOMAIN live, p \in Props :
        p # live[i].props /\ live' = [live EXCEPT ![i].props = p]
    /\ UNCHANGED <<k8s, worker, reqs, made>>

ExternalDelete ==
    /\ Fault("externalDelete")
    /\ \E i \in DOMAIN live : live' = Restrict(live, DOMAIN live \ {i})
    /\ UNCHANGED <<k8s, worker, reqs, made>>

-----------------------------------------------------------------------------
Init ==
    /\ \E want \in Wants :
        api = [BlankCR EXCEPT !.exists = TRUE, !.gen = 1, !.want = want]
    /\ cache = api /\ cfresh = TRUE
    /\ w = BlankCR /\ wfresh = FALSE /\ step = At("idle")
    /\ reqs = [t \in {} |-> t]
    /\ \E found \in SUBSET ({SpecIdentifier} \ {NoId}), p \in Props :
        live = [i \in found |-> [gen |-> 0, props |-> p]]
    /\ made = SpecIdentifier
    /\ faults = 0

\* What the worker does when nothing goes wrong around it.
Work ==
    \/ ReconcileAbandoned \/ ReconcileDeleted \/ ReconcileNew
    \/ ReconcileExisting \/ AddFinalizer \/ RemoveFinalizer
    \/ Persist \/ PersistConflict \/ Poll \/ DeletePoll
    \/ InSync \/ PlanUpdate \/ PlanCreate
    \/ Issue \/ UpdateRefused \/ TokenConflict \/ TrackOperation
    \/ DeleteDone \/ PlanDelete \/ DeleteIssue \/ DeleteTrack

Handlers == \/ AwsMaterialise \/ AwsCreated \/ AwsUpdated
            \/ AwsDeleted \/ AwsGone

Next ==
    \/ Work \/ PersistError \/ PollError \/ CallError \/ Crash
    \/ CacheSync \/ UserEdit \/ UserAbandon \/ UserDelete
    \/ Handlers \/ AwsFailed \/ AwsExpire \/ AwsExpireUnseen \/ Drift \/ ExternalDelete

Spec == Init /\ [][Next]_vars

(* A returned reconcile is always queued again (5 minutes, 30 seconds or    *)
(* backoff), and time and again the watch catches up before it starts; AWS  *)
(* finishes what it accepted, and forgets it in the end.                    *)
FairSpec ==
    /\ Spec
    /\ WF_vars(Work)
    /\ WF_vars(CacheSync) /\ SF_vars(step.at = "idle" /\ CacheSync)
    /\ WF_vars(Handlers) /\ SF_vars(AwsExpire)

-----------------------------------------------------------------------------
(* Properties.                                                              *)

K8sOK == api \in CRs /\ cache \in CRs /\ cfresh \in BOOLEAN
WorkerOK == w \in CRs /\ wfresh \in BOOLEAN /\ step \in Steps
AwsOK ==
    /\ DOMAIN reqs \subseteq Tokens /\ \A t \in DOMAIN reqs : reqs[t] \in Requests
    /\ DOMAIN live \subseteq Ids /\ \A i \in DOMAIN live : live[i] \in Resources
    /\ made \in 0 .. MaxIds
\* A request the worker is about to track is one AWS knows.
Tracked == step.at \in {"track", "delTrack"} => step.call \in DOMAIN reqs

\* Every variable has its type, and trackOperation has its progress event.
TypeOK == K8sOK /\ WorkerOK /\ AwsOK /\ Tracked /\ faults \in 0 .. MaxFaults

\* Whatever crashes, errors, stale reads and lost status writes happen, a CR
\* owns at most one live resource of its first generation: until the spec is
\* edited every retry of a create reaches the same request (ccClientToken).
\* It may fail where nobody edits but the resource drifts: an update that fails
\* then moves the attempt past one that no create used (see the README).
OneResourceUntilEdited ==
    \A i, j \in DOMAIN live : live[i].gen = 1 /\ live[j].gen = 1 => i = j

\* Once AWS was asked for anything on behalf of the CR, the CR cannot vanish
\* without deleteResource: it holds the finalizer (Reconcile returns after
\* AddFinalizer instead of going on to create).
AskedUnderFinalizer ==
    api.exists /\ DOMAIN reqs # {} => api.finalizer

\* The finalizer of a CR that was not abandoned is removed only when the
\* resource its stored status identifies is gone, however stale the copy is
\* from which the worker concluded so.
ReleasedWhenGone ==
    [][api.exists /\ ~api'.exists /\ api.finalizer /\ ~api.abandon
         => api.ident \notin DOMAIN live]_vars

\* After the CR is gone the worker, whose cache may still show it, neither
\* creates nor updates anything in AWS on its behalf.
QuietAfterGone ==
    [][~api.exists =>
        \A t \in DOMAIN reqs' \ DOMAIN reqs : t.op = "DELETE"]_vars

\* Every desired property has its desired value.
Matched ==
    /\ api.ident \in DOMAIN live
    /\ \A k \in DOMAIN api.want :
          /\ k \in DOMAIN live[api.ident].props
          /\ live[api.ident].props[k] = api.want[k]

\* The resource exists and differs in a property that AWS does not update.
Refused ==
    /\ api.ident \in DOMAIN live
    /\ \E k \in CreateOnly \intersect DOMAIN api.want :
          \/ k \notin DOMAIN live[api.ident].props
          \/ live[api.ident].props[k] # api.want[k]

Settled == Matched /\ api.ready /\ api.obsGen = api.gen /\ api.token = NoToken

\* When edits and faults have stopped, a CR under deletion is gone.  Otherwise
\* the resource exists and matches the spec for good, and the CR keeps
\* reporting so; or what differs cannot be updated, and the CR keeps reporting
\* that it is not ready.
Converges ==
    /\ <>[](\/ ~api.exists
            \/ ~api.deleting /\ (Matched \/ Refused))
    /\ []<>(Settled \/ (Refused /\ ~api.ready) \/ ~api.exists)

\* An adopted resource (spec.identifier) that nobody else deletes is never
\* replaced: no create is issued while it exists, whatever status was lost.
AdoptedNotRecreated ==
    SpecIdentifier \in DOMAIN live => \A t \in DOMAIN reqs : t.op # "CREATE"

-----------------------------------------------------------------------------
(* The inductive invariant behind AskedUnderFinalizer, QuietAfterGone and   *)
(* ReleasedWhenGone: what a reconcile may rely on between its steps.        *)

\* Nothing but AddFinalizer happens before the finalizer is stored.
FinalizerHeld ==
    /\ cache.finalizer => api.finalizer
    /\ step.at \notin {"idle", "addFinalizer"} => api.finalizer
    /\ DOMAIN reqs # {} => api.finalizer

\* The worker is at one of these labels, or writes status on its way there.
Leads(labels) == {step.at, step.ok, step.err} \intersect labels # {}

Removing == Leads({"delPoll", "check", "delIssue", "delTrack", "release"})
Creating == Leads({"get", "issue", "track"})

\* A CR is deleted only by a worker whose cache shows the deletion, and from
\* then on every reconcile takes the path of deleteResource.
DeletionSeen ==
    /\ cache.deleting => api.deleting
    /\ Removing => cache.deleting
    /\ api.finalizer /\ ~api.exists =>
          cache.deleting /\ ~Creating /\ ~Leads({"poll"})

\* A stored DELETE token names the request that deletes the CR's resource.
Deletes(cr) ==
    cr.token.op = "DELETE" =>
        cr.token \in DOMAIN reqs /\ reqs[cr.token].id = cr.ident

TokensKept == Deletes(api) /\ Deletes(cache) /\ Deletes(w)

\* Identifiers are given out once.
IdsKnown ==
    /\ SpecIdentifier <= made
    /\ api.ident <= made /\ cache.ident <= made /\ w.ident <= made
    /\ \A t \in DOMAIN reqs : reqs[t].id <= made
    /\ \A i \in DOMAIN live : i <= made

DeletedIsGone ==
    \A t \in DOMAIN reqs :
        t.op = "DELETE" /\ reqs[t].status \in {"SUCCESS", "GONE"}
            => reqs[t].id \notin DOMAIN live

\* The two paths of a reconcile call AWS with tokens of their own.
CallTokens ==
    /\ step.at \in {"issue", "track"} => step.call.op # "DELETE"
    /\ step.at \in {"delIssue", "delTrack"} => step.call.op = "DELETE"

PathTokens ==
    /\ Creating => w.token.op # "DELETE"
    /\ step.at = "delPoll" => w.token.op = "DELETE"
    /\ step.at = "delTrack" => reqs[step.call].id = w.ident

\* On its way to the release a copy is either stale or says what is stored,
\* and the resource it identifies is gone unless the CR was abandoned.
CopyIsCurrent ==
    /\ cfresh => cache = api
    /\ cache.abandon => api.abandon
    /\ w.abandon => api.abandon
    /\ Removing /\ wfresh => w.ident = api.ident

ReleaseEarned ==
    /\ step.at = "release" => w.abandon \/ w.ident \notin DOMAIN live
    /\ step.ok = "release" => w.ident \notin DOMAIN live
    /\ step.err # "release"

\* What makes a release safe: inductive as long as AWS does not forget deletes.
ReleaseInv ==
    /\ TokensKept /\ IdsKnown /\ DeletedIsGone
    /\ CallTokens /\ PathTokens /\ CopyIsCurrent /\ ReleaseEarned

-----------------------------------------------------------------------------
(* The inductive invariant behind OneResourceUntilEdited.                   *)

\* The requests that create on behalf of the first generation, in the order of
\* their attempts.  One is alive while it can still lead to a live resource.
First(n) == [op |-> "CREATE", gen |-> 1, attempt |-> n, patch |-> {}]
Before(n) == {First(m) : m \in {k \in 0 .. n : k < n}}
Creates == {t \in DOMAIN reqs : t.op = "CREATE" /\ t.gen = 1}
Alive(t) == reqs[t].status = "IN_PROGRESS" \/ reqs[t].id \in DOMAIN live

\* Copies are of generations that were stored, and a deletion is an edit.
Generations ==
    /\ 1 <= cache.gen /\ cache.gen <= api.gen /\ w.gen <= api.gen
    /\ step.at # "idle" => 1 <= w.gen
    /\ api.deleting => 1 < api.gen

\* Every resource of the first generation comes from one of its requests.
Accounted ==
    /\ \A t \in DOMAIN reqs :
          t.op = "CREATE" => t.patch = {} /\ reqs[t].id <= made
    /\ \A i \in DOMAIN live :
          live[i].gen = 1 => \E t \in Creates : reqs[t].id = i

\* Until the spec is edited nothing is asked of AWS but to create it.
Unedited == api.gen = 1 =>
    /\ cache.want = api.want /\ (step.at # "idle" => w.want = api.want)
    /\ \A t \in DOMAIN reqs : t.op = "CREATE" /\ reqs[t].want = api.want
    /\ \A i \in DOMAIN live : live[i].props = api.want
    /\ step.at \in Calling => step.call.op = "CREATE"

\* An attempt is made only when those before it are known and can lead to
\* nothing any more.
Ordered ==
    \A t \in Creates : \A u \in Before(t.attempt) : u \in Creates /\ ~Alive(u)

\* A copy of the first generation knows of the attempts before its own, and when
\* its own is new, what may still be alive is the resource that it identifies.
View(cr) == cr.gen = 1 =>
    /\ cr.token \in {NoToken, First(cr.attempt)}
    /\ Before(cr.attempt) \subseteq Creates
    /\ First(cr.attempt) \notin Creates =>
          \A t \in Creates : Alive(t) =>
              reqs[t].status # "IN_PROGRESS" /\ reqs[t].id = cr.ident

\* The worker's copy matters where it may lead to a create or be stored.
WorkerView == api.gen = 1 \/ step.at \in {"get", "issue"} => View(w)

\* A create is asked for with the attempt of the copy, which identifies nothing.
AskedAs ==
    step.at \in {"issue", "track"} /\ step.call.op = "CREATE" =>
        step.call = [First(w.attempt) EXCEPT !.gen = w.gen] /\ w.ident = NoId

\* The attempt grows after a request that ended and left what it identifies.
Concluded(cr) ==
    /\ cr.token \in Creates /\ reqs[cr.token].status # "IN_PROGRESS"
    /\ reqs[cr.token].id # NoId => cr.ident = reqs[cr.token].id

Grows ==
    /\ step.err \in {"", "idle", "fail", "check"}
    /\ api.gen = 1 /\ step.ok = "trackFailed" => Concluded(w)

CreatesInv ==
    /\ Generations /\ Accounted /\ Unedited /\ Ordered
    /\ View(api) /\ View(cache) /\ WorkerView /\ AskedAs /\ Grows

\* No resource is adopted or drifts, and AWS does not forget a create.
Steady == SpecIdentifier = NoId /\ "drift" \notin FaultKinds /\ "CREATE" \notin Expiring

-----------------------------------------------------------------------------
\* The inductive invariant: whatever is interleaved with a reconcile, its copy
\* of the CR, the label it is at and the token it holds agree with what the API
\* server, the cache and AWS know, well enough for its next step to be right.
IInv ==
    /\ TypeOK /\ FinalizerHeld /\ DeletionSeen /\ ReleaseInv
    /\ Steady => CreatesInv

-----------------------------------------------------------------------------
(* The life of a managed resource that the engine implements.  What counts  *)
(* as a call is every create and update request that AWS remembers.         *)

Changes == {t \in DOMAIN reqs : t.op # "DELETE"}
Phase == IF ~api.exists THEN "gone"
         ELSE IF ~api.finalizer THEN "new"
         ELSE IF api.deleting THEN "removing" ELSE "held"

Managed == INSTANCE ManagedResource WITH
    Calls <- Tokens, phase <- Phase, keep <- api.abandon,
    calls <- Changes, owned <- api.ident \in DOMAIN live

\* Whatever crashes, errors, stale reads, user actions and AWS failures happen,
\* the engine holds the finalizer before its first request, gives it up only
\* when the resource is gone or abandoned, and is quiet afterwards.
ImplementsManaged == Managed!Spec

-----------------------------------------------------------------------------
(* What the repository says and the engine does not keep; see the README.   *)

\* "By default, deleting a CR deletes the underlying AWS resource" (README).
DeletesUnderlying ==
    ~api.exists /\ ~api.abandon => DOMAIN live = {}

=============================================================================
