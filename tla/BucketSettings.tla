--------------------------- MODULE BucketSettings ---------------------------
(***************************************************************************)
(* The S3Bucket kind (s3bucket_controller.go) and who owns a setting of a  *)
(* bucket: lifecycle, CORS, notifications and website can be set by the    *)
(* S3Bucket itself or by an object of a dedicated kind (S3BucketLifecycle, *)
(* S3BucketCORS, S3BucketNotification).  status.managedSettings is the     *)
(* S3Bucket's memory of what it wrote.                                     *)
(***************************************************************************)
EXTENDS Reconciler

CONSTANTS
    Settings,   \* how many settings there are; they are synced in order
    PutOnly     \* those that are cleared by putting an empty one: notifications

ASSUME BucketSettingsAssumption ==
    Settings \in Nat /\ \A want \in Wants : want \subseteq 1 .. Settings

VARIABLES
    bucket,    \* S3: the bucket exists
    conf,      \* S3: setting -> who wrote it: "none", "bucket" or "object"
    object,    \* setting -> the dedicated object: "none", "lives" or "gone"
    everSet    \* the settings that some spec of the S3Bucket contained

aws  == <<bucket, conf, object, everSet>>
vars == <<api, cache, cfresh, w, wfresh, step, faults, scenario,
          bucket, conf, object, everSet>>

All == 1 .. Settings
Statuses == [managed : SUBSET All, obsGen : Nat, ready : BOOLEAN]
BlankStatus == [managed |-> {}, obsGen |-> 0, ready |-> FALSE]
NoConf == [s \in All |-> "none"]

Mark(copy, s)   == [copy EXCEPT !.st.managed = @ \union {s}]
Unmark(copy, s) == [copy EXCEPT !.st.managed = @ \ {s}]

-----------------------------------------------------------------------------
(* reconcileBucket.                                                         *)

HeadBucket ==
    /\ step.at = "read"
    /\ Goto(IF bucket THEN "sync" ELSE "create", w)
    /\ UNCHANGED <<k8s, aws>> /\ NoFault

CreateBucket ==
    /\ step.at = "create" /\ ~bucket
    /\ bucket' = TRUE /\ conf' = NoConf
    /\ \/ Save(w, "sync", "report") /\ NoFault
       \/ Report /\ Fault("lost")
    /\ UNCHANGED <<k8s, object, everSet>>

\* At "sync", local counts the settings that are done.
Current == step.local + 1
Syncing(s) == step.at = "sync" /\ Current = s /\ s \in All

\* Mutated form: what was written is not remembered.
PutUnmarked(s) ==
    /\ Syncing(s) /\ s \in w.want /\ bucket
    /\ conf' = [conf EXCEPT ![s] = "bucket"]
    /\ GotoWith("sync", w, s) /\ NoFault
    /\ UNCHANGED <<k8s, bucket, object, everSet>>

PutSetting(s) ==
    /\ Syncing(s) /\ s \in w.want /\ bucket
    /\ conf' = [conf EXCEPT ![s] = "bucket"]
    /\ \/ GotoWith("sync", Mark(w, s), s) /\ NoFault
       \/ Report /\ Fault("lost")
    /\ UNCHANGED <<k8s, bucket, object, everSet>>

\* Mutated form: a setting that is not in the spec is removed.
ClearUnset(s) ==
    /\ Syncing(s) /\ s \notin w.want
    /\ conf' = [conf EXCEPT ![s] = "none"]
    /\ GotoWith("sync", Unmark(w, s), s) /\ NoFault
    /\ UNCHANGED <<k8s, bucket, object, everSet>>

\* Mutated form: the removed setting stays in managedSettings.
ClearMarked(s) ==
    /\ Syncing(s) /\ s \notin w.want /\ s \in w.st.managed
    /\ conf' = [conf EXCEPT ![s] = "none"]
    /\ GotoWith("sync", w, s) /\ NoFault
    /\ UNCHANGED <<k8s, bucket, object, everSet>>

\* Not found is fine for what is deleted, and an error for what is put.
ClearSetting(s) ==
    /\ Syncing(s) /\ s \notin w.want /\ s \in w.st.managed
    /\ s \in PutOnly => bucket
    /\ conf' = [conf EXCEPT ![s] = "none"]
    /\ \/ GotoWith("sync", Unmark(w, s), s) /\ NoFault
       \/ Report /\ Fault("lost")
    /\ UNCHANGED <<k8s, bucket, object, everSet>>

SkipSetting(s) ==
    /\ Syncing(s) /\ s \notin w.want /\ s \notin w.st.managed
    /\ GotoWith("sync", w, s)
    /\ UNCHANGED <<k8s, aws>> /\ NoFault

Synced ==
    /\ step.at = "sync" /\ step.local = Settings
    /\ Save(ReadyNow(Observed(w)), "idle", "report")
    /\ UNCHANGED <<k8s, aws>> /\ NoFault

\* S3 also refuses to delete a bucket that still holds objects.
CallError ==
    /\ \/ step.at \in {"read", "create", "sync"} /\ Report
       \/ step.at = "delete" /\ Return
    /\ Fault("error")
    /\ UNCHANGED <<k8s, aws>>

\* The bucket went away behind the worker's back.
BucketGone ==
    /\ ~bucket
    /\ \E s \in All :
          Syncing(s) /\ s \in w.want \union (w.st.managed \intersect PutOnly)
    /\ Report
    /\ UNCHANGED <<k8s, aws>> /\ NoFault

\* By name; the settings go with the bucket.
DeleteBucket ==
    /\ step.at = "delete"
    /\ bucket' = FALSE /\ conf' = NoConf
    /\ \/ Goto("release", w) /\ NoFault
       \/ Return /\ Fault("lost")
    /\ UNCHANGED <<k8s, object, everSet>>

-----------------------------------------------------------------------------
(* The dedicated kinds put their setting in every reconcile, and delete it  *)
(* with their object, without a look at the S3Bucket.                       *)

Apply(s) ==
    /\ bucket /\ object[s] = "lives" /\ conf[s] # "object"
    /\ conf' = [conf EXCEPT ![s] = "object"]
    /\ UNCHANGED <<k8s, worker, bucket, object, everSet>> /\ NoFault

AddObject(s) ==
    /\ object[s] = "none" /\ object' = [object EXCEPT ![s] = "lives"]
    /\ UNCHANGED <<k8s, worker, bucket, conf, everSet>> /\ NoFault

RemoveObject(s) ==
    /\ object[s] = "lives" /\ object' = [object EXCEPT ![s] = "gone"]
    /\ conf' = [conf EXCEPT ![s] = "none"]
    /\ UNCHANGED <<k8s, worker, bucket, everSet>> /\ NoFault

ExternalDelete ==
    /\ bucket /\ bucket' = FALSE /\ conf' = NoConf
    /\ Fault("externalDelete")
    /\ UNCHANGED <<k8s, worker, object, everSet>>

-----------------------------------------------------------------------------
Init ==
    /\ InitKube(BlankStatus)
    /\ bucket = FALSE /\ conf = NoConf /\ object = NoConf
    /\ everSet = api.want

Reconcile == SharedWork /\ UNCHANGED aws
Work ==
    \/ Reconcile
    \/ HeadBucket \/ CreateBucket
    \/ \E s \in All : PutSetting(s) \/ ClearSetting(s) \/ SkipSetting(s)
    \/ Synced \/ BucketGone \/ DeleteBucket

Outside == (PersistError \/ Crash) /\ UNCHANGED aws
People == Users /\ everSet' = everSet \union api'.want
                /\ UNCHANGED <<bucket, conf, object>>
WatchDelivers == CacheSync /\ UNCHANGED aws
Owners == \E s \in All : AddObject(s) \/ RemoveObject(s)

Next ==
    \/ Work \/ CallError \/ Outside \/ People \/ WatchDelivers
    \/ Owners \/ (\E s \in All : Apply(s)) \/ ExternalDelete

Spec == Init /\ [][Next]_vars

(* As in NatGateway; a dedicated object is reconciled time and again.       *)
FairSpec ==
    /\ Spec
    /\ WF_vars(Work) /\ \A s \in 1 .. Settings : SF_vars(Apply(s))
    /\ WF_vars(WatchDelivers) /\ SF_vars(step.at = "idle" /\ WatchDelivers)

-----------------------------------------------------------------------------
(* Properties.                                                              *)

Labels == {"idle", "save", "addFinalizer", "read", "delete", "release",
           "create", "sync"}
Exits == {"idle", "sync"}

\* Every variable has its type, and there are no settings without a bucket.
TypeOK ==
    /\ KubeOK(Statuses, Labels, Exits)
    /\ step.local \in 0 .. Settings
    /\ bucket \in BOOLEAN /\ everSet \subseteq All
    /\ conf \in [All -> {"none", "bucket", "object"}]
    /\ object \in [All -> {"none", "lives", "gone"}]
    /\ ~bucket => conf = NoConf

\* A bucket whose spec never contained a setting leaves the one of a dedicated
\* object alone, until the bucket itself is deleted.
OthersLeftAlone ==
    [][\A s \in All \ everSet :
        conf[s] = "object" /\ bucket' /\ object'[s] = "lives"
            => conf'[s] = "object"]_vars

\* A scenario of at most one failed call or write.
Careful == FreeOf(AllFaults \ {"error"}) /\ scenario.most = 1

\* After at most one failed call or write, what the S3Bucket wrote is listed
\* in managedSettings, stored or about to be stored.
Tracked == Careful =>
    \A s \in All : conf[s] = "bucket" =>
        s \in api.st.managed \/ (step.at # "idle" /\ s \in w.st.managed)

\* A CR that is gone and was not abandoned leaves no bucket, whatever fails.
NoOrphan == ~api.exists /\ ~api.abandon => ~bucket

\* The path of the deletion.
Removing == {"delete", "release"}

\* No bucket before the finalizer, nor on a release that keeps none.
Untouched ==
    /\ ~api.finalizer => ~bucket
    /\ step.at = "release" /\ ~w.abandon => ~bucket

\* The S3Bucket only wants and remembers what some spec of it contained.
Known(cr) == cr.want \union cr.st.managed \subseteq everSet
Remembered == Known(api) /\ Known(cache) /\ (step.at # "idle" => Known(w))

\* What was written is in the worker's copy, and in a copy that was not worked
\* on what is stored; settings are only synced to a bucket, and a write that
\* nothing follows cannot fail any more.
Attentive == Careful =>
    /\ \A s \in All : conf[s] = "bucket" /\ step.at # "idle" => s \in w.st.managed
    /\ step.at \notin {"idle", "sync", "save"} => w.st.managed = api.st.managed
    /\ step.at = "sync" \/ (step.at = "save" /\ step.ok = "sync") => bucket
    /\ step.at = "save" /\ step.err = "idle" => faults = 1

\* The state is well formed, nothing outlives its CR, nothing is forgotten, and
\* what keeps this so between the steps.
BucketInv ==
    /\ TypeOK /\ Protocol(Removing) /\ Untouched /\ Remembered /\ Attentive
    /\ NoOrphan /\ Tracked

\* Settings with a single owner end up with that owner: one whose field was
\* removed from the spec is handed over to the dedicated object for good, and
\* one that nobody wants is absent, unless a crash or a lost answer may have
\* made the reconciler forget what it wrote.  A bucket under deletion is gone.
Owned(s) ==
    CASE s \in api.want /\ object[s] = "lives" -> conf[s] # "none"
      [] s \in api.want -> conf[s] = "bucket"
      [] object[s] = "lives" -> conf[s] = "object"
      [] OTHER -> conf[s] = "none"
Settled ==
    <>[](\/ ~api.exists
         \/ /\ ~api.deleting
            /\ FreeOf({"crash", "lost", "lag"})
                  => bucket /\ \A s \in All : Owned(s))

=============================================================================
