------------------------ MODULE BucketSettingsProofs ------------------------
(***************************************************************************)
(* The S3Bucket leaves the settings of others alone, no bucket outlives    *)
(* its CR, and what was written is remembered: for any number of settings. *)
(***************************************************************************)
EXTENDS BucketSettings, ReconcilerProofs

LEMMA Kind == KindOK(Statuses, Labels, Exits, Removing)
BY DEF KindOK, Statuses, Labels, Exits, Removing

\* The types of what S3 and the dedicated objects keep.
AwsOK ==
    /\ bucket \in BOOLEAN /\ everSet \subseteq All
    /\ conf \in [All -> {"none", "bucket", "object"}]
    /\ object \in [All -> {"none", "lives", "gone"}]
    /\ ~bucket => conf = NoConf

LEMMA InvParts ==
    ASSUME BucketInv
    PROVE  /\ KubeOK(Statuses, Labels, Exits) /\ Protocol(Removing)
           /\ KindOK(Statuses, Labels, Exits, Removing) /\ AwsOK
           /\ api \in CRs(Statuses) /\ cache \in CRs(Statuses)
           /\ wfresh \in BOOLEAN /\ step.at \in Labels
           /\ step.local \in 0 .. Settings
           /\ step.at # "idle" => w \in CRs(Statuses)
BY Kind DEF BucketInv, TypeOK, KubeOK, WorkerOK, AwsOK

LEMMA EmptyConf ==
    /\ NoConf \in [All -> {"none", "bucket", "object"}]
    /\ \A s \in All : NoConf[s] = "none"
BY DEF NoConf

\* In a careful scenario only one call or write fails.
LEMMA CarefulFaults ==
    ASSUME Careful, NEW kind \in AllFaults, Fault(kind)
    PROVE  kind = "error" /\ (faults \in Nat => faults = 0 /\ faults' = 1)
BY DEF Careful, FreeOf, Fault

LEMMA CarefulStays ==
    ASSUME BucketInv, Counted
    PROVE  Careful' = Careful
<1>1. scenario' = scenario
  BY InvParts, FaultsType
<1>2. QED
  BY <1>1 DEF Careful, FreeOf

-----------------------------------------------------------------------------
(* Copies.                                                                  *)

\* What a copy keeps when only its conditions and its generation change.
SameMemory(new, cr) ==
    /\ new.want = cr.want /\ new.abandon = cr.abandon
    /\ new.st.managed = cr.st.managed

LEMMA NotReadyMemory ==
    ASSUME NEW cr \in CRs(Statuses), NEW new,
           SameBut(new, cr, [cr.st EXCEPT !.ready = FALSE])
    PROVE  SameMemory(new, cr)
<1>1. cr.st \in Statuses
  BY CopyType
<1>2. QED
  BY <1>1 DEF SameBut, SameMemory, Statuses

LEMMA SyncedMemory ==
    ASSUME NEW cr \in CRs(Statuses)
    PROVE  /\ ReadyNow(Observed(cr)) \in CRs(Statuses)
           /\ SameMemory(ReadyNow(Observed(cr)), cr)
BY DEF SameMemory, ReadyNow, Observed, CRs, Statuses

LEMMA MarkMemory ==
    ASSUME NEW cr \in CRs(Statuses), NEW s \in All
    PROVE  /\ Mark(cr, s) \in CRs(Statuses)
           /\ Mark(cr, s).want = cr.want /\ Mark(cr, s).abandon = cr.abandon
           /\ Mark(cr, s).st.managed = cr.st.managed \union {s}
<1>1. cr.st \in Statuses /\ cr.st.managed \subseteq All
  BY CopyType DEF Statuses
<1>2. PICK more \in SUBSET All : more = cr.st.managed \union {s}
  BY <1>1
<1>3. PICK st : st = [cr.st EXCEPT !.managed = more]
  OBVIOUS
<1>4. st \in Statuses /\ st.managed = more
  BY <1>1, <1>3 DEF Statuses
<1>5. Mark(cr, s) = [cr EXCEPT !.st = st]
  BY <1>2, <1>3 DEF Mark
<1>6. Mark(cr, s) \in CRs(Statuses) /\ SameBut(Mark(cr, s), cr, st)
  BY <1>4, <1>5, StatusType
<1>7. QED
  BY <1>2, <1>4, <1>6 DEF SameBut

LEMMA UnmarkMemory ==
    ASSUME NEW cr \in CRs(Statuses), NEW s \in All
    PROVE  /\ Unmark(cr, s) \in CRs(Statuses)
           /\ Unmark(cr, s).want = cr.want /\ Unmark(cr, s).abandon = cr.abandon
           /\ Unmark(cr, s).st.managed = cr.st.managed \ {s}
<1>1. cr.st \in Statuses /\ cr.st.managed \subseteq All
  BY CopyType DEF Statuses
<1>2. PICK less \in SUBSET All : less = cr.st.managed \ {s}
  BY <1>1
<1>3. PICK st : st = [cr.st EXCEPT !.managed = less]
  OBVIOUS
<1>4. st \in Statuses /\ st.managed = less
  BY <1>1, <1>3 DEF Statuses
<1>5. Unmark(cr, s) = [cr EXCEPT !.st = st]
  BY <1>2, <1>3 DEF Unmark
<1>6. Unmark(cr, s) \in CRs(Statuses) /\ SameBut(Unmark(cr, s), cr, st)
  BY <1>4, <1>5, StatusType
<1>7. QED
  BY <1>2, <1>4, <1>6 DEF SameBut

-----------------------------------------------------------------------------
(* The steps of Reconciler.                                                 *)

\* everSet follows what the users write.
Widened ==
    \/ Users /\ everSet' = everSet \union api'.want
    \/ /\ SharedWork \/ PersistError \/ Crash \/ CacheSync
       /\ UNCHANGED everSet

\* What holds in every scenario.
Facts == Untouched /\ Remembered /\ NoOrphan

LEMMA SharedFacts ==
    ASSUME BucketInv, Shared, UNCHANGED <<bucket, conf, object>>,
           Widened
    PROVE  Facts'
<1>1. /\ KubeOK(Statuses, Labels, Exits) /\ Protocol(Removing)
      /\ KindOK(Statuses, Labels, Exits, Removing)
  BY InvParts
<1>2. everSet \subseteq everSet'
  BY DEF Widened
<1>3. CASE \/ ReconcileAbandoned \/ ReconcileDeleted
           \/ ReconcileNew \/ ReconcileExisting
  <2>1. PICK label \in {"release", "delete", "addFinalizer", "read"} :
            Start(label) /\ (label = "release" => cache.abandon)
    BY <1>3 DEF ReconcileAbandoned, ReconcileDeleted, ReconcileNew,
                ReconcileExisting
  <2>2. /\ step.at = "idle" /\ step'.at = label /\ w' = cache
        /\ UNCHANGED <<api, cache>>
    BY <1>1, <2>1, StartEffect
  <2>3. QED
    BY <1>2, <2>1, <2>2 DEF BucketInv, Facts, Untouched, Remembered, Known, NoOrphan
<1>4. CASE AddFinalizer \/ RemoveFinalizer
  <2>1. /\ api'.want = api.want /\ api'.abandon = api.abandon
        /\ api'.st = api.st /\ step'.at = "idle" /\ UNCHANGED cache
        /\ \/ UNCHANGED <<api, cfresh>>
           \/ /\ wfresh /\ api.exists
              /\ \/ step.at = "addFinalizer" /\ api'.exists /\ api'.finalizer
                 \/ /\ step.at = "release" /\ ~api'.exists
                    /\ api'.finalizer = api.finalizer
    BY <1>1, <1>4, FinalizerEffect
  <2>2. step.at = "release" => (w.abandon => api.abandon)
    BY <1>1 DEF Protocol, CopyIsCurrent
  <2>3. QED
    BY <1>2, <2>1, <2>2 DEF BucketInv, Facts, Untouched, Remembered, Known, NoOrphan
<1>5. CASE Persist
  <2>1. /\ step.at = "save" /\ api.exists
        /\ SameBut(api', api, w.st) /\ UNCHANGED cache
        /\ step.ok \in Exits
        /\ step.ok = "idle" => step'.at = "idle"
        /\ step.ok \notin {"idle", "report"} => step'.at = step.ok /\ w' = api'
    BY <1>1, <1>5, PersistEffect
  <2>2. step'.at = "idle" \/ (step'.at = "sync" /\ w' = api')
    BY <2>1 DEF Exits
  <2>3. QED
    BY <1>2, <2>1, <2>2 DEF BucketInv, Facts, Untouched, Remembered, Known,
       NoOrphan, SameBut
<1>6. CASE PersistConflict \/ PersistError
  <2>1. /\ step.at = "save" /\ UNCHANGED <<api, cache>>
        /\ \/ step'.at = "idle"
           \/ /\ step'.at = "save"
              /\ SameBut(w', w, [w.st EXCEPT !.ready = FALSE])
    BY <1>1, <1>6, PersistFails
  <2>2. step'.at = "idle" \/ (step'.at = "save" /\ SameMemory(w', w))
    BY <2>1, InvParts, NotReadyMemory
  <2>3. QED
    BY <1>2, <2>1, <2>2 DEF BucketInv, Facts, Untouched, Remembered, Known,
       NoOrphan, SameMemory
<1>7. CASE Crash
  <2>1. step'.at = "idle" /\ UNCHANGED <<api, cache>>
    BY <1>7 DEF Crash, Return, At, k8s
  <2>2. QED
    BY <1>2, <2>1 DEF BucketInv, Facts, Untouched, Remembered, Known, NoOrphan
<1>8. CASE Users /\ everSet' = everSet \union api'.want
  <2>1. /\ api.exists /\ api'.st = api.st /\ api'.finalizer = api.finalizer
        /\ ~api'.exists => ~api.finalizer
        /\ UNCHANGED <<cache, w, step>>
    BY <1>1, <1>8, UserEffect
  <2>2. everSet' = everSet \union api'.want
    BY <1>8
  <2>3. Known(api)'
    BY <2>1, <2>2 DEF BucketInv, Remembered, Known
  <2>4. QED
    BY <1>2, <2>1, <2>3 DEF BucketInv, Facts, Untouched, Remembered, Known, NoOrphan
<1>9. CASE CacheSync
  <2>1. cache' = api /\ UNCHANGED <<api, w, step>>
    BY <1>9 DEF CacheSync, worker
  <2>2. QED
    BY <1>2, <2>1 DEF BucketInv, Facts, Untouched, Remembered, Known, NoOrphan
<1>10. QED
  BY <1>3, <1>4, <1>5, <1>6, <1>7, <1>8, <1>9 DEF Widened, SharedWork

\* What holds of the worker in a careful scenario.
Attention ==
    /\ \A s \in All : conf[s] = "bucket" =>
          s \in (IF step.at = "idle" THEN api ELSE w).st.managed
    /\ step.at \notin {"idle", "sync", "save"} => w.st.managed = api.st.managed
    /\ step.at = "sync" \/ (step.at = "save" /\ step.ok = "sync") => bucket
    /\ step.at = "save" /\ step.err = "idle" => faults = 1

LEMMA AttentionIs == (Attentive /\ Tracked) <=> (Careful => Attention)
BY DEF Attentive, Tracked, Attention

LEMMA SharedAttention ==
    ASSUME BucketInv, Shared, UNCHANGED <<bucket, conf>>, Careful
    PROVE  Attention'
<1>1. /\ KubeOK(Statuses, Labels, Exits) /\ Protocol(Removing)
      /\ KindOK(Statuses, Labels, Exits, Removing)
      /\ Attention /\ faults \in Nat
  BY InvParts, AttentionIs DEF BucketInv, KubeOK
<1>2. CASE \/ ReconcileAbandoned \/ ReconcileDeleted
           \/ ReconcileNew \/ ReconcileExisting
  <2>1. PICK label \in {"release", "delete", "addFinalizer", "read"} : Start(label)
    BY <1>2 DEF ReconcileAbandoned, ReconcileDeleted, ReconcileNew,
                ReconcileExisting
  <2>2. /\ step.at = "idle" /\ step'.at = label /\ w' = cache
        /\ UNCHANGED <<api, cache>>
    BY <1>1, <2>1, StartEffect
  <2>3. cache = api
    <3>1. cfresh
      BY <2>1, CarefulFaults DEF Start, AllFaults
    <3>2. QED
      BY <1>1, <3>1 DEF Protocol, CopyIsCurrent
  <2>4. QED
    BY <1>1, <2>2, <2>3 DEF Attention
<1>3. CASE AddFinalizer \/ RemoveFinalizer
  <2>1. api'.st = api.st /\ step'.at = "idle"
    BY <1>1, <1>3, FinalizerEffect
  <2>2. step.at \in {"addFinalizer", "release"}
    BY <1>3 DEF AddFinalizer, RemoveFinalizer
  <2>3. QED
    BY <1>1, <2>1, <2>2 DEF Attention
<1>4. CASE Persist
  <2>1. /\ step.at = "save" /\ step.ok \in Exits /\ SameBut(api', api, w.st)
        /\ step.ok = "idle" => step'.at = "idle"
        /\ step.ok \notin {"idle", "report"} => step'.at = step.ok /\ w' = api'
    BY <1>1, <1>4, PersistEffect
  <2>2. api'.st = w.st
    BY <2>1 DEF SameBut
  <2>3. \/ step'.at = "idle"
        \/ step'.at = "sync" /\ w' = api' /\ bucket
    BY <1>1, <2>1 DEF Exits, Attention
  <2>4. QED
    BY <1>1, <2>1, <2>2, <2>3 DEF Attention
<1>5. CASE PersistConflict \/ PersistError
  <2>1. step.at = "save" /\ w \in CRs(Statuses)
    BY <1>1, <1>5, WorkersCopy DEF PersistConflict, PersistError
  <2>2. api.exists
    BY <1>1, <2>1, HeldWhileAtWork DEF Phase, Removing
  <2>3. PersistError
    BY <1>5, <2>2, CarefulFaults DEF PersistConflict, AllFaults
  <2>4. UNCHANGED api /\ Continue(step.err, w, wfresh) /\ faults = 0 /\ faults' = 1
    BY <1>1, <2>3, CarefulFaults DEF PersistError, k8s, AllFaults
  <2>5. step.err = "report"
    BY <1>1, <2>1, <2>4 DEF Attention, KubeOK, WorkerOK
  <2>6. Write(NotReady(w), "idle", "idle", wfresh)
    BY <2>4, <2>5 DEF Continue
  <2>7. step'.at = "save" /\ step'.ok = "idle" /\ w' = NotReady(w)
    BY <2>6 DEF Write
  <2>8. SameMemory(NotReady(w), w)
    BY <1>1, <2>1, NotReadyType, NotReadyMemory DEF KindOK
  <2>9. QED
    BY <1>1, <2>1, <2>4, <2>7, <2>8 DEF Attention, SameMemory
<1>6. CASE Crash
  BY <1>6, CarefulFaults DEF Crash, AllFaults
<1>7. CASE Users
  <2>1. api'.st = api.st /\ UNCHANGED <<w, step>> /\ UNCHANGED faults
    BY <1>1, <1>7, UserEffect DEF NoFault
  <2>2. QED
    BY <1>1, <2>1 DEF Attention
<1>8. CASE CacheSync
  <2>1. UNCHANGED <<api, w, step, faults>>
    BY <1>8 DEF CacheSync, worker, NoFault
  <2>2. QED
    BY <1>1, <2>1 DEF Attention
<1>9. QED
  BY <1>2, <1>3, <1>4, <1>5, <1>6, <1>7, <1>8 DEF Shared, SharedWork

LEMMA SharedStep ==
    ASSUME BucketInv, Shared, UNCHANGED <<bucket, conf, object>>,
           Widened
    PROVE  BucketInv'
<1>1. KubeOK(Statuses, Labels, Exits)' /\ Protocol(Removing)'
  BY InvParts, SharedKept
<1>2. Facts'
  BY SharedFacts
<1>3. scenario' = scenario
  <2>1. CASE Start("release") \/ Start("delete") \/ Start("addFinalizer")
             \/ Start("read") \/ PersistConflict \/ PersistError \/ Crash
    BY <2>1 DEF Start, PersistConflict, PersistError, Crash, NoFault, Fault
  <2>2. CASE AddFinalizer \/ RemoveFinalizer \/ Persist \/ CacheSync
    BY <2>2 DEF AddFinalizer, RemoveFinalizer, Persist, CacheSync, NoFault
  <2>3. CASE Users
    BY <2>3 DEF Users, UserEdit, UserAbandon, UserDelete, UserWrite, NoFault
  <2>4. QED
    BY <2>1, <2>2, <2>3 DEF Shared, SharedWork, ReconcileAbandoned,
       ReconcileDeleted, ReconcileNew, ReconcileExisting
<1>4. Attentive' /\ Tracked'
  <2>1. Careful' => Attention'
    BY <1>3, SharedAttention DEF Careful, FreeOf
  <2>2. (Attentive' /\ Tracked') <=> (Careful' => Attention')
    BY DEF Attentive, Tracked, Attention
  <2>3. QED
    BY <2>1, <2>2
<1>5. everSet' \subseteq All
  <2>1. api'.want \subseteq All
    <3>1. api' \in CRs(Statuses)
      BY <1>1 DEF KubeOK
    <3>2. QED
      BY <3>1, CopyType, BucketSettingsAssumption DEF All
  <2>2. QED
    BY <2>1, InvParts DEF AwsOK, Widened
<1>6. step'.local \in 0 .. Settings
  BY InvParts, SharedLocal, BucketSettingsAssumption
<1>7. QED
  BY <1>1, <1>2, <1>4, <1>5, <1>6, InvParts DEF BucketInv, TypeOK, Facts, AwsOK

-----------------------------------------------------------------------------
(* The steps of the handler.                                                *)

Syncs == {"read", "create", "sync"}

\* While it creates and syncs: it writes what its spec contains and removes
\* what it remembers.
Applying ==
    /\ step.at \in Syncs
    /\ WorkerOK(Statuses, Labels, Exits)' /\ Counted
    /\ UNCHANGED <<api, cache, cfresh, object, everSet>>
    /\ AwsOK' /\ step'.local \in 0 .. Settings
    /\ step'.at \in {"create", "sync", "save"}
    /\ w'.want = w.want /\ w'.abandon = w.abandon
    /\ w'.st.managed \subseteq w.st.managed \union w.want
    /\ Careful => Attention'

\* While it deletes: it returns, or goes on without a bucket.
Deleting ==
    /\ step.at = "delete"
    /\ WorkerOK(Statuses, Labels, Exits)' /\ Counted
    /\ UNCHANGED <<api, cache, cfresh, object, everSet>>
    /\ AwsOK' /\ step'.local = 0
    /\ bucket' => bucket
    /\ \/ step'.at = "idle"
       \/ step'.at = "release" /\ w' = w /\ ~bucket'
    /\ Careful => Attention'

LEMMA CarefulPrimed ==
    ASSUME BucketInv, Counted, Careful => Attention'
    PROVE  Attentive' /\ Tracked'
<1>1. Careful' => Attention'
  BY CarefulStays
<1>2. (Attentive' /\ Tracked') <=> (Careful' => Attention')
  BY DEF Attentive, Tracked, Attention
<1>3. QED
  BY <1>1, <1>2

LEMMA ApplyingStep ==
    ASSUME BucketInv, Applying
    PROVE  BucketInv'
<1>1. /\ KubeOK(Statuses, Labels, Exits) /\ Protocol(Removing)
      /\ KindOK(Statuses, Labels, Exits, Removing)
      /\ step.at \notin Removing \union {"idle", "addFinalizer"}
      /\ step'.at \notin Removing \union {"idle", "addFinalizer"}
      /\ step'.at # "release"
      /\ WorkerOK(Statuses, Labels, Exits)' /\ Counted
      /\ UNCHANGED <<api, cache, cfresh>>
  BY InvParts DEF Applying, Removing, Syncs
<1>2. KubeOK(Statuses, Labels, Exits)' /\ Protocol(Removing)'
  <2>1. /\ w'.abandon = w.abandon /\ step'.at # "addFinalizer"
        /\ step.at \notin {"idle", "addFinalizer"}
        /\ step'.at \in Removing <=> step.at \in Removing
    BY <1>1 DEF Applying
  <2>2. QED
    BY <1>1, <2>1, WorkerKept
<1>3. api.finalizer /\ api.exists
  BY <1>1, HeldWhileAtWork DEF Phase
<1>4. Untouched' /\ NoOrphan'
  BY <1>1, <1>3 DEF Applying, Untouched, NoOrphan
<1>5. Remembered'
  BY <1>1 DEF BucketInv, Applying, Remembered, Known
<1>6. Attentive' /\ Tracked'
  BY <1>1, CarefulPrimed DEF Applying
<1>7. QED
  BY <1>2, <1>4, <1>5, <1>6 DEF BucketInv, TypeOK, Applying, AwsOK

LEMMA DeletingStep ==
    ASSUME BucketInv, Deleting
    PROVE  BucketInv'
<1>1. /\ KubeOK(Statuses, Labels, Exits) /\ Protocol(Removing)
      /\ KindOK(Statuses, Labels, Exits, Removing)
      /\ WorkerOK(Statuses, Labels, Exits)' /\ Counted
      /\ UNCHANGED <<api, cache, cfresh>>
  BY InvParts DEF Deleting
<1>2. KubeOK(Statuses, Labels, Exits)' /\ Protocol(Removing)'
  <2>1. \/ step'.at = "idle"
        \/ /\ w'.abandon = w.abandon /\ step'.at # "addFinalizer"
           /\ step.at \notin {"idle", "addFinalizer"}
           /\ step'.at \in Removing <=> step.at \in Removing
    BY DEF Deleting, Removing
  <2>2. QED
    BY <1>1, <2>1, WorkerKept
<1>3. Untouched' /\ NoOrphan'
  BY DEF BucketInv, Deleting, Untouched, NoOrphan
<1>4. Remembered'
  BY DEF BucketInv, Deleting, Remembered, Known
<1>5. Attentive' /\ Tracked'
  BY <1>1, CarefulPrimed DEF Deleting
<1>6. step'.local \in 0 .. Settings
  BY BucketSettingsAssumption DEF Deleting
<1>7. QED
  BY <1>2, <1>3, <1>4, <1>5, <1>6 DEF BucketInv, TypeOK, Deleting, AwsOK

LEMMA GotoKeeps ==
    ASSUME BucketInv, step.at # "idle",
           NEW label \in Labels \ {"idle", "save"}, Goto(label, w)
    PROVE  /\ WorkerOK(Statuses, Labels, Exits)' /\ step'.at = label
           /\ w' = w /\ step'.local = 0
<1>1. w \in CRs(Statuses) /\ wfresh \in BOOLEAN
  BY InvParts
<1>2. step'.local = 0
  BY DEF Goto, At
<1>3. QED
  BY <1>1, <1>2, GotoType

LEMMA GotoWithKeeps ==
    ASSUME BucketInv, step.at # "idle", NEW copy \in CRs(Statuses),
           NEW s, GotoWith("sync", copy, s)
    PROVE  /\ WorkerOK(Statuses, Labels, Exits)' /\ step'.at = "sync"
           /\ w' = copy /\ step'.local = s
<1>1. wfresh \in BOOLEAN /\ "sync" \in Labels \ {"idle", "save"}
  BY InvParts DEF Labels
<1>2. QED
  BY <1>1, GotoWithType

LEMMA SaveKeeps ==
    ASSUME BucketInv, step.at # "idle", NEW copy \in CRs(Statuses),
           NEW ok \in Exits, Save(copy, ok, "report")
    PROVE  /\ WorkerOK(Statuses, Labels, Exits)' /\ step'.at = "save"
           /\ step'.ok = ok /\ step'.err = "report" /\ step'.local = 0
           /\ w' = copy
<1>1. wfresh \in BOOLEAN /\ Write(copy, ok, "report", wfresh) /\ "save" \in Labels
  BY InvParts DEF Save, Labels
<1>2. step'.err = "report" /\ step'.local = 0
  BY <1>1 DEF Write
<1>3. QED
  BY <1>1, <1>2, WriteType

LEMMA ReportKeeps ==
    ASSUME BucketInv, step.at # "idle", Report
    PROVE  /\ WorkerOK(Statuses, Labels, Exits)' /\ step'.at = "save"
           /\ step'.ok = "idle" /\ step'.local = 0 /\ SameMemory(w', w)
<1>1. w \in CRs(Statuses) /\ KubeOK(Statuses, Labels, Exits)
  BY InvParts
<1>2. /\ WorkerOK(Statuses, Labels, Exits)' /\ step'.at = "save"
      /\ step'.ok = "idle"
      /\ SameBut(w', w, [w.st EXCEPT !.ready = FALSE])
  BY <1>1, Kind, ReportEffect
<1>3. step'.local = 0
  BY ContinueLocal DEF Report
<1>4. QED
  BY <1>1, <1>2, <1>3, NotReadyMemory

\* What the handler knows where it applies.
LEMMA AtWork ==
    ASSUME BucketInv, step.at \in Syncs
    PROVE  /\ step.at # "idle" /\ w \in CRs(Statuses)
           /\ Careful => Attention
           /\ faults \in Nat /\ AwsOK
           /\ w.st.managed \subseteq w.st.managed \union w.want
<1>1. step.at # "idle"
  BY DEF Syncs
<1>2. KubeOK(Statuses, Labels, Exits) /\ w \in CRs(Statuses) /\ AwsOK
  BY <1>1, InvParts
<1>3. QED
  BY <1>1, <1>2, AttentionIs DEF BucketInv, KubeOK

\* A report that ends in a status write.  The error may be the only fault.
LEMMA Reported ==
    ASSUME BucketInv, step.at \in Syncs, Report, Counted, AwsOK',
           UNCHANGED <<api, cache, cfresh, object, everSet>>,
           Careful => UNCHANGED <<bucket, conf>> /\ Fault("error")
    PROVE  Applying
<1>1. /\ step.at # "idle" /\ w \in CRs(Statuses) /\ faults \in Nat
      /\ Careful => Attention
  BY AtWork
<1>2. /\ WorkerOK(Statuses, Labels, Exits)' /\ step'.at = "save"
      /\ step'.ok = "idle" /\ step'.local = 0 /\ SameMemory(w', w)
  BY <1>1, ReportKeeps
<1>3. Careful => Attention'
  <2>1. SUFFICES ASSUME Careful PROVE Attention'
    OBVIOUS
  <2>2. faults' = 1
    BY <1>1, <2>1, CarefulFaults DEF AllFaults
  <2>3. QED
    BY <1>1, <1>2, <2>1, <2>2 DEF Attention, SameMemory
<1>4. step'.local \in 0 .. Settings
  BY <1>2, BucketSettingsAssumption
<1>5. QED
  BY <1>2, <1>3, <1>4 DEF Applying, SameMemory

LEMMA Heads == ASSUME BucketInv, HeadBucket PROVE Applying
<1>1. /\ step.at = "read" /\ step.at \in Syncs
      /\ UNCHANGED <<api, cache, cfresh, bucket, conf, object, everSet, faults>>
      /\ Counted
  BY DEF HeadBucket, k8s, aws, Syncs, Counted, NoFault
<1>2. step.at # "idle" /\ AwsOK /\ (Careful => Attention)
  BY <1>1, AtWork
<1>3. PICK label \in {"sync", "create"} :
         Goto(label, w) /\ (label = "sync" => bucket)
  BY DEF HeadBucket
<1>4. /\ WorkerOK(Statuses, Labels, Exits)' /\ step'.at = label
      /\ w' = w /\ step'.local = 0
  BY <1>2, <1>3, GotoKeeps DEF Labels
<1>5. Careful => Attention'
  BY <1>1, <1>2, <1>3, <1>4 DEF Attention
<1>6. step'.local \in 0 .. Settings /\ AwsOK'
  BY <1>1, <1>2, <1>4, BucketSettingsAssumption DEF AwsOK
<1>7. QED
  BY <1>1, <1>4, <1>5, <1>6 DEF Applying

LEMMA Creates == ASSUME BucketInv, CreateBucket PROVE Applying
<1>1. /\ step.at = "create" /\ step.at \in Syncs /\ ~bucket
      /\ bucket' = TRUE /\ conf' = NoConf
      /\ UNCHANGED <<api, cache, cfresh, object, everSet>>
  BY DEF CreateBucket, k8s, Syncs
<1>2. /\ step.at # "idle" /\ w \in CRs(Statuses) /\ AwsOK
      /\ (Careful => Attention)
  BY <1>1, AtWork
<1>3. AwsOK'
  BY <1>1, <1>2, EmptyConf DEF AwsOK
<1>4. CASE Save(w, "sync", "report") /\ NoFault
  <2>1. /\ WorkerOK(Statuses, Labels, Exits)' /\ step'.at = "save"
        /\ step'.ok = "sync" /\ step'.err = "report" /\ step'.local = 0
        /\ w' = w
    BY <1>2, <1>4, SaveKeeps DEF Exits
  <2>2. Attention'
    BY <1>1, <2>1, EmptyConf DEF Attention
  <2>3. step'.local \in 0 .. Settings /\ Counted
    BY <1>4, <2>1, BucketSettingsAssumption DEF Counted
  <2>4. QED
    BY <1>1, <1>3, <2>1, <2>2, <2>3 DEF Applying
<1>5. CASE Report /\ Fault("lost")
  <2>1. ~Careful /\ Counted
    BY <1>5, CarefulFaults DEF Counted, AllFaults
  <2>2. QED
    BY <1>1, <1>3, <1>5, <2>1, Reported
<1>6. QED
  BY <1>4, <1>5 DEF CreateBucket

\* A setting is written or removed, and the copy says so.
LEMMA Writes ==
    ASSUME BucketInv, NEW s \in All, PutSetting(s) \/ ClearSetting(s)
    PROVE  Applying
<1>1. /\ step.at = "sync" /\ step.at \in Syncs /\ s \in 0 .. Settings
      /\ UNCHANGED <<api, cache, cfresh, bucket, object, everSet>>
  BY BucketSettingsAssumption DEF PutSetting, ClearSetting, Syncing, k8s, Syncs, All
<1>2. /\ step.at # "idle" /\ w \in CRs(Statuses) /\ AwsOK
      /\ (Careful => Attention)
  BY <1>1, AtWork
<1>3. PICK value \in {"none", "bucket"} :
         /\ conf' = [conf EXCEPT ![s] = value]
         /\ value = "bucket" => PutSetting(s)
         /\ value = "none" => ClearSetting(s)
  BY DEF PutSetting, ClearSetting
<1>4. AwsOK'
  <2>1. conf' \in [All -> {"none", "bucket", "object"}]
    BY <1>2, <1>3 DEF AwsOK
  <2>2. ~bucket => conf' = conf
    <3>1. SUFFICES ASSUME ~bucket PROVE conf' = conf
      OBVIOUS
    <3>2. value = "none" /\ conf[s] = "none"
      BY <1>2, <1>3, <3>1, EmptyConf DEF AwsOK, PutSetting
    <3>3. QED
      BY <1>2, <1>3, <3>2 DEF AwsOK
  <2>3. QED
    BY <1>1, <1>2, <2>1, <2>2 DEF AwsOK
<1>5. CASE Report /\ Fault("lost")
  <2>1. ~Careful /\ Counted
    BY <1>5, CarefulFaults DEF Counted, AllFaults
  <2>2. QED
    BY <1>1, <1>4, <1>5, <2>1, Reported
<1>6. CASE value = "bucket" /\ GotoWith("sync", Mark(w, s), s) /\ NoFault
  <2>1. /\ Mark(w, s) \in CRs(Statuses)
        /\ Mark(w, s).want = w.want /\ Mark(w, s).abandon = w.abandon
        /\ Mark(w, s).st.managed = w.st.managed \union {s}
    BY <1>2, MarkMemory
  <2>2. /\ WorkerOK(Statuses, Labels, Exits)' /\ step'.at = "sync"
        /\ w' = Mark(w, s) /\ step'.local = s
    BY <1>2, <1>6, <2>1, GotoWithKeeps
  <2>3. s \in w.want /\ Counted
    BY <1>3, <1>6 DEF PutSetting, Counted
  <2>4. Careful => Attention'
    BY <1>1, <1>2, <1>3, <2>1, <2>2 DEF Attention, AwsOK
  <2>5. QED
    BY <1>1, <1>4, <2>1, <2>2, <2>3, <2>4 DEF Applying
<1>7. CASE value = "none" /\ GotoWith("sync", Unmark(w, s), s) /\ NoFault
  <2>1. /\ Unmark(w, s) \in CRs(Statuses)
        /\ Unmark(w, s).want = w.want /\ Unmark(w, s).abandon = w.abandon
        /\ Unmark(w, s).st.managed = w.st.managed \ {s}
    BY <1>2, UnmarkMemory
  <2>2. /\ WorkerOK(Statuses, Labels, Exits)' /\ step'.at = "sync"
        /\ w' = Unmark(w, s) /\ step'.local = s
    BY <1>2, <1>7, <2>1, GotoWithKeeps
  <2>3. Careful => Attention'
    BY <1>1, <1>2, <1>3, <1>7, <2>1, <2>2 DEF Attention, AwsOK
  <2>4. Counted
    BY <1>7 DEF Counted
  <2>5. QED
    BY <1>1, <1>4, <2>1, <2>2, <2>3, <2>4 DEF Applying
<1>8. QED
  BY <1>3, <1>5, <1>6, <1>7 DEF PutSetting, ClearSetting

LEMMA Skips ==
    ASSUME BucketInv, NEW s \in All, SkipSetting(s)
    PROVE  Applying
<1>1. /\ step.at = "sync" /\ step.at \in Syncs /\ s \in 0 .. Settings
      /\ UNCHANGED <<api, cache, cfresh, bucket, conf, object, everSet>>
      /\ Counted
  BY BucketSettingsAssumption
  DEF SkipSetting, Syncing, k8s, aws, Syncs, All, Counted
<1>2. /\ step.at # "idle" /\ w \in CRs(Statuses) /\ AwsOK
      /\ (Careful => Attention)
  BY <1>1, AtWork
<1>3. /\ WorkerOK(Statuses, Labels, Exits)' /\ step'.at = "sync"
      /\ w' = w /\ step'.local = s
  BY <1>2, GotoWithKeeps DEF SkipSetting
<1>4. Careful => Attention'
  BY <1>1, <1>2, <1>3 DEF Attention
<1>5. AwsOK'
  BY <1>1, <1>2 DEF AwsOK
<1>6. QED
  BY <1>1, <1>3, <1>4, <1>5 DEF Applying

LEMMA Syncd == ASSUME BucketInv, Synced PROVE Applying
<1>1. /\ step.at = "sync" /\ step.at \in Syncs
      /\ UNCHANGED <<api, cache, cfresh, bucket, conf, object, everSet>>
      /\ Counted /\ Save(ReadyNow(Observed(w)), "idle", "report")
  BY DEF Synced, k8s, aws, Syncs, Counted
<1>2. /\ step.at # "idle" /\ w \in CRs(Statuses) /\ AwsOK
      /\ (Careful => Attention)
  BY <1>1, AtWork
<1>3. PICK new : new = ReadyNow(Observed(w))
  OBVIOUS
<1>4. new \in CRs(Statuses) /\ SameMemory(new, w)
  BY <1>2, <1>3, SyncedMemory
<1>5. /\ WorkerOK(Statuses, Labels, Exits)' /\ step'.at = "save"
      /\ step'.ok = "idle" /\ step'.err = "report" /\ step'.local = 0
      /\ w' = new
  BY <1>1, <1>2, <1>3, <1>4, SaveKeeps DEF Exits
<1>6. Careful => Attention'
  BY <1>1, <1>2, <1>4, <1>5 DEF Attention, SameMemory
<1>7. step'.local \in 0 .. Settings /\ AwsOK'
  BY <1>1, <1>2, <1>5, BucketSettingsAssumption DEF AwsOK
<1>8. QED
  BY <1>1, <1>4, <1>5, <1>6, <1>7 DEF Applying, SameMemory

LEMMA Failures ==
    ASSUME BucketInv, CallError \/ BucketGone
    PROVE  Applying \/ Deleting
<1>1. /\ UNCHANGED <<api, cache, cfresh, bucket, conf, object, everSet>>
      /\ Counted /\ AwsOK
  BY InvParts DEF CallError, BucketGone, k8s, aws, Counted, AllFaults
<1>2. AwsOK'
  BY <1>1 DEF AwsOK
<1>3. CASE BucketGone
  <2>1. step.at = "sync" /\ step.at \in Syncs /\ ~bucket /\ Report
    BY <1>3 DEF BucketGone, Syncing, Syncs
  <2>2. ~Careful
    BY <2>1, AtWork DEF Attention
  <2>3. QED
    BY <1>1, <1>2, <2>1, <2>2, Reported
<1>4. CASE step.at \in Syncs /\ Report /\ Fault("error")
  BY <1>1, <1>2, <1>4, Reported
<1>5. CASE step.at = "delete" /\ Return /\ Fault("error")
  <2>1. WorkerOK(Statuses, Labels, Exits)' /\ step'.at = "idle"
    BY <1>5, ReturnType DEF Labels
  <2>2. step'.local = 0
    BY <1>5 DEF Return, At
  <2>3. Careful => Attention'
    BY <1>1, <1>5, <2>1, AttentionIs DEF BucketInv, Attention
  <2>4. QED
    BY <1>1, <1>2, <1>5, <2>1, <2>2, <2>3 DEF Deleting
<1>6. QED
  BY <1>3, <1>4, <1>5 DEF CallError, Syncs

LEMMA Deletes == ASSUME BucketInv, DeleteBucket PROVE Deleting
<1>1. /\ step.at = "delete" /\ step.at # "idle" /\ AwsOK
      /\ bucket' = FALSE /\ conf' = NoConf
      /\ UNCHANGED <<api, cache, cfresh, object, everSet>>
  BY InvParts DEF DeleteBucket, k8s
<1>2. AwsOK'
  BY <1>1, EmptyConf DEF AwsOK
<1>3. CASE Goto("release", w) /\ NoFault
  <2>1. /\ WorkerOK(Statuses, Labels, Exits)' /\ step'.at = "release"
        /\ w' = w /\ step'.local = 0
    BY <1>1, <1>3, GotoKeeps DEF Labels
  <2>2. Careful => Attention'
    BY <1>1, <2>1, EmptyConf, AttentionIs DEF BucketInv, Attention
  <2>3. QED
    BY <1>1, <1>2, <1>3, <2>1, <2>2 DEF Deleting, Counted
<1>4. CASE Return /\ Fault("lost")
  <2>1. WorkerOK(Statuses, Labels, Exits)' /\ step'.at = "idle"
    BY <1>4, ReturnType DEF Labels
  <2>2. step'.local = 0
    BY <1>4 DEF Return, At
  <2>3. ~Careful /\ Counted
    BY <1>4, CarefulFaults DEF Counted, AllFaults
  <2>4. QED
    BY <1>1, <1>2, <2>1, <2>2, <2>3 DEF Deleting
<1>5. QED
  BY <1>3, <1>4 DEF DeleteBucket

-----------------------------------------------------------------------------
(* The dedicated objects, and the invariant.                                *)

Others == Owners \/ (\E s \in All : Apply(s)) \/ ExternalDelete

LEMMA OthersEffect ==
    ASSUME BucketInv, Others
    PROVE  /\ UNCHANGED <<api, cache, cfresh, w, wfresh, step, everSet>>
           /\ Counted /\ AwsOK' /\ (bucket' => bucket)
           /\ Careful => UNCHANGED <<bucket, faults>>
           /\ \A s \in All : conf'[s] = "bucket" => conf[s] = "bucket"
           /\ \A s \in All : conf[s] = "object" /\ bucket' /\ object'[s] = "lives"
                 => conf'[s] = "object"
<1>1. AwsOK
  BY InvParts
<1>2. CASE ExternalDelete
  <2>1. ~Careful
    BY <1>2, CarefulFaults DEF ExternalDelete, AllFaults
  <2>2. QED
    BY <1>1, <1>2, <2>1, EmptyConf
    DEF ExternalDelete, k8s, worker, Counted, AllFaults, AwsOK
<1>3. ASSUME NEW s \in All, Apply(s) \/ AddObject(s) \/ RemoveObject(s)
      PROVE  /\ UNCHANGED <<api, cache, cfresh, w, wfresh, step, everSet, bucket>>
             /\ NoFault /\ AwsOK'
             /\ \A q \in All : conf'[q] = "bucket" => conf[q] = "bucket"
             /\ \A q \in All : conf[q] = "object" /\ object'[q] = "lives"
                   => conf'[q] = "object"
  <2>1. CASE Apply(s)
    BY <1>1, <1>3, <2>1, EmptyConf DEF Apply, k8s, worker, AwsOK
  <2>2. CASE AddObject(s)
    BY <1>1, <1>3, <2>2, EmptyConf DEF AddObject, k8s, worker, AwsOK
  <2>3. CASE RemoveObject(s)
    <3>1. /\ conf' = [conf EXCEPT ![s] = "none"]
          /\ object' = [object EXCEPT ![s] = "gone"]
          /\ UNCHANGED <<api, cache, cfresh, w, wfresh, step, everSet, bucket>>
          /\ NoFault
      BY <2>3 DEF RemoveObject, k8s, worker
    <3>2. ~bucket => conf' = NoConf
      <4>1. SUFFICES ASSUME ~bucket PROVE conf' = conf
        BY <1>1 DEF AwsOK
      <4>2. conf[s] = "none"
        BY <1>1, <4>1, EmptyConf DEF AwsOK
      <4>3. QED
        BY <1>1, <3>1, <4>2 DEF AwsOK
    <3>3. QED
      BY <1>1, <3>1, <3>2 DEF AwsOK
  <2>4. QED
    BY <1>3, <2>1, <2>2, <2>3
<1>4. CASE ~ExternalDelete
  <2>1. PICK s \in All : Apply(s) \/ AddObject(s) \/ RemoveObject(s)
    BY <1>4 DEF Others, Owners
  <2>2. /\ UNCHANGED <<api, cache, cfresh, w, wfresh, step, everSet, bucket>>
        /\ NoFault /\ AwsOK'
        /\ \A q \in All : conf'[q] = "bucket" => conf[q] = "bucket"
        /\ \A q \in All : conf[q] = "object" /\ object'[q] = "lives"
              => conf'[q] = "object"
    BY <1>3, <2>1
  <2>3. QED
    BY <2>2 DEF Counted, NoFault
<1>5. QED
  BY <1>2, <1>4

LEMMA OthersStep ==
    ASSUME BucketInv, Others
    PROVE  BucketInv'
<1>1. /\ UNCHANGED <<api, cache, cfresh, w, wfresh, step, everSet>>
      /\ Counted /\ AwsOK' /\ (bucket' => bucket)
      /\ Careful => UNCHANGED <<bucket, faults>>
      /\ \A s \in All : conf'[s] = "bucket" => conf[s] = "bucket"
  BY OthersEffect
<1>2. KubeOK(Statuses, Labels, Exits)' /\ Protocol(Removing)'
  BY <1>1, InvParts, AwsKept
<1>3. Untouched' /\ Remembered' /\ NoOrphan'
  BY <1>1 DEF BucketInv, Untouched, Remembered, Known, NoOrphan
<1>4. Careful => Attention'
  BY <1>1, AttentionIs DEF BucketInv, Attention
<1>5. Attentive' /\ Tracked'
  BY <1>1, <1>4, CarefulPrimed
<1>6. QED
  BY <1>1, <1>2, <1>3, <1>5, InvParts DEF BucketInv, TypeOK, AwsOK

\* The steps of Reconciler, with what they leave alone in S3.
Common ==
    /\ Shared /\ UNCHANGED <<bucket, conf, object>>
    /\ Widened

LEMMA CommonStep == ASSUME BucketInv, Common PROVE BucketInv'
BY SharedStep DEF Common

LEMMA NextCases ==
    ASSUME Next
    PROVE  \/ Common
           \/ HeadBucket \/ CreateBucket
           \/ \E s \in All : PutSetting(s) \/ ClearSetting(s) \/ SkipSetting(s)
           \/ Synced \/ BucketGone \/ CallError \/ DeleteBucket
           \/ Others
BY DEF Next, Work, Reconcile, Outside, People, WatchDelivers, Common, Widened, Shared,
   Others, aws

LEMMA InitInv == Init => BucketInv
<1> SUFFICES ASSUME Init PROVE BucketInv
  OBVIOUS
<1>1. PICK want \in Wants :
         api = [exists |-> TRUE, gen |-> 1, want |-> want, deleting |-> FALSE,
                finalizer |-> FALSE, abandon |-> FALSE, st |-> BlankStatus]
  BY DEF Init, InitKube
<1>2. BlankStatus \in Statuses /\ BlankStatus.managed = {}
  BY DEF BlankStatus, Statuses
<1>3. /\ api \in CRs(Statuses) /\ api.exists /\ ~api.finalizer /\ ~api.deleting
      /\ ~api.abandon /\ api.st.managed = {} /\ api.want \subseteq All
  BY <1>1, <1>2, BucketSettingsAssumption DEF CRs, All
<1>4. /\ cache = api /\ cfresh \in BOOLEAN /\ w = NoCopy /\ wfresh \in BOOLEAN
      /\ step.at = "idle" /\ step.local = 0 /\ bucket = FALSE
      /\ conf = NoConf /\ object = NoConf /\ everSet = api.want
  BY DEF Init, InitKube, At
<1>5. scenario \in Scenarios /\ faults = 0
  BY DEF Init, InitKube
<1>6. faults \in 0 .. scenario.most
  BY <1>5, ReconcilerAssumption DEF AreScenarios
<1>7. KubeOK(Statuses, Labels, Exits)
  BY <1>3, <1>4, <1>5, <1>6 DEF KubeOK, WorkerOK, Labels
<1>8. TypeOK
  <2>1. /\ NoConf \in [All -> {"none", "bucket", "object"}]
        /\ NoConf \in [All -> {"none", "lives", "gone"}]
    BY DEF NoConf
  <2>2. step.local \in 0 .. Settings
    BY <1>4, BucketSettingsAssumption
  <2>3. QED
    BY <1>3, <1>4, <1>7, <2>1, <2>2 DEF TypeOK
<1>9. Protocol(Removing) /\ Untouched /\ NoOrphan /\ Remembered
  BY <1>3, <1>4 DEF Protocol, FinalizerHeld, DeletionSeen, CopyIsCurrent,
     Removing, Untouched, NoOrphan, Remembered, Known
<1>10. Attentive /\ Tracked
  BY <1>4, EmptyConf DEF Attentive, Tracked
<1>11. QED
  BY <1>8, <1>9, <1>10 DEF BucketInv

LEMMA StutterInv == BucketInv /\ UNCHANGED vars => BucketInv'
BY DEF vars, BucketInv, TypeOK, KubeOK, WorkerOK, Protocol, FinalizerHeld,
       DeletionSeen, CopyIsCurrent, Untouched, Remembered, Known, Careful,
       FreeOf, Attentive, Tracked, NoOrphan

\* Whatever fails, a CR that is gone and was not abandoned leaves no bucket; and
\* after at most one failed call or write, what the S3Bucket wrote is listed in
\* managedSettings; with what makes that inductive, for any settings.
THEOREM BucketInvariant == Spec => []BucketInv
<1>1. Init => BucketInv
  BY InitInv
<1>2. BucketInv /\ [Next]_vars => BucketInv'
  <2>1. SUFFICES ASSUME BucketInv, [Next]_vars PROVE BucketInv'
    OBVIOUS
  <2>2. CASE UNCHANGED vars
    BY <2>1, <2>2, StutterInv
  <2>3. CASE Next
    BY <2>1, <2>3, NextCases, CommonStep, Heads, Creates, Writes, Skips, Syncd,
       Failures, Deletes, ApplyingStep, DeletingStep, OthersStep
  <2>4. QED
    BY <2>1, <2>2, <2>3
<1>3. QED
  BY <1>1, <1>2, PTL DEF Spec

-----------------------------------------------------------------------------
(* The settings of others.                                                  *)

\* What OthersLeftAlone forbids to a step.
LeftAlone ==
    \A s \in All \ everSet :
        conf[s] = "object" /\ bucket' /\ object'[s] = "lives"
            => conf'[s] = "object"

LEMMA StepLeavesAlone ==
    ASSUME BucketInv, [Next]_vars
    PROVE  LeftAlone
<1>1. CASE UNCHANGED conf
  BY <1>1 DEF LeftAlone
<1>2. CASE CreateBucket \/ DeleteBucket
  BY <1>2, EmptyConf, InvParts DEF CreateBucket, DeleteBucket, LeftAlone, AwsOK
<1>3. ASSUME NEW s \in All, PutSetting(s) \/ ClearSetting(s)
      PROVE  LeftAlone
  <2>1. step.at # "idle"
    BY <1>3 DEF PutSetting, ClearSetting, Syncing
  <2>2. Known(w)
    BY <2>1 DEF BucketInv, Remembered
  <2>3. s \in everSet
    BY <1>3, <2>2 DEF PutSetting, ClearSetting, Known
  <2>4. \A q \in All \ everSet : conf'[q] = conf[q]
    BY <1>3, <2>3, InvParts DEF PutSetting, ClearSetting, AwsOK
  <2>5. QED
    BY <2>4 DEF LeftAlone
<1>4. CASE Others
  BY <1>4, OthersEffect DEF LeftAlone
<1>5. CASE UNCHANGED vars
  BY <1>1, <1>5 DEF vars
<1>6. CASE Next
  <2>1. ASSUME \/ Common \/ HeadBucket \/ Synced \/ BucketGone \/ CallError
               \/ \E s \in All : SkipSetting(s)
        PROVE  UNCHANGED conf
    BY <2>1 DEF Common, HeadBucket, Synced, BucketGone, CallError, SkipSetting, aws
  <2>2. QED
    BY <1>1, <1>2, <1>3, <1>4, <1>6, <2>1, NextCases
<1>7. QED
  BY <1>5, <1>6

\* A bucket whose spec never contained a setting does not touch it while a
\* dedicated object owns it, however stale the worker's copy and whatever
\* crashes and fails, until the bucket itself is deleted.
THEOREM SettingsOfOthersLeftAlone == Spec => OthersLeftAlone
<1>1. BucketInv /\ [Next]_vars => [LeftAlone]_vars
  BY StepLeavesAlone
<1>2. QED
  BY <1>1, BucketInvariant, PTL DEF Spec, OthersLeftAlone, LeftAlone

=============================================================================
