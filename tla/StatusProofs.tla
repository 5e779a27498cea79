---------------------------- MODULE StatusProofs ----------------------------
(***************************************************************************)
(* Two native kinds whose status says what AWS was given: DBInstance and   *)
(* SecurityGroup.  For any specs, scenarios, bounds and faults, neither    *)
(* kind's resource outlives its CR, and neither claims a spec that was not *)
(* applied.  The second kind is named G!.                                  *)
(***************************************************************************)
EXTENDS DBInstance, SecurityGroupNamed, ReconcilerProofs, FiniteSetTheorems


LEMMA Kind == KindOK(Statuses, Labels, Exits, Removing)
BY DEF KindOK, Statuses, Labels, Exits, Removing

LEMMA InvParts ==
    ASSUME InstanceInv
    PROVE  /\ KubeOK(Statuses, Labels, Exits) /\ Protocol(Removing)
           /\ KindOK(Statuses, Labels, Exits, Removing)
           /\ api \in CRs(Statuses) /\ cache \in CRs(Statuses)
           /\ state \in States /\ has \in Settings /\ snapshot \in BOOLEAN
           /\ wfresh \in BOOLEAN /\ step.at \in Labels
           /\ step.at # "idle" => w \in CRs(Statuses)
BY Kind DEF InstanceInv, TypeOK, KubeOK, WorkerOK

\* The generations of a copy are numbers.
Numbered(cr) == cr.gen \in Nat /\ cr.st.obsGen \in Nat

LEMMA CopyNumbered == ASSUME NEW cr \in CRs(Statuses) PROVE Numbered(cr)
<1>1. cr.gen \in Nat /\ cr.st \in Statuses
  BY CopyType
<1>2. QED
  BY <1>1 DEF Numbered, Statuses

LEMMA AllNumbered ==
    ASSUME InstanceInv
    PROVE  Numbered(api) /\ Numbered(cache) /\ (step.at # "idle" => Numbered(w))
BY InvParts, CopyNumbered

\* What the handler changes in its copy keeps what the users wrote.
SameSpec(new, cr) ==
    new.gen = cr.gen /\ new.want = cr.want /\ new.abandon = cr.abandon

\* Only the status may be another one, and it observes the same generation.
SameObserved(new, cr) == SameSpec(new, cr) /\ new.st.obsGen = cr.st.obsGen

LEMMA ReadyObserves ==
    ASSUME NEW new, NEW cr \in CRs(Statuses), NEW ready,
           SameBut(new, cr, [cr.st EXCEPT !.ready = ready])
    PROVE  SameObserved(new, cr)
<1>1. cr.st \in Statuses
  BY CopyType
<1>2. [cr.st EXCEPT !.ready = ready].obsGen = cr.st.obsGen
  BY <1>1 DEF Statuses
<1>3. QED
  BY <1>2 DEF SameBut, SameObserved, SameSpec

LEMMA WrittenCopies ==
    ASSUME NEW cr \in CRs(Statuses)
    PROVE  /\ NotReady(cr) \in CRs(Statuses) /\ SameObserved(NotReady(cr), cr)
           /\ ReadyNow(cr) \in CRs(Statuses) /\ SameObserved(ReadyNow(cr), cr)
           /\ ReadyNow(Observed(cr)) \in CRs(Statuses)
           /\ SameSpec(ReadyNow(Observed(cr)), cr)
           /\ ReadyNow(Observed(cr)).st.obsGen = cr.gen
BY DEF CRs, Statuses, NotReady, ReadyNow, Observed, SameObserved, SameSpec

\* What the instance is created with, and what it is modified to, is what is sent
\* of the spec.
LEMMA SettingsGiven ==
    ASSUME NEW want \in Wants, NEW old \in Settings
    PROVE  /\ want.set \in Settings /\ Carries(want.set, want)
           /\ Modified(old, want.set) \in Settings
           /\ Carries(Modified(old, want.set), want)
<1>1. want.set \in Settings
  BY DBInstanceAssumption
<1>2. Carries(want.set, want)
  BY <1>1 DEF Carries
<1>3. Modified(old, want.set) \in Settings
  BY <1>1 DEF Modified, Settings
<1>4. Carries(Modified(old, want.set), want)
  BY <1>1 DEF Modified, Carries, Settings
<1>5. QED
  BY <1>1, <1>2, <1>3, <1>4

LEMMA KnownCopy ==
    ASSUME NEW cr \in CRs(Statuses)
    PROVE  /\ [cr EXCEPT !.st.arn = TRUE] \in CRs(Statuses)
           /\ SameObserved([cr EXCEPT !.st.arn = TRUE], cr)
BY DEF CRs, Statuses, SameObserved, SameSpec

-----------------------------------------------------------------------------
(* The order of the generations.                                            *)

\* What the invariant says of them, and of nothing else.
Versions == Generations /\ Seen /\ Given

LEMMA StartVersions ==
    ASSUME InstanceInv, step.at = "idle", w' = cache,
           UNCHANGED <<api, cache, has>>
    PROVE  Versions'
<1>1. Numbered(api) /\ Numbered(cache)
  BY AllNumbered
<1>2. QED
  BY <1>1 DEF InstanceInv, Versions, Generations, Seen, Given, Aged, Applied,
     Numbered

\* The worker returns, or keeps its copy but for the conditions of its status.
LEMMA SameVersions ==
    ASSUME InstanceInv, UNCHANGED <<api, cache, has>>,
           \/ step'.at = "idle"
           \/ step.at # "idle" /\ SameObserved(w', w)
    PROVE  Versions'
BY DEF InstanceInv, Versions, Generations, Seen, Given, Aged, Applied,
       SameObserved, SameSpec

LEMMA GivenVersions ==
    ASSUME InstanceInv, UNCHANGED <<api, cache>>, step.at # "idle",
           Carries(has', w.want),
           SameObserved(w', w) \/ (SameSpec(w', w) /\ w'.st.obsGen = w.gen)
    PROVE  Versions'
<1>1. Numbered(api) /\ Numbered(cache) /\ Numbered(w)
  BY AllNumbered
<1>2. /\ w.gen <= cache.gen /\ (w.gen = cache.gen => w.want = cache.want)
      /\ cache.gen <= api.gen /\ (cache.gen = api.gen => cache.want = api.want)
      /\ api.st.obsGen <= w.gen /\ cache.st.obsGen <= w.gen
      /\ w.st.obsGen <= w.gen /\ api.st.obsGen <= cache.gen
      /\ cache.st.obsGen <= cache.gen
  BY DEF InstanceInv, Generations, Seen, Aged
<1>3. Generations' /\ Seen'
  BY <1>1, <1>2 DEF Generations, Seen, Aged, SameObserved, SameSpec, Numbered
<1>4. Applied(api)' /\ Applied(cache)' /\ Applied(w)'
  BY <1>1, <1>2 DEF Applied, SameObserved, SameSpec, Numbered
<1>5. QED
  BY <1>3, <1>4 DEF Versions, Given

LEMMA PersistVersions ==
    ASSUME InstanceInv, step.at = "save", step'.at = "idle",
           SameBut(api', api, w.st), UNCHANGED <<cache, has>>
    PROVE  Versions'
<1>1. Numbered(api) /\ Numbered(cache) /\ Numbered(w)
  BY AllNumbered
<1>2. QED
  BY <1>1 DEF InstanceInv, Versions, Generations, Seen, Given, Aged, Applied,
     SameBut, Numbered

LEMMA UserVersions ==
    ASSUME InstanceInv, api'.st = api.st, UNCHANGED <<cache, w, step, has>>,
           \/ api'.gen = api.gen + 1
           \/ api'.gen = api.gen /\ api'.want = api.want
    PROVE  Versions'
<1>1. /\ Numbered(api) /\ Numbered(cache) /\ (step.at # "idle" => Numbered(w))
  BY AllNumbered
<1>2. QED
  BY <1>1 DEF InstanceInv, Versions, Generations, Seen, Given, Aged, Applied,
     Numbered

LEMMA FinalizerVersions ==
    ASSUME InstanceInv, step'.at = "idle", api'.st = api.st,
           api'.gen = api.gen, api'.want = api.want, UNCHANGED <<cache, has>>
    PROVE  Versions'
BY DEF InstanceInv, Versions, Generations, Seen, Given, Aged, Applied

LEMMA CacheVersions ==
    ASSUME InstanceInv, cache' = api, UNCHANGED <<api, w, step, has>>
    PROVE  Versions'
<1>1. /\ Numbered(api) /\ Numbered(cache) /\ (step.at # "idle" => Numbered(w))
  BY AllNumbered
<1>2. QED
  BY <1>1 DEF InstanceInv, Versions, Generations, Seen, Given, Aged, Applied,
     Numbered

-----------------------------------------------------------------------------
(* The steps of Reconciler.                                                 *)

LEMMA SharedFacts ==
    ASSUME InstanceInv, Shared, UNCHANGED aws
    PROVE  Untouched' /\ NoOrphan' /\ Versions'
<1>1. /\ KubeOK(Statuses, Labels, Exits) /\ Protocol(Removing)
      /\ KindOK(Statuses, Labels, Exits, Removing)
      /\ UNCHANGED <<state, has, snapshot>>
  BY InvParts DEF aws
<1>2. CASE \/ ReconcileAbandoned \/ ReconcileDeleted
           \/ ReconcileNew \/ ReconcileExisting
  <2>1. PICK label \in {"release", "delete", "addFinalizer", "read"} :
            Start(label) /\ (label = "release" => cache.abandon)
    BY <1>2 DEF ReconcileAbandoned, ReconcileDeleted, ReconcileNew,
                ReconcileExisting
  <2>2. /\ step.at = "idle" /\ step'.at = label /\ w' = cache
        /\ UNCHANGED <<api, cache>>
    BY <1>1, <2>1, StartEffect
  <2>3. Versions'
    BY <1>1, <2>2, StartVersions
  <2>4. QED
    BY <1>1, <2>1, <2>2, <2>3 DEF InstanceInv, Untouched, NoOrphan
<1>3. CASE AddFinalizer \/ RemoveFinalizer
  <2>1. /\ api'.want = api.want /\ api'.gen = api.gen
        /\ api'.abandon = api.abandon /\ api'.st = api.st
        /\ step'.at = "idle" /\ UNCHANGED cache
        /\ \/ UNCHANGED <<api, cfresh>>
           \/ /\ wfresh /\ api.exists
              /\ \/ step.at = "addFinalizer" /\ api'.exists /\ api'.finalizer
                 \/ /\ step.at = "release" /\ ~api'.exists
                    /\ api'.finalizer = api.finalizer
    BY <1>1, <1>3, FinalizerEffect
  <2>2. Versions'
    BY <1>1, <2>1, FinalizerVersions
  <2>3. step.at = "release" => (w.abandon => api.abandon)
    BY <1>1 DEF Protocol, CopyIsCurrent
  <2>4. QED
    BY <1>1, <2>1, <2>2, <2>3 DEF InstanceInv, Untouched, NoOrphan
<1>4. CASE Persist
  <2>1. /\ step.at = "save" /\ api.exists /\ step'.at = "idle"
        /\ SameBut(api', api, w.st) /\ UNCHANGED cache
    BY <1>1, <1>4, PersistEffect DEF Exits
  <2>2. Versions'
    BY <1>1, <2>1, PersistVersions
  <2>3. QED
    BY <1>1, <2>1, <2>2 DEF InstanceInv, Untouched, NoOrphan, SameBut
<1>5. CASE PersistConflict \/ PersistError
  <2>1. /\ step.at = "save" /\ UNCHANGED <<api, cache>>
        /\ \/ step'.at = "idle"
           \/ /\ step'.at = "save"
              /\ SameBut(w', w, [w.st EXCEPT !.ready = FALSE])
    BY <1>1, <1>5, PersistFails
  <2>2. step'.at = "idle" \/ (step'.at = "save" /\ SameObserved(w', w))
    BY <2>1, InvParts, ReadyObserves
  <2>3. Versions'
    BY <1>1, <2>1, <2>2, SameVersions
  <2>4. QED
    BY <1>1, <2>1, <2>2, <2>3 DEF InstanceInv, Untouched, NoOrphan
<1>6. CASE Crash
  <2>1. step'.at = "idle" /\ UNCHANGED <<api, cache>>
    BY <1>6 DEF Crash, Return, At, k8s
  <2>2. Versions'
    BY <1>1, <2>1, SameVersions
  <2>3. QED
    BY <1>1, <2>1, <2>2 DEF InstanceInv, Untouched, NoOrphan
<1>7. CASE Users
  <2>1. /\ api.exists /\ api'.st = api.st /\ api'.finalizer = api.finalizer
        /\ ~api'.exists => ~api.finalizer
        /\ UNCHANGED <<cache, w, step>>
        /\ \/ api'.gen = api.gen + 1
           \/ api'.gen = api.gen /\ api'.want = api.want
    BY <1>1, <1>7, UserEffect
  <2>2. Versions'
    BY <1>1, <2>1, UserVersions
  <2>3. QED
    BY <1>1, <2>1, <2>2 DEF InstanceInv, Untouched, NoOrphan
<1>8. CASE CacheSync
  <2>1. cache' = api /\ UNCHANGED <<api, w, step>>
    BY <1>8 DEF CacheSync, worker
  <2>2. Versions'
    BY <1>1, <2>1, CacheVersions
  <2>3. QED
    BY <1>1, <2>1, <2>2 DEF InstanceInv, Untouched, NoOrphan
<1>9. QED
  BY <1>2, <1>3, <1>4, <1>5, <1>6, <1>7, <1>8 DEF Shared, SharedWork

LEMMA SharedStep ==
    ASSUME InstanceInv, Shared, UNCHANGED aws
    PROVE  InstanceInv'
<1>1. KubeOK(Statuses, Labels, Exits)' /\ Protocol(Removing)'
  BY InvParts, SharedKept
<1>2. QED
  BY <1>1, InvParts, SharedFacts DEF InstanceInv, TypeOK, Versions, aws

-----------------------------------------------------------------------------
(* The steps of the handler.                                                *)

\* While it creates and modifies: it may give the spec of its copy.
Applying ==
    /\ step.at \in {"read", "create", "modify"}
    /\ WorkerOK(Statuses, Labels, Exits)' /\ Counted
    /\ UNCHANGED <<api, cache, cfresh>>
    /\ state' \in States /\ snapshot' \in BOOLEAN
    /\ \/ has' = has /\ SameObserved(w', w)
       \/ /\ has' \in Settings /\ Carries(has', w.want)
          /\ SameObserved(w', w) \/ (SameSpec(w', w) /\ w'.st.obsGen = w.gen)
    /\ step'.at \in {"create", "modify", "save"}

\* While it deletes: it returns, or goes on when the instance goes away.
Deleting ==
    /\ step.at = "delete"
    /\ WorkerOK(Statuses, Labels, Exits)' /\ Counted
    /\ UNCHANGED <<api, cache, cfresh, has>>
    /\ state' \in {state, "deleting"} /\ snapshot' \in BOOLEAN
    /\ state' # state => api.finalizer
    /\ \/ step'.at = "idle"
       \/ /\ step'.at = "release" /\ w' = w
          /\ state' \in {"none", "deleting"}

LEMMA ApplyingStep ==
    ASSUME InstanceInv, Applying
    PROVE  InstanceInv'
<1>1. /\ KubeOK(Statuses, Labels, Exits) /\ Protocol(Removing)
      /\ KindOK(Statuses, Labels, Exits, Removing)
      /\ step.at \notin Removing \union {"idle", "addFinalizer"}
      /\ step'.at \notin Removing \union {"idle", "addFinalizer"}
      /\ step'.at # "release"
      /\ w'.abandon = w.abandon
  BY InvParts DEF Applying, Removing, SameObserved, SameSpec
<1>2. KubeOK(Statuses, Labels, Exits)' /\ Protocol(Removing)'
  <2>1. WorkerOK(Statuses, Labels, Exits)' /\ Counted
        /\ UNCHANGED <<api, cache, cfresh>>
    BY DEF Applying
  <2>2. /\ w'.abandon = w.abandon /\ step'.at # "addFinalizer"
        /\ step.at \notin {"idle", "addFinalizer"}
        /\ step'.at \in Removing <=> step.at \in Removing
    BY <1>1
  <2>3. QED
    BY <1>1, <2>1, <2>2, WorkerKept
<1>3. api.finalizer /\ api.exists
  BY <1>1, HeldWhileAtWork DEF Phase
<1>4. Untouched' /\ NoOrphan'
  BY <1>1, <1>3 DEF Applying, Untouched, NoOrphan
<1>5. Versions'
  <2>1. CASE has' = has /\ SameObserved(w', w)
    BY <1>1, <2>1, SameVersions DEF Applying
  <2>2. CASE /\ Carries(has', w.want)
             /\ SameObserved(w', w) \/ (SameSpec(w', w) /\ w'.st.obsGen = w.gen)
    BY <1>1, <2>2, GivenVersions DEF Applying
  <2>3. QED
    BY <2>1, <2>2 DEF Applying
<1>6. has' \in Settings
  BY InvParts DEF Applying
<1>7. QED
  BY <1>2, <1>4, <1>5, <1>6 DEF InstanceInv, TypeOK, Versions, Applying

LEMMA DeletingStep ==
    ASSUME InstanceInv, Deleting
    PROVE  InstanceInv'
<1>1. /\ KubeOK(Statuses, Labels, Exits) /\ Protocol(Removing)
      /\ KindOK(Statuses, Labels, Exits, Removing)
      /\ step.at # "idle" /\ w \in CRs(Statuses)
  BY InvParts DEF Deleting
<1>2. KubeOK(Statuses, Labels, Exits)' /\ Protocol(Removing)'
  <2>1. WorkerOK(Statuses, Labels, Exits)' /\ Counted
        /\ UNCHANGED <<api, cache, cfresh>>
    BY DEF Deleting
  <2>2. \/ step'.at = "idle"
        \/ /\ w'.abandon = w.abandon /\ step'.at # "addFinalizer"
           /\ step.at \notin {"idle", "addFinalizer"}
           /\ step'.at \in Removing <=> step.at \in Removing
    BY DEF Deleting, Removing
  <2>3. QED
    BY <1>1, <2>1, <2>2, WorkerKept
<1>3. Untouched' /\ NoOrphan'
  BY DEF InstanceInv, Deleting, Untouched, NoOrphan
<1>4. Versions'
  BY <1>1, SameVersions DEF Deleting, SameObserved, SameSpec
<1>5. state' \in States
  BY InvParts DEF Deleting, States
<1>6. has' \in Settings /\ snapshot' \in BOOLEAN
  BY InvParts DEF Deleting
<1>7. QED
  BY <1>2, <1>3, <1>4, <1>5, <1>6 DEF InstanceInv, TypeOK, Versions

LEMMA GotoKeeps ==
    ASSUME InstanceInv, step.at # "idle",
           NEW label \in Labels \ {"idle", "save"}, Goto(label, w)
    PROVE  /\ WorkerOK(Statuses, Labels, Exits)' /\ step'.at = label
           /\ w' = w /\ SameObserved(w', w)
<1>1. w \in CRs(Statuses) /\ wfresh \in BOOLEAN
  BY InvParts
<1>2. QED
  BY <1>1, GotoType DEF SameObserved, SameSpec

LEMMA ReportKeeps ==
    ASSUME InstanceInv, step.at # "idle", Report
    PROVE  /\ WorkerOK(Statuses, Labels, Exits)' /\ step'.at = "save"
           /\ SameObserved(w', w)
<1>1. w \in CRs(Statuses)
  BY InvParts
<1>2. /\ WorkerOK(Statuses, Labels, Exits)' /\ step'.at = "save"
      /\ SameBut(w', w, [w.st EXCEPT !.ready = FALSE])
  BY <1>1, InvParts, ReportEffect
<1>3. QED
  BY <1>1, <1>2, ReadyObserves

LEMMA SaveKeeps ==
    ASSUME InstanceInv, step.at # "idle", NEW copy \in CRs(Statuses),
           NEW err \in {"idle", "report"}, Save(copy, "idle", err)
    PROVE  WorkerOK(Statuses, Labels, Exits)' /\ step'.at = "save" /\ w' = copy
<1>1. wfresh \in BOOLEAN /\ Write(copy, "idle", err, wfresh)
  BY InvParts DEF Save
<1>2. "idle" \in Exits /\ "save" \in Labels
  BY DEF Exits, Labels
<1>3. QED
  BY <1>1, <1>2, WriteType

LEMMA ReturnKeeps ==
    ASSUME Return
    PROVE  WorkerOK(Statuses, Labels, Exits)' /\ step'.at = "idle"
BY ReturnType DEF Labels

\* Up to the first call that changes something.
LEMMA Reads ==
    ASSUME InstanceInv, Busy \/ Available \/ Otherwise
    PROVE  Applying
<1>1. /\ step.at = "read" /\ step.at # "idle" /\ w \in CRs(Statuses)
      /\ state \in States /\ snapshot \in BOOLEAN
  BY InvParts DEF Busy, Available, Otherwise
<1>2. UNCHANGED <<api, cache, cfresh, state, has, snapshot>> /\ Counted
  BY DEF Busy, Available, Otherwise, k8s, aws, Counted
<1>3. /\ WorkerOK(Statuses, Labels, Exits)' /\ SameObserved(w', w)
      /\ step'.at \in {"create", "modify", "save"}
  <2>1. CASE Save(NotReady(w), "idle", "idle")
    <3>1. NotReady(w) \in CRs(Statuses) /\ SameObserved(NotReady(w), w)
      BY <1>1, WrittenCopies
    <3>2. QED
      BY <1>1, <2>1, <3>1, SaveKeeps
  <2>2. CASE Save(ReadyNow(w), "idle", "report")
    <3>1. ReadyNow(w) \in CRs(Statuses) /\ SameObserved(ReadyNow(w), w)
      BY <1>1, WrittenCopies
    <3>2. QED
      BY <1>1, <2>2, <3>1, SaveKeeps
  <2>3. CASE Goto("modify", w)
    BY <1>1, <2>3, GotoKeeps DEF Labels
  <2>4. CASE Goto("create", w)
    BY <1>1, <2>4, GotoKeeps DEF Labels
  <2>5. QED
    BY <2>1, <2>2, <2>3, <2>4 DEF Busy, Available, Otherwise
<1>4. QED
  BY <1>1, <1>2, <1>3 DEF Applying

LEMMA Creates ==
    ASSUME InstanceInv, Create
    PROVE  Applying
<1>1. /\ step.at = "create" /\ step.at # "idle" /\ w \in CRs(Statuses)
      /\ snapshot \in BOOLEAN /\ state' \in States /\ has' = w.want.set
      /\ UNCHANGED <<api, cache, cfresh, snapshot>>
  BY InvParts DEF Create, k8s, States, TransientStates
<1>0. has' \in Settings /\ Carries(has', w.want)
  BY <1>1, CopyType, SettingsGiven, InvParts
<1>2. /\ WorkerOK(Statuses, Labels, Exits)' /\ SameObserved(w', w)
      /\ step'.at = "save" /\ Counted
  <2>1. CASE Save(NotReady([w EXCEPT !.st.arn = TRUE]), "idle", "idle") /\ NoFault
    <3>1. PICK known : known = [w EXCEPT !.st.arn = TRUE]
      OBVIOUS
    <3>2. known \in CRs(Statuses) /\ SameObserved(known, w)
      BY <1>1, <3>1, KnownCopy
    <3>3. NotReady(known) \in CRs(Statuses) /\ SameObserved(NotReady(known), known)
      BY <3>2, WrittenCopies
    <3>4. Save(NotReady(known), "idle", "idle")
      BY <2>1, <3>1
    <3>5. WorkerOK(Statuses, Labels, Exits)' /\ step'.at = "save" /\ w' = NotReady(known)
      BY <1>1, <3>3, <3>4, SaveKeeps
    <3>6. QED
      BY <2>1, <3>2, <3>3, <3>5 DEF SameObserved, SameSpec, Counted
  <2>2. CASE Report /\ Fault("lost")
    BY <1>1, <2>2, ReportKeeps DEF Counted, AllFaults
  <2>3. QED
    BY <2>1, <2>2 DEF Create
<1>3. QED
  BY <1>0, <1>1, <1>2 DEF Applying

LEMMA Modifies ==
    ASSUME InstanceInv, Modify
    PROVE  Applying
<1>1. /\ step.at = "modify" /\ step.at # "idle" /\ w \in CRs(Statuses)
      /\ snapshot \in BOOLEAN /\ state \in States
      /\ UNCHANGED <<api, cache, cfresh, snapshot>>
  BY InvParts DEF Modify, k8s
<1>0. /\ Modified(has, w.want.set) \in Settings
      /\ Carries(Modified(has, w.want.set), w.want)
  BY <1>1, CopyType, SettingsGiven, InvParts
<1>2. CASE /\ state' = "modifying" /\ has' = Modified(has, w.want.set)
           /\ Save(ReadyNow(Observed(w)), "idle", "report") /\ NoFault
  <2>1. PICK new : new = ReadyNow(Observed(w))
    OBVIOUS
  <2>2. new \in CRs(Statuses) /\ SameSpec(new, w) /\ new.st.obsGen = w.gen
    BY <1>1, <2>1, WrittenCopies
  <2>3. WorkerOK(Statuses, Labels, Exits)' /\ step'.at = "save" /\ w' = new
    BY <1>1, <1>2, <2>1, <2>2, SaveKeeps
  <2>4. QED
    BY <1>0, <1>1, <1>2, <2>2, <2>3 DEF Applying, States, TransientStates, Counted
<1>3. CASE /\ state' = "modifying" /\ has' = Modified(has, w.want.set)
           /\ Report /\ Fault("lost")
  <2>1. WorkerOK(Statuses, Labels, Exits)' /\ step'.at = "save" /\ SameObserved(w', w)
    BY <1>1, <1>3, ReportKeeps
  <2>2. QED
    BY <1>0, <1>1, <1>3, <2>1 DEF Applying, States, TransientStates, Counted, AllFaults
<1>4. CASE Report /\ UNCHANGED <<state, has>> /\ NoFault
  <2>1. WorkerOK(Statuses, Labels, Exits)' /\ step'.at = "save" /\ SameObserved(w', w)
    BY <1>1, <1>4, ReportKeeps
  <2>2. QED
    BY <1>1, <1>4, <2>1 DEF Applying, Counted
<1>5. QED
  BY <1>2, <1>3, <1>4 DEF Modify

LEMMA Refusals ==
    ASSUME InstanceInv, CreateRefused \/ CallError \/ DeleteRefused
    PROVE  Applying \/ Deleting
<1>1. /\ UNCHANGED <<api, cache, cfresh, state, has, snapshot>> /\ Counted
      /\ state \in States /\ snapshot \in BOOLEAN
  BY InvParts DEF CreateRefused, CallError, DeleteRefused, k8s, aws, Counted,
     AllFaults
<1>2. CASE step.at \in {"read", "create", "modify"} /\ Report
  <2>1. step.at # "idle"
    BY <1>2
  <2>2. WorkerOK(Statuses, Labels, Exits)' /\ step'.at = "save" /\ SameObserved(w', w)
    BY <1>2, <2>1, ReportKeeps
  <2>3. QED
    BY <1>1, <1>2, <2>2 DEF Applying
<1>3. CASE step.at = "delete" /\ Return
  <2>1. WorkerOK(Statuses, Labels, Exits)' /\ step'.at = "idle"
    BY <1>3, ReturnKeeps
  <2>2. QED
    BY <1>1, <1>3, <2>1 DEF Deleting
<1>4. QED
  BY <1>2, <1>3 DEF CreateRefused, CallError, DeleteRefused

LEMMA Deletes ==
    ASSUME InstanceInv, Delete
    PROVE  Deleting
<1>1. /\ step.at = "delete" /\ step.at # "idle" /\ snapshot \in BOOLEAN
      /\ UNCHANGED <<api, cache, cfresh, has>> /\ Counted
  BY InvParts DEF Delete, k8s, Counted
<1>2. WorkerOK(Statuses, Labels, Exits)' /\ step'.at = "release" /\ w' = w
  BY <1>1, GotoKeeps DEF Delete, DeleteInstance, Labels
<1>3. api.finalizer
  BY <1>1, InvParts, HeldWhileAtWork
<1>4. QED
  BY <1>1, <1>2, <1>3 DEF Delete, DeleteInstance, Deletable, Deleting

-----------------------------------------------------------------------------
(* RDS, and the invariant.                                                  *)

Answers == Handlers \/ AwsBusy \/ ExternalDelete

LEMMA AnswersStep ==
    ASSUME InstanceInv, Answers
    PROVE  InstanceInv'
<1>1. /\ UNCHANGED <<api, cache, cfresh, w, wfresh, step, has, snapshot>>
      /\ Counted /\ state' \in States
      /\ state # "none"
      /\ state \in {"none", "deleting"} => state' = "none"
  BY DEF Answers, Handlers, AwsDone, AwsDeleted, AwsBusy, ExternalDelete, Move,
     k8s, worker, Counted, AllFaults, States, TransientStates
<1>2. KubeOK(Statuses, Labels, Exits)' /\ Protocol(Removing)'
  BY <1>1, InvParts, AwsKept
<1>3. Untouched' /\ NoOrphan'
  BY <1>1 DEF InstanceInv, Untouched, NoOrphan
<1>4. Generations' /\ Seen' /\ Given'
  BY <1>1 DEF InstanceInv, Generations, Seen, Given, Aged, Applied
<1>5. QED
  BY <1>1, <1>2, <1>3, <1>4, InvParts DEF InstanceInv, TypeOK

LEMMA NextCases ==
    ASSUME Next
    PROVE  \/ Shared /\ UNCHANGED aws
           \/ Busy \/ Available \/ Otherwise
           \/ Create \/ Modify \/ Delete
           \/ CreateRefused \/ CallError \/ DeleteRefused
           \/ Answers
BY DEF Next, Work, Reconcile, Shared, Outside, WatchDelivers, Answers

LEMMA InitInv == Init => InstanceInv
<1> SUFFICES ASSUME Init PROVE InstanceInv
  OBVIOUS
<1>1. PICK want \in Wants :
         api = [exists |-> TRUE, gen |-> 1, want |-> want, deleting |-> FALSE,
                finalizer |-> FALSE, abandon |-> FALSE, st |-> BlankStatus]
  BY DEF Init, InitKube
<1>2. BlankStatus \in Statuses /\ BlankStatus.obsGen = 0
  BY DEF BlankStatus, Statuses
<1>3. /\ api \in CRs(Statuses) /\ api.exists /\ ~api.finalizer /\ ~api.deleting
      /\ ~api.abandon /\ api.gen = 1 /\ api.st.obsGen = 0
  BY <1>1, <1>2 DEF CRs
<1>4. /\ cache = api /\ cfresh \in BOOLEAN /\ w = NoCopy /\ wfresh \in BOOLEAN
      /\ step.at = "idle"
      /\ state = "none" /\ has = want.set /\ snapshot \in BOOLEAN
  BY <1>1, DBInstanceAssumption DEF Init, InitKube, At
<1>5. scenario \in Scenarios /\ faults = 0
  BY DEF Init, InitKube
<1>6. faults \in 0 .. scenario.most
  BY <1>5, ReconcilerAssumption DEF AreScenarios
<1>7. TypeOK
  <2>1. has \in Settings
    BY <1>4, DBInstanceAssumption
  <2>2. QED
    BY <1>3, <1>4, <1>5, <1>6, <2>1 DEF TypeOK, KubeOK, WorkerOK, Labels, States
<1>8. Protocol(Removing) /\ Untouched /\ NoOrphan
  BY <1>3, <1>4 DEF Protocol, FinalizerHeld, DeletionSeen, CopyIsCurrent,
     Removing, Untouched, NoOrphan
<1>9. Generations /\ Seen /\ Given
  BY <1>3, <1>4 DEF Generations, Seen, Given, Aged, Applied
<1>10. QED
  BY <1>7, <1>8, <1>9 DEF InstanceInv

LEMMA StutterInv == InstanceInv /\ UNCHANGED vars => InstanceInv'
BY DEF vars, InstanceInv, TypeOK, KubeOK, WorkerOK, Protocol, FinalizerHeld,
       DeletionSeen, CopyIsCurrent, Untouched, Generations, Seen, Given, Aged,
       Applied, NoOrphan

\* A CR that is gone and was not abandoned leaves no instance that is not being
\* deleted, also when the ARN of the instance never reached the status; with
\* what makes that inductive.
THEOREM InstanceInvariant == Spec => []InstanceInv
<1>1. Init => InstanceInv
  BY InitInv
<1>2. InstanceInv /\ [Next]_vars => InstanceInv'
  <2>1. SUFFICES ASSUME InstanceInv, [Next]_vars PROVE InstanceInv'
    OBVIOUS
  <2>2. CASE UNCHANGED vars
    BY <2>1, <2>2, StutterInv
  <2>3. CASE Next
    BY <2>1, <2>3, NextCases, SharedStep, Reads, Creates, Modifies, Deletes,
       Refusals, ApplyingStep, DeletingStep, AnswersStep
  <2>4. QED
    BY <2>1, <2>2, <2>3
<1>3. QED
  BY <1>1, <1>2, PTL DEF Spec

\* A status that is Ready in the current generation means that the instance
\* carries everything of the spec of this generation that updateDBInstance sends
\* (dbinstance_controller.go:276), however old the copy of the worker that
\* gave it and however many edits, crashes and lost answers came between.
THEOREM ReadyMeansGiven == Spec => []ObservedMeansApplied
<1>1. InstanceInv => ObservedMeansApplied
  BY DEF InstanceInv, Given, Applied, ObservedMeansApplied
<1>2. QED
  BY <1>1, InstanceInvariant, PTL

-----------------------------------------------------------------------------
(* SecurityGroup.                                                           *)

\* What SecurityGroup takes from Reconciler is what the lemmas speak of.
LEMMA SameSteps ==
    /\ (G!SharedWork <=> SharedWork) /\ (G!PersistError <=> PersistError)
    /\ (G!Crash <=> Crash) /\ (G!Users <=> Users) /\ (G!CacheSync <=> CacheSync)
BY DEF SharedWork, ReconcileAbandoned, ReconcileDeleted, ReconcileNew,
   ReconcileExisting, AddFinalizer, RemoveFinalizer, Persist, PersistConflict,
   PersistError, Crash, Users, UserEdit, UserAbandon, UserDelete, UserWrite,
   CacheSync, Start, Continue, Return, Write, NotReady, At, NoCopy, Fault,
   NoFault, k8s, worker,
   G!SharedWork, G!ReconcileAbandoned, G!ReconcileDeleted, G!ReconcileNew,
   G!ReconcileExisting, G!AddFinalizer, G!RemoveFinalizer, G!Persist,
   G!PersistConflict, G!PersistError, G!Crash, G!Users, G!UserEdit,
   G!UserAbandon, G!UserDelete, G!UserWrite, G!CacheSync, G!Start, G!Continue,
   G!Return, G!Write, G!NotReady, G!At, G!NoCopy, G!Fault, G!NoFault, G!k8s,
   G!worker

LEMMA SameFaults ==
    /\ G!NoFault <=> NoFault
    /\ \A kind : G!Fault(kind) <=> Fault(kind)
    /\ \A kinds : G!FreeOf(kinds) <=> FreeOf(kinds)
BY DEF NoFault, Fault, FreeOf, G!NoFault, G!Fault, G!FreeOf

LEMMA SameWays ==
    /\ G!Return <=> Return
    /\ G!Report <=> Report
    /\ \A label, copy : G!Goto(label, copy) <=> Goto(label, copy)
    /\ \A copy, ok, err : G!Save(copy, ok, err) <=> Save(copy, ok, err)
BY DEF Return, Report, Goto, Save, Continue, Write, NotReady, At, NoCopy,
   G!Return, G!Report, G!Goto, G!Save, G!Continue, G!Write, G!NotReady, G!At,
   G!NoCopy

LEMMA SameKube ==
    ASSUME NEW statuses, NEW labels, NEW exits, NEW removing
    PROVE  /\ G!KubeOK(statuses, labels, exits) <=> KubeOK(statuses, labels, exits)
           /\ G!Protocol(removing) <=> Protocol(removing)
           /\ \A status : G!InitKube(status) <=> InitKube(status)
BY DEF KubeOK, WorkerOK, CRs, NoCopy, Protocol, FinalizerHeld, DeletionSeen,
   CopyIsCurrent, InitKube, At, G!KubeOK, G!WorkerOK, G!CRs, G!NoCopy,
   G!Protocol, G!FinalizerHeld, G!DeletionSeen, G!CopyIsCurrent, G!InitKube,
   G!At

-----------------------------------------------------------------------------
LEMMA GroupKind == KindOK(G!Statuses, G!Labels, G!Exits, G!Removing)
BY DEF KindOK, G!Statuses, G!Labels, G!Exits, G!Removing

\* The types of what EC2 keeps.
GroupAwsOK ==
    /\ group \in G!Ids \union {G!None} /\ made \in 0 .. MaxIds
    /\ rules \in [in : G!RuleSets, out : G!RuleSets]
    /\ vpcKnown \in BOOLEAN /\ other \in BOOLEAN

\* Where nobody deletes the group in AWS; and where nobody touches it and no
\* reconcile starts from an old cache.
Alone == FreeOf({"externalDelete"})
Quiet == FreeOf({"lag", "drift", "externalDelete"})
Standing == api.exists /\ ~api.deleting

\* What the invariant says of the group.
GroupFacts ==
    /\ ~vpcKnown => group = G!None
    /\ Alone => G!SoleGroup /\ (~api.exists /\ ~api.abandon => group = G!None)
    /\ Quiet /\ Standing => G!RulesFollow

LEMMA GroupParts ==
    ASSUME G!GroupInv
    PROVE  /\ KubeOK(G!Statuses, G!Labels, G!Exits) /\ Protocol(G!Removing)
           /\ KindOK(G!Statuses, G!Labels, G!Exits, G!Removing)
           /\ GroupAwsOK /\ GroupFacts
           /\ api \in CRs(G!Statuses) /\ cache \in CRs(G!Statuses)
           /\ wfresh \in BOOLEAN /\ step.at \in G!Labels
           /\ step.at # "idle" => w \in CRs(G!Statuses)
<1>1. KubeOK(G!Statuses, G!Labels, G!Exits) /\ Protocol(G!Removing)
  BY SameKube DEF G!GroupInv, G!TypeOK
<1>2. GroupAwsOK
  BY DEF G!GroupInv, G!TypeOK, GroupAwsOK
<1>3. GroupFacts
  BY SameFaults DEF G!GroupInv, GroupFacts, Alone, Quiet, Standing, G!NoOrphan
<1>4. QED
  BY <1>1, <1>2, <1>3, GroupKind DEF KubeOK, WorkerOK

LEMMA GroupAssembled ==
    KubeOK(G!Statuses, G!Labels, G!Exits) /\ Protocol(G!Removing)
    /\ GroupAwsOK /\ GroupFacts => G!GroupInv
<1>1. KubeOK(G!Statuses, G!Labels, G!Exits) /\ Protocol(G!Removing)
      => G!KubeOK(G!Statuses, G!Labels, G!Exits) /\ G!Protocol(G!Removing)
  BY SameKube
<1>2. GroupFacts =>
        /\ ~vpcKnown => group = G!None
        /\ G!NoOrphan
        /\ G!FreeOf({"externalDelete"}) => G!SoleGroup
        /\ G!FreeOf({"lag", "drift", "externalDelete"})
              /\ api.exists /\ ~api.deleting => G!RulesFollow
  BY SameFaults DEF GroupFacts, Alone, Quiet, Standing, G!NoOrphan
<1>3. QED
  BY <1>1, <1>2 DEF G!GroupInv, G!TypeOK, GroupAwsOK

LEMMA GroupCopy ==
    ASSUME NEW cr \in CRs(G!Statuses)
    PROVE  /\ cr.gen \in Nat /\ cr.want \in Wants /\ cr.st \in G!Statuses
           /\ cr.st.obsGen \in Nat /\ cr.st.id \in G!Ids \union {G!None}
<1>1. cr.gen \in Nat /\ cr.want \in Wants /\ cr.st \in G!Statuses
  BY CopyType
<1>2. QED
  BY <1>1 DEF G!Statuses

LEMMA GroupCopies ==
    ASSUME G!GroupInv
    PROVE  /\ api.gen \in Nat /\ api.st.obsGen \in Nat
           /\ cache.gen \in Nat /\ cache.st.obsGen \in Nat
           /\ step.at # "idle" => w.gen \in Nat /\ w.st.obsGen \in Nat
BY GroupParts, GroupCopy

LEMMA GroupScenario ==
    ASSUME G!GroupInv, Counted
    PROVE  Alone' = Alone /\ Quiet' = Quiet
<1>1. scenario' = scenario
  BY GroupParts, FaultsType
<1>2. QED
  BY <1>1 DEF Alone, Quiet, FreeOf

\* A copy with the same spec and a status that names the same group and
\* observes the same generation.
SameGroup(new, cr) ==
    /\ new.gen = cr.gen /\ new.want = cr.want /\ new.abandon = cr.abandon
    /\ new.st.id = cr.st.id /\ new.st.obsGen = cr.st.obsGen

LEMMA GroupNotReady ==
    ASSUME NEW cr \in CRs(G!Statuses), NEW new,
           SameBut(new, cr, [cr.st EXCEPT !.ready = FALSE])
    PROVE  SameGroup(new, cr)
<1>1. cr.st \in G!Statuses
  BY CopyType
<1>2. QED
  BY <1>1 DEF SameBut, SameGroup, G!Statuses

LEMMA SameTruth ==
    ASSUME NEW cr, NEW new, G!Truthful(cr), SameGroup(new, cr)
    PROVE  G!Truthful(new)
BY DEF G!Truthful, G!Fits, SameGroup

-----------------------------------------------------------------------------
(* The steps of Reconciler.                                                 *)

LEMMA GroupStarts ==
    ASSUME G!GroupInv, UNCHANGED G!aws,
           \/ ReconcileAbandoned \/ ReconcileDeleted
           \/ ReconcileNew \/ ReconcileExisting
    PROVE  GroupFacts'
<1>1. /\ KubeOK(G!Statuses, G!Labels, G!Exits) /\ Protocol(G!Removing)
      /\ KindOK(G!Statuses, G!Labels, G!Exits, G!Removing) /\ GroupFacts
      /\ UNCHANGED <<group, rules, made, vpcKnown>>
  BY GroupParts DEF G!aws
<1>2. PICK label \in {"release", "delete", "addFinalizer", "read"} :
          /\ Start(label) /\ (label = "release" => cache.abandon)
          /\ label \in {"release", "delete"} <=> cache.deleting
  BY DEF ReconcileAbandoned, ReconcileDeleted, ReconcileNew, ReconcileExisting
<1>3. /\ step.at = "idle" /\ step'.at = label /\ w' = cache
      /\ UNCHANGED <<api, cache, cfresh>> /\ Counted
  BY <1>1, <1>2, StartEffect
<1>4. Alone' = Alone /\ Quiet' = Quiet
  BY <1>3, GroupScenario
<1>5. G!SoleGroup => G!SoleGroup'
  BY <1>1, <1>2, <1>3 DEF G!SoleGroup, G!Removing
<1>6. ASSUME Quiet, G!RulesFollow PROVE G!RulesFollow'
  <2>1. cfresh
    BY <1>2, <1>6 DEF Start, Fault, Quiet, FreeOf
  <2>2. cache = api
    BY <1>1, <2>1 DEF Protocol, CopyIsCurrent
  <2>3. api.gen <= api.gen
    BY GroupCopies
  <2>4. G!Truthful(api)' /\ G!Truthful(w)'
    BY <1>1, <1>3, <1>6, <2>2 DEF G!RulesFollow, G!Truthful, G!Fits
  <2>5. label \notin {"idle", "save", "create", "egress", "authorizeEgress", "tags"}
        /\ label \notin G!RuleCalls
    BY DEF G!RuleCalls
  <2>6. QED
    BY <1>3, <2>2, <2>3, <2>4, <2>5 DEF G!RulesFollow
<1>7. QED
  BY <1>1, <1>3, <1>4, <1>5, <1>6 DEF GroupFacts, Standing

LEMMA GroupFinalizes ==
    ASSUME G!GroupInv, UNCHANGED G!aws, AddFinalizer \/ RemoveFinalizer
    PROVE  GroupFacts'
<1>1. /\ KubeOK(G!Statuses, G!Labels, G!Exits) /\ Protocol(G!Removing)
      /\ KindOK(G!Statuses, G!Labels, G!Exits, G!Removing) /\ GroupFacts
      /\ UNCHANGED <<group, rules, made, vpcKnown>>
  BY GroupParts DEF G!aws
<1>2. /\ api'.gen = api.gen /\ api'.want = api.want
      /\ api'.deleting = api.deleting /\ api'.abandon = api.abandon
      /\ api'.st = api.st /\ step'.at = "idle" /\ UNCHANGED cache /\ NoFault
      /\ \/ UNCHANGED api
         \/ /\ api.exists
            /\ \/ step.at = "addFinalizer" /\ api'.exists /\ api'.finalizer
               \/ step.at = "release" /\ api'.finalizer = api.finalizer
  BY <1>1, FinalizerEffect
<1>3. step.at \in {"addFinalizer", "release"}
  BY DEF AddFinalizer, RemoveFinalizer
<1>4. Alone' = Alone /\ Quiet' = Quiet
  BY <1>2, GroupScenario DEF Counted
<1>5. G!SoleGroup => G!SoleGroup'
  BY <1>1, <1>2, <1>3 DEF G!SoleGroup, G!Removing
<1>6. ASSUME Alone, ~api'.exists, ~api'.abandon PROVE group' = G!None
  <2>1. step.at = "release" => (w.abandon => api.abandon)
    BY <1>1 DEF Protocol, CopyIsCurrent
  <2>2. QED
    BY <1>1, <1>2, <1>3, <1>6, <2>1 DEF GroupFacts, G!SoleGroup
<1>7. G!RulesFollow => G!RulesFollow'
  <2>1. G!Truthful(api) => G!Truthful(api)'
    BY <1>1, <1>2 DEF G!Truthful, G!Fits
  <2>2. QED
    BY <1>2, <2>1 DEF G!RulesFollow, G!RuleCalls
<1>8. QED
  BY <1>1, <1>2, <1>4, <1>5, <1>6, <1>7 DEF GroupFacts, Standing

LEMMA GroupPersists ==
    ASSUME G!GroupInv, UNCHANGED G!aws, Persist
    PROVE  GroupFacts'
<1>1. /\ KubeOK(G!Statuses, G!Labels, G!Exits) /\ Protocol(G!Removing)
      /\ KindOK(G!Statuses, G!Labels, G!Exits, G!Removing) /\ GroupFacts
      /\ UNCHANGED <<group, rules, made, vpcKnown>>
  BY GroupParts DEF G!aws
<1>2. /\ step.at = "save" /\ api.exists /\ step.ok \in G!Exits
      /\ SameBut(api', api, w.st) /\ UNCHANGED cache /\ NoFault
      /\ step.ok = "idle" => step'.at = "idle"
      /\ step.ok = "ingress" => step'.at = "ingress" /\ w' = api'
  BY <1>1, PersistEffect
<1>3. /\ api'.st = w.st /\ api'.finalizer = api.finalizer /\ api'.exists
      /\ api'.gen = api.gen /\ api'.want = api.want
      /\ api'.deleting = api.deleting /\ api'.abandon = api.abandon
  BY <1>2 DEF SameBut
<1>4. \/ step'.at = "idle"
      \/ step.ok = "ingress" /\ step'.at = "ingress" /\ w' = api'
  BY <1>2 DEF G!Exits
<1>5. Alone' = Alone /\ Quiet' = Quiet
  BY <1>2, GroupScenario DEF Counted
<1>6. G!SoleGroup => G!SoleGroup'
  BY <1>1, <1>2, <1>3, <1>4 DEF G!SoleGroup, G!Removing
<1>7. ASSUME G!RulesFollow PROVE G!RulesFollow'
  <2>1. /\ G!Truthful(w) /\ w.gen <= api.gen
        /\ w.gen = api.gen => w.want = api.want
        /\ step.ok = "ingress" => w.st.obsGen < w.gen
    BY <1>2, <1>7 DEF G!RulesFollow
  <2>2. w.gen \in Nat /\ w.st.obsGen \in Nat /\ api.gen \in Nat
    BY <1>2, GroupCopies
  <2>3. w.st.obsGen <= api.gen /\ (w.st.obsGen = api.gen => w.st.obsGen = w.gen /\ w.gen = api.gen)
        /\ (step.ok = "ingress" => w.st.obsGen < api.gen) /\ api.gen <= api.gen
    BY <2>1, <2>2 DEF G!Truthful
  <2>4. G!Truthful(api)'
    BY <1>1, <1>3, <2>1, <2>3 DEF G!Truthful, G!Fits
  <2>5. step'.at = "ingress" => G!Truthful(w)'
    BY <1>4, <2>4 DEF G!Truthful, G!Fits
  <2>6. QED
    BY <1>3, <1>4, <2>3, <2>4, <2>5 DEF G!RulesFollow, G!RuleCalls
<1>8. QED
  BY <1>1, <1>2, <1>3, <1>5, <1>6, <1>7 DEF GroupFacts, Standing

\* The worker returns, or goes on to a status write that says nothing new.
LEMMA GroupGivesUp ==
    ASSUME G!GroupInv, UNCHANGED <<api, cache, group, made, vpcKnown>>, Counted,
           step.at # "idle",
           \/ step'.at = "idle"
           \/ /\ step'.at = "save" /\ step'.ok = "idle" /\ SameGroup(w', w)
              /\ step.at \notin G!Removing,
           \/ rules' = rules
           \/ step.at \in G!RuleCalls
    PROVE  GroupFacts'
<1>1. GroupFacts
  BY GroupParts
<1>2. Alone' = Alone /\ Quiet' = Quiet
  BY GroupScenario
<1>3. G!SoleGroup => G!SoleGroup'
  BY DEF G!SoleGroup, G!Removing, SameGroup
<1>4. ASSUME G!RulesFollow PROVE G!RulesFollow'
  <2>1. G!Truthful(api) /\ G!Truthful(w) /\ w.gen <= api.gen
        /\ (w.gen = api.gen => w.want = api.want)
        /\ (step.at \in G!RuleCalls =>
               w.st.obsGen < w.gen /\ api.st.obsGen < w.gen)
    BY <1>4 DEF G!RulesFollow
  <2>2. /\ w.gen \in Nat /\ w.st.obsGen \in Nat
        /\ api.gen \in Nat /\ api.st.obsGen \in Nat
    BY GroupCopies
  <2>3. step.at \in G!RuleCalls => w.st.obsGen # w.gen /\ api.st.obsGen # api.gen
    BY <2>1, <2>2
  <2>4. G!Truthful(api)'
    BY <2>1, <2>3 DEF G!Truthful, G!Fits
  <2>5. step'.at = "save" => G!Truthful(w)'
    BY <2>1, <2>3 DEF G!Truthful, G!Fits, SameGroup
  <2>6. QED
    BY <2>1, <2>4, <2>5 DEF G!RulesFollow, G!RuleCalls, SameGroup
<1>5. QED
  BY <1>1, <1>2, <1>3, <1>4 DEF GroupFacts, Standing

LEMMA GroupPersistFails ==
    ASSUME G!GroupInv, UNCHANGED G!aws, PersistConflict \/ PersistError
    PROVE  GroupFacts'
<1>1. /\ KubeOK(G!Statuses, G!Labels, G!Exits)
      /\ KindOK(G!Statuses, G!Labels, G!Exits, G!Removing)
      /\ UNCHANGED <<group, rules, made, vpcKnown>>
  BY GroupParts DEF G!aws
<1>2. /\ step.at = "save" /\ UNCHANGED <<api, cache>> /\ Counted
      /\ \/ step'.at = "idle"
         \/ /\ step'.at = "save" /\ step'.ok = "idle"
            /\ SameBut(w', w, [w.st EXCEPT !.ready = FALSE])
  BY <1>1, PersistFails
<1>3. w \in CRs(G!Statuses)
  BY <1>1, <1>2, WorkersCopy
<1>4. step'.at = "idle" \/ (step'.at = "save" /\ step'.ok = "idle" /\ SameGroup(w', w))
  BY <1>2, <1>3, GroupNotReady
<1>5. step.at # "idle" /\ step.at \notin G!Removing
  BY <1>2 DEF G!Removing
<1>6. QED
  BY <1>1, <1>2, <1>4, <1>5, GroupGivesUp

LEMMA GroupCrashes ==
    ASSUME G!GroupInv, UNCHANGED G!aws, Crash
    PROVE  GroupFacts'
<1>1. /\ step'.at = "idle" /\ UNCHANGED <<api, cache>> /\ Counted
      /\ step.at # "idle" /\ UNCHANGED <<group, rules, made, vpcKnown>>
  BY DEF Crash, Return, At, k8s, G!aws, Counted, AllFaults
<1>2. QED
  BY <1>1, GroupGivesUp

LEMMA GroupUsers ==
    ASSUME G!GroupInv, UNCHANGED G!aws, Users
    PROVE  GroupFacts'
<1>1. /\ KubeOK(G!Statuses, G!Labels, G!Exits) /\ GroupFacts
      /\ UNCHANGED <<group, rules, made, vpcKnown>>
  BY GroupParts DEF G!aws
<1>2. /\ api.exists /\ api'.st = api.st /\ api'.finalizer = api.finalizer
      /\ UNCHANGED <<cache, w, step>> /\ NoFault
      /\ ~api'.exists => ~api.finalizer
      /\ ~api'.deleting => ~api.deleting
      /\ \/ api'.gen = api.gen + 1
         \/ api'.gen = api.gen /\ api'.want = api.want
  BY <1>1, UserEffect
<1>3. Alone' = Alone /\ Quiet' = Quiet
  BY <1>2, GroupScenario DEF Counted
<1>4. G!SoleGroup => G!SoleGroup'
  BY <1>1, <1>2 DEF G!SoleGroup
<1>5. Alone /\ ~api'.exists => group' = G!None
  BY <1>1, <1>2 DEF GroupFacts, G!SoleGroup, G!None
<1>6. ASSUME G!RulesFollow PROVE G!RulesFollow'
  <2>1. /\ G!Truthful(api)
        /\ step.at # "idle" =>
              /\ G!Truthful(w) /\ w.gen <= api.gen
              /\ w.gen = api.gen => w.want = api.want
    BY <1>6 DEF G!RulesFollow
  <2>2. PICK gen, obsGen : gen = api.gen /\ obsGen = api.st.obsGen
    OBVIOUS
  <2>3. gen \in Nat /\ obsGen \in Nat /\ obsGen <= gen
    BY <2>1, <2>2, GroupCopies DEF G!Truthful
  <2>4. CASE api'.gen = api.gen /\ api'.want = api.want
    <3>1. G!Truthful(api)' /\ (step.at # "idle" => G!Truthful(w)')
      BY <1>1, <1>2, <2>1, <2>4 DEF G!Truthful, G!Fits
    <3>2. QED
      BY <1>1, <1>2, <1>6, <2>4, <3>1 DEF G!RulesFollow, G!Present, G!Fits
  <2>5. CASE api'.gen = api.gen + 1
    <3>1. obsGen < gen + 1 /\ obsGen # gen + 1 /\ obsGen <= gen + 1
      BY <2>3
    <3>2. api'.st.obsGen <= api'.gen /\ api'.st.obsGen # api'.gen
      BY <1>2, <2>2, <2>5, <3>1
    <3>3. G!Truthful(api)'
      BY <3>2 DEF G!Truthful
    <3>4. step.at # "idle" => G!Truthful(w)'
      BY <1>1, <1>2, <2>1 DEF G!Truthful, G!Fits
    <3>5. step.at # "idle" => w.gen <= gen + 1 /\ w.gen # gen + 1
      BY <2>1, <2>2, <2>3, GroupCopies
    <3>6. step.at # "idle" => w'.gen <= api'.gen /\ w'.gen # api'.gen
      BY <1>2, <2>2, <2>5, <3>5
    <3>7. QED
      BY <1>1, <1>2, <1>6, <3>3, <3>4, <3>6 DEF G!RulesFollow, G!Present, G!Fits
  <2>6. QED
    BY <1>2, <2>4, <2>5
<1>7. QED
  BY <1>1, <1>2, <1>3, <1>4, <1>5, <1>6 DEF GroupFacts, Standing

LEMMA GroupCacheSync ==
    ASSUME G!GroupInv, UNCHANGED G!aws, CacheSync
    PROVE  GroupFacts'
<1>1. /\ Protocol(G!Removing) /\ GroupFacts
      /\ UNCHANGED <<group, rules, made, vpcKnown>>
      /\ cache' = api /\ UNCHANGED <<api, w, step>> /\ Counted
  BY GroupParts DEF G!aws, CacheSync, worker, Counted
<1>2. Alone' = Alone /\ Quiet' = Quiet
  BY <1>1, GroupScenario
<1>3. G!SoleGroup => G!SoleGroup'
  BY <1>1 DEF G!SoleGroup, Protocol, DeletionSeen
<1>4. G!RulesFollow => G!RulesFollow'
  BY <1>1 DEF G!RulesFollow, G!Truthful, G!Fits, G!Present
<1>5. QED
  BY <1>1, <1>2, <1>3, <1>4 DEF GroupFacts, Standing

LEMMA GroupShared ==
    ASSUME G!GroupInv, Shared, UNCHANGED G!aws
    PROVE  G!GroupInv'
<1>1. KubeOK(G!Statuses, G!Labels, G!Exits)' /\ Protocol(G!Removing)'
  BY GroupParts, SharedKept
<1>2. GroupAwsOK'
  BY GroupParts DEF GroupAwsOK, G!aws
<1>3. GroupFacts'
  BY GroupStarts, GroupFinalizes, GroupPersists, GroupPersistFails,
     GroupCrashes, GroupUsers, GroupCacheSync DEF Shared, SharedWork
<1>4. (KubeOK(G!Statuses, G!Labels, G!Exits) /\ Protocol(G!Removing)
       /\ GroupAwsOK /\ GroupFacts => G!GroupInv)'
  BY GroupAssembled, PTL
<1>5. QED
  BY <1>1, <1>2, <1>3, <1>4

\* Where reconcileSG is.
GroupWork == {"read", "create", "tags"} \union G!RuleCalls

LEMMA GroupEnds ==
    ASSUME G!GroupInv, UNCHANGED <<api, cache, cfresh>>, Counted,
           \/ Return /\ step.at \in GroupWork \union {"delete"}
           \/ Report /\ step.at \in GroupWork
    PROVE  /\ KubeOK(G!Statuses, G!Labels, G!Exits)' /\ Protocol(G!Removing)'
           /\ step.at # "idle"
           /\ \/ step'.at = "idle"
              \/ /\ step'.at = "save" /\ step'.ok = "idle" /\ SameGroup(w', w)
                 /\ step.at \notin G!Removing
<1>1. /\ KubeOK(G!Statuses, G!Labels, G!Exits) /\ Protocol(G!Removing)
      /\ KindOK(G!Statuses, G!Labels, G!Exits, G!Removing)
      /\ step.at # "idle" => w \in CRs(G!Statuses)
  BY GroupParts
<1>2. /\ step.at \notin {"idle", "addFinalizer"}
      /\ "idle" \in G!Labels
      /\ step.at \in GroupWork => step.at \notin G!Removing
      /\ "save" \notin G!Removing
  BY DEF GroupWork, G!RuleCalls, G!Removing, G!Labels
<1>3. CASE Return
  <2>1. WorkerOK(G!Statuses, G!Labels, G!Exits)' /\ step'.at = "idle"
    BY <1>2, <1>3, ReturnType
  <2>2. QED
    BY <1>1, <1>2, <2>1, WorkerKept
<1>4. CASE Report /\ step.at \in GroupWork
  <2>1. /\ WorkerOK(G!Statuses, G!Labels, G!Exits)'
        /\ step'.at = "save" /\ step'.ok = "idle"
        /\ SameBut(w', w, [w.st EXCEPT !.ready = FALSE])
    BY <1>1, <1>2, <1>4, ReportEffect
  <2>2. SameGroup(w', w)
    BY <1>1, <1>2, <2>1, GroupNotReady
  <2>3. w'.abandon = w.abandon
    BY <2>2 DEF SameGroup
  <2>4. QED
    BY <1>1, <1>2, <1>4, <2>1, <2>2, <2>3, WorkerKept
<1>5. QED
  BY <1>3, <1>4

LEMMA GroupGoes ==
    ASSUME G!GroupInv, UNCHANGED <<api, cache, cfresh>>, Counted,
           step.at \in GroupWork, NEW label \in GroupWork \ {"read"},
           Goto(label, w)
    PROVE  /\ KubeOK(G!Statuses, G!Labels, G!Exits)' /\ Protocol(G!Removing)'
           /\ step'.at = label /\ w' = w
<1>1. /\ KubeOK(G!Statuses, G!Labels, G!Exits) /\ Protocol(G!Removing)
      /\ KindOK(G!Statuses, G!Labels, G!Exits, G!Removing)
      /\ step.at # "idle" => w \in CRs(G!Statuses)
      /\ wfresh \in BOOLEAN
  BY GroupParts
<1>2. /\ step.at \notin {"idle", "addFinalizer"} \union G!Removing
      /\ label \notin {"idle", "save", "addFinalizer"} \union G!Removing
      /\ label \in G!Labels
  BY DEF GroupWork, G!RuleCalls, G!Removing, G!Labels
<1>3. /\ WorkerOK(G!Statuses, G!Labels, G!Exits)'
      /\ step'.at = label /\ w' = w
  BY <1>1, <1>2, GotoType
<1>4. QED
  BY <1>1, <1>2, <1>3, WorkerKept

LEMMA GroupSaves ==
    ASSUME G!GroupInv, UNCHANGED <<api, cache, cfresh>>, Counted,
           step.at \in GroupWork, NEW copy \in CRs(G!Statuses),
           copy.abandon = w.abandon, NEW ok \in G!Exits, Save(copy, ok, "report")
    PROVE  /\ KubeOK(G!Statuses, G!Labels, G!Exits)' /\ Protocol(G!Removing)'
           /\ step'.at = "save" /\ step'.ok = ok /\ w' = copy
<1>1. /\ KubeOK(G!Statuses, G!Labels, G!Exits) /\ Protocol(G!Removing)
      /\ KindOK(G!Statuses, G!Labels, G!Exits, G!Removing)
      /\ wfresh \in BOOLEAN
  BY GroupParts
<1>2. /\ step.at \notin {"idle", "addFinalizer"} \union G!Removing
      /\ "save" \in G!Labels /\ "save" \notin {"idle", "addFinalizer"} \union G!Removing
  BY DEF GroupWork, G!RuleCalls, G!Removing, G!Labels
<1>3. /\ WorkerOK(G!Statuses, G!Labels, G!Exits)'
      /\ step'.at = "save" /\ step'.ok = ok /\ w' = copy
  BY <1>1, <1>2, WriteType DEF Save
<1>4. QED
  BY <1>1, <1>2, <1>3, WorkerKept

\* The worker gives up and AWS is as it was.
LEMMA GroupGivenUp ==
    ASSUME G!GroupInv, UNCHANGED k8s, UNCHANGED G!aws, Counted,
           \/ Return /\ step.at \in GroupWork \union {"delete"}
           \/ Report /\ step.at \in GroupWork
    PROVE  G!GroupInv'
<1>1. /\ UNCHANGED <<api, cache, cfresh>>
      /\ UNCHANGED <<group, rules, made, vpcKnown, other>>
  BY DEF k8s, G!aws
<1>2. /\ KubeOK(G!Statuses, G!Labels, G!Exits)' /\ Protocol(G!Removing)'
      /\ step.at # "idle"
      /\ \/ step'.at = "idle"
         \/ /\ step'.at = "save" /\ step'.ok = "idle" /\ SameGroup(w', w)
            /\ step.at \notin G!Removing
  BY <1>1, GroupEnds
<1>3. GroupFacts'
  BY <1>1, <1>2, GroupGivesUp
<1>4. GroupAwsOK'
  BY <1>1, GroupParts DEF GroupAwsOK
<1>5. (KubeOK(G!Statuses, G!Labels, G!Exits) /\ Protocol(G!Removing)
       /\ GroupAwsOK /\ GroupFacts => G!GroupInv)'
  BY GroupAssembled, PTL
<1>6. QED
  BY <1>2, <1>3, <1>4, <1>5

-----------------------------------------------------------------------------
(* reconcileSG.                                                             *)

LEMMA GroupDescribes ==
    ASSUME G!GroupInv, G!Describe
    PROVE  G!GroupInv'
<1>1. /\ step.at = "read" /\ Counted
      /\ UNCHANGED <<api, cache, cfresh>>
      /\ UNCHANGED <<group, rules, made, vpcKnown, other>>
  BY SameFaults DEF G!Describe, G!k8s, G!aws, Counted
<1>2. PICK label \in {"create", "ingress", "tags"} :
        /\ Goto(label, w)
        /\ label # "create" <=> G!Present
        /\ label = "tags" => w.st.obsGen = w.gen
        /\ label = "ingress" => w.st.obsGen # w.gen
  BY SameWays DEF G!Describe
<1>3. step.at \in GroupWork /\ label \in GroupWork \ {"read"}
  BY <1>1, <1>2 DEF GroupWork, G!RuleCalls
<1>4. /\ KubeOK(G!Statuses, G!Labels, G!Exits)' /\ Protocol(G!Removing)'
      /\ step'.at = label /\ w' = w
  BY <1>1, <1>2, <1>3, GroupGoes
<1>5. Alone' = Alone /\ Quiet' = Quiet /\ GroupFacts
  BY <1>1, GroupScenario, GroupParts
<1>6. G!SoleGroup => G!SoleGroup'
  BY <1>1, <1>4 DEF G!SoleGroup, G!Removing
<1>7. ASSUME G!RulesFollow PROVE G!RulesFollow'
  <2>1. /\ G!Truthful(api) /\ G!Truthful(w) /\ w.gen <= api.gen
        /\ w.gen = api.gen => w.want = api.want
        /\ w.st = api.st
    BY <1>1, <1>7 DEF G!RulesFollow
  <2>2. G!Truthful(api)' /\ G!Truthful(w)'
    BY <1>1, <1>4, <2>1 DEF G!Truthful, G!Fits
  <2>3. label # "tags" => w.st.obsGen # w.gen
    BY <1>2, <2>1 DEF G!Truthful, G!Present
  <2>4. w.gen \in Nat /\ w.st.obsGen \in Nat /\ w.st.obsGen <= w.gen
    BY <1>1, <2>1, GroupCopies DEF G!Truthful
  <2>5. label # "tags" => w.st.obsGen < w.gen
    BY <2>3, <2>4
  <2>6. label = "tags" => G!Present' /\ G!Fits(w)'
    BY <1>1, <1>2, <1>4, <2>1 DEF G!Truthful, G!Present, G!Fits
  <2>7. QED
    BY <1>1, <1>2, <1>4, <2>1, <2>2, <2>5, <2>6 DEF G!RulesFollow, G!RuleCalls
<1>8. GroupFacts'
  BY <1>1, <1>5, <1>6, <1>7 DEF GroupFacts, Standing
<1>9. GroupAwsOK'
  BY <1>1, GroupParts DEF GroupAwsOK
<1>10. (KubeOK(G!Statuses, G!Labels, G!Exits) /\ Protocol(G!Removing)
       /\ GroupAwsOK /\ GroupFacts => G!GroupInv)'
  BY GroupAssembled, PTL
<1>11. QED
  BY <1>4, <1>8, <1>9, <1>10

LEMMA GroupCreates ==
    ASSUME G!Parameters, G!GroupInv, G!Create
    PROVE  G!GroupInv'
<1>1. /\ step.at = "create" /\ group = G!None /\ vpcKnown /\ made < MaxIds
      /\ made' = made + 1 /\ group' = made' /\ rules' = G!NewRules
      /\ UNCHANGED <<api, cache, cfresh, vpcKnown, other>>
      /\ Counted
      /\ \/ Save([w EXCEPT !.st.id = made'], "ingress", "report")
         \/ Report
  BY SameFaults, SameWays DEF G!Create, G!k8s, Counted, AllFaults
<1>2. step.at \in GroupWork /\ w \in CRs(G!Statuses) /\ "ingress" \in G!Exits
  BY <1>1, GroupParts DEF GroupWork, G!Exits
<1>3. made \in Nat /\ made' \in Nat /\ made' \in G!Ids /\ made' # 0
      /\ made' \in 0 .. MaxIds
  BY <1>1, GroupParts DEF G!Parameters, GroupAwsOK, G!Ids
<1>4. /\ KubeOK(G!Statuses, G!Labels, G!Exits)' /\ Protocol(G!Removing)'
      /\ step'.at = "save"
      /\ \/ SameGroup(w', w) /\ step'.ok = "idle"
         \/ /\ step'.ok = "ingress"
            /\ w'.gen = w.gen /\ w'.want = w.want /\ w'.abandon = w.abandon
            /\ w'.st.id = made' /\ w'.st.obsGen = w.st.obsGen
  <2>1. CASE Report
    <3>1. step'.at = "save"
      BY <2>1 DEF Report, Continue, Write
    <3>2. QED
      BY <1>1, <1>2, <2>1, <3>1, GroupEnds
  <2>2. CASE Save([w EXCEPT !.st.id = made'], "ingress", "report")
    <3>0. PICK id \in G!Ids : id = made'
      BY <1>3
    <3>1. PICK new : new = [w EXCEPT !.st.id = id]
      OBVIOUS
    <3>2. /\ new \in CRs(G!Statuses)
          /\ new.gen = w.gen /\ new.want = w.want /\ new.abandon = w.abandon
          /\ new.st.id = id /\ new.st.obsGen = w.st.obsGen
      BY <1>2, <3>1 DEF CRs, G!Statuses
    <3>3. /\ KubeOK(G!Statuses, G!Labels, G!Exits)' /\ Protocol(G!Removing)'
          /\ step'.at = "save" /\ step'.ok = "ingress" /\ w' = new
      BY <1>1, <1>2, <2>2, <3>0, <3>1, <3>2, GroupSaves
    <3>4. QED
      BY <3>0, <3>2, <3>3
  <2>3. QED
    BY <1>1, <2>1, <2>2
<1>5. Alone' = Alone /\ Quiet' = Quiet /\ GroupFacts
  BY <1>1, GroupScenario, GroupParts
<1>6. api.finalizer
  BY <1>1, GroupParts DEF Protocol, FinalizerHeld
<1>7. ASSUME G!SoleGroup PROVE G!SoleGroup'
  <2>1. made <= 1 /\ made # 1 /\ made = 0 /\ made' = 1
    BY <1>1, <1>3, <1>7 DEF G!SoleGroup, G!Removing
  <2>2. /\ api.st.id = 0 /\ cache.st.id = 0 /\ w.st.id = 0
    BY <1>1, <1>7, <2>1 DEF G!SoleGroup, G!None
  <2>3. w'.st.id \in {0, 1}
    BY <1>4, <2>1, <2>2 DEF SameGroup
  <2>4. made' <= 1
    BY <2>1
  <2>5. QED
    BY <1>1, <1>4, <1>6, <2>1, <2>2, <2>3, <2>4 DEF G!SoleGroup, G!None
<1>8. api.exists
  BY <1>1, GroupParts DEF Protocol, FinalizerHeld, DeletionSeen, G!Removing
<1>9. ASSUME G!RulesFollow PROVE G!RulesFollow'
  <2>1. /\ G!Truthful(api) /\ G!Truthful(w) /\ w.gen <= api.gen
        /\ w.gen = api.gen => w.want = api.want
        /\ w.st.obsGen < w.gen /\ api.st.obsGen < w.gen
    BY <1>1, <1>9 DEF G!RulesFollow
  <2>2. /\ w.gen \in Nat /\ w.st.obsGen \in Nat
        /\ api.gen \in Nat /\ api.st.obsGen \in Nat
    BY <1>1, GroupCopies
  <2>3. /\ w.st.obsGen # w.gen /\ api.st.obsGen # api.gen
        /\ w.st.obsGen <= w.gen /\ api.st.obsGen <= api.gen
    BY <2>1, <2>2
  <2>4. w'.gen = w.gen /\ w'.want = w.want /\ w'.st.obsGen = w.st.obsGen
    BY <1>4 DEF SameGroup
  <2>5. G!Truthful(api)' /\ G!Truthful(w)'
    BY <1>1, <2>3, <2>4 DEF G!Truthful
  <2>6. QED
    BY <1>1, <1>4, <2>1, <2>4, <2>5 DEF G!RulesFollow, G!RuleCalls
<1>10. GroupFacts'
  BY <1>1, <1>5, <1>7, <1>8, <1>9 DEF GroupFacts, Standing
<1>11. GroupAwsOK'
  <2>1. G!NewRules \in [in : G!RuleSets, out : G!RuleSets]
    BY DEF G!NewRules, G!RuleSets
  <2>2. QED
    BY <1>1, <1>3, <2>1, GroupParts DEF GroupAwsOK
<1>12. (KubeOK(G!Statuses, G!Labels, G!Exits) /\ Protocol(G!Removing)
       /\ GroupAwsOK /\ GroupFacts => G!GroupInv)'
  BY GroupAssembled, PTL
<1>13. QED
  BY <1>4, <1>10, <1>11, <1>12

\* While the rules are replaced, no status claims the worker's generation.
LEMMA GroupBehind ==
    ASSUME G!GroupInv, G!RulesFollow, step.at \in G!RuleCalls
    PROVE  /\ w.st.obsGen # w.gen /\ api.st.obsGen # api.gen
           /\ w.st.obsGen <= w.gen /\ api.st.obsGen <= api.gen
<1>1. /\ w.st.obsGen < w.gen /\ api.st.obsGen < w.gen /\ w.gen <= api.gen
  BY DEF G!RulesFollow, G!RuleCalls
<1>2. /\ w.gen \in Nat /\ w.st.obsGen \in Nat
      /\ api.gen \in Nat /\ api.st.obsGen \in Nat
  BY GroupCopies DEF G!RuleCalls
<1>3. QED
  BY <1>1, <1>2

LEMMA GroupRuleTypes ==
    ASSUME G!Parameters, G!GroupInv, NEW want \in Wants
    PROVE  /\ [rules EXCEPT !.in = ""] \in [in : G!RuleSets, out : G!RuleSets]
           /\ [rules EXCEPT !.out = ""] \in [in : G!RuleSets, out : G!RuleSets]
           /\ [rules EXCEPT !.in = want.in] \in [in : G!RuleSets, out : G!RuleSets]
           /\ [rules EXCEPT !.out = want.out] \in [in : G!RuleSets, out : G!RuleSets]
           /\ [rules EXCEPT !.in = "drifted"] \in [in : G!RuleSets, out : G!RuleSets]
<1>1. rules \in [in : G!RuleSets, out : G!RuleSets]
  BY GroupParts DEF GroupAwsOK
<1>2. {"", "drifted", want.in, want.out} \subseteq G!RuleSets
  BY DEF G!RuleSets
<1>3. QED
  BY <1>1, <1>2

\* A call that replaces rules, and what they are before the next one.
LEMMA GroupReplaces ==
    ASSUME G!GroupInv, NEW label \in G!RuleCalls,
           NEW next \in {"authorizeIngress", "egress", "authorizeEgress", "tags"},
           NEW new \in [in : G!RuleSets, out : G!RuleSets],
           G!Replace(label, new, next),
           G!RulesFollow =>
             /\ next \in {"egress", "authorizeEgress", "tags"} => new.in = w.want.in
             /\ next = "tags" => (w.want.out # "" => new.out = w.want.out)
    PROVE  G!GroupInv'
<1>1. /\ step.at = label /\ G!Present /\ rules' = new /\ Counted
      /\ UNCHANGED <<api, cache, cfresh, group, made, vpcKnown, other>>
      /\ Goto(next, w) \/ Report
  BY SameFaults, SameWays DEF G!Replace, G!k8s, Counted, AllFaults
<1>2. step.at \in GroupWork /\ next \in GroupWork \ {"read"}
  BY <1>1 DEF GroupWork, G!RuleCalls
<1>3. CASE Report
  <2>1. /\ KubeOK(G!Statuses, G!Labels, G!Exits)' /\ Protocol(G!Removing)'
        /\ step.at # "idle"
        /\ \/ step'.at = "idle"
           \/ /\ step'.at = "save" /\ step'.ok = "idle" /\ SameGroup(w', w)
              /\ step.at \notin G!Removing
    BY <1>1, <1>2, <1>3, GroupEnds
  <2>2. GroupFacts'
    BY <1>1, <2>1, GroupGivesUp
  <2>3. GroupAwsOK'
    BY <1>1, GroupParts DEF GroupAwsOK
  <2>4. (KubeOK(G!Statuses, G!Labels, G!Exits) /\ Protocol(G!Removing)
         /\ GroupAwsOK /\ GroupFacts => G!GroupInv)'
    BY GroupAssembled, PTL
  <2>5. QED
    BY <2>1, <2>2, <2>3, <2>4
<1>4. CASE Goto(next, w)
  <2>1. /\ KubeOK(G!Statuses, G!Labels, G!Exits)' /\ Protocol(G!Removing)'
        /\ step'.at = next /\ w' = w
    BY <1>1, <1>2, <1>4, GroupGoes
  <2>2. Alone' = Alone /\ Quiet' = Quiet /\ GroupFacts
    BY <1>1, GroupScenario, GroupParts
  <2>3. G!SoleGroup => G!SoleGroup'
    BY <1>1, <2>1 DEF G!SoleGroup, G!Removing, G!Present
  <2>4. ASSUME G!RulesFollow PROVE G!RulesFollow'
    <3>1. /\ G!Truthful(api) /\ G!Truthful(w) /\ w.gen <= api.gen
          /\ w.gen = api.gen => w.want = api.want
          /\ w.st = api.st
          /\ w.st.obsGen < w.gen /\ api.st.obsGen < w.gen
      BY <1>1, <2>4 DEF G!RulesFollow, G!RuleCalls
    <3>3. /\ w.st.obsGen # w.gen /\ api.st.obsGen # api.gen
          /\ w.st.obsGen <= w.gen /\ api.st.obsGen <= api.gen
      BY <1>1, <2>4, GroupBehind
    <3>4. G!Truthful(api)' /\ G!Truthful(w)'
      BY <1>1, <2>1, <3>3 DEF G!Truthful
    <3>5. /\ next \in {"egress", "authorizeEgress"} => rules'.in = w'.want.in
          /\ next = "tags" => G!Present' /\ G!Fits(w)'
      BY <1>1, <2>1, <2>4 DEF G!Present, G!Fits
    <3>6. QED
      BY <1>1, <2>1, <3>1, <3>4, <3>5 DEF G!RulesFollow
  <2>5. GroupFacts'
    BY <1>1, <2>2, <2>3, <2>4 DEF GroupFacts, Standing
  <2>6. GroupAwsOK'
    BY <1>1, GroupParts DEF GroupAwsOK
  <2>7. (KubeOK(G!Statuses, G!Labels, G!Exits) /\ Protocol(G!Removing)
         /\ GroupAwsOK /\ GroupFacts => G!GroupInv)'
    BY GroupAssembled, PTL
  <2>8. QED
    BY <2>1, <2>5, <2>6, <2>7
<1>5. QED
  BY <1>1, <1>3, <1>4

LEMMA GroupReplacesRules ==
    ASSUME G!Parameters, G!GroupInv,
           \/ G!RevokeIngress \/ G!AuthorizeIngress
           \/ G!RevokeEgress \/ G!AuthorizeEgress
    PROVE  G!GroupInv'
<1>1. step.at \in G!RuleCalls
  BY DEF G!RevokeIngress, G!AuthorizeIngress, G!RevokeEgress,
     G!AuthorizeEgress, G!Replace, G!RuleCalls
<1>2. w.want \in Wants /\ rules \in [in : G!RuleSets, out : G!RuleSets]
  BY <1>1, GroupParts, GroupCopy DEF GroupAwsOK, G!RuleCalls
<1>3. CASE G!RevokeIngress
  <2>1. PICK new : new = [rules EXCEPT !.in = ""]
    OBVIOUS
  <2>2. new \in [in : G!RuleSets, out : G!RuleSets]
    BY <1>2, <2>1, GroupRuleTypes
  <2>3. G!Replace("ingress", new, "authorizeIngress")
    BY <1>3, <2>1 DEF G!RevokeIngress
  <2>4. QED
    BY <2>2, <2>3, GroupReplaces DEF G!RuleCalls
<1>4. CASE G!AuthorizeIngress
  <2>1. PICK new : new = [rules EXCEPT !.in = w.want.in]
    OBVIOUS
  <2>2. new \in [in : G!RuleSets, out : G!RuleSets] /\ new.in = w.want.in
    BY <1>2, <2>1, GroupRuleTypes
  <2>3. G!Replace("authorizeIngress", new, "egress")
    BY <1>4, <2>1 DEF G!AuthorizeIngress
  <2>4. QED
    BY <2>2, <2>3, GroupReplaces DEF G!RuleCalls
<1>5. CASE G!RevokeEgress
  <2>1. PICK new : new = [rules EXCEPT !.out = ""]
    OBVIOUS
  <2>2. new \in [in : G!RuleSets, out : G!RuleSets] /\ new.in = rules.in
    BY <1>2, <2>1, GroupRuleTypes
  <2>3. G!Replace("egress", new, "authorizeEgress") /\ step.at = "egress"
    BY <1>5, <2>1 DEF G!RevokeEgress, G!Replace
  <2>4. G!RulesFollow => new.in = w.want.in
    BY <2>2, <2>3 DEF G!RulesFollow
  <2>5. QED
    BY <2>2, <2>3, <2>4, GroupReplaces DEF G!RuleCalls
<1>6. CASE G!AuthorizeEgress
  <2>1. PICK new : new = [rules EXCEPT !.out = w.want.out]
    OBVIOUS
  <2>2. /\ new \in [in : G!RuleSets, out : G!RuleSets] /\ new.in = rules.in
        /\ new.out = w.want.out
    BY <1>2, <2>1, GroupRuleTypes
  <2>3. G!Replace("authorizeEgress", new, "tags") /\ step.at = "authorizeEgress"
    BY <1>6, <2>1 DEF G!AuthorizeEgress, G!Replace
  <2>4. G!RulesFollow => new.in = w.want.in
    BY <2>2, <2>3 DEF G!RulesFollow
  <2>5. QED
    BY <2>2, <2>3, <2>4, GroupReplaces DEF G!RuleCalls
<1>7. QED
  BY <1>3, <1>4, <1>5, <1>6

LEMMA GroupKeepsEgress ==
    ASSUME G!GroupInv, G!KeepEgress
    PROVE  G!GroupInv'
<1>1. /\ step.at = "egress" /\ w.want.out = "" /\ G!Present /\ Counted
      /\ Goto("tags", w)
      /\ UNCHANGED <<api, cache, cfresh>>
      /\ UNCHANGED <<group, rules, made, vpcKnown, other>>
  BY SameFaults, SameWays DEF G!KeepEgress, G!k8s, G!aws, Counted
<1>2. /\ step.at \in GroupWork /\ "tags" \in GroupWork \ {"read"}
      /\ "egress" \in G!RuleCalls
  BY <1>1 DEF GroupWork, G!RuleCalls
<1>3. /\ KubeOK(G!Statuses, G!Labels, G!Exits)' /\ Protocol(G!Removing)'
      /\ step'.at = "tags" /\ w' = w
  BY <1>1, <1>2, GroupGoes
<1>4. Alone' = Alone /\ Quiet' = Quiet /\ GroupFacts
  BY <1>1, GroupScenario, GroupParts
<1>5. G!SoleGroup => G!SoleGroup'
  BY <1>1, <1>3 DEF G!SoleGroup, G!Removing
<1>6. ASSUME G!RulesFollow PROVE G!RulesFollow'
  <2>1. G!Truthful(api)' /\ G!Truthful(w)'
    BY <1>1, <1>3, <1>6 DEF G!RulesFollow, G!Truthful, G!Fits
  <2>2. G!Present' /\ G!Fits(w)'
    BY <1>1, <1>3, <1>6 DEF G!RulesFollow, G!Present, G!Fits
  <2>3. QED
    BY <1>1, <1>2, <1>3, <1>6, <2>1, <2>2 DEF G!RulesFollow, G!RuleCalls
<1>7. GroupFacts'
  BY <1>1, <1>4, <1>5, <1>6 DEF GroupFacts, Standing
<1>8. GroupAwsOK'
  BY <1>1, GroupParts DEF GroupAwsOK
<1>9. (KubeOK(G!Statuses, G!Labels, G!Exits) /\ Protocol(G!Removing)
       /\ GroupAwsOK /\ GroupFacts => G!GroupInv)'
  BY GroupAssembled, PTL
<1>10. QED
  BY <1>3, <1>7, <1>8, <1>9

LEMMA GroupIsReady ==
    ASSUME NEW cr \in CRs(G!Statuses), NEW new, new = G!ReadyNow(G!Observed(cr))
    PROVE  /\ new \in CRs(G!Statuses)
           /\ new.gen = cr.gen /\ new.want = cr.want /\ new.abandon = cr.abandon
           /\ new.st.id = cr.st.id /\ new.st.obsGen = cr.gen
<1>1. PICK seen : seen = G!Observed(cr)
  OBVIOUS
<1>2. /\ seen \in CRs(G!Statuses)
      /\ seen.gen = cr.gen /\ seen.want = cr.want /\ seen.abandon = cr.abandon
      /\ seen.st.id = cr.st.id /\ seen.st.obsGen = cr.gen
  BY <1>1 DEF G!Observed, CRs, G!Statuses
<1>3. new = [seen EXCEPT !.st.ready = TRUE]
  BY <1>1 DEF G!ReadyNow
<1>4. QED
  BY <1>2, <1>3 DEF CRs, G!Statuses

LEMMA GroupSynced ==
    ASSUME G!GroupInv, G!Synced
    PROVE  G!GroupInv'
<1>1. /\ step.at = "tags" /\ Counted
      /\ Save(G!ReadyNow(G!Observed(w)), "idle", "report")
      /\ UNCHANGED <<api, cache, cfresh>>
      /\ UNCHANGED <<group, rules, made, vpcKnown, other>>
  BY SameFaults, SameWays DEF G!Synced, G!k8s, G!aws, Counted
<1>2. step.at \in GroupWork /\ w \in CRs(G!Statuses) /\ "idle" \in G!Exits
  BY <1>1, GroupParts DEF GroupWork, G!Exits
<1>3. PICK new : new = G!ReadyNow(G!Observed(w))
  OBVIOUS
<1>4. /\ new \in CRs(G!Statuses)
      /\ new.gen = w.gen /\ new.want = w.want /\ new.abandon = w.abandon
      /\ new.st.id = w.st.id /\ new.st.obsGen = w.gen
  BY <1>2, <1>3, GroupIsReady
<1>5. /\ KubeOK(G!Statuses, G!Labels, G!Exits)' /\ Protocol(G!Removing)'
      /\ step'.at = "save" /\ step'.ok = "idle" /\ w' = new
  BY <1>1, <1>2, <1>3, <1>4, GroupSaves
<1>6. Alone' = Alone /\ Quiet' = Quiet /\ GroupFacts
  BY <1>1, GroupScenario, GroupParts
<1>7. G!SoleGroup => G!SoleGroup'
  BY <1>1, <1>4, <1>5 DEF G!SoleGroup, G!Removing
<1>8. ASSUME G!RulesFollow PROVE G!RulesFollow'
  <2>1. w.gen \in Nat /\ w.gen <= w.gen
    BY <1>1, GroupCopies
  <2>2. G!Present /\ G!Fits(w)
    BY <1>1, <1>8 DEF G!RulesFollow
  <2>3. G!Truthful(w)'
    BY <1>1, <1>4, <1>5, <2>1, <2>2 DEF G!Truthful, G!Present, G!Fits
  <2>4. G!Truthful(api)'
    BY <1>1, <1>8 DEF G!RulesFollow, G!Truthful, G!Fits
  <2>5. QED
    BY <1>1, <1>4, <1>5, <1>8, <2>3, <2>4 DEF G!RulesFollow, G!RuleCalls
<1>9. GroupFacts'
  BY <1>1, <1>6, <1>7, <1>8 DEF GroupFacts, Standing
<1>10. GroupAwsOK'
  BY <1>1, GroupParts DEF GroupAwsOK
<1>11. (KubeOK(G!Statuses, G!Labels, G!Exits) /\ Protocol(G!Removing)
       /\ GroupAwsOK /\ GroupFacts => G!GroupInv)'
  BY GroupAssembled, PTL
<1>12. QED
  BY <1>5, <1>9, <1>10, <1>11

LEMMA GroupFails ==
    ASSUME G!GroupInv,
           G!NoVpc \/ G!CreateRefused \/ G!GroupGone \/ G!CallError
    PROVE  G!GroupInv'
<1>1. /\ UNCHANGED k8s /\ UNCHANGED G!aws /\ Counted
      /\ \/ Return /\ step.at \in GroupWork \union {"delete"}
         \/ Report /\ step.at \in GroupWork
  BY SameFaults, SameWays DEF G!NoVpc, G!CreateRefused, G!GroupGone,
     G!CallError, G!k8s, k8s, Counted, AllFaults, GroupWork, G!RuleCalls
<1>2. QED
  BY <1>1, GroupGivenUp

-----------------------------------------------------------------------------
(* The deletion, and what happens in AWS.                                   *)

\* With one group ever, the target is that group, if it is there.
LEMMA GroupTarget ==
    ASSUME GroupFacts, G!SoleGroup, step.at = "delete", group # G!None
    PROVE  G!Target = "own"
<1>1. vpcKnown
  BY DEF GroupFacts
<1>2. CASE w.st.id # G!None
  BY <1>2 DEF G!SoleGroup, G!Target, G!Present, G!None
<1>3. CASE w.st.id = G!None
  <2>1. G!Matches = {"own"}
    BY <1>1 DEF G!Matches
  <2>2. G!Cardinality(G!Matches) = 1
    <3>1. Cardinality({"own"}) = 1
      BY FS_Singleton
    <3>2. G!Cardinality({"own"}) = Cardinality({"own"})
      BY DEF G!Cardinality, Cardinality, G!IsFiniteSet, IsFiniteSet
    <3>3. QED
      BY <2>1, <3>1, <3>2
  <2>3. (CHOOSE m \in G!Matches : TRUE) = "own"
    BY <2>1
  <2>4. G!Target = CHOOSE m \in G!Matches : TRUE
    BY <1>3, <2>2, Zenon DEF G!Target
  <2>5. QED
    BY <2>3, <2>4, Zenon
<1>4. QED
  BY <1>2, <1>3

LEMMA GroupDeletes ==
    ASSUME G!GroupInv, G!Delete
    PROVE  G!GroupInv'
<1>1. /\ step.at = "delete" /\ Counted
      /\ group' = IF G!Target = "own" THEN G!None ELSE group
      /\ Goto("release", w) \/ Return
      /\ UNCHANGED <<api, cache, cfresh, rules, made, vpcKnown>>
      /\ other' \in BOOLEAN
  BY SameFaults, SameWays, GroupParts
  DEF G!Delete, G!k8s, Counted, AllFaults, GroupAwsOK
<1>2. /\ KubeOK(G!Statuses, G!Labels, G!Exits) /\ Protocol(G!Removing)
      /\ KindOK(G!Statuses, G!Labels, G!Exits, G!Removing)
      /\ w \in CRs(G!Statuses) /\ wfresh \in BOOLEAN /\ GroupFacts
  BY <1>1, GroupParts
<1>3. /\ KubeOK(G!Statuses, G!Labels, G!Exits)' /\ Protocol(G!Removing)'
      /\ step'.at = "idle" \/ (step'.at = "release" /\ w' = w)
  <2>1. CASE Return
    <3>1. step'.at = "idle"
      BY <2>1 DEF Return, At
    <3>2. QED
      BY <1>1, <2>1, <3>1, GroupEnds
  <2>2. CASE Goto("release", w)
    <3>1. "release" \in G!Labels \ {"idle", "save"}
      BY DEF G!Labels
    <3>2. /\ WorkerOK(G!Statuses, G!Labels, G!Exits)'
          /\ step'.at = "release" /\ w' = w
      BY <1>2, <2>2, <3>1, GotoType
    <3>3. {"delete", "release"} \subseteq G!Removing
      BY DEF G!Removing
    <3>4. QED
      BY <1>1, <1>2, <3>2, <3>3, WorkerKept
  <2>3. QED
    BY <1>1, <2>1, <2>2
<1>4. Alone' = Alone /\ Quiet' = Quiet
  BY <1>1, GroupScenario
<1>5. cache.deleting /\ api.deleting
  BY <1>1, <1>2 DEF Protocol, DeletionSeen, G!Removing
<1>6. ASSUME G!SoleGroup PROVE G!SoleGroup' /\ group' = G!None
  <2>1. group' = G!None
    BY <1>1, <1>2, <1>6, GroupTarget
  <2>2. step'.at \in G!Removing \union {"idle"}
    BY <1>3 DEF G!Removing
  <2>3. QED
    BY <1>1, <1>3, <1>5, <1>6, <2>1, <2>2 DEF G!SoleGroup, G!None
<1>7. ~vpcKnown => group' = G!None
  BY <1>1, <1>2 DEF GroupFacts
<1>8. GroupFacts'
  BY <1>1, <1>2, <1>4, <1>5, <1>6, <1>7 DEF GroupFacts, Standing
<1>9. GroupAwsOK'
  BY <1>1, GroupParts DEF GroupAwsOK, G!None
<1>10. (KubeOK(G!Statuses, G!Labels, G!Exits) /\ Protocol(G!Removing)
       /\ GroupAwsOK /\ GroupFacts => G!GroupInv)'
  BY GroupAssembled, PTL
<1>11. QED
  BY <1>3, <1>8, <1>9, <1>10

LEMMA GroupOutside ==
    ASSUME G!Parameters, G!GroupInv,
           G!VpcGone \/ G!ExternalDelete \/ G!Drift
    PROVE  G!GroupInv'
<1>1. /\ UNCHANGED <<api, cache, cfresh, w, wfresh, step, made, other>> /\ Counted
      /\ \/ UNCHANGED <<group, rules>> /\ group = G!None /\ vpcKnown' \in BOOLEAN
         \/ /\ UNCHANGED <<rules, vpcKnown>> /\ group' = G!None
            /\ Fault("externalDelete")
         \/ /\ UNCHANGED <<group, vpcKnown>> /\ Fault("drift")
            /\ rules' = [rules EXCEPT !.in = "drifted"]
  BY SameFaults DEF G!VpcGone, G!ExternalDelete, G!Drift, G!k8s, G!worker,
     Counted, AllFaults
<1>2. KubeOK(G!Statuses, G!Labels, G!Exits)' /\ Protocol(G!Removing)'
  BY <1>1, GroupParts, AwsKept
<1>3. Alone' = Alone /\ Quiet' = Quiet /\ GroupFacts
  BY <1>1, GroupScenario, GroupParts
<1>4. /\ Alone => UNCHANGED group
      /\ Quiet => UNCHANGED <<group, rules>>
  BY <1>1 DEF Alone, Quiet, FreeOf, Fault
<1>5. UNCHANGED group /\ G!SoleGroup => G!SoleGroup'
  BY <1>1 DEF G!SoleGroup
<1>6. UNCHANGED <<group, rules>> /\ G!RulesFollow => G!RulesFollow'
  BY <1>1 DEF G!RulesFollow, G!Truthful, G!Fits, G!Present
<1>7. GroupFacts'
  BY <1>1, <1>3, <1>4, <1>5, <1>6 DEF GroupFacts, Standing
<1>8. GroupAwsOK'
  <2>1. api.want \in Wants
    BY GroupParts, GroupCopy
  <2>2. rules' \in [in : G!RuleSets, out : G!RuleSets]
    BY <1>1, <2>1, GroupParts, GroupRuleTypes DEF GroupAwsOK
  <2>3. QED
    BY <1>1, <2>2, GroupParts DEF GroupAwsOK
<1>9. (KubeOK(G!Statuses, G!Labels, G!Exits) /\ Protocol(G!Removing)
       /\ GroupAwsOK /\ GroupFacts => G!GroupInv)'
  BY GroupAssembled, PTL
<1>10. QED
  BY <1>2, <1>7, <1>8, <1>9

-----------------------------------------------------------------------------
LEMMA GroupInitially ==
    ASSUME G!Parameters, G!Init
    PROVE  G!GroupInv
<1>1. /\ InitKube(G!BlankStatus)
      /\ group = G!None /\ rules = G!NewRules /\ made = 0
      /\ vpcKnown = TRUE /\ other = TRUE
  BY SameKube DEF G!Init
<1>2. PICK want \in Wants :
        /\ api = [exists |-> TRUE, gen |-> 1, want |-> want, deleting |-> FALSE,
                  finalizer |-> FALSE, abandon |-> FALSE, st |-> G!BlankStatus]
        /\ cache = api /\ cfresh = TRUE /\ w = NoCopy /\ wfresh = FALSE
        /\ step.at = "idle" /\ scenario \in Scenarios /\ faults = 0
  BY <1>1 DEF InitKube, At
<1>3. G!BlankStatus \in G!Statuses /\ G!BlankStatus.id = G!None
      /\ G!BlankStatus.obsGen = 0
  BY DEF G!BlankStatus, G!Statuses
<1>4. api \in CRs(G!Statuses) /\ cache \in CRs(G!Statuses)
  BY <1>2, <1>3 DEF CRs
<1>5. scenario.most \in Nat
  BY <1>2, ReconcilerAssumption DEF AreScenarios
<1>6. "idle" \in G!Labels
  BY DEF G!Labels
<1>7. KubeOK(G!Statuses, G!Labels, G!Exits)
  <2>1. WorkerOK(G!Statuses, G!Labels, G!Exits)
    BY <1>2, <1>6 DEF WorkerOK
  <2>2. faults \in 0 .. scenario.most /\ cfresh \in BOOLEAN
    BY <1>2, <1>5
  <2>3. QED
    BY <1>2, <1>4, <2>1, <2>2 DEF KubeOK
<1>8. Protocol(G!Removing)
  BY <1>2 DEF Protocol, FinalizerHeld, DeletionSeen, CopyIsCurrent, G!Removing
<1>9. GroupAwsOK
  <2>1. G!NewRules \in [in : G!RuleSets, out : G!RuleSets]
    BY DEF G!NewRules, G!RuleSets
  <2>2. made \in 0 .. MaxIds
    BY <1>1 DEF G!Parameters
  <2>3. QED
    BY <1>1, <2>1, <2>2 DEF GroupAwsOK
<1>10. G!SoleGroup
  BY <1>1, <1>2, <1>3 DEF G!SoleGroup, G!None, G!Removing
<1>11. G!RulesFollow
  BY <1>2, <1>3 DEF G!RulesFollow, G!Truthful, G!RuleCalls
<1>12. GroupFacts
  BY <1>1, <1>2, <1>10, <1>11 DEF GroupFacts
<1>13. QED
  BY <1>7, <1>8, <1>9, <1>12, GroupAssembled

LEMMA GroupStep ==
    ASSUME G!Parameters, G!GroupInv, [G!Next]_(G!vars)
    PROVE  G!GroupInv'
<1>1. CASE UNCHANGED G!vars
  <2>1. /\ UNCHANGED <<api, cache, cfresh, w, wfresh, step>> /\ Counted
        /\ UNCHANGED <<group, rules, made, vpcKnown, other>>
    BY <1>1 DEF G!vars, Counted, NoFault
  <2>2. KubeOK(G!Statuses, G!Labels, G!Exits)' /\ Protocol(G!Removing)'
    BY <2>1, GroupParts, AwsKept
  <2>3. Alone' = Alone /\ Quiet' = Quiet /\ GroupFacts
    BY <2>1, GroupScenario, GroupParts
  <2>4. (G!SoleGroup => G!SoleGroup') /\ (G!RulesFollow => G!RulesFollow')
    BY <2>1 DEF G!SoleGroup, G!RulesFollow, G!Truthful, G!Fits, G!Present
  <2>5. GroupFacts'
    BY <2>1, <2>3, <2>4 DEF GroupFacts, Standing
  <2>6. GroupAwsOK'
    BY <2>1, GroupParts DEF GroupAwsOK
  <2>7. (KubeOK(G!Statuses, G!Labels, G!Exits) /\ Protocol(G!Removing)
         /\ GroupAwsOK /\ GroupFacts => G!GroupInv)'
    BY GroupAssembled, PTL
  <2>8. QED
    BY <2>2, <2>5, <2>6, <2>7
<1>2. CASE G!Reconcile \/ G!Outside \/ G!WatchDelivers
  <2>1. Shared /\ UNCHANGED G!aws
    BY <1>2, SameSteps DEF G!Reconcile, G!Outside, G!WatchDelivers, Shared
  <2>2. QED
    BY <2>1, GroupShared
<1>3. CASE G!Work /\ ~G!Reconcile
  BY <1>3, GroupDescribes, GroupCreates, GroupReplacesRules, GroupKeepsEgress,
     GroupSynced, GroupFails, GroupDeletes DEF G!Work
<1>4. CASE G!CallError
  BY <1>4, GroupFails
<1>5. CASE G!VpcGone \/ G!ExternalDelete \/ G!Drift
  BY <1>5, GroupOutside
<1>6. QED
  BY <1>1, <1>2, <1>3, <1>4, <1>5 DEF G!Next

\* A CR that is gone and was not abandoned leaves no group in its VPC, also
\* when the identifier never reached the status: the deletion finds the group
\* by its name, and an error of the search keeps the finalizer.
THEOREM GroupInvariant == GroupSpec => []GroupInv
<1>1. G!Init => G!GroupInv
  BY SecurityGroupAssumption, GroupInitially
<1>2. G!GroupInv /\ [G!Next]_(G!vars) => G!GroupInv'
  BY SecurityGroupAssumption, GroupStep
<1>3. QED
  BY <1>1, <1>2, PTL DEF GroupSpec, GroupInv, G!Spec

\* A status that is Ready in the current generation means that the group has
\* the rules of this generation, as long as nobody touches it in AWS and the
\* cache is current; any of the four calls may fail, lose its answer or be cut
\* off by a crash, and the spec may be edited between them.
THEOREM RulesAreApplied == GroupSpec => []ReadyMeansApplied
<1>1. GroupInv => ReadyMeansApplied
  BY DEF GroupInv, ReadyMeansApplied, G!GroupInv, G!ReadyMeansApplied, G!RulesFollow, G!Truthful, G!Applied
<1>2. QED
  BY <1>1, GroupInvariant, PTL

=============================================================================
