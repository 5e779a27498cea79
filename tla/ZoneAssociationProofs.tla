----------------------- MODULE ZoneAssociationProofs -----------------------
(***************************************************************************)
(* Nothing of a hosted zone association outlives its CR, and the kind      *)
(* implements ManagedResource: for any VPCs, scenarios, bounds and faults. *)
(***************************************************************************)
EXTENDS ZoneAssociation, ReconcilerProofs

LEMMA Kind == KindOK(Statuses, Labels, Exits, Removing)
BY DEF KindOK, Statuses, Labels, Exits, Removing

\* What the invariant says besides the types and the protocol.
Facts == Untouched /\ ReleaseEarned /\ Recorded /\ OneVpc /\ NoOrphan

LEMMA InvParts ==
    ASSUME Lasting
    PROVE  /\ KubeOK(Statuses, Labels, Exits) /\ Protocol(Removing)
           /\ api \in CRs(Statuses) /\ cache \in CRs(Statuses)
           /\ assoc \subseteq Wants /\ auth \subseteq Wants
           /\ wfresh \in BOOLEAN /\ step.at \in Labels
           /\ step.at # "idle" => w \in CRs(Statuses)
BY DEF Lasting, TypeOK, KubeOK, WorkerOK

\* What the handler changes in its copy keeps the VPC.
SameVpc(new, cr) ==
    /\ new.want = cr.want /\ new.abandon = cr.abandon
    /\ new.st.vpc = cr.st.vpc

LEMMA NotReadyVpc ==
    ASSUME NEW cr \in CRs(Statuses), NEW new,
           SameBut(new, cr, [cr.st EXCEPT !.ready = FALSE])
    PROVE  SameVpc(new, cr)
<1>1. cr.st \in Statuses
  BY CopyType
<1>2. QED
  BY <1>1 DEF SameBut, SameVpc, Statuses

LEMMA SyncedVpc ==
    ASSUME NEW cr \in CRs(Statuses)
    PROVE  /\ ReadyNow(Observed(cr)) \in CRs(Statuses)
           /\ SameVpc(ReadyNow(Observed(cr)), cr)
BY DEF SameVpc, ReadyNow, Observed, CRs, Statuses

LEMMA ResolvedVpc ==
    ASSUME NEW cr \in CRs(Statuses), NEW new,
           new = [cr EXCEPT !.st.vpc = cr.want]
    PROVE  /\ new \in CRs(Statuses) /\ new.st.vpc = cr.want
           /\ new.want = cr.want /\ new.abandon = cr.abandon
BY DEF CRs, Statuses

-----------------------------------------------------------------------------
(* Every step keeps the inductive invariant.                                *)

LEMMA NoLag ==
    ASSUME FreeOf({"lag"})
    PROVE  ~Fault("lag")
BY DEF FreeOf, Fault

LEMMA SharedFacts ==
    ASSUME Lasting, Shared, UNCHANGED aws
    PROVE  Facts'
<1>1. /\ KubeOK(Statuses, Labels, Exits) /\ Protocol(Removing)
      /\ KindOK(Statuses, Labels, Exits, Removing)
      /\ UNCHANGED <<assoc, auth>>
  BY InvParts, Kind DEF aws
<1>2. CASE \/ ReconcileAbandoned \/ ReconcileDeleted
           \/ ReconcileNew \/ ReconcileExisting
  <2>1. PICK label \in {"release", "delete", "addFinalizer", "read"} :
            Start(label) /\ (label = "release" => cache.abandon)
    BY <1>2 DEF ReconcileAbandoned, ReconcileDeleted, ReconcileNew,
                ReconcileExisting
  <2>2. /\ step.at = "idle" /\ step'.at = label
        /\ w' = cache /\ wfresh' = cfresh
        /\ UNCHANGED <<api, cache, cfresh>> /\ Counted
    BY <1>1, <2>1, StartEffect
  <2>3. scenario' = scenario
    BY <1>1, <2>2, FaultsType
  <2>4. wfresh' => cache = api
    BY <1>1, <2>2, Zenon DEF Protocol, CopyIsCurrent
  <2>5. w' = cache /\ UNCHANGED <<api, cache>> /\ step'.at = label
    BY <2>2
  <2>6. FreeOf({"lag"}) => cache = api
    BY <1>1, <2>1, NoLag DEF Start, Protocol, CopyIsCurrent
  <2>7. OneVpc'
    BY <1>1, <2>1, <2>3, <2>5, <2>6 DEF Lasting, OneVpc, Steady, FreeOf, Associating
  <2>8. QED
    BY <1>1, <2>1, <2>3, <2>4, <2>5, <2>7 DEF Lasting, Facts, Untouched, Steady,
       FreeOf, ReleaseEarned, Recorded, NoOrphan, Associating, Removing
<1>3. CASE AddFinalizer \/ RemoveFinalizer
  <2>1. /\ api'.want = api.want /\ api'.abandon = api.abandon
        /\ api'.st = api.st /\ step'.at = "idle"
        /\ UNCHANGED cache /\ NoFault
        /\ \/ UNCHANGED <<api, cfresh>>
           \/ /\ wfresh /\ api.exists
              /\ \/ step.at = "addFinalizer" /\ api'.exists /\ api'.finalizer
                 \/ /\ step.at = "release" /\ ~api'.exists
                    /\ api'.finalizer = api.finalizer
    BY <1>1, <1>3, FinalizerEffect
  <2>2. scenario' = scenario
    BY <2>1 DEF NoFault
  <2>3. QED
    BY <1>1, <2>1, <2>2 DEF Lasting, Facts, Untouched, ReleaseEarned,
       Recorded, OneVpc, Steady, FreeOf, NoOrphan, Associating, Removing, Protocol,
       FinalizerHeld, CopyIsCurrent
<1>4. CASE Persist
  <2>1. /\ step.at = "save" /\ api.exists /\ step.ok \in Exits
        /\ SameBut(api', api, w.st) /\ UNCHANGED cache /\ NoFault
        /\ step.ok = "idle" => step'.at = "idle"
        /\ step.ok \notin {"idle", "report"} =>
              step'.at = step.ok /\ w' = api'
    BY <1>1, <1>4, PersistEffect
  <2>2. step'.at = "idle" \/ (step'.at = "get" /\ w' = api')
    BY <2>1 DEF Exits
  <2>3. scenario' = scenario
    BY <2>1 DEF NoFault
  <2>4. OneVpc'
    <3>1. SUFFICES ASSUME Steady PROVE OneVpc'
      BY <2>3 DEF OneVpc, Steady, FreeOf
    <3>2. /\ cache.want = api.want /\ w.want = api.want
          /\ w.st.vpc \in {api.want, api.st.vpc}
          /\ assoc \subseteq {api.want} /\ (assoc # {} => api.st.vpc = api.want)
          /\ step.ok = "get" => w.st.vpc = api.want
      BY <2>1, <3>1 DEF Lasting, OneVpc, Recorded
    <3>3. api'.want = api.want /\ api'.st.vpc = w.st.vpc
      BY <2>1 DEF SameBut
    <3>4. step'.at = "get" => step.ok = "get"
      BY <2>1 DEF Exits
    <3>5. QED
      BY <1>1, <2>1, <2>2, <3>2, <3>3, <3>4 DEF OneVpc, Associating
  <2>5. Recorded'
    <3>1. step'.at = "get" => step.ok = "get"
      BY <2>1 DEF Exits
    <3>2. w.want \in Wants
      BY <2>1, InvParts, CopyType
    <3>3. QED
      BY <2>1, <2>2, <3>1, <3>2 DEF Lasting, Recorded, SameBut, Associating
  <2>6. QED
    BY <1>1, <2>1, <2>2, <2>3, <2>4, <2>5 DEF Lasting, Facts, Untouched,
       ReleaseEarned, Steady, FreeOf, NoOrphan, Removing, SameBut
<1>5. CASE PersistConflict \/ PersistError
  <2>1. /\ step.at = "save" /\ UNCHANGED <<api, cache, cfresh>> /\ Counted
        /\ \/ step'.at = "idle"
           \/ /\ step'.at = "save" /\ step'.ok = "idle"
              /\ SameBut(w', w, [w.st EXCEPT !.ready = FALSE])
    BY <1>1, <1>5, PersistFails
  <2>2. \/ step'.at = "idle"
        \/ step'.at = "save" /\ step'.ok = "idle" /\ SameVpc(w', w)
    BY <2>1, InvParts, NotReadyVpc
  <2>3. scenario' = scenario
    BY <1>1, <2>1, FaultsType
  <2>4. QED
    BY <1>1, <2>1, <2>2, <2>3 DEF Lasting, Facts, Untouched,
       ReleaseEarned, Recorded, OneVpc, Steady, FreeOf, NoOrphan, Associating,
       Removing, SameVpc
<1>6. CASE Crash
  <2>1. step'.at = "idle" /\ UNCHANGED <<api, cache>> /\ Counted
    BY <1>6 DEF Crash, Return, At, k8s, Counted, AllFaults
  <2>2. scenario' = scenario
    BY <1>1, <2>1, FaultsType
  <2>3. QED
    BY <1>1, <2>1, <2>2 DEF Lasting, Facts, Untouched, ReleaseEarned,
       Recorded, OneVpc, Steady, FreeOf, NoOrphan, Associating, Removing
<1>7. CASE Users
  <2>1. /\ api.exists /\ api'.st = api.st /\ api'.finalizer = api.finalizer
        /\ api.abandon => api'.abandon
        /\ ~api'.exists => ~api.finalizer
        /\ "edit" \notin scenario.users => api'.want = api.want
        /\ ~wfresh'
        /\ UNCHANGED <<cache, w, step>> /\ NoFault
    BY <1>1, <1>7, UserEffect
  <2>2. scenario' = scenario
    BY <2>1 DEF NoFault
  <2>3. QED
    BY <1>1, <2>1, <2>2 DEF Lasting, Facts, Untouched, ReleaseEarned,
       Recorded, OneVpc, Steady, FreeOf, NoOrphan, Associating, Removing
<1>8. CASE CacheSync
  <2>1. /\ cache' = api /\ UNCHANGED <<api, w, wfresh, step>> /\ NoFault
    BY <1>8 DEF CacheSync, worker
  <2>2. scenario' = scenario
    BY <2>1 DEF NoFault
  <2>3. QED
    BY <1>1, <2>1, <2>2 DEF Lasting, Facts, Untouched, ReleaseEarned,
       Recorded, OneVpc, Steady, FreeOf, NoOrphan, Associating, Removing
<1>9. QED
  BY <1>2, <1>3, <1>4, <1>5, <1>6, <1>7, <1>8 DEF Shared, SharedWork

LEMMA SharedStep ==
    ASSUME Lasting, Shared, UNCHANGED aws
    PROVE  Lasting'
<1>1. KubeOK(Statuses, Labels, Exits)' /\ Protocol(Removing)'
  BY InvParts, Kind, SharedKept
<1>2. assoc' \subseteq Wants /\ auth' \subseteq Wants
  BY InvParts DEF aws
<1>3. QED
  BY <1>1, <1>2, SharedFacts DEF Lasting, TypeOK, Facts

LEMMA ResolveStep ==
    ASSUME Lasting, Resolve
    PROVE  Lasting'
<1>1. /\ step.at = "read" /\ w \in CRs(Statuses) /\ wfresh \in BOOLEAN
      /\ KubeOK(Statuses, Labels, Exits) /\ Protocol(Removing)
      /\ KindOK(Statuses, Labels, Exits, Removing)
  BY InvParts, Kind DEF Resolve
<1>2. PICK new : new = [w EXCEPT !.st.vpc = w.want]
  OBVIOUS
<1>3. /\ new \in CRs(Statuses) /\ new.st.vpc = w.want
      /\ new.want = w.want /\ new.abandon = w.abandon
  BY <1>1, <1>2, ResolvedVpc
<1>4. Write(new, "get", "report", wfresh)
  BY <1>2 DEF Resolve, Save
<1>5. WorkerOK(Statuses, Labels, Exits)' /\ step'.at = "save" /\ w' = new
  <2>1. "save" \in Labels /\ "get" \in Exits
    BY DEF Labels, Exits
  <2>2. QED
    BY <1>1, <1>3, <1>4, <2>1, WriteType
<1>6. UNCHANGED <<api, cache, cfresh, assoc, auth>> /\ Counted
  BY DEF Resolve, k8s, aws, Counted
<1>7. scenario' = scenario
  BY <1>1, <1>6, FaultsType
<1>8. KubeOK(Statuses, Labels, Exits)' /\ Protocol(Removing)'
  <2>1. step.at \notin Removing /\ step'.at \notin Removing
    BY <1>1, <1>5 DEF Removing
  <2>2. QED
    BY <1>1, <1>3, <1>5, <1>6, <2>1, WorkerKept
<1>9. w.want \in Wants
  BY <1>1, CopyType
<1>10. Facts'
  BY <1>1, <1>3, <1>5, <1>6, <1>7, <1>9 DEF Lasting, Facts, Untouched,
     ReleaseEarned, Recorded, OneVpc, Steady, FreeOf, NoOrphan, Associating, Removing
<1>11. QED
  BY <1>6, <1>8, <1>10, InvParts DEF Lasting, TypeOK, Facts

LEMMA UnresolvedStep ==
    ASSUME Lasting, Unresolved
    PROVE  Lasting'
<1>1. /\ step.at = "read" /\ w \in CRs(Statuses) /\ wfresh \in BOOLEAN
      /\ KubeOK(Statuses, Labels, Exits) /\ Protocol(Removing)
      /\ KindOK(Statuses, Labels, Exits, Removing)
  BY InvParts, Kind DEF Unresolved
<1>2. UNCHANGED <<api, cache, cfresh, assoc, auth>> /\ Counted
  BY DEF Unresolved, k8s, aws, Counted, AllFaults
<1>3. scenario' = scenario
  BY <1>1, <1>2, FaultsType
<1>4. Fault("dependency")
  BY DEF Unresolved
<1>5. Steady => FreeOf({"lag"})
  BY <1>4 DEF Steady, FreeOf, Fault
<1>6. /\ WorkerOK(Statuses, Labels, Exits)'
      /\ \/ step'.at = "idle"
         \/ step'.at = "save" /\ step'.ok = "idle" /\ SameVpc(w', w)
  <2>1. CASE Report
    <3>1. /\ WorkerOK(Statuses, Labels, Exits)'
          /\ step'.at = "save" /\ step'.ok = "idle"
          /\ SameBut(w', w, [w.st EXCEPT !.ready = FALSE])
      BY <1>1, <2>1, ReportEffect
    <3>2. QED
      BY <1>1, <3>1, NotReadyVpc
  <2>2. CASE Return
    BY <2>2, ReturnType DEF Labels
  <2>3. QED
    BY <2>1, <2>2 DEF Unresolved
<1>7. KubeOK(Statuses, Labels, Exits)' /\ Protocol(Removing)'
  <2>1. step.at \notin Removing /\ step'.at \notin Removing
    BY <1>1, <1>6 DEF Removing
  <2>2. \/ step'.at = "idle"
        \/ w'.abandon = w.abandon /\ step'.at # "addFinalizer"
    BY <1>6 DEF SameVpc
  <2>3. QED
    BY <1>1, <1>2, <1>6, <2>1, <2>2, WorkerKept
<1>8. OneVpc'
  BY <1>1, <1>2, <1>3, <1>5, <1>6
  DEF Lasting, OneVpc, Steady, FreeOf, Associating, SameVpc
<1>9. Facts'
  BY <1>1, <1>2, <1>3, <1>6, <1>8 DEF Lasting, Facts, Untouched, Steady, FreeOf,
     ReleaseEarned, Recorded, NoOrphan, Associating, Removing
<1>10. QED
  BY <1>2, <1>7, <1>9, InvParts DEF Lasting, TypeOK, Facts

\* A step of the handler that leaves the API server alone and goes on with the
\* copy it had.  On the path of the deletion it only takes away.
Asking ==
    /\ WorkerOK(Statuses, Labels, Exits)' /\ Counted
    /\ UNCHANGED <<api, cache, cfresh>>
    /\ assoc' \subseteq Wants /\ auth' \subseteq Wants
    /\ step.at \in Associating \union {"delete"}
    /\ step.at \in Associating => assoc' \subseteq assoc \union {w.st.vpc}
    /\ step.at = "delete" => assoc' \subseteq assoc /\ auth' \subseteq auth
    /\ \/ step'.at = "idle"
       \/ /\ step'.at \in Associating \union {"save"} /\ SameVpc(w', w)
          /\ step.at \in Associating /\ step'.ok # "get"
       \/ /\ step.at = "delete" /\ step'.at = "release"
          /\ w' = w /\ wfresh' = wfresh /\ w.st.vpc \notin assoc'

LEMMA AskingStep ==
    ASSUME Lasting, Asking
    PROVE  Lasting'
<1>1. /\ KubeOK(Statuses, Labels, Exits) /\ Protocol(Removing)
      /\ KindOK(Statuses, Labels, Exits, Removing)
      /\ UNCHANGED <<api, cache, cfresh>> /\ Counted
  BY InvParts, Kind DEF Asking
<1>2. scenario' = scenario
  BY <1>1, FaultsType
<1>3. Removing \intersect (Associating \union {"save"}) = {}
  BY DEF Removing, Associating
<1>4. KubeOK(Statuses, Labels, Exits)' /\ Protocol(Removing)'
  <2>1. \/ step'.at = "idle"
        \/ /\ w'.abandon = w.abandon /\ step'.at # "addFinalizer"
           /\ step.at \notin {"idle", "addFinalizer"}
           /\ step'.at \in Removing <=> step.at \in Removing
    BY DEF Asking, SameVpc, Removing, Associating
  <2>2. WorkerOK(Statuses, Labels, Exits)'
    BY DEF Asking
  <2>3. QED
    BY <1>1, <2>1, <2>2, WorkerKept
<1>5. step'.at \in Removing => (wfresh' => w'.st = api.st)
  <2>1. SUFFICES ASSUME step'.at \in Removing, wfresh'
                 PROVE  w'.st = api.st
    OBVIOUS
  <2>2. step.at = "delete" /\ w' = w /\ wfresh
    BY <1>3, <2>1, Zenon DEF Asking, Removing
  <2>3. QED
    BY <2>2 DEF Lasting, ReleaseEarned, Removing
<1>6. api.finalizer /\ (step.at # "delete" => api.exists)
  <2>1. step.at \notin {"idle", "addFinalizer"}
    BY DEF Asking, Associating
  <2>2. step.at # "delete" => step.at \notin Removing
    BY DEF Asking, Associating, Removing
  <2>3. QED
    BY <1>1, <2>1, <2>2, HeldWhileAtWork DEF Phase
<1>7. Recorded'
  <2>1. step.at \in Associating => w.st.vpc \in Wants /\ api.st.vpc = w.st.vpc
    BY DEF Lasting, Recorded
  <2>2. step'.at \in {"save"} \union Associating =>
           step.at \in Associating /\ SameVpc(w', w)
    BY <1>3 DEF Asking, Associating
  <2>3. step'.at = "save" => step'.ok # "get"
    BY DEF Asking
  <2>4. QED
    BY <1>1, <2>1, <2>2, <2>3 DEF Recorded, SameVpc
<1>8. OneVpc'
  <2>1. SUFFICES ASSUME Steady PROVE OneVpc'
    BY <1>2 DEF OneVpc, Steady, FreeOf
  <2>2. /\ cache.want = api.want /\ w.want = api.want
        /\ step.at \in Associating => w.st.vpc = api.want
        /\ assoc \subseteq {api.want} /\ (assoc # {} => api.st.vpc = api.want)
    BY <2>1 DEF Lasting, OneVpc, Asking, Associating
  <2>3. step.at \in Associating => api.st.vpc = w.st.vpc
    BY DEF Lasting, Recorded
  <2>4. step'.at \in {"save"} \union Associating =>
           step.at \in Associating /\ SameVpc(w', w)
    BY <1>3 DEF Asking, Associating
  <2>5. assoc' \subseteq {api.want} /\ (assoc' # {} => api.st.vpc = api.want)
    BY <2>2, <2>3 DEF Asking
  <2>6. step'.at # "idle" => w'.want = api.want
    BY <2>2 DEF Asking, SameVpc
  <2>7. step'.at # "read"
    BY DEF Asking, Associating
  <2>8. QED
    BY <1>1, <2>2, <2>4, <2>5, <2>6, <2>7 DEF OneVpc, SameVpc
<1>9. Facts'
  BY <1>1, <1>2, <1>5, <1>6, <1>7, <1>8 DEF Lasting, Facts, Untouched,
     ReleaseEarned, Steady, FreeOf, NoOrphan, Associating, Removing, Asking
<1>10. QED
  BY <1>4, <1>9 DEF Lasting, TypeOK, Facts, Asking

LEMMA GotoEffect ==
    ASSUME Lasting, step.at # "idle",
           NEW label \in Labels \ {"idle", "save"}, Goto(label, w)
    PROVE  /\ WorkerOK(Statuses, Labels, Exits)' /\ step'.at = label
           /\ w' = w /\ wfresh' = wfresh /\ step'.ok # "get" /\ SameVpc(w', w)
<1>1. w \in CRs(Statuses) /\ wfresh \in BOOLEAN
  BY InvParts
<1>2. step'.ok # "get"
  BY DEF Goto, At
<1>3. QED
  BY <1>1, <1>2, GotoType DEF SameVpc

LEMMA ReportVpc ==
    ASSUME Lasting, step.at # "idle", Report
    PROVE  /\ WorkerOK(Statuses, Labels, Exits)' /\ step'.at = "save"
           /\ step'.ok # "get" /\ SameVpc(w', w)
<1>1. w \in CRs(Statuses) /\ KubeOK(Statuses, Labels, Exits)
  BY InvParts
<1>2. /\ WorkerOK(Statuses, Labels, Exits)' /\ step'.at = "save"
      /\ step'.ok = "idle" /\ SameBut(w', w, [w.st EXCEPT !.ready = FALSE])
  BY <1>1, Kind, ReportEffect
<1>3. QED
  BY <1>1, <1>2, NotReadyVpc

\* What the handler asks of AWS, and what it makes of the answers.
Answers ==
    \/ GetHostedZone \/ Authorize \/ Associate \/ Cleanup \/ Synced
    \/ Disassociate \/ CallError

LEMMA AnswersAreAsking ==
    ASSUME Lasting, Answers
    PROVE  Asking
<1>0. assoc \subseteq Wants /\ auth \subseteq Wants
  BY InvParts
<1>1. step.at \in Associating => w.st.vpc \in Wants
  BY DEF Lasting, Recorded
<1>2. ASSUME step.at # "idle", Report
      PROVE  /\ WorkerOK(Statuses, Labels, Exits)' /\ step'.at = "save"
             /\ step'.ok # "get" /\ SameVpc(w', w)
  BY <1>2, ReportVpc
<1>3. CASE GetHostedZone
  <2>1. PICK label \in {"done", "authorize", "associate"} : Goto(label, w)
    BY <1>3 DEF GetHostedZone
  <2>2. WorkerOK(Statuses, Labels, Exits)' /\ step'.at = label /\ step'.ok # "get" /\ SameVpc(w', w)
    BY <1>3, <2>1, GotoEffect DEF GetHostedZone, Labels
  <2>3. QED
    BY <1>0, <1>3, <2>2 DEF GetHostedZone, Asking, Associating, k8s, Counted, aws
<1>4. CASE Authorize
  <2>1. /\ WorkerOK(Statuses, Labels, Exits)' /\ SameVpc(w', w)
        /\ step'.at \in {"associate", "save"} /\ step'.ok # "get" /\ Counted
    <3>1. CASE Goto("associate", w) /\ NoFault
      BY <1>4, <3>1, GotoEffect DEF Authorize, Labels, Counted
    <3>2. CASE Report /\ Fault("lost")
      BY <1>2, <1>4, <3>2 DEF Authorize, Counted, AllFaults
    <3>3. QED
      BY <1>4, <3>1, <3>2 DEF Authorize
  <2>2. QED
    BY <1>0, <1>1, <1>4, <2>1 DEF Authorize, Asking, Associating, k8s
<1>5. CASE Associate
  <2>1. /\ WorkerOK(Statuses, Labels, Exits)' /\ SameVpc(w', w)
        /\ step'.at \in {"cleanup", "done", "save"} /\ step'.ok # "get" /\ Counted
    <3>1. CASE Goto(IF CrossAccount THEN "cleanup" ELSE "done", w) /\ NoFault
      <4>1. PICK label \in {"cleanup", "done"} : Goto(label, w)
        BY <3>1
      <4>2. QED
        BY <1>5, <3>1, <4>1, GotoEffect DEF Associate, Labels, Counted
    <3>2. CASE Report /\ Fault("lost")
      BY <1>2, <1>5, <3>2 DEF Associate, Counted, AllFaults
    <3>3. QED
      BY <1>5, <3>1, <3>2 DEF Associate
  <2>2. QED
    BY <1>0, <1>1, <1>5, <2>1 DEF Associate, Asking, Associating, k8s
<1>6. CASE Cleanup
  <2>1. /\ WorkerOK(Statuses, Labels, Exits)' /\ SameVpc(w', w)
        /\ step'.at = "done" /\ step'.ok # "get"
    BY <1>6, GotoEffect DEF Cleanup, Labels
  <2>2. Counted /\ auth' \subseteq auth
    BY <1>6 DEF Cleanup, Counted, AllFaults
  <2>3. QED
    BY <1>0, <1>6, <2>1, <2>2 DEF Cleanup, Asking, Associating, k8s
<1>7. CASE Synced
  <2>1. w \in CRs(Statuses) /\ wfresh \in BOOLEAN /\ step.at = "done"
    BY <1>7, InvParts DEF Synced
  <2>2. PICK new : new = ReadyNow(Observed(w))
    OBVIOUS
  <2>3. /\ new \in CRs(Statuses) /\ SameVpc(new, w)
        /\ Write(new, "idle", "report", wfresh)
    BY <1>7, <2>1, <2>2, SyncedVpc DEF Synced, Save
  <2>4. /\ WorkerOK(Statuses, Labels, Exits)' /\ step'.at = "save"
        /\ step'.ok # "get" /\ SameVpc(w', w)
    <3>1. "idle" \in Exits /\ "save" \in Labels
      BY DEF Labels, Exits
    <3>2. /\ WorkerOK(Statuses, Labels, Exits)' /\ step'.at = "save"
          /\ w' = new
      BY <2>1, <2>3, <3>1, WriteType
    <3>3. step'.ok # "get"
      BY <2>3 DEF Write
    <3>4. QED
      BY <2>3, <3>2, <3>3
  <2>5. QED
    BY <1>0, <1>7, <2>1, <2>4 DEF Synced, Asking, Associating, k8s, Counted, aws
<1>8. CASE Disassociate
  <2>1. /\ WorkerOK(Statuses, Labels, Exits)' /\ Counted
        /\ \/ step'.at = "idle"
           \/ step'.at = "release" /\ w' = w /\ wfresh' = wfresh
    <3>1. CASE Goto("release", w) /\ NoFault
      BY <1>8, <3>1, GotoEffect DEF Disassociate, Labels, Counted
    <3>2. CASE Return /\ Fault("lost")
      BY <3>2, ReturnType DEF Counted, AllFaults, Labels
    <3>3. QED
      BY <1>8, <3>1, <3>2 DEF Disassociate
  <2>2. QED
    BY <1>0, <1>8, <2>1 DEF Disassociate, Asking, Associating, k8s
<1>9. CASE CallError
  <2>1. UNCHANGED <<assoc, auth>> /\ UNCHANGED k8s /\ Counted
    BY <1>9 DEF CallError, aws, Counted, AllFaults
  <2>2. CASE step.at \in {"get", "authorize", "associate"} /\ Report
    BY <1>0, <1>2, <2>1, <2>2 DEF Asking, Associating, k8s
  <2>3. CASE step.at = "delete" /\ Return
    BY <1>0, <2>1, <2>3, ReturnType DEF Asking, Associating, k8s, Labels
  <2>4. QED
    BY <1>9, <2>2, <2>3 DEF CallError
<1>10. QED
  BY <1>3, <1>4, <1>5, <1>6, <1>7, <1>8, <1>9 DEF Answers

LEMMA ExternalStep ==
    ASSUME Lasting, ExternalDelete
    PROVE  Lasting'
<1>1. /\ UNCHANGED <<api, cache, cfresh, w, wfresh, step, auth>> /\ Counted
      /\ assoc' \subseteq assoc
  BY DEF ExternalDelete, k8s, worker, Counted, AllFaults
<1>2. KubeOK(Statuses, Labels, Exits)' /\ Protocol(Removing)'
  BY <1>1, InvParts, AwsKept
<1>3. scenario' = scenario
  BY <1>1, InvParts, FaultsType
<1>4. Facts'
  BY <1>1, <1>3 DEF Lasting, Facts, Untouched, ReleaseEarned,
     Recorded, OneVpc, Steady, FreeOf, NoOrphan, Associating, Removing
<1>5. QED
  BY <1>1, <1>2, <1>4, InvParts DEF Lasting, TypeOK, Facts

-----------------------------------------------------------------------------
(* The invariant.                                                           *)

LEMMA NextCases ==
    ASSUME Next
    PROVE  \/ Shared /\ UNCHANGED aws
           \/ Resolve \/ Unresolved \/ Answers \/ ExternalDelete
BY DEF Next, Work, Reconcile, Shared, Outside, WatchDelivers, Answers

LEMMA InitInv == Init => Lasting
<1> SUFFICES ASSUME Init PROVE Lasting
  OBVIOUS
<1>1. PICK want \in Wants :
         api = [exists |-> TRUE, gen |-> 1, want |-> want, deleting |-> FALSE,
                finalizer |-> FALSE, abandon |-> FALSE, st |-> BlankStatus]
  BY DEF Init, InitKube
<1>2. BlankStatus \in Statuses
  BY DEF BlankStatus, Statuses
<1>3. /\ api \in CRs(Statuses) /\ api.exists /\ ~api.finalizer
      /\ ~api.deleting /\ ~api.abandon
  BY <1>1, <1>2 DEF CRs
<1>4. /\ cache = api /\ cfresh \in BOOLEAN /\ w = NoCopy /\ wfresh \in BOOLEAN
      /\ step.at = "idle" /\ assoc = {} /\ auth = {}
  BY DEF Init, InitKube, At
<1>5. scenario \in Scenarios /\ faults = 0
  BY DEF Init, InitKube
<1>6. faults \in 0 .. scenario.most
  BY <1>5, ReconcilerAssumption DEF AreScenarios
<1>7. TypeOK
  BY <1>3, <1>4, <1>5, <1>6 DEF TypeOK, KubeOK, WorkerOK, Labels
<1>8. Facts /\ Protocol(Removing)
  BY <1>3, <1>4 DEF Facts, Untouched, ReleaseEarned, Recorded, OneVpc, Steady, FreeOf, NoOrphan,
     Associating, Removing, Protocol, FinalizerHeld, DeletionSeen, CopyIsCurrent
<1>9. QED
  BY <1>7, <1>8 DEF Lasting, Facts

LEMMA StutterInv == Lasting /\ UNCHANGED vars => Lasting'
BY DEF vars, Lasting, TypeOK, KubeOK, WorkerOK, Protocol, FinalizerHeld,
       DeletionSeen, CopyIsCurrent, Untouched, ReleaseEarned, Recorded, OneVpc,
       NoOrphan, Steady, FreeOf

LEMMA LastingStep == Lasting /\ [Next]_vars => Lasting'
<1>1. SUFFICES ASSUME Lasting, [Next]_vars PROVE Lasting'
  OBVIOUS
<1>2. CASE UNCHANGED vars
  BY <1>1, <1>2, StutterInv
<1>3. CASE Next
  BY <1>1, <1>3, NextCases, SharedStep, ResolveStep, UnresolvedStep,
     AnswersAreAsking, AskingStep, ExternalStep
<1>4. QED
  BY <1>1, <1>2, <1>3

-----------------------------------------------------------------------------
(* The authorizations.                                                      *)

\* The labels between the request of an authorization and its cleanup.
Between == {"associate", "cleanup"}
Careful == FreeOf({"crash", "error", "lost"})

LEMMA NothingFails ==
    ASSUME Careful
    PROVE  ~Fault("crash") /\ ~Fault("error") /\ ~Fault("lost")
BY DEF Careful, FreeOf, Fault

LEMMA ScenarioStays == ASSUME Lasting, [Next]_vars PROVE scenario' = scenario
<1>1. CASE Shared
  BY <1>1 DEF Shared, SharedWork, ReconcileAbandoned, ReconcileDeleted,
     ReconcileNew, ReconcileExisting, Start, AddFinalizer, RemoveFinalizer,
     Persist, PersistConflict, PersistError, Crash, CacheSync, Users, UserEdit,
     UserAbandon, UserDelete, UserWrite, Fault, NoFault
<1>2. CASE Answers
  BY <1>2, AnswersAreAsking, InvParts, FaultsType DEF Asking
<1>3. CASE Resolve \/ Unresolved \/ ExternalDelete \/ UNCHANGED vars
  BY <1>3 DEF Resolve, Unresolved, ExternalDelete, vars, Fault, NoFault
<1>4. QED
  BY <1>1, <1>2, <1>3, NextCases

\* While every call and write succeeds, what is shared neither enters the
\* handshake nor leaves it.
LEMMA SharedStaysOut ==
    ASSUME Lasting, Careful, Shared
    PROVE  \/ UNCHANGED <<w, step>>
           \/ step.at \notin Between /\ step'.at \notin Between \union {"authorize"}
<1>1. /\ KubeOK(Statuses, Labels, Exits) /\ Protocol(Removing)
      /\ KindOK(Statuses, Labels, Exits, Removing)
  BY InvParts, Kind
<1>2. CASE \/ ReconcileAbandoned \/ ReconcileDeleted
           \/ ReconcileNew \/ ReconcileExisting
  <2>1. PICK label \in {"release", "delete", "addFinalizer", "read"} :
            Start(label)
    BY <1>2 DEF ReconcileAbandoned, ReconcileDeleted, ReconcileNew,
                ReconcileExisting
  <2>2. step.at = "idle" /\ step'.at = label
    BY <1>1, <2>1, StartEffect
  <2>3. QED
    BY <2>2 DEF Between
<1>3. CASE AddFinalizer \/ RemoveFinalizer
  <2>1. step.at \in {"addFinalizer", "release"}
    BY <1>3 DEF AddFinalizer, RemoveFinalizer
  <2>2. step'.at = "idle"
    BY <1>1, <1>3, FinalizerEffect
  <2>3. QED
    BY <2>1, <2>2 DEF Between
<1>4. CASE Persist
  <2>1. /\ step.at = "save" /\ step.ok \in Exits
        /\ step.ok = "idle" => step'.at = "idle"
        /\ step.ok \notin {"idle", "report"} => step'.at = step.ok
    BY <1>1, <1>4, PersistEffect
  <2>2. QED
    BY <2>1 DEF Exits, Between
<1>5. CASE PersistConflict \/ PersistError
  <2>1. step.at = "save" /\ step'.at \in {"idle", "save"}
    BY <1>1, <1>5, PersistFails
  <2>2. QED
    BY <2>1 DEF Between
<1>6. CASE Crash
  BY <1>6, NothingFails DEF Crash
<1>7. CASE Users
  BY <1>1, <1>7, UserEffect
<1>8. CASE CacheSync
  BY <1>8 DEF CacheSync, worker
<1>9. QED
  BY <1>2, <1>3, <1>4, <1>5, <1>6, <1>7, <1>8 DEF Shared, SharedWork

LEMMA AnswersHandshake ==
    ASSUME Lasting, Handshake, Careful, Answers
    PROVE  /\ step'.at = "authorize" => CrossAccount
           /\ auth' # {} => /\ CrossAccount /\ step'.at \in Between
                            /\ auth' = {w'.st.vpc}
<1>1. /\ step.at = "authorize" => CrossAccount
      /\ auth # {} => /\ CrossAccount /\ step.at \in Between
                      /\ auth = {w.st.vpc}
  BY DEF Handshake, Careful, Between
<1>2. CASE GetHostedZone
  BY <1>1, <1>2 DEF GetHostedZone, Goto, At, aws, Between
<1>3. CASE Authorize
  <2>1. Goto("associate", w)
    BY <1>3, NothingFails DEF Authorize
  <2>2. step'.at = "associate" /\ w' = w
    BY <2>1 DEF Goto, At
  <2>3. QED
    BY <1>1, <1>3, <2>2 DEF Authorize, Between
<1>4. CASE Associate
  <2>1. Goto(IF CrossAccount THEN "cleanup" ELSE "done", w)
    BY <1>4, NothingFails DEF Associate
  <2>2. /\ step'.at = IF CrossAccount THEN "cleanup" ELSE "done"
        /\ w' = w
    BY <2>1 DEF Goto, At
  <2>3. QED
    BY <1>1, <1>4, <2>2 DEF Associate, Between
<1>5. CASE Cleanup
  BY <1>1, <1>5, NothingFails DEF Cleanup, Goto, At, Between
<1>6. CASE Synced
  BY <1>1, <1>6 DEF Synced, Save, Write, aws, Between
<1>7. CASE Disassociate
  <2>1. Goto("release", w)
    BY <1>7, NothingFails DEF Disassociate
  <2>2. step'.at = "release" /\ w' = w
    BY <2>1 DEF Goto, At
  <2>3. QED
    BY <1>1, <1>7, <2>2 DEF Disassociate, Between
<1>8. CASE CallError
  BY <1>8, NothingFails DEF CallError
<1>9. QED
  BY <1>2, <1>3, <1>4, <1>5, <1>6, <1>7, <1>8 DEF Answers

LEMMA HandshakeStep ==
    ASSUME Lasting, Handshake, [Next]_vars
    PROVE  Handshake'
<1>1. SUFFICES ASSUME Careful
               PROVE  /\ step'.at = "authorize" => CrossAccount
                      /\ auth' # {} => /\ CrossAccount /\ step'.at \in Between
                                       /\ auth' = {w'.st.vpc}
  BY ScenarioStays DEF Handshake, Careful, FreeOf, Between
<1>2. /\ step.at = "authorize" => CrossAccount
      /\ auth # {} => /\ CrossAccount /\ step.at \in Between
                      /\ auth = {w.st.vpc}
  BY <1>1 DEF Handshake, Careful, Between
<1>3. CASE Shared /\ UNCHANGED aws
  <2>1. auth' = auth
    BY <1>3 DEF aws
  <2>2. QED
    BY <1>1, <1>2, <1>3, <2>1, SharedStaysOut
<1>4. CASE Answers
  BY <1>1, <1>4, AnswersHandshake
<1>5. CASE Resolve \/ Unresolved
  <2>1. /\ step'.at \in {"save", "idle"} /\ step.at = "read" /\ UNCHANGED auth
    <3>1. step.at = "read" /\ UNCHANGED auth
      BY <1>5 DEF Resolve, Unresolved, aws
    <3>2. CASE Resolve
      BY <3>1, <3>2 DEF Resolve, Save, Write
    <3>3. CASE Unresolved
      <4>1. CASE Report
        BY <3>1, <4>1 DEF Report, Continue, Write
      <4>2. CASE Return
        BY <3>1, <4>2 DEF Return, At
      <4>3. QED
        BY <3>3, <4>1, <4>2 DEF Unresolved
    <3>4. QED
      BY <1>5, <3>1, <3>2, <3>3
  <2>2. QED
    BY <1>2, <2>1 DEF Between
<1>6. CASE ExternalDelete \/ UNCHANGED vars
  <2>1. UNCHANGED <<w, step, auth>>
    BY <1>6 DEF ExternalDelete, worker, vars
  <2>2. QED
    BY <1>2, <2>1
<1>7. QED
  BY <1>3, <1>4, <1>5, <1>6, NextCases

\* As long as the spec stays, a CR that is gone and was not abandoned leaves no
\* association, and while nothing fails only a reconcile inside its handshake
\* leaves an authorization; with what makes that inductive, for any VPCs,
\* scenarios and bounds, and whether or not the VPC is another account's.
THEOREM AssociationInvariant == Spec => []AssociationInv
<1>1. Init => AssociationInv
  <2>1. Init => auth = {} /\ step = At("idle")
    BY DEF Init, InitKube
  <2>2. At("idle").at = "idle"
    BY DEF At
  <2>3. QED
    BY <2>1, <2>2, InitInv DEF AssociationInv, Handshake
<1>2. AssociationInv /\ [Next]_vars => AssociationInv'
  BY LastingStep, HandshakeStep DEF AssociationInv
<1>3. QED
  BY <1>1, <1>2, PTL DEF Spec

\* In a scenario where no process dies and every call and write succeeds,
\* nobody is authorized between two reconciles: what reconcileAssociation asks
\* of the zone's account it has given back when it returns, however the cache
\* lags, the spec is edited and the VPC is disassociated meanwhile.
THEOREM AuthorizationGivenBack == Spec => []AuthorizationTransient
<1>1. AssociationInv => AuthorizationTransient
  BY DEF AssociationInv, Handshake, AuthorizationTransient
<1>2. QED
  BY <1>1, AssociationInvariant, PTL

-----------------------------------------------------------------------------
(* The refinement: every step is one of ManagedResource or a stutter.       *)

Abstract == [Managed!Next]_(Managed!vars)

LEMMA SharedIsAbstract ==
    ASSUME Lasting, Shared, UNCHANGED aws
    PROVE  Abstract
<1>1. PhaseStep /\ UNCHANGED <<assoc, auth>>
  BY InvParts, Kind, SharedPhases DEF aws
<1>2. assoc \subseteq Wants /\ auth \subseteq Wants
  BY InvParts
<1>3. CASE SamePhase
  BY <1>1, <1>3 DEF SamePhase, Abstract, Managed!vars
<1>4. CASE /\ Phase = "new" /\ Phase' = "held"
           /\ api'.abandon = api.abandon /\ api'.st = api.st
  BY <1>1, <1>4 DEF Abstract, Managed!Next, Managed!Hold
<1>5. CASE /\ step.at = "save" /\ Phase \in {"held", "removing"}
           /\ Phase' = Phase /\ api'.abandon = api.abandon
  BY <1>1, <1>2, <1>5 DEF Abstract, Managed!Next, Managed!Manage
<1>6. CASE /\ Phase # "gone" /\ api'.abandon = TRUE
           /\ Phase' = Phase /\ api'.st = api.st
  BY <1>1, <1>6 DEF Abstract, Managed!Next, Managed!Abandon
<1>7. CASE /\ \/ Phase = "new" /\ Phase' = "gone"
              \/ Phase = "held" /\ Phase' = "removing"
           /\ api'.abandon = api.abandon /\ api'.st = api.st
  BY <1>1, <1>7 DEF Abstract, Managed!Next, Managed!Delete
<1>8. CASE /\ step.at = "release" /\ wfresh
           /\ Phase = "removing" /\ Phase' = "gone"
           /\ api'.abandon = api.abandon /\ api'.st = api.st
  <2>1. api.abandon \/ api.st.vpc \notin assoc
    BY <1>8 DEF Lasting, ReleaseEarned, Removing, Protocol, CopyIsCurrent
  <2>2. QED
    BY <1>1, <1>8, <2>1 DEF Abstract, Managed!Next, Managed!Release
<1>9. QED
  BY <1>1, <1>3, <1>4, <1>5, <1>6, <1>7, <1>8 DEF PhaseStep

LEMMA AskingIsAbstract ==
    ASSUME Lasting, Asking
    PROVE  Abstract
<1>1. /\ UNCHANGED api /\ assoc' \subseteq Wants /\ auth' \subseteq Wants
      /\ step.at \in Associating \union {"delete"}
      /\ step.at = "delete" => assoc' \subseteq assoc /\ auth' \subseteq auth
  BY DEF Asking
<1>2. UNCHANGED <<Phase, api.abandon>>
  BY <1>1 DEF Phase
<1>3. CASE step.at = "delete"
  BY <1>1, <1>2, <1>3 DEF Abstract, Managed!Next, Managed!Vanish
<1>4. CASE step.at \in Associating
  <2>1. step.at \notin {"idle", "addFinalizer"} /\ step.at \notin Removing
    BY <1>4 DEF Associating, Removing
  <2>2. Phase \in {"held", "removing"}
    BY <2>1, InvParts, HeldWhileAtWork
  <2>3. QED
    BY <1>1, <1>2, <2>2 DEF Abstract, Managed!Next, Managed!Manage
<1>5. QED
  BY <1>1, <1>3, <1>4

LEMMA NextIsAbstract ==
    ASSUME Lasting, [Next]_vars
    PROVE  Abstract
<1>1. CASE UNCHANGED vars \/ Resolve \/ Unresolved
  BY <1>1 DEF vars, Resolve, Unresolved, k8s, aws, Phase, Abstract, Managed!vars
<1>2. CASE ExternalDelete
  <2>1. UNCHANGED <<api, auth>> /\ assoc' \subseteq assoc
    BY <1>2 DEF ExternalDelete, k8s
  <2>2. QED
    BY <2>1 DEF Phase, Abstract, Managed!Next, Managed!Vanish
<1>3. CASE Next
  BY <1>1, <1>2, <1>3, NextCases, SharedIsAbstract, AnswersAreAsking,
     AskingIsAbstract
<1>4. QED
  BY <1>1, <1>3

\* The association is asked for under a stored finalizer, and the finalizer is
\* given up only when the association that the status names is gone or the CR
\* is abandoned, whatever fails, lags and is edited.
THEOREM AssociationImplementsManaged == Spec => ImplementsManaged
<1>1. Init => Managed!Init
  <2>1. SUFFICES ASSUME Init PROVE Managed!Init
    OBVIOUS
  <2>2. api.exists /\ ~api.finalizer /\ api.abandon = FALSE
    BY <2>1 DEF Init, InitKube
  <2>3. QED
    BY <2>1, <2>2 DEF Init, Phase, Managed!Init
<1>2. Lasting /\ [Next]_vars => [Managed!Next]_(Managed!vars)
  BY NextIsAbstract DEF Abstract
<1>3. AssociationInv => Lasting
  BY DEF AssociationInv
<1>4. QED
  BY <1>1, <1>2, <1>3, AssociationInvariant, PTL
  DEF Spec, ImplementsManaged, Managed!Spec

-----------------------------------------------------------------------------
(* What follows from the promise of ManagedResource.                        *)

LEMMA NothingInit == Managed!Init => Managed!NothingLeftBehind
BY DEF Managed!Init, Managed!NothingLeftBehind

LEMMA NothingStep ==
    ASSUME Managed!NothingLeftBehind, Abstract
    PROVE  Managed!NothingLeftBehind'
BY DEF Managed!NothingLeftBehind, Abstract, Managed!Next, Managed!vars,
       Managed!Hold, Managed!Abandon, Managed!Delete, Managed!Manage,
       Managed!Vanish, Managed!Release

\* Whatever fails and whoever edits, nothing is known to Route 53 before the
\* finalizer is stored, and a CR that is gone and was not abandoned leaves no
\* association that its status identified.
THEOREM AssociationLeavesNothing == Spec => []Managed!NothingLeftBehind
<1>1. Managed!Spec => []Managed!NothingLeftBehind
  BY NothingInit, NothingStep, PTL DEF Managed!Spec, Abstract
<1>2. QED
  BY <1>1, AssociationImplementsManaged, PTL DEF ImplementsManaged

=============================================================================
