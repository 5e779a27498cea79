-------------------------- MODULE ReconcilerProofs --------------------------
(***************************************************************************)
(* What holds of every native kind: each action of Reconciler keeps the    *)
(* types and the finalizer protocol, and takes the CR through the phases   *)
(* of ManagedResource.  A kind's proofs add its own actions.               *)
(***************************************************************************)
EXTENDS Reconciler, TLAPS

-----------------------------------------------------------------------------
(* Copies of a CR.                                                          *)

\* A CR is no NoCopy, and its fields have their types.
LEMMA CopyType ==
    ASSUME NEW Statuses, NEW cr \in CRs(Statuses)
    PROVE  /\ cr # NoCopy
           /\ cr.exists \in BOOLEAN /\ cr.deleting \in BOOLEAN
           /\ cr.finalizer \in BOOLEAN /\ cr.abandon \in BOOLEAN
           /\ cr.gen \in Nat /\ cr.want \in Wants /\ cr.st \in Statuses
<1>1. "gen" \in DOMAIN cr /\ "gen" \notin DOMAIN NoCopy
  BY DEF CRs, NoCopy
<1>2. QED
  BY <1>1 DEF CRs

\* One CR differs from another in its status at most.
SameBut(new, cr, st) ==
    /\ new.exists = cr.exists /\ new.gen = cr.gen /\ new.want = cr.want
    /\ new.deleting = cr.deleting /\ new.finalizer = cr.finalizer
    /\ new.abandon = cr.abandon /\ new.st = st

LEMMA StatusType ==
    ASSUME NEW Statuses, NEW cr \in CRs(Statuses), NEW st \in Statuses,
           NEW new, new = [cr EXCEPT !.st = st]
    PROVE  new \in CRs(Statuses) /\ SameBut(new, cr, st)
BY DEF CRs, SameBut

\* Where a worker may be, and what the labels of a kind have in common.
KindOK(Statuses, labels, exits, removing) ==
    /\ \A st \in Statuses : [st EXCEPT !.ready = FALSE] \in Statuses
    /\ {"idle", "save", "addFinalizer", "read", "delete", "release"}
         \subseteq labels
    /\ "idle" \in exits /\ exits \subseteq labels \union {"report"}
    /\ "report" \notin labels /\ {"delete", "release"} \subseteq removing
    /\ exits \intersect ({"save", "addFinalizer"} \union removing) = {}
    /\ removing \intersect {"idle", "save", "addFinalizer", "read"} = {}

LEMMA NotReadyType ==
    ASSUME NEW Statuses, \A st \in Statuses : [st EXCEPT !.ready = FALSE] \in Statuses,
           NEW cr \in CRs(Statuses)
    PROVE  /\ NotReady(cr) \in CRs(Statuses)
           /\ SameBut(NotReady(cr), cr, [cr.st EXCEPT !.ready = FALSE])
<1>1. NotReady(cr) = [cr EXCEPT !.st = [cr.st EXCEPT !.ready = FALSE]]
  BY DEF NotReady
<1>2. [cr.st EXCEPT !.ready = FALSE] \in Statuses
  BY CopyType
<1>3. QED
  BY <1>1, <1>2, StatusType

-----------------------------------------------------------------------------
(* Where a step leads.                                                      *)

LEMMA ReturnType ==
    ASSUME NEW Statuses, NEW labels, NEW exits, "idle" \in labels, Return
    PROVE  WorkerOK(Statuses, labels, exits)' /\ step'.at = "idle"
<1>1. step'.at = "idle" /\ w' = NoCopy /\ wfresh' = FALSE
  BY DEF Return, At
<1>2. QED
  BY <1>1 DEF WorkerOK

LEMMA GotoType ==
    ASSUME NEW Statuses, NEW labels, NEW exits, NEW copy \in CRs(Statuses),
           NEW label \in labels \ {"idle", "save"}, wfresh \in BOOLEAN,
           Goto(label, copy)
    PROVE  /\ WorkerOK(Statuses, labels, exits)' /\ step'.at = label
           /\ w' = copy /\ wfresh' = wfresh
<1>1. step'.at = label /\ w' = copy /\ wfresh' = wfresh
  BY DEF Goto, At
<1>2. copy # NoCopy
  BY CopyType
<1>3. QED
  BY <1>1, <1>2 DEF WorkerOK

LEMMA GotoWithType ==
    ASSUME NEW Statuses, NEW labels, NEW exits, NEW copy \in CRs(Statuses),
           NEW label \in labels \ {"idle", "save"}, NEW x, wfresh \in BOOLEAN,
           GotoWith(label, copy, x)
    PROVE  /\ WorkerOK(Statuses, labels, exits)' /\ step'.at = label
           /\ step'.local = x /\ w' = copy /\ wfresh' = wfresh
<1>1. step'.at = label /\ step'.local = x /\ w' = copy /\ wfresh' = wfresh
  BY DEF GotoWith, AtWith, At
<1>2. copy # NoCopy
  BY CopyType
<1>3. QED
  BY <1>1, <1>2 DEF WorkerOK

LEMMA WriteType ==
    ASSUME NEW Statuses, NEW labels, NEW exits, NEW copy \in CRs(Statuses),
           NEW fresh \in BOOLEAN, NEW ok \in exits, NEW err \in {"idle", "report"},
           "save" \in labels, Write(copy, ok, err, fresh)
    PROVE  /\ WorkerOK(Statuses, labels, exits)' /\ step'.at = "save"
           /\ step'.ok = ok /\ w' = copy /\ wfresh' = fresh
<1>1. copy # NoCopy
  BY CopyType
<1>2. QED
  BY <1>1 DEF Write, WorkerOK

LEMMA ContinueElsewhere ==
    ASSUME NEW exit, exit \notin {"idle", "report"}, NEW copy, NEW fresh,
           Continue(exit, copy, fresh)
    PROVE  step'.at = exit /\ w' = copy /\ wfresh' = fresh
<1>1. step' = At(exit) /\ w' = copy /\ wfresh' = fresh
  BY DEF Continue
<1>2. QED
  BY <1>1 DEF At

LEMMA ContinueType ==
    ASSUME NEW Statuses, NEW labels, NEW exits, NEW removing,
           KindOK(Statuses, labels, exits, removing),
           NEW copy \in CRs(Statuses), NEW fresh \in BOOLEAN,
           NEW exit \in labels \union {"report"}, exit # "save",
           Continue(exit, copy, fresh)
    PROVE  /\ WorkerOK(Statuses, labels, exits)'
           /\ exit = "idle" => step'.at = "idle"
           /\ exit = "report" =>
                 /\ step'.at = "save" /\ step'.ok = "idle"
                 /\ w' \in CRs(Statuses) /\ wfresh' = fresh
                 /\ SameBut(w', copy, [copy.st EXCEPT !.ready = FALSE])
           /\ exit \notin {"idle", "report"} =>
                 step'.at = exit /\ w' = copy /\ wfresh' = fresh
<1>1. CASE exit = "idle"
  <2>1. "idle" \in labels /\ Return
    BY <1>1 DEF Continue, KindOK
  <2>2. QED
    BY <1>1, <2>1, ReturnType
<1>2. CASE exit = "report"
  <2>1. Write(NotReady(copy), "idle", "idle", fresh)
    BY <1>2 DEF Continue
  <2>2. /\ NotReady(copy) \in CRs(Statuses)
        /\ SameBut(NotReady(copy), copy, [copy.st EXCEPT !.ready = FALSE])
    BY NotReadyType DEF KindOK
  <2>3. "save" \in labels /\ "idle" \in exits
    BY DEF KindOK
  <2>4. /\ WorkerOK(Statuses, labels, exits)' /\ step'.at = "save"
        /\ step'.ok = "idle" /\ w' = NotReady(copy) /\ wfresh' = fresh
    BY <2>1, <2>2, <2>3, WriteType
  <2>5. QED
    BY <1>2, <2>2, <2>4
<1>3. CASE exit \notin {"idle", "report"}
  <2>1. step' = At(exit) /\ w' = copy /\ wfresh' = fresh
    BY <1>3 DEF Continue
  <2>2. step'.at = exit /\ copy # NoCopy /\ exit \in labels
    BY <1>3, <2>1, CopyType DEF At
  <2>3. QED
    BY <1>3, <2>1, <2>2 DEF WorkerOK
<1>4. QED
  BY <1>1, <1>2, <1>3

-----------------------------------------------------------------------------
(* What the actions of Reconciler do.                                       *)

\* Any step that a fault may accompany.
Counted == NoFault \/ \E kind \in AllFaults : Fault(kind)

LEMMA FaultsType ==
    ASSUME NEW Statuses, NEW labels, NEW exits,
           KubeOK(Statuses, labels, exits), Counted
    PROVE  /\ scenario' = scenario
           /\ scenario' \in Scenarios /\ faults' \in 0 .. scenario'.most
<1>1. scenario \in Scenarios /\ faults \in 0 .. scenario.most
  BY DEF KubeOK
<1>2. scenario.most \in Nat
  BY <1>1, ReconcilerAssumption DEF AreScenarios
<1>3. QED
  BY <1>1, <1>2 DEF Counted, NoFault, Fault

LEMMA WorkersCopy ==
    ASSUME NEW Statuses, NEW labels, NEW exits,
           KubeOK(Statuses, labels, exits), step.at # "idle"
    PROVE  w \in CRs(Statuses) /\ wfresh \in BOOLEAN /\ step.at \in labels
BY DEF KubeOK, WorkerOK

LEMMA StartEffect ==
    ASSUME NEW Statuses, NEW labels, NEW exits, NEW removing,
           KindOK(Statuses, labels, exits, removing),
           KubeOK(Statuses, labels, exits),
           NEW label \in {"release", "delete", "addFinalizer", "read"},
           Start(label)
    PROVE  /\ step.at = "idle" /\ cache.exists
           /\ WorkerOK(Statuses, labels, exits)'
           /\ step'.at = label /\ w' = cache /\ wfresh' = cfresh
           /\ UNCHANGED <<api, cache, cfresh>> /\ Counted
<1>1. /\ label \in labels \union {"report"}
      /\ label # "save" /\ label \notin {"idle", "report"}
  BY DEF KindOK
<1>2. Continue(label, cache, cfresh)
  BY DEF Start
<1>3. cache \in CRs(Statuses) /\ cfresh \in BOOLEAN
  BY DEF KubeOK
<1>4. step'.at = label /\ w' = cache /\ wfresh' = cfresh
  BY <1>1, <1>2, ContinueElsewhere, Zenon
<1>5. WorkerOK(Statuses, labels, exits)'
  <2>1. cache # NoCopy
    BY <1>3, CopyType
  <2>2. wfresh' \in BOOLEAN
    BY <1>3, <1>4
  <2>3. QED
    BY <1>1, <1>3, <1>4, <2>1, <2>2 DEF WorkerOK
<1>6. QED
  BY <1>4, <1>5 DEF Start, Counted, AllFaults, k8s

LEMMA ReportEffect ==
    ASSUME NEW Statuses, NEW labels, NEW exits, NEW removing,
           KindOK(Statuses, labels, exits, removing),
           KubeOK(Statuses, labels, exits), step.at # "idle", Report
    PROVE  /\ WorkerOK(Statuses, labels, exits)'
           /\ step'.at = "save" /\ step'.ok = "idle"
           /\ w' \in CRs(Statuses)
           /\ SameBut(w', w, [w.st EXCEPT !.ready = FALSE])
<1>1. w \in CRs(Statuses) /\ wfresh \in BOOLEAN
  BY WorkersCopy
<1>2. QED
  BY <1>1, ContinueType DEF Report

LEMMA PersistEffect ==
    ASSUME NEW Statuses, NEW labels, NEW exits, NEW removing,
           KindOK(Statuses, labels, exits, removing),
           KubeOK(Statuses, labels, exits), Persist
    PROVE  /\ step.at = "save" /\ api.exists /\ step.ok \in exits
           /\ api' \in CRs(Statuses) /\ SameBut(api', api, w.st)
           /\ ~cfresh' /\ cfresh' \in BOOLEAN
           /\ UNCHANGED cache /\ NoFault /\ WorkerOK(Statuses, labels, exits)'
           /\ step.ok = "idle" => step'.at = "idle"
           /\ step.ok = "report" => step'.at = "save" /\ w' \in CRs(Statuses)
                 /\ SameBut(w', api', [api'.st EXCEPT !.ready = FALSE])
           /\ step.ok \notin {"idle", "report"} =>
                 step'.at = step.ok /\ w' = api'
<1>1. step.at = "save" /\ api.exists /\ api' = [api EXCEPT !.st = w.st]
      /\ cfresh' = FALSE /\ Continue(step.ok, api', TRUE)
      /\ UNCHANGED cache /\ NoFault
  BY DEF Persist
<1>2. w \in CRs(Statuses) /\ api \in CRs(Statuses) /\ step.ok \in exits
  BY <1>1, WorkersCopy DEF KubeOK, WorkerOK
<1>3. w.st \in Statuses
  BY <1>2, CopyType
<1>4. api' \in CRs(Statuses) /\ SameBut(api', api, w.st)
  BY <1>1, <1>2, <1>3, StatusType
<1>5. /\ step.ok \in labels \union {"report"} /\ step.ok # "save"
      /\ "idle" \in labels /\ "save" \in labels /\ "idle" \in exits
  BY <1>2 DEF KindOK
<1>6. /\ WorkerOK(Statuses, labels, exits)'
      /\ step.ok = "idle" => step'.at = "idle"
      /\ step.ok = "report" => step'.at = "save" /\ w' \in CRs(Statuses)
            /\ SameBut(w', api', [api'.st EXCEPT !.ready = FALSE])
      /\ step.ok \notin {"idle", "report"} => step'.at = step.ok /\ w' = api'
  <2>1. CASE step.ok = "idle"
    <3>1. Return
      BY <1>1, <2>1 DEF Continue
    <3>2. QED
      BY <1>5, <2>1, <3>1, ReturnType
  <2>2. CASE step.ok = "report"
    <3>1. Write(NotReady(api'), "idle", "idle", TRUE)
      BY <1>1, <2>2 DEF Continue
    <3>2. step'.at = "save" /\ step'.ok = "idle" /\ step'.err = "idle"
          /\ w' = NotReady(api') /\ wfresh' = TRUE
      BY <3>1 DEF Write
    <3>3. /\ NotReady(api') \in CRs(Statuses)
          /\ SameBut(NotReady(api'), api', [api'.st EXCEPT !.ready = FALSE])
      BY <1>4, NotReadyType DEF KindOK
    <3>4. w' # NoCopy
      BY <3>2, <3>3, CopyType
    <3>5. WorkerOK(Statuses, labels, exits)'
      BY <1>5, <3>2, <3>3, <3>4 DEF WorkerOK
    <3>6. QED
      BY <2>2, <3>2, <3>3, <3>5
  <2>3. CASE step.ok \notin {"idle", "report"}
    <3>1. step'.at = step.ok /\ w' = api' /\ wfresh' = TRUE
      BY <1>1, <2>3, ContinueElsewhere, Zenon
    <3>2. w' # NoCopy
      BY <1>4, <3>1, CopyType
    <3>3. WorkerOK(Statuses, labels, exits)'
      BY <1>4, <1>5, <2>3, <3>1, <3>2 DEF WorkerOK
    <3>4. QED
      BY <2>3, <3>1, <3>3
  <2>4. QED
    BY <2>1, <2>2, <2>3
<1>7. cfresh' \in BOOLEAN /\ ~cfresh'
  BY <1>1
<1>8. QED
  BY <1>1, <1>2, <1>4, <1>6, <1>7

LEMMA PersistFails ==
    ASSUME NEW Statuses, NEW labels, NEW exits, NEW removing,
           KindOK(Statuses, labels, exits, removing),
           KubeOK(Statuses, labels, exits), PersistConflict \/ PersistError
    PROVE  /\ step.at = "save" /\ UNCHANGED <<api, cache, cfresh>> /\ Counted
           /\ WorkerOK(Statuses, labels, exits)'
           /\ \/ step'.at = "idle"
              \/ /\ step'.at = "save" /\ step'.ok = "idle"
                 /\ w' \in CRs(Statuses)
                 /\ SameBut(w', w, [w.st EXCEPT !.ready = FALSE])
<1>1. step.at = "save" /\ Continue(step.err, w, wfresh)
      /\ UNCHANGED <<api, cache, cfresh>> /\ Counted
  BY DEF PersistConflict, PersistError, Counted, AllFaults, k8s
<1>2. w \in CRs(Statuses) /\ wfresh \in BOOLEAN /\ step.err \in {"idle", "report"}
  BY <1>1, WorkersCopy DEF KubeOK, WorkerOK
<1>3. step.err \in labels \union {"report"}
  BY <1>2 DEF KindOK
<1>4. QED
  BY <1>1, <1>2, <1>3, ContinueType

Edited(cr, want) == [cr EXCEPT !.want = want, !.gen = @ + 1]
Deleted(cr) == [cr EXCEPT !.deleting = TRUE, !.gen = @ + 1]

LEMMA EditType ==
    ASSUME NEW Statuses, NEW cr \in CRs(Statuses), NEW want \in Wants
    PROVE  /\ Edited(cr, want) \in CRs(Statuses)
           /\ Edited(cr, want).gen = cr.gen + 1
           /\ Edited(cr, want).want = want
           /\ Edited(cr, want).st = cr.st
           /\ Edited(cr, want).finalizer = cr.finalizer
           /\ Edited(cr, want).abandon = cr.abandon
           /\ Edited(cr, want).deleting = cr.deleting
           /\ Edited(cr, want).exists = cr.exists
<1>1. cr.gen + 1 \in Nat
  BY CopyType
<1>2. PICK gen \in Nat : gen = cr.gen + 1
  BY <1>1
<1>3. Edited(cr, want) = [[cr EXCEPT !.want = want] EXCEPT !.gen = gen]
  BY <1>2 DEF Edited
<1>4. QED
  BY <1>2, <1>3 DEF CRs

LEMMA DeleteType ==
    ASSUME NEW Statuses, NEW cr \in CRs(Statuses)
    PROVE  /\ Deleted(cr) \in CRs(Statuses)
           /\ Deleted(cr).gen = cr.gen + 1
           /\ Deleted(cr).deleting
           /\ Deleted(cr).st = cr.st
           /\ Deleted(cr).finalizer = cr.finalizer
           /\ Deleted(cr).abandon = cr.abandon
           /\ Deleted(cr).want = cr.want
           /\ Deleted(cr).exists = cr.exists
<1>1. cr.gen + 1 \in Nat
  BY CopyType
<1>2. PICK gen \in Nat : gen = cr.gen + 1
  BY <1>1
<1>3. Deleted(cr) = [[cr EXCEPT !.deleting = TRUE] EXCEPT !.gen = gen]
  BY <1>2 DEF Deleted
<1>4. QED
  BY <1>2, <1>3 DEF CRs

\* Users change everything but the status and the finalizer, one at a time.
LEMMA UserEffect ==
    ASSUME NEW Statuses, NEW labels, NEW exits,
           KubeOK(Statuses, labels, exits), Users
    PROVE  /\ api.exists /\ api' \in CRs(Statuses)
           /\ api'.st = api.st /\ api'.finalizer = api.finalizer
           /\ ~cfresh' /\ cfresh' \in BOOLEAN /\ ~wfresh' /\ wfresh' \in BOOLEAN
           /\ UNCHANGED <<cache, w, step>> /\ NoFault
           /\ \/ /\ "edit" \in scenario.users /\ api'.exists
                 /\ api'.gen = api.gen + 1
                 /\ api'.deleting = api.deleting /\ api'.abandon = api.abandon
              \/ /\ api'.exists /\ api'.abandon /\ api'.want = api.want
                 /\ api'.gen = api.gen /\ api'.deleting = api.deleting
              \/ /\ api.finalizer /\ ~api.deleting
                 /\ api'.exists /\ api'.deleting /\ api'.want = api.want
                 /\ api'.gen = api.gen + 1 /\ api'.abandon = api.abandon
              \/ /\ ~api.finalizer /\ ~api.deleting
                 /\ ~api'.exists /\ api'.want = api.want
                 /\ api'.gen = api.gen
                 /\ api'.deleting = api.deleting /\ api'.abandon = api.abandon
<1>1. api \in CRs(Statuses)
  BY DEF KubeOK
<1>2. /\ api.exists /\ ~cfresh' /\ cfresh' \in BOOLEAN
      /\ ~wfresh' /\ wfresh' \in BOOLEAN
      /\ UNCHANGED <<cache, w, step>> /\ NoFault
  BY DEF Users, UserEdit, UserAbandon, UserDelete, UserWrite
<1>3. CASE UserEdit
  <2>1. PICK want \in Wants : UserWrite([api EXCEPT !.want = want, !.gen = @ + 1])
    BY <1>3 DEF UserEdit
  <2>2. api' = Edited(api, want) /\ "edit" \in scenario.users
    BY <1>3, <2>1 DEF UserWrite, UserEdit, Edited
  <2>3. /\ api' \in CRs(Statuses) /\ api'.gen = api.gen + 1
        /\ api'.st = api.st /\ api'.finalizer = api.finalizer
        /\ api'.abandon = api.abandon /\ api'.deleting = api.deleting
        /\ api'.exists = api.exists
    BY <1>1, <2>2, EditType
  <2>4. QED
    BY <1>2, <2>2, <2>3
<1>4. CASE UserAbandon
  <2>1. api' = [api EXCEPT !.abandon = TRUE]
    BY <1>4 DEF UserAbandon, UserWrite
  <2>2. /\ api' \in CRs(Statuses) /\ api'.abandon
        /\ api'.st = api.st /\ api'.finalizer = api.finalizer
        /\ api'.deleting = api.deleting /\ api'.gen = api.gen
        /\ api'.want = api.want /\ api'.exists = api.exists
    BY <1>1, <2>1 DEF CRs
  <2>3. QED
    BY <1>2, <2>2
<1>5. CASE UserDelete /\ api.finalizer
  <2>1. api' = Deleted(api) /\ ~api.deleting
    BY <1>5 DEF UserDelete, UserWrite, Deleted
  <2>2. /\ api' \in CRs(Statuses) /\ api'.gen = api.gen + 1
        /\ api'.st = api.st /\ api'.finalizer = api.finalizer
        /\ api'.abandon = api.abandon /\ api'.deleting
        /\ api'.exists = api.exists /\ api'.want = api.want
    BY <1>1, <2>1, DeleteType
  <2>3. QED
    BY <1>2, <1>5, <2>1, <2>2
<1>6. CASE UserDelete /\ ~api.finalizer
  <2>1. api' = [api EXCEPT !.exists = FALSE] /\ ~api.deleting
    BY <1>6 DEF UserDelete, UserWrite
  <2>2. /\ api' \in CRs(Statuses) /\ ~api'.exists
        /\ api'.st = api.st /\ api'.finalizer = api.finalizer
        /\ api'.deleting = api.deleting /\ api'.gen = api.gen
        /\ api'.want = api.want /\ api'.abandon = api.abandon
    BY <1>1, <2>1 DEF CRs
  <2>3. QED
    BY <1>2, <1>6, <2>1, <2>2
<1>7. QED
  BY <1>3, <1>4, <1>5, <1>6 DEF Users

\* The updates that add and remove the finalizer.
LEMMA FinalizerEffect ==
    ASSUME NEW Statuses, NEW labels, NEW exits, NEW removing,
           KindOK(Statuses, labels, exits, removing),
           KubeOK(Statuses, labels, exits), AddFinalizer \/ RemoveFinalizer
    PROVE  /\ api' \in CRs(Statuses)
           /\ api'.gen = api.gen /\ api'.want = api.want
           /\ api'.deleting = api.deleting /\ api'.abandon = api.abandon
           /\ api'.st = api.st
           /\ UNCHANGED cache /\ NoFault
           /\ WorkerOK(Statuses, labels, exits)' /\ step'.at = "idle"
           /\ \/ UNCHANGED <<api, cfresh>>
              \/ /\ ~cfresh' /\ cfresh' \in BOOLEAN
                 /\ wfresh /\ api.exists
                 /\ \/ step.at = "addFinalizer" /\ api'.exists /\ api'.finalizer
                    \/ /\ step.at = "release" /\ ~api'.exists
                       /\ api'.finalizer = api.finalizer
<1>1. api \in CRs(Statuses) /\ cfresh \in BOOLEAN /\ "idle" \in labels
  BY DEF KubeOK, KindOK
<1>2. Return /\ UNCHANGED cache /\ NoFault
  BY DEF AddFinalizer, RemoveFinalizer
<1>3. WorkerOK(Statuses, labels, exits)' /\ step'.at = "idle"
  BY <1>1, <1>2, ReturnType
<1>4. CASE UNCHANGED <<api, cfresh>>
  BY <1>1, <1>2, <1>3, <1>4
<1>5. CASE AddFinalizer /\ ~UNCHANGED <<api, cfresh>>
  <2>1. /\ api' = [api EXCEPT !.finalizer = TRUE] /\ cfresh' = FALSE
        /\ wfresh /\ api.exists /\ step.at = "addFinalizer"
    BY <1>5 DEF AddFinalizer
  <2>2. /\ api' \in CRs(Statuses) /\ api'.finalizer /\ api'.exists
        /\ api'.gen = api.gen /\ api'.want = api.want
        /\ api'.deleting = api.deleting /\ api'.abandon = api.abandon
        /\ api'.st = api.st
    BY <1>1, <2>1 DEF CRs
  <2>3. cfresh' \in BOOLEAN /\ ~cfresh'
    BY <2>1
  <2>4. QED
    BY <1>2, <1>3, <2>1, <2>2, <2>3
<1>6. CASE RemoveFinalizer /\ ~UNCHANGED <<api, cfresh>>
  <2>1. /\ api' = [api EXCEPT !.exists = FALSE] /\ cfresh' = FALSE
        /\ wfresh /\ api.exists /\ step.at = "release"
    BY <1>6 DEF RemoveFinalizer
  <2>2. /\ api' \in CRs(Statuses) /\ api'.finalizer = api.finalizer
        /\ ~api'.exists
        /\ api'.gen = api.gen /\ api'.want = api.want
        /\ api'.deleting = api.deleting /\ api'.abandon = api.abandon
        /\ api'.st = api.st
    BY <1>1, <2>1 DEF CRs
  <2>3. cfresh' \in BOOLEAN /\ ~cfresh'
    BY <2>1
  <2>4. QED
    BY <1>2, <1>3, <2>1, <2>2, <2>3
<1>7. QED
  BY <1>4, <1>5, <1>6

-----------------------------------------------------------------------------
(* The types and the finalizer protocol are kept.                           *)

LEMMA KubeKept ==
    ASSUME NEW Statuses, NEW labels, NEW exits,
           KubeOK(Statuses, labels, exits), Counted,
           WorkerOK(Statuses, labels, exits)',
           api' \in CRs(Statuses), cache' \in CRs(Statuses), cfresh' \in BOOLEAN
    PROVE  KubeOK(Statuses, labels, exits)'
<1>1. scenario' \in Scenarios /\ faults' \in 0 .. scenario'.most
  BY FaultsType
<1>2. QED
  BY <1>1 DEF KubeOK

LEMMA StartKept ==
    ASSUME NEW Statuses, NEW labels, NEW exits, NEW removing,
           KindOK(Statuses, labels, exits, removing),
           KubeOK(Statuses, labels, exits), Protocol(removing),
           \/ ReconcileAbandoned \/ ReconcileDeleted
           \/ ReconcileNew \/ ReconcileExisting
    PROVE  KubeOK(Statuses, labels, exits)' /\ Protocol(removing)'
<1>1. PICK label \in {"release", "delete", "addFinalizer", "read"} :
          /\ Start(label)
          /\ label # "addFinalizer" => cache.finalizer
          /\ label \in {"release", "delete"} <=> cache.deleting
  BY DEF ReconcileAbandoned, ReconcileDeleted, ReconcileNew, ReconcileExisting
<1>2. /\ step.at = "idle" /\ WorkerOK(Statuses, labels, exits)'
      /\ step'.at = label /\ w' = cache /\ wfresh' = cfresh
      /\ UNCHANGED <<api, cache, cfresh>> /\ Counted
  BY <1>1, StartEffect
<1>3. KubeOK(Statuses, labels, exits)'
  BY <1>2, KubeKept DEF KubeOK
<1>4. label \in removing <=> label \in {"release", "delete"}
  BY DEF KindOK
<1>5. FinalizerHeld'
  BY <1>1, <1>2 DEF Protocol, FinalizerHeld
<1>6. DeletionSeen(removing)'
  BY <1>1, <1>2, <1>4 DEF Protocol, DeletionSeen
<1>7. CopyIsCurrent'
  BY <1>1, <1>2 DEF Protocol, CopyIsCurrent
<1>8. QED
  BY <1>3, <1>5, <1>6, <1>7 DEF Protocol

LEMMA FinalizerKept ==
    ASSUME NEW Statuses, NEW labels, NEW exits, NEW removing,
           KindOK(Statuses, labels, exits, removing),
           KubeOK(Statuses, labels, exits), Protocol(removing),
           AddFinalizer \/ RemoveFinalizer
    PROVE  KubeOK(Statuses, labels, exits)' /\ Protocol(removing)'
<1>1. /\ api' \in CRs(Statuses)
      /\ api'.deleting = api.deleting /\ api'.abandon = api.abandon
      /\ UNCHANGED cache /\ NoFault
      /\ WorkerOK(Statuses, labels, exits)' /\ step'.at = "idle"
      /\ \/ UNCHANGED <<api, cfresh>>
         \/ /\ ~cfresh' /\ cfresh' \in BOOLEAN
            /\ wfresh /\ api.exists
            /\ \/ step.at = "addFinalizer" /\ api'.exists /\ api'.finalizer
               \/ /\ step.at = "release" /\ ~api'.exists
                  /\ api'.finalizer = api.finalizer
  BY FinalizerEffect
<1>2. KubeOK(Statuses, labels, exits)'
  BY <1>1, KubeKept DEF KubeOK, Counted
<1>3. "release" \in removing /\ "idle" \notin removing
  BY DEF KindOK
<1>4. FinalizerHeld'
  BY <1>1 DEF Protocol, FinalizerHeld
<1>5. DeletionSeen(removing)'
  BY <1>1, <1>3 DEF Protocol, DeletionSeen
<1>6. CopyIsCurrent'
  BY <1>1 DEF Protocol, CopyIsCurrent
<1>7. QED
  BY <1>2, <1>4, <1>5, <1>6 DEF Protocol

LEMMA PersistKept ==
    ASSUME NEW Statuses, NEW labels, NEW exits, NEW removing,
           KindOK(Statuses, labels, exits, removing),
           KubeOK(Statuses, labels, exits), Protocol(removing), Persist
    PROVE  KubeOK(Statuses, labels, exits)' /\ Protocol(removing)'
<1>1. /\ step.at = "save" /\ api.exists /\ step.ok \in exits
      /\ api' \in CRs(Statuses) /\ api'.exists = api.exists
      /\ api'.deleting = api.deleting /\ api'.finalizer = api.finalizer
      /\ api'.abandon = api.abandon
      /\ ~cfresh' /\ cfresh' \in BOOLEAN
      /\ UNCHANGED cache /\ NoFault /\ WorkerOK(Statuses, labels, exits)'
      /\ \/ step'.at = "idle"
         \/ step'.at \in {"save", step.ok} /\ w'.abandon = api'.abandon
  BY PersistEffect DEF SameBut
<1>2. KubeOK(Statuses, labels, exits)'
  BY <1>1, KubeKept DEF KubeOK, Counted
<1>3. step'.at = "addFinalizer" \/ step'.at \in removing => FALSE
  BY <1>1 DEF KindOK
<1>4. FinalizerHeld'
  BY <1>1, <1>3 DEF Protocol, FinalizerHeld
<1>5. DeletionSeen(removing)'
  BY <1>1, <1>3 DEF Protocol, DeletionSeen
<1>6. CopyIsCurrent'
  BY <1>1 DEF Protocol, CopyIsCurrent
<1>7. QED
  BY <1>2, <1>4, <1>5, <1>6 DEF Protocol

LEMMA UsersKept ==
    ASSUME NEW Statuses, NEW labels, NEW exits, NEW removing,
           KubeOK(Statuses, labels, exits), Protocol(removing), Users
    PROVE  KubeOK(Statuses, labels, exits)' /\ Protocol(removing)'
<1>1. /\ api.exists /\ api' \in CRs(Statuses)
      /\ api'.finalizer = api.finalizer
      /\ api.abandon => api'.abandon
      /\ api.deleting => api'.deleting
      /\ api'.deleting => api.deleting \/ api.finalizer
      /\ ~api'.exists => ~api.finalizer
      /\ ~cfresh' /\ cfresh' \in BOOLEAN /\ wfresh' \in BOOLEAN
      /\ UNCHANGED <<cache, w, step>> /\ NoFault
  BY UserEffect
<1>2. WorkerOK(Statuses, labels, exits)'
  BY <1>1 DEF KubeOK, WorkerOK
<1>3. KubeOK(Statuses, labels, exits)'
  BY <1>1, <1>2, KubeKept DEF KubeOK, Counted
<1>4. FinalizerHeld'
  BY <1>1 DEF Protocol, FinalizerHeld
<1>5. DeletionSeen(removing)'
  BY <1>1 DEF Protocol, DeletionSeen, FinalizerHeld
<1>6. CopyIsCurrent'
  BY <1>1 DEF Protocol, CopyIsCurrent
<1>7. QED
  BY <1>3, <1>4, <1>5, <1>6 DEF Protocol

LEMMA CacheKept ==
    ASSUME NEW Statuses, NEW labels, NEW exits, NEW removing,
           KubeOK(Statuses, labels, exits), Protocol(removing), CacheSync
    PROVE  KubeOK(Statuses, labels, exits)' /\ Protocol(removing)'
<1>1. /\ cache' = api /\ cfresh' \in BOOLEAN
      /\ UNCHANGED <<api, w, wfresh, step>> /\ NoFault
  BY DEF CacheSync, worker
<1>2. WorkerOK(Statuses, labels, exits)'
  BY <1>1 DEF KubeOK, WorkerOK
<1>3. KubeOK(Statuses, labels, exits)'
  BY <1>1, <1>2, KubeKept DEF KubeOK, Counted
<1>4. FinalizerHeld'
  BY <1>1 DEF Protocol, FinalizerHeld
<1>5. DeletionSeen(removing)'
  BY <1>1 DEF Protocol, DeletionSeen, FinalizerHeld
<1>6. CopyIsCurrent'
  BY <1>1 DEF Protocol, CopyIsCurrent
<1>7. QED
  BY <1>3, <1>4, <1>5, <1>6 DEF Protocol

\* A step that leaves the API server alone stays on its path, or returns.
LEMMA WorkerKept ==
    ASSUME NEW Statuses, NEW labels, NEW exits, NEW removing,
           KindOK(Statuses, labels, exits, removing),
           KubeOK(Statuses, labels, exits), Protocol(removing),
           WorkerOK(Statuses, labels, exits)', Counted,
           UNCHANGED <<api, cache, cfresh>>,
           \/ step'.at = "idle"
           \/ /\ w'.abandon = w.abandon /\ step'.at # "addFinalizer"
              /\ step.at \notin {"idle", "addFinalizer"}
              /\ step'.at \in removing <=> step.at \in removing
    PROVE  KubeOK(Statuses, labels, exits)' /\ Protocol(removing)'
<1>1. KubeOK(Statuses, labels, exits)'
  BY KubeKept DEF KubeOK
<1>2. "idle" \notin removing
  BY DEF KindOK
<1>3. FinalizerHeld'
  BY DEF Protocol, FinalizerHeld
<1>4. DeletionSeen(removing)'
  BY <1>2 DEF Protocol, DeletionSeen
<1>5. CopyIsCurrent'
  BY DEF Protocol, CopyIsCurrent
<1>6. QED
  BY <1>1, <1>3, <1>4, <1>5 DEF Protocol

\* Steps of AWS and of other people.
LEMMA AwsKept ==
    ASSUME NEW Statuses, NEW labels, NEW exits, NEW removing,
           KubeOK(Statuses, labels, exits), Protocol(removing), Counted,
           UNCHANGED <<api, cache, cfresh, w, wfresh, step>>
    PROVE  KubeOK(Statuses, labels, exits)' /\ Protocol(removing)'
<1>1. WorkerOK(Statuses, labels, exits)'
  BY DEF KubeOK, WorkerOK
<1>2. KubeOK(Statuses, labels, exits)'
  BY <1>1, KubeKept DEF KubeOK
<1>3. QED
  BY <1>2 DEF Protocol, FinalizerHeld, DeletionSeen, CopyIsCurrent

\* What happens to every kind.
Shared == SharedWork \/ PersistError \/ Crash \/ Users \/ CacheSync

\* The handler's local variable is lost by every step that is not its own.
LEMMA ContinueLocal ==
    ASSUME NEW exit, NEW copy, NEW fresh, Continue(exit, copy, fresh)
    PROVE  step'.local = 0
<1>0. CASE exit = "idle"
  <2>1. Return
    BY <1>0 DEF Continue
  <2>2. QED
    BY <2>1 DEF Return, At
<1>1. CASE exit = "report"
  <2>1. Write(NotReady(copy), "idle", "idle", fresh)
    BY <1>1 DEF Continue
  <2>2. QED
    BY <2>1 DEF Write
<1>2. CASE exit \notin {"idle", "report"}
  <2>1. step' = At(exit)
    BY <1>2 DEF Continue
  <2>2. QED
    BY <2>1 DEF At
<1>3. QED
  BY <1>0, <1>1, <1>2

LEMMA SharedLocal == ASSUME Shared PROVE step'.local = 0 \/ step' = step
<1>1. CASE \E exit, copy, fresh : Continue(exit, copy, fresh)
  BY <1>1, ContinueLocal
<1>2. CASE Return
  BY <1>2 DEF Return, At
<1>3. CASE UNCHANGED step
  BY <1>3
<1>4. CASE SharedWork
  BY <1>1, <1>2, <1>4 DEF SharedWork, ReconcileAbandoned, ReconcileDeleted,
     ReconcileNew, ReconcileExisting, Start, AddFinalizer, RemoveFinalizer,
     Persist, PersistConflict
<1>5. CASE PersistError \/ Crash
  BY <1>1, <1>2, <1>5 DEF PersistError, Crash
<1>6. CASE Users \/ CacheSync
  BY <1>6 DEF Users, UserEdit, UserAbandon, UserDelete, UserWrite, CacheSync,
     worker
<1>7. QED
  BY <1>4, <1>5, <1>6 DEF Shared

LEMMA SharedKept ==
    ASSUME NEW Statuses, NEW labels, NEW exits, NEW removing,
           KindOK(Statuses, labels, exits, removing),
           KubeOK(Statuses, labels, exits), Protocol(removing), Shared
    PROVE  KubeOK(Statuses, labels, exits)' /\ Protocol(removing)'
<1>1. CASE \/ ReconcileAbandoned \/ ReconcileDeleted
           \/ ReconcileNew \/ ReconcileExisting
  BY <1>1, StartKept
<1>2. CASE AddFinalizer \/ RemoveFinalizer
  BY <1>2, FinalizerKept
<1>3. CASE Persist
  BY <1>3, PersistKept
<1>4. CASE PersistConflict \/ PersistError
  <2>1. /\ step.at = "save" /\ UNCHANGED <<api, cache, cfresh>> /\ Counted
        /\ WorkerOK(Statuses, labels, exits)'
        /\ \/ step'.at = "idle"
           \/ step'.at = "save" /\ w'.abandon = w.abandon
    BY <1>4, PersistFails DEF SameBut
  <2>2. "save" \notin removing
    BY DEF KindOK
  <2>3. QED
    BY <2>1, <2>2, WorkerKept
<1>5. CASE Crash
  <2>1. Return /\ UNCHANGED <<api, cache, cfresh>> /\ Counted
    BY <1>5 DEF Crash, k8s, Counted, AllFaults
  <2>2. "idle" \in labels
    BY DEF KindOK
  <2>3. WorkerOK(Statuses, labels, exits)' /\ step'.at = "idle"
    BY <2>1, <2>2, ReturnType
  <2>4. QED
    BY <2>1, <2>3, WorkerKept
<1>6. CASE Users
  BY <1>6, UsersKept
<1>7. CASE CacheSync
  BY <1>7, CacheKept
<1>8. QED
  BY <1>1, <1>2, <1>3, <1>4, <1>5, <1>6, <1>7 DEF Shared, SharedWork

-----------------------------------------------------------------------------
(* The phases of ManagedResource.                                           *)

\* A step that changes nothing ManagedResource sees of the CR.
SamePhase == UNCHANGED <<Phase, api.abandon, api.st>>

\* The user's and the finalizer's steps, and the status write.
PhaseStep ==
    \/ SamePhase
    \/ /\ Phase = "new" /\ Phase' = "held"
       /\ api'.abandon = api.abandon /\ api'.st = api.st
    \/ /\ step.at = "save" /\ Phase \in {"held", "removing"}
       /\ Phase' = Phase /\ api'.abandon = api.abandon
    \/ /\ Phase # "gone" /\ api'.abandon = TRUE
       /\ Phase' = Phase /\ api'.st = api.st
    \/ /\ \/ Phase = "new" /\ Phase' = "gone"
          \/ Phase = "held" /\ Phase' = "removing"
       /\ api'.abandon = api.abandon /\ api'.st = api.st
    \/ /\ step.at = "release" /\ wfresh
       /\ Phase = "removing" /\ Phase' = "gone"
       /\ api'.abandon = api.abandon /\ api'.st = api.st

LEMMA SharedPhases ==
    ASSUME NEW Statuses, NEW labels, NEW exits, NEW removing,
           KindOK(Statuses, labels, exits, removing),
           KubeOK(Statuses, labels, exits), Protocol(removing), Shared
    PROVE  PhaseStep
<1>1. CASE UNCHANGED api
  BY <1>1 DEF PhaseStep, SamePhase, Phase
<1>2. CASE (AddFinalizer \/ RemoveFinalizer) /\ ~UNCHANGED <<api, cfresh>>
  <2>1. /\ api'.deleting = api.deleting /\ api'.abandon = api.abandon
        /\ api'.st = api.st /\ wfresh /\ api.exists
        /\ \/ step.at = "addFinalizer" /\ api'.exists /\ api'.finalizer
           \/ /\ step.at = "release" /\ ~api'.exists
              /\ api'.finalizer = api.finalizer
    BY <1>2, FinalizerEffect
  <2>2. CASE step.at = "addFinalizer" /\ api'.exists /\ api'.finalizer
    <3>1. CASE api.finalizer
      BY <2>1, <2>2, <3>1 DEF PhaseStep, SamePhase, Phase
    <3>2. CASE ~api.finalizer
      <4>1. ~api.deleting
        BY <3>2 DEF Protocol, FinalizerHeld
      <4>2. Phase = "new" /\ Phase' = "held"
        BY <2>1, <2>2, <3>2, <4>1 DEF Phase
      <4>3. QED
        BY <2>1, <4>2 DEF PhaseStep
    <3>3. QED
      BY <3>1, <3>2
  <2>3. CASE step.at = "release" /\ ~api'.exists
    <3>1. "release" \in removing
      BY DEF KindOK
    <3>2. api.finalizer /\ api.deleting
      BY <2>3, <3>1 DEF Protocol, FinalizerHeld, DeletionSeen
    <3>3. Phase = "removing" /\ Phase' = "gone"
      BY <2>1, <2>3, <3>2 DEF Phase
    <3>4. QED
      BY <2>1, <2>3, <3>3 DEF PhaseStep
  <2>4. QED
    BY <2>1, <2>2, <2>3
<1>3. CASE Persist
  <2>1. /\ step.at = "save" /\ api.exists /\ api'.exists = api.exists
        /\ api'.deleting = api.deleting /\ api'.finalizer = api.finalizer
        /\ api'.abandon = api.abandon
    BY <1>3, PersistEffect DEF SameBut
  <2>2. api.finalizer
    BY <2>1 DEF Protocol, FinalizerHeld
  <2>3. Phase \in {"held", "removing"} /\ Phase' = Phase
    BY <2>1, <2>2 DEF Phase
  <2>4. QED
    BY <2>1, <2>3 DEF PhaseStep
<1>4. CASE Users
  <2>1. /\ api.exists /\ api' \in CRs(Statuses)
        /\ api'.st = api.st /\ api'.finalizer = api.finalizer
        /\ \/ /\ api'.exists
              /\ api'.deleting = api.deleting /\ api'.abandon = api.abandon
           \/ api'.exists /\ api'.abandon /\ api'.deleting = api.deleting
           \/ /\ api.finalizer /\ ~api.deleting
              /\ api'.exists /\ api'.deleting /\ api'.abandon = api.abandon
           \/ /\ ~api.finalizer /\ ~api'.exists
              /\ api'.abandon = api.abandon
    BY <1>4, UserEffect
  <2>2. CASE /\ api'.exists
             /\ api'.deleting = api.deleting /\ api'.abandon = api.abandon
    BY <2>1, <2>2 DEF PhaseStep, SamePhase, Phase
  <2>3. CASE api'.exists /\ api'.abandon /\ api'.deleting = api.deleting
    <3>1. api'.abandon = TRUE
      BY <2>1, <2>3, CopyType
    <3>2. Phase # "gone" /\ Phase' = Phase
      BY <2>1, <2>3 DEF Phase
    <3>3. QED
      BY <2>1, <3>1, <3>2 DEF PhaseStep
  <2>4. CASE /\ api.finalizer /\ ~api.deleting
             /\ api'.exists /\ api'.deleting /\ api'.abandon = api.abandon
    <3>1. Phase = "held" /\ Phase' = "removing"
      BY <2>1, <2>4 DEF Phase
    <3>2. QED
      BY <2>1, <2>4, <3>1 DEF PhaseStep
  <2>5. CASE ~api.finalizer /\ ~api'.exists /\ api'.abandon = api.abandon
    <3>1. Phase = "new" /\ Phase' = "gone"
      BY <2>1, <2>5 DEF Phase
    <3>2. QED
      BY <2>1, <2>5, <3>1 DEF PhaseStep
  <2>6. QED
    BY <2>1, <2>2, <2>3, <2>4, <2>5
<1>5. CASE \/ ReconcileAbandoned \/ ReconcileDeleted
           \/ ReconcileNew \/ ReconcileExisting
  BY <1>1, <1>5 DEF ReconcileAbandoned, ReconcileDeleted, ReconcileNew,
     ReconcileExisting, Start, k8s
<1>6. CASE PersistConflict \/ PersistError \/ Crash \/ CacheSync
  BY <1>1, <1>6 DEF PersistConflict, PersistError, Crash, CacheSync, k8s
<1>7. QED
  BY <1>1, <1>2, <1>3, <1>4, <1>5, <1>6 DEF Shared, SharedWork

\* Between two reconciles and on the way to them nothing exists that is not
\* held by the finalizer.
LEMMA HeldWhileAtWork ==
    ASSUME NEW removing, Protocol(removing),
           step.at \notin {"idle", "addFinalizer"}
    PROVE  /\ api.finalizer
           /\ step.at \notin removing => Phase \in {"held", "removing"}
BY DEF Protocol, FinalizerHeld, DeletionSeen, Phase

=============================================================================
