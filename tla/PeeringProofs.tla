--------------------------- MODULE PeeringProofs ---------------------------
(***************************************************************************)
(* Ready means that both sides agreed, a released CR leaves no connection, *)
(* and the kind implements ManagedResource: for any bounds and scenarios.  *)
(***************************************************************************)
EXTENDS Peering, ReconcilerProofs

LEMMA Kind == KindOK(Statuses, Labels, Exits, Removing)
BY DEF KindOK, Statuses, Labels, Exits, Removing

\* The types of what AWS keeps, and of what the handler keeps.
AwsOK ==
    /\ DOMAIN pcx \subseteq Ids /\ \A p \in DOMAIN pcx : pcx[p] \in States
    /\ made \in 0 .. MaxIds /\ agreed \subseteq Ids
AtHand ==
    /\ step.at \in {"described", "judge"} => step.local \in States
    /\ step.at = "created" => w.st.code \in States

LEMMA InvParts ==
    ASSUME PeeringInv
    PROVE  /\ KubeOK(Statuses, Labels, Exits) /\ Protocol(Removing)
           /\ KindOK(Statuses, Labels, Exits, Removing) /\ AwsOK /\ AtHand
           /\ api \in CRs(Statuses) /\ cache \in CRs(Statuses)
           /\ wfresh \in BOOLEAN /\ step.at \in Labels /\ faults \in Nat
           /\ step.at # "idle" => w \in CRs(Statuses)
BY Kind DEF PeeringInv, TypeOK, KubeOK, WorkerOK, AwsOK, AtHand

LEMMA CarefulFaults ==
    ASSUME Careful, NEW kind \in AllFaults, Fault(kind)
    PROVE  /\ kind \notin {"crash", "lost", "lag"}
           /\ faults \in Nat => faults' = 1
BY DEF Careful, FreeOf, Fault

LEMMA SameScenario ==
    ASSUME PeeringInv, Counted
    PROVE  /\ scenario' = scenario /\ Careful' = Careful
           /\ FreeOf({"externalDelete"})' = FreeOf({"externalDelete"})
<1>1. scenario' = scenario
  BY InvParts, FaultsType
<1>2. QED
  BY <1>1 DEF Careful, FreeOf

-----------------------------------------------------------------------------
(* Copies.                                                                  *)

\* A copy with the same connection that is Ready only if the other one is.
SameConnection(new, cr) ==
    /\ new.abandon = cr.abandon /\ new.st.id = cr.st.id
    /\ new.st.ready => cr.st.ready

LEMMA NotReadyConnection ==
    ASSUME NEW cr \in CRs(Statuses), NEW new,
           SameBut(new, cr, [cr.st EXCEPT !.ready = FALSE])
    PROVE  SameConnection(new, cr) /\ ~new.st.ready
<1>1. cr.st \in Statuses
  BY CopyType
<1>2. QED
  BY <1>1 DEF SameBut, SameConnection, Statuses

Coded(cr, code) == [cr EXCEPT !.st.code = code]
Asked(cr, p, code) == [cr EXCEPT !.st.id = p, !.st.code = code]

LEMMA CodedType ==
    ASSUME NEW cr \in CRs(Statuses), NEW code \in States
    PROVE  Coded(cr, code) \in CRs(Statuses) /\ SameConnection(Coded(cr, code), cr)
BY DEF Coded, CRs, Statuses, SameConnection

LEMMA AskedType ==
    ASSUME NEW cr \in CRs(Statuses), NEW p \in Ids, NEW code \in States
    PROVE  /\ Asked(cr, p, code) \in CRs(Statuses)
           /\ Asked(cr, p, code).st.id = p /\ Asked(cr, p, code).st.code = code
           /\ Asked(cr, p, code).st.ready = cr.st.ready
           /\ Asked(cr, p, code).abandon = cr.abandon
<1>1. PICK named : named = [cr EXCEPT !.st.id = p]
  OBVIOUS
<1>2. /\ named \in CRs(Statuses) /\ named.st.id = p
      /\ named.st.ready = cr.st.ready /\ named.abandon = cr.abandon
  BY <1>1 DEF CRs, Statuses
<1>3. PICK new : new = [named EXCEPT !.st.code = code]
  OBVIOUS
<1>4. /\ new \in CRs(Statuses) /\ new.st.id = named.st.id
      /\ new.st.code = code
      /\ new.st.ready = named.st.ready /\ new.abandon = named.abandon
  BY <1>2, <1>3 DEF CRs, Statuses
<1>5. Asked(cr, p, code) = new
  BY <1>1, <1>3 DEF Asked
<1>6. QED
  BY <1>2, <1>4, <1>5

LEMMA EmptiedType ==
    ASSUME NEW cr \in CRs(Statuses), NEW new, new = [cr EXCEPT !.st.id = None]
    PROVE  /\ new \in CRs(Statuses) /\ new.st.id = None
           /\ new.st.ready = cr.st.ready /\ new.abandon = cr.abandon
BY DEF CRs, Statuses

LEMMA JudgedTypes ==
    ASSUME NEW cr \in CRs(Statuses)
    PROVE  /\ ReadyNow(Observed(cr)) \in CRs(Statuses)
           /\ ReadyNow(Observed(cr)).st.id = cr.st.id
           /\ ReadyNow(Observed(cr)).abandon = cr.abandon
           /\ NotReady(cr) \in CRs(Statuses)
           /\ SameConnection(NotReady(cr), cr) /\ ~NotReady(cr).st.ready
BY DEF ReadyNow, Observed, NotReady, SameConnection, CRs, Statuses

-----------------------------------------------------------------------------
(* The steps of Reconciler.                                                 *)

\* What holds in every scenario.
Facts == AtHand /\ ReleaseEarned /\ GivenOut /\ Agreement

LEMMA SharedFacts ==
    ASSUME PeeringInv, Shared, UNCHANGED aws
    PROVE  Facts'
<1>1. /\ KubeOK(Statuses, Labels, Exits) /\ Protocol(Removing)
      /\ KindOK(Statuses, Labels, Exits, Removing) /\ AtHand
      /\ UNCHANGED <<pcx, made, agreed>>
  BY InvParts DEF aws
<1>2. Live' = Live /\ \A p, states : InState(p, states)' = InState(p, states)
  BY <1>1 DEF Live, InState
<1>3. CASE \/ ReconcileAbandoned \/ ReconcileDeleted
           \/ ReconcileNew \/ ReconcileExisting
  <2>1. PICK label \in {"release", "delete", "addFinalizer", "read"} :
            /\ Start(label) /\ (label = "release" => cache.abandon)
            /\ label \in {"release", "delete"} <=> cache.deleting
    BY <1>3 DEF ReconcileAbandoned, ReconcileDeleted, ReconcileNew,
                ReconcileExisting
  <2>2. /\ step.at = "idle" /\ step'.at = label
        /\ w' = cache /\ wfresh' = cfresh
        /\ UNCHANGED <<api, cache, cfresh>> /\ Counted
    BY <1>1, <2>1, StartEffect
  <2>3. wfresh' => cache = api
    BY <1>1, <2>2, Zenon DEF Protocol, CopyIsCurrent
  <2>4. AtHand' /\ ReleaseEarned'
    BY <1>2, <2>1, <2>2, <2>3 DEF AtHand, ReleaseEarned, Removing
  <2>5. GivenOut'
    BY <1>1, <2>2 DEF PeeringInv, GivenOut, Judging, NewlyCreated
  <2>6. Agreement'
    <3>1. FreeOf({"externalDelete"})' = FreeOf({"externalDelete"})
      BY <2>2, SameScenario
    <3>2. QED
      BY <1>1, <1>2, <2>1, <2>2, <3>1
      DEF PeeringInv, Agreement, AgreedOn, Removing
  <2>7. QED
    BY <2>4, <2>5, <2>6 DEF Facts
<1>4. CASE AddFinalizer \/ RemoveFinalizer
  <2>1. /\ api'.st = api.st /\ step'.at = "idle" /\ UNCHANGED cache /\ NoFault
    BY <1>1, <1>4, FinalizerEffect
  <2>2. step.at \in {"addFinalizer", "release"}
    BY <1>4 DEF AddFinalizer, RemoveFinalizer
  <2>3. FreeOf({"externalDelete"})' = FreeOf({"externalDelete"})
    BY <2>1, SameScenario DEF Counted
  <2>4. AtHand' /\ ReleaseEarned' /\ GivenOut'
    BY <1>1, <2>1 DEF PeeringInv, AtHand, ReleaseEarned, Removing, GivenOut,
       Judging, NewlyCreated
  <2>5. Agreement'
    BY <1>1, <1>2, <2>1, <2>2, <2>3 DEF PeeringInv, Agreement, AgreedOn
  <2>6. QED
    BY <2>4, <2>5 DEF Facts
<1>5. CASE Persist
  <2>1. /\ step.at = "save" /\ step.ok \in Exits
        /\ SameBut(api', api, w.st) /\ UNCHANGED cache /\ NoFault
        /\ step.ok = "idle" => step'.at = "idle"
        /\ step.ok \notin {"idle", "report"} => step'.at = step.ok /\ w' = api'
    BY <1>1, <1>5, PersistEffect
  <2>2. api'.st = w.st
    BY <2>1 DEF SameBut
  <2>3. \/ step'.at = "idle"
        \/ step'.at = "created" /\ step.ok = "created" /\ w' = api'
    BY <2>1 DEF Exits
  <2>4. FreeOf({"externalDelete"})' = FreeOf({"externalDelete"})
    BY <2>1, SameScenario DEF Counted
  <2>5. GivenOut'
    BY <1>1, <2>1, <2>2, <2>3 DEF PeeringInv, GivenOut, Judging, NewlyCreated
  <2>6. AtHand' /\ ReleaseEarned'
    BY <2>2, <2>3, <2>1 DEF PeeringInv, AtHand, ReleaseEarned, Removing,
       GivenOut, NewlyCreated, States
  <2>7. Agreement'
    BY <1>1, <1>2, <2>1, <2>2, <2>3, <2>4
    DEF PeeringInv, Agreement, AgreedOn, Removing
  <2>8. QED
    BY <2>5, <2>6, <2>7 DEF Facts
<1>6. CASE PersistConflict \/ PersistError
  <2>1. /\ step.at = "save" /\ UNCHANGED <<api, cache>> /\ Counted
        /\ \/ step'.at = "idle"
           \/ /\ step'.at = "save" /\ step'.ok = "idle"
              /\ SameBut(w', w, [w.st EXCEPT !.ready = FALSE])
    BY <1>1, <1>6, PersistFails
  <2>2. \/ step'.at = "idle"
        \/ step'.at = "save" /\ step'.ok = "idle" /\ ~w'.st.ready
    BY <2>1, InvParts, NotReadyConnection
  <2>3. FreeOf({"externalDelete"})' = FreeOf({"externalDelete"})
    BY <2>1, SameScenario
  <2>4. AtHand' /\ ReleaseEarned' /\ GivenOut'
    BY <1>1, <2>2 DEF PeeringInv, AtHand, ReleaseEarned, Removing, GivenOut,
       Judging, NewlyCreated
  <2>5. Agreement'
    BY <1>1, <1>2, <2>1, <2>2, <2>3
    DEF PeeringInv, Agreement, AgreedOn, Removing
  <2>6. QED
    BY <2>4, <2>5 DEF Facts
<1>7. CASE Crash
  <2>1. /\ step'.at = "idle" /\ UNCHANGED <<api, cache>> /\ Counted
        /\ step.at # "idle"
    BY <1>7 DEF Crash, Return, At, k8s, Counted, AllFaults
  <2>2. FreeOf({"externalDelete"})' = FreeOf({"externalDelete"})
    BY <2>1, SameScenario
  <2>3. step.at \in Removing => cache.deleting
    BY <1>1 DEF Protocol, DeletionSeen
  <2>4. AtHand' /\ ReleaseEarned' /\ GivenOut'
    BY <1>1, <2>1 DEF PeeringInv, AtHand, ReleaseEarned, Removing, GivenOut,
       Judging, NewlyCreated
  <2>5. Agreement'
    BY <1>1, <1>2, <2>1, <2>2, <2>3
    DEF PeeringInv, Agreement, AgreedOn
  <2>6. QED
    BY <2>4, <2>5 DEF Facts
<1>8. CASE Users
  <2>1. /\ api'.st = api.st /\ UNCHANGED <<cache, w, step>> /\ ~wfresh'
        /\ NoFault
    BY <1>1, <1>8, UserEffect
  <2>2. FreeOf({"externalDelete"})' = FreeOf({"externalDelete"})
    BY <2>1, SameScenario DEF Counted
  <2>3. AtHand' /\ ReleaseEarned' /\ GivenOut'
    BY <1>1, <1>2, <2>1 DEF PeeringInv, AtHand, ReleaseEarned, Removing,
       GivenOut, Judging, NewlyCreated
  <2>4. Agreement'
    BY <1>1, <1>2, <2>1, <2>2 DEF PeeringInv, Agreement, AgreedOn
  <2>5. QED
    BY <2>3, <2>4 DEF Facts
<1>9. CASE CacheSync
  <2>1. /\ cache' = api /\ UNCHANGED <<api, w, wfresh, step>> /\ NoFault
    BY <1>9 DEF CacheSync, worker
  <2>2. FreeOf({"externalDelete"})' = FreeOf({"externalDelete"})
    BY <2>1, SameScenario DEF Counted
  <2>3. cache.deleting => api.deleting
    BY <1>1 DEF Protocol, DeletionSeen
  <2>4. AtHand' /\ ReleaseEarned' /\ GivenOut'
    BY <1>1, <1>2, <2>1 DEF PeeringInv, AtHand, ReleaseEarned, Removing,
       GivenOut, Judging, NewlyCreated
  <2>5. Agreement'
    BY <1>1, <1>2, <2>1, <2>2, <2>3 DEF PeeringInv, Agreement, AgreedOn
  <2>6. QED
    BY <2>4, <2>5 DEF Facts
<1>10. QED
  BY <1>3, <1>4, <1>5, <1>6, <1>7, <1>8, <1>9 DEF Shared, SharedWork

\* What holds of the worker in a careful scenario.
Attention ==
    /\ Live \subseteq {(IF step.at = "idle" THEN api ELSE w).st.id}
    /\ step.at \notin {"idle", "create", "save"} => w.st.id = api.st.id
    /\ step.at = "create" => Live = {}
    /\ step.at = "save" /\ step.err = "idle" =>
          faults = 1 \/ w.st.id = api.st.id \/ Live = {}

LEMMA SharedAttention ==
    ASSUME PeeringInv, Shared, UNCHANGED aws, Careful
    PROVE  Attention'
<1>1. /\ KubeOK(Statuses, Labels, Exits) /\ Protocol(Removing)
      /\ KindOK(Statuses, Labels, Exits, Removing)
      /\ Attention /\ faults \in Nat
  BY InvParts DEF PeeringInv, Attentive, Attention
<1>2. Live' = Live
  BY DEF Live, aws
<1>3. CASE \/ ReconcileAbandoned \/ ReconcileDeleted
           \/ ReconcileNew \/ ReconcileExisting
  <2>1. PICK label \in {"release", "delete", "addFinalizer", "read"} : Start(label)
    BY <1>3 DEF ReconcileAbandoned, ReconcileDeleted, ReconcileNew,
                ReconcileExisting
  <2>2. /\ step.at = "idle" /\ step'.at = label /\ w' = cache
        /\ UNCHANGED <<api, cache>>
    BY <1>1, <2>1, StartEffect
  <2>3. cache = api
    <3>1. cfresh
      BY <2>1, CarefulFaults DEF Start, AllFaults
    <3>2. QED
      BY <1>1, <3>1 DEF Protocol, CopyIsCurrent
  <2>4. QED
    BY <1>1, <1>2, <2>2, <2>3 DEF Attention
<1>4. CASE AddFinalizer \/ RemoveFinalizer
  <2>1. api'.st = api.st /\ step'.at = "idle"
    BY <1>1, <1>4, FinalizerEffect
  <2>2. step.at \in {"addFinalizer", "release"}
    BY <1>4 DEF AddFinalizer, RemoveFinalizer
  <2>3. QED
    BY <1>1, <1>2, <2>1, <2>2 DEF Attention
<1>5. CASE Persist
  <2>1. /\ step.at = "save" /\ step.ok \in Exits /\ SameBut(api', api, w.st)
        /\ step.ok = "idle" => step'.at = "idle"
        /\ step.ok \notin {"idle", "report"} => step'.at = step.ok /\ w' = api'
    BY <1>1, <1>5, PersistEffect
  <2>2. api'.st = w.st
    BY <2>1 DEF SameBut
  <2>3. \/ step'.at = "idle"
        \/ step'.at = "created" /\ w' = api'
    BY <2>1 DEF Exits
  <2>4. QED
    BY <1>1, <1>2, <2>1, <2>2, <2>3 DEF Attention
<1>6. CASE PersistConflict \/ PersistError
  <2>1. step.at = "save" /\ w \in CRs(Statuses)
    BY <1>1, <1>6, WorkersCopy DEF PersistConflict, PersistError
  <2>2. api.exists
    BY <1>1, <2>1, HeldWhileAtWork DEF Phase, Removing
  <2>3. PersistError
    BY <1>6, <2>2, CarefulFaults DEF PersistConflict, AllFaults
  <2>4. /\ UNCHANGED api /\ Continue(step.err, w, wfresh) /\ faults' = 1
        /\ faults < 1
    BY <1>1, <2>3, CarefulFaults DEF PersistError, k8s, AllFaults, Fault, Careful
  <2>5. CASE step.err = "report"
    <3>1. Write(NotReady(w), "idle", "idle", wfresh)
      BY <2>4, <2>5 DEF Continue
    <3>2. step'.at = "save" /\ w' = NotReady(w)
      BY <3>1 DEF Write
    <3>3. SameConnection(NotReady(w), w)
      BY <2>1, JudgedTypes
    <3>4. QED
      BY <1>1, <1>2, <2>1, <2>4, <3>2, <3>3 DEF Attention, SameConnection
  <2>6. CASE step.err = "idle"
    <3>0. Return
      BY <2>4, <2>6 DEF Continue
    <3>1. step'.at = "idle"
      BY <3>0 DEF Return, At
    <3>2. w.st.id = api.st.id \/ Live = {}
      BY <1>1, <2>1, <2>4, <2>6 DEF Attention
    <3>3. QED
      BY <1>1, <1>2, <2>1, <2>4, <3>1, <3>2 DEF Attention
  <2>7. QED
    BY <1>1, <2>1, <2>5, <2>6 DEF KubeOK, WorkerOK
<1>7. CASE Crash
  BY <1>7, CarefulFaults DEF Crash, AllFaults
<1>8. CASE Users
  <2>1. api'.st = api.st /\ UNCHANGED <<w, step>> /\ UNCHANGED faults
    BY <1>1, <1>8, UserEffect DEF NoFault
  <2>2. QED
    BY <1>1, <1>2, <2>1 DEF Attention
<1>9. CASE CacheSync
  <2>1. UNCHANGED <<api, w, step, faults>>
    BY <1>9 DEF CacheSync, worker, NoFault
  <2>2. QED
    BY <1>1, <1>2, <2>1 DEF Attention
<1>10. QED
  BY <1>3, <1>4, <1>5, <1>6, <1>7, <1>8, <1>9 DEF Shared, SharedWork

LEMMA SharedCounted == ASSUME Shared PROVE Counted
<1>1. CASE Start("release") \/ Start("delete") \/ Start("addFinalizer")
           \/ Start("read") \/ PersistConflict \/ PersistError \/ Crash
  BY <1>1 DEF Start, PersistConflict, PersistError, Crash, Counted, AllFaults
<1>2. CASE AddFinalizer \/ RemoveFinalizer \/ Persist \/ CacheSync
  BY <1>2 DEF AddFinalizer, RemoveFinalizer, Persist, CacheSync, Counted
<1>3. CASE Users
  BY <1>3 DEF Users, UserEdit, UserAbandon, UserDelete, UserWrite, Counted
<1>4. QED
  BY <1>1, <1>2, <1>3 DEF Shared, SharedWork, ReconcileAbandoned,
     ReconcileDeleted, ReconcileNew, ReconcileExisting

LEMMA CarefulPrimed ==
    ASSUME PeeringInv, Counted, Careful => Attention'
    PROVE  Attentive'
<1>1. Careful' => Attention'
  BY SameScenario
<1>2. QED
  BY <1>1 DEF Attentive, Attention

\* What Agreement says comes down to what ReadyOnlyAgreed promises.
LEMMA AgreedReady == Agreement => ReadyOnlyAgreed
BY DEF Agreement, AgreedOn, ReadyOnlyAgreed

LEMMA AgreedReadyPrimed == Agreement' => ReadyOnlyAgreed'
BY DEF Agreement, AgreedOn, ReadyOnlyAgreed

LEMMA SharedStep ==
    ASSUME PeeringInv, Shared, UNCHANGED aws
    PROVE  PeeringInv'
<1>1. KubeOK(Statuses, Labels, Exits)' /\ Protocol(Removing)'
  BY InvParts, SharedKept
<1>2. Facts'
  BY SharedFacts
<1>3. Attentive'
  BY SharedAttention, SharedCounted, CarefulPrimed
<1>4. AwsOK'
  BY InvParts DEF AwsOK, aws
<1>5. QED
  BY <1>1, <1>2, <1>3, <1>4, AgreedReadyPrimed
  DEF PeeringInv, TypeOK, Facts, AwsOK, AtHand

-----------------------------------------------------------------------------
(* The steps of the handler.                                                *)

Working == {"read", "create", "created", "described", "redescribe", "judge"}
Peaceful == FreeOf({"externalDelete"})

\* While it looks for a connection, asks for one and judges it.
Asking ==
    /\ step.at \in Working
    /\ WorkerOK(Statuses, Labels, Exits)' /\ Counted
    /\ UNCHANGED <<api, cache, cfresh, agreed>>
    /\ AwsOK' /\ AtHand' /\ GivenOut'
    /\ step'.at \in (Working \ {"read", "created"}) \union {"save"}
    /\ w'.abandon = w.abandon
    /\ Peaceful =>
          /\ AgreedOn(w)' /\ (step'.at = "create" => ~w'.st.ready)
          /\ \A p \in agreed : InState(p, {"active"}) => InState(p, {"active"})'
    /\ Careful => Attention'

\* While it deletes: it returns, or goes on when the connection is not alive.
Deleting ==
    /\ step.at = "delete"
    /\ WorkerOK(Statuses, Labels, Exits)' /\ Counted
    /\ UNCHANGED <<api, cache, cfresh, made, agreed>>
    /\ AwsOK' /\ GivenOut' /\ Live' \subseteq Live
    /\ \/ step'.at = "idle"
       \/ /\ step'.at = "release" /\ w' = w /\ wfresh' = wfresh
          /\ w.st.id \notin Live'
    /\ Careful => Attention'

LEMMA AskingStep ==
    ASSUME PeeringInv, Asking
    PROVE  PeeringInv'
<1>1. /\ KubeOK(Statuses, Labels, Exits) /\ Protocol(Removing)
      /\ KindOK(Statuses, Labels, Exits, Removing)
      /\ step.at \notin Removing \union {"idle", "addFinalizer"}
      /\ step'.at \notin Removing \union {"idle", "addFinalizer"}
      /\ WorkerOK(Statuses, Labels, Exits)' /\ Counted
      /\ UNCHANGED <<api, cache, cfresh>>
  BY InvParts DEF Asking, Removing, Working
<1>2. KubeOK(Statuses, Labels, Exits)' /\ Protocol(Removing)'
  <2>1. /\ w'.abandon = w.abandon /\ step'.at # "addFinalizer"
        /\ step.at \notin {"idle", "addFinalizer"}
        /\ step'.at \in Removing <=> step.at \in Removing
    BY <1>1 DEF Asking
  <2>2. QED
    BY <1>1, <2>1, WorkerKept
<1>3. ReleaseEarned'
  BY <1>1 DEF ReleaseEarned, Removing
<1>4. Agreement'
  <2>1. Peaceful' = Peaceful
    BY <1>1, SameScenario DEF Peaceful
  <2>2. SUFFICES ASSUME Peaceful
        PROVE  /\ AgreedOn(api)' /\ AgreedOn(cache)' /\ AgreedOn(w)'
               /\ step'.at = "create" => ~w'.st.ready
               /\ \A p \in agreed' : InState(p, {"active"})'
    BY <2>1 DEF Agreement, Peaceful
  <2>3. \A p \in agreed : InState(p, {"active"})
    BY <1>1, <2>2 DEF PeeringInv, Agreement, Peaceful
  <2>4. AgreedOn(api)' /\ AgreedOn(cache)'
    BY <2>2 DEF PeeringInv, Agreement, Peaceful, AgreedOn, Asking
  <2>5. QED
    BY <2>2, <2>3, <2>4 DEF Asking
<1>5. Attentive'
  BY <1>1, CarefulPrimed DEF Asking
<1>6. QED
  BY <1>2, <1>3, <1>4, <1>5, AgreedReadyPrimed
  DEF PeeringInv, TypeOK, AwsOK, AtHand, Asking

LEMMA DeletingStep ==
    ASSUME PeeringInv, Deleting
    PROVE  PeeringInv'
<1>1. /\ KubeOK(Statuses, Labels, Exits) /\ Protocol(Removing)
      /\ KindOK(Statuses, Labels, Exits, Removing)
      /\ WorkerOK(Statuses, Labels, Exits)' /\ Counted
      /\ UNCHANGED <<api, cache, cfresh>>
      /\ step.at \in Removing /\ step'.at \in Removing \union {"idle"}
  BY InvParts DEF Deleting, Removing
<1>2. KubeOK(Statuses, Labels, Exits)' /\ Protocol(Removing)'
  <2>1. \/ step'.at = "idle"
        \/ /\ w'.abandon = w.abandon /\ step'.at # "addFinalizer"
           /\ step.at \notin {"idle", "addFinalizer"}
           /\ step'.at \in Removing <=> step.at \in Removing
    BY DEF Deleting, Removing
  <2>2. QED
    BY <1>1, <2>1, WorkerKept
<1>3. ReleaseEarned'
  BY <1>1 DEF PeeringInv, ReleaseEarned, Removing, Deleting
<1>4. Agreement'
  <2>1. FreeOf({"externalDelete"})' = FreeOf({"externalDelete"})
    BY <1>1, SameScenario
  <2>2. cache.deleting
    BY <1>1 DEF Protocol, DeletionSeen
  <2>3. QED
    BY <1>1, <2>1, <2>2 DEF PeeringInv, Agreement, AgreedOn, Deleting
<1>5. Attentive'
  BY <1>1, CarefulPrimed DEF Deleting
<1>6. AtHand'
  BY DEF Deleting, AtHand
<1>7. QED
  BY <1>2, <1>3, <1>4, <1>5, <1>6, AgreedReadyPrimed
  DEF PeeringInv, TypeOK, AwsOK, AtHand, Deleting

-----------------------------------------------------------------------------
(* Where the handler's steps lead.                                          *)

LEMMA GotoKeeps ==
    ASSUME PeeringInv, step.at # "idle",
           NEW label \in Labels \ {"idle", "save"}, Goto(label, w)
    PROVE  /\ WorkerOK(Statuses, Labels, Exits)' /\ step'.at = label
           /\ w' = w /\ wfresh' = wfresh
<1>1. w \in CRs(Statuses) /\ wfresh \in BOOLEAN
  BY InvParts
<1>2. QED
  BY <1>1, GotoType

LEMMA GotoWithKeeps ==
    ASSUME PeeringInv, step.at # "idle",
           NEW label \in Labels \ {"idle", "save"}, NEW x, GotoWith(label, w, x)
    PROVE  /\ WorkerOK(Statuses, Labels, Exits)' /\ step'.at = label
           /\ step'.local = x /\ w' = w /\ wfresh' = wfresh
<1>1. w \in CRs(Statuses) /\ wfresh \in BOOLEAN
  BY InvParts
<1>2. QED
  BY <1>1, GotoWithType

LEMMA SaveKeeps ==
    ASSUME PeeringInv, step.at # "idle", NEW copy \in CRs(Statuses),
           NEW ok \in Exits, Save(copy, ok, "report")
    PROVE  /\ WorkerOK(Statuses, Labels, Exits)' /\ step'.at = "save"
           /\ step'.ok = ok /\ step'.err = "report" /\ w' = copy
<1>1. wfresh \in BOOLEAN /\ Write(copy, ok, "report", wfresh) /\ "save" \in Labels
  BY InvParts DEF Save, Labels
<1>2. step'.err = "report"
  BY <1>1 DEF Write
<1>3. QED
  BY <1>1, <1>2, WriteType

\* A report of a copy, with or without what AWS said of the connection.
LEMMA ReportKeeps ==
    ASSUME PeeringInv, step.at # "idle", NEW copy \in CRs(Statuses),
           SameConnection(copy, w), Continue("report", copy, wfresh)
    PROVE  /\ WorkerOK(Statuses, Labels, Exits)' /\ step'.at = "save"
           /\ step'.ok = "idle" /\ SameConnection(w', w) /\ ~w'.st.ready
<1>1. KindOK(Statuses, Labels, Exits, Removing) /\ wfresh \in BOOLEAN
  BY InvParts
<1>2. /\ WorkerOK(Statuses, Labels, Exits)' /\ step'.at = "save"
      /\ step'.ok = "idle"
      /\ SameBut(w', copy, [copy.st EXCEPT !.ready = FALSE])
  BY <1>1, ContinueType
<1>3. SameConnection(w', copy) /\ ~w'.st.ready
  BY <1>2, NotReadyConnection
<1>4. QED
  BY <1>2, <1>3 DEF SameConnection

\* What the handler knows where it asks.
LEMMA AtWork ==
    ASSUME PeeringInv, step.at \in Working
    PROVE  /\ step.at # "idle" /\ w \in CRs(Statuses) /\ SameConnection(w, w)
           /\ (Careful => Attention) /\ AwsOK /\ GivenOut
           /\ Peaceful => /\ AgreedOn(w)
                          /\ \A p \in agreed : InState(p, {"active"})
<1>1. step.at # "idle" /\ step.at \notin Removing
  BY DEF Working, Removing
<1>2. w \in CRs(Statuses) /\ AwsOK
  BY <1>1, InvParts
<1>3. QED
  BY <1>1, <1>2
  DEF PeeringInv, SameConnection, Attentive, Attention, Agreement, Peaceful

\* A step that only looks at AWS, and reports at once.  In a careful scenario
\* that is the only fault, or the connection is stored already, or none lives.
LEMMA Reported ==
    ASSUME PeeringInv, step.at \in Working, Counted,
           NEW copy \in CRs(Statuses), SameConnection(copy, w),
           Continue("report", copy, wfresh),
           UNCHANGED <<api, cache, cfresh, pcx, made, agreed>>,
           Careful => faults' = 1 \/ step.at # "create"
    PROVE  Asking
<1>1. /\ step.at # "idle" /\ w \in CRs(Statuses)
      /\ (Careful => Attention) /\ AwsOK /\ GivenOut
  BY AtWork
<1>2. /\ WorkerOK(Statuses, Labels, Exits)' /\ step'.at = "save"
      /\ step'.ok = "idle" /\ SameConnection(w', w) /\ ~w'.st.ready
  BY <1>1, ReportKeeps
<1>3. /\ Live' = Live /\ AwsOK'
      /\ \A p \in agreed : InState(p, {"active"}) => InState(p, {"active"})'
  BY <1>1 DEF Live, AwsOK, InState
<1>4. Careful => Attention'
  <2>1. SUFFICES ASSUME Careful PROVE Attention'
    OBVIOUS
  <2>2. step.at \notin {"idle", "save"}
    BY DEF Working
  <2>3. faults' = 1 \/ w.st.id = api.st.id
    BY <1>1, <2>1, <2>2 DEF Attention
  <2>4. w'.st.id = w.st.id
    BY <1>2 DEF SameConnection
  <2>5. Live \subseteq {w.st.id}
    BY <1>1, <2>1, <2>2 DEF Attention
  <2>6. QED
    BY <1>2, <1>3, <2>3, <2>4, <2>5 DEF Attention
<1>5. AtHand' /\ GivenOut'
  BY <1>1, <1>2 DEF AtHand, GivenOut, Judging, NewlyCreated
<1>6. AgreedOn(w)'
  BY <1>2 DEF AgreedOn
<1>7. QED
  BY <1>2, <1>3, <1>4, <1>5, <1>6 DEF Asking, SameConnection

-----------------------------------------------------------------------------
(* Every step of the handler is one of the two.                             *)

\* AWS is as it was.
LEMMA SameAws ==
    ASSUME UNCHANGED <<pcx, made, agreed>>
    PROVE  /\ Live' = Live /\ (AwsOK => AwsOK')
           /\ \A p \in agreed : InState(p, {"active"}) => InState(p, {"active"})'
BY DEF Live, AwsOK, InState

LEMMA Describes == ASSUME PeeringInv, Describe PROVE Asking
<1>1. /\ step.at = "read" /\ step.at \in Working
      /\ UNCHANGED <<api, cache, cfresh, pcx, made, agreed>> /\ Counted
  BY DEF Describe, k8s, aws, Working, Counted
<1>2. /\ step.at # "idle" /\ w \in CRs(Statuses)
      /\ (Careful => Attention) /\ AwsOK /\ GivenOut
      /\ Peaceful => /\ AgreedOn(w)
                     /\ \A p \in agreed : InState(p, {"active"})
  BY <1>1, AtWork
<1>3. /\ Live' = Live /\ AwsOK'
      /\ \A p \in agreed : InState(p, {"active"}) => InState(p, {"active"})'
  BY <1>1, <1>2, SameAws
<1>4. CASE InState(w.st.id, Alive \union {"ended"})
  <2>1. GotoWith("described", w, pcx[w.st.id])
    BY <1>4 DEF Describe
  <2>2. /\ WorkerOK(Statuses, Labels, Exits)' /\ step'.at = "described"
        /\ step'.local = pcx[w.st.id] /\ w' = w
    BY <1>2, <2>1, GotoWithKeeps DEF Labels
  <2>3. step'.local \in States /\ (step'.local = "active" => w.st.id \in agreed)
    BY <1>2, <1>4, <2>2 DEF InState, AwsOK, GivenOut
  <2>4. AtHand' /\ GivenOut'
    BY <1>1, <1>2, <2>2, <2>3 DEF AtHand, GivenOut, Judging, NewlyCreated
  <2>5. Careful => Attention'
    BY <1>1, <1>2, <1>3, <2>2 DEF Attention
  <2>6. Peaceful => AgreedOn(w)'
    BY <1>1, <1>2, <2>2 DEF AgreedOn
  <2>7. QED
    BY <1>1, <1>3, <2>2, <2>4, <2>5, <2>6 DEF Asking, Working
<1>5. CASE ~InState(w.st.id, Alive \union {"ended"})
  <2>1. PICK new : new = [w EXCEPT !.st.id = None]
    OBVIOUS
  <2>2. /\ new \in CRs(Statuses) /\ new.st.id = None
        /\ new.st.ready = w.st.ready /\ new.abandon = w.abandon
    BY <1>2, <2>1, EmptiedType
  <2>3. Goto("create", new) /\ wfresh \in BOOLEAN
    BY <1>5, <2>1, InvParts DEF Describe
  <2>4. WorkerOK(Statuses, Labels, Exits)' /\ step'.at = "create" /\ w' = new
    BY <2>2, <2>3, GotoType DEF Labels
  <2>5. AtHand' /\ GivenOut'
    BY <1>1, <1>2, <2>4 DEF AtHand, GivenOut, Judging, NewlyCreated
  <2>6. Careful => Attention'
    <3>1. Careful => Live = {}
      BY <1>2, <1>5, <1>1 DEF Attention, Live, InState
    <3>2. QED
      BY <1>3, <2>4, <3>1 DEF Attention
  <2>7. Peaceful => AgreedOn(w)' /\ ~w'.st.ready
    <3>1. Peaceful => ~w.st.ready
      BY <1>2, <1>5 DEF AgreedOn, InState, Alive
    <3>2. QED
      BY <2>2, <2>4, <3>1 DEF AgreedOn
  <2>8. QED
    BY <1>1, <1>3, <2>2, <2>4, <2>5, <2>6, <2>7 DEF Asking, Working
<1>6. QED
  BY <1>4, <1>5

\* The answer to a request, which is a live connection that AWS gave out.
LEMMA RequestLeads ==
    ASSUME PeeringInv, step.at = "create", NEW p \in Ids, NEW state \in Alive,
           Requested(p, state)
    PROVE  /\ WorkerOK(Statuses, Labels, Exits)' /\ Counted
           /\ step'.at = "save" /\ w'.abandon = w.abandon
           /\ Peaceful => ~w'.st.ready
           /\ Careful => w'.st.id = p /\ step'.err = "report"
           /\ step'.ok = "created" => w'.st.id = p /\ w'.st.code = state
<1>1. /\ step.at # "idle" /\ w \in CRs(Statuses) /\ SameConnection(w, w)
  BY AtWork DEF Working
<1>2. Peaceful => ~w.st.ready
  BY DEF PeeringInv, Agreement, Peaceful
<1>3. CASE Save(Asked(w, p, state), "created", "report") /\ NoFault
  <2>1. PICK new : new = Asked(w, p, state)
    OBVIOUS
  <2>2. /\ new \in CRs(Statuses) /\ new.st.id = p /\ new.st.code = state
        /\ new.st.ready = w.st.ready /\ new.abandon = w.abandon
    BY <1>1, <2>1, AskedType DEF States
  <2>3. /\ WorkerOK(Statuses, Labels, Exits)' /\ step'.at = "save"
        /\ step'.ok = "created" /\ step'.err = "report" /\ w' = new
    BY <1>1, <1>3, <2>1, <2>2, SaveKeeps DEF Exits
  <2>4. QED
    BY <1>2, <1>3, <2>2, <2>3 DEF Counted
<1>4. CASE Report /\ Fault("lost")
  <2>1. ~Careful /\ Counted
    BY <1>4, CarefulFaults DEF Counted, AllFaults
  <2>2. /\ WorkerOK(Statuses, Labels, Exits)' /\ step'.at = "save"
        /\ step'.ok = "idle" /\ SameConnection(w', w) /\ ~w'.st.ready
    BY <1>1, <1>4, ReportKeeps DEF Report
  <2>3. QED
    BY <2>1, <2>2 DEF SameConnection
<1>5. QED
  BY <1>3, <1>4 DEF Requested, Asked

LEMMA Creates == ASSUME PeeringInv, Create PROVE Asking
<1>1. /\ step.at = "create" /\ step.at \in Working /\ made < MaxIds
      /\ made' = made + 1
      /\ pcx' = [p \in DOMAIN pcx \union {made'} |->
                   IF p = made' THEN "initiating" ELSE pcx[p]]
      /\ UNCHANGED <<api, cache, cfresh, agreed>>
      /\ Requested(made', "initiating")
  BY DEF Create, k8s, Working
<1>2. (Careful => Attention) /\ AwsOK /\ GivenOut
  BY <1>1, AtWork
<1>3. made' \in Ids /\ made' \in 0 .. MaxIds
  BY <1>1, <1>2, PeeringAssumption DEF AwsOK, Ids
<1>4. /\ WorkerOK(Statuses, Labels, Exits)' /\ Counted
      /\ step'.at = "save" /\ w'.abandon = w.abandon
      /\ Peaceful => ~w'.st.ready
      /\ Careful => w'.st.id = made' /\ step'.err = "report"
      /\ step'.ok = "created" => w'.st.id = made' /\ w'.st.code = "initiating"
  BY <1>1, <1>3, RequestLeads DEF Alive, Transient
<1>5. /\ DOMAIN pcx' = DOMAIN pcx \union {made'}
      /\ pcx'[made'] = "initiating"
      /\ \A p \in DOMAIN pcx : p # made' => pcx'[p] = pcx[p]
  BY <1>1
<1>6. made' \notin DOMAIN pcx \union agreed
  BY <1>1, <1>2, PeeringAssumption DEF AwsOK, GivenOut
<1>7. AwsOK'
  BY <1>1, <1>2, <1>3, <1>5 DEF AwsOK, States, Alive, Transient
<1>8. GivenOut'
  <2>1. DOMAIN pcx' \union agreed' \subseteq 1 .. made'
    BY <1>1, <1>2, <1>3, <1>5, PeeringAssumption DEF AwsOK, GivenOut
  <2>2. \A p \in DOMAIN pcx' : pcx'[p] = "active" => p \in agreed'
    BY <1>1, <1>2, <1>5 DEF GivenOut
  <2>3. QED
    BY <1>4, <2>1, <2>2 DEF GivenOut, Judging, NewlyCreated, Alive, Transient
<1>9. Careful => Attention'
  <2>1. Live' = Live \union {made'}
    BY <1>5, <1>6 DEF Live, Alive, Transient
  <2>2. QED
    BY <1>1, <1>2, <1>4, <2>1 DEF Attention
<1>10. \A p \in agreed : InState(p, {"active"}) => InState(p, {"active"})'
  BY <1>5, <1>6 DEF InState
<1>11. AtHand'
  BY <1>4 DEF AtHand
<1>12. Peaceful => AgreedOn(w)'
  BY <1>4 DEF AgreedOn
<1>13. QED
  BY <1>1, <1>4, <1>7, <1>8, <1>9, <1>10, <1>11, <1>12 DEF Asking

LEMMA CreatesAgain == ASSUME PeeringInv, CreateAgain PROVE Asking
<1>1. /\ step.at = "create" /\ step.at \in Working
      /\ UNCHANGED <<api, cache, cfresh, pcx, made, agreed>>
  BY DEF CreateAgain, k8s, aws, Working
<1>2. (Careful => Attention) /\ AwsOK /\ GivenOut
  BY <1>1, AtWork
<1>3. PICK p \in Live : Requested(p, pcx[p])
  BY DEF CreateAgain
<1>4. /\ p \in Ids /\ pcx[p] \in Alive
      /\ pcx[p] = "active" => p \in agreed
  BY <1>2, <1>3 DEF Live, AwsOK, GivenOut
<1>5. /\ WorkerOK(Statuses, Labels, Exits)' /\ Counted
      /\ step'.at = "save" /\ w'.abandon = w.abandon
      /\ Peaceful => ~w'.st.ready
      /\ step'.ok = "created" => w'.st.id = p /\ w'.st.code = pcx[p]
  BY <1>1, <1>3, <1>4, RequestLeads
<1>6. ~Careful
  BY <1>1, <1>2, <1>3 DEF Attention
<1>7. /\ AwsOK'
      /\ \A q \in agreed : InState(q, {"active"}) => InState(q, {"active"})'
  BY <1>1, <1>2, SameAws
<1>8. AtHand' /\ GivenOut'
  BY <1>1, <1>2, <1>4, <1>5 DEF AtHand, GivenOut, Judging, NewlyCreated
<1>9. Peaceful => AgreedOn(w)'
  BY <1>5 DEF AgreedOn
<1>10. QED
  BY <1>1, <1>5, <1>6, <1>7, <1>8, <1>9 DEF Asking

\* What AWS said of the connection, where the handler acts on it.
LEMMA CodeKnown ==
    ASSUME PeeringInv, Judged \/ Acceptable
    PROVE  /\ step.at \in Working /\ step.at # "create" /\ Code \in States
           /\ Code = "active" => w.st.id \in agreed
           /\ WithCode \in CRs(Statuses) /\ SameConnection(WithCode, w)
<1>1. step.at \in {"created", "described", "judge"} /\ step.at \in Working
  BY DEF Judged, Acceptable, Found, Working
<1>2. w \in CRs(Statuses) /\ AtHand /\ GivenOut
  BY <1>1, AtWork, InvParts
<1>3. Code \in States /\ (Code = "active" => w.st.id \in agreed)
  BY <1>1, <1>2 DEF Code, AtHand, GivenOut, Judging, NewlyCreated
<1>4. WithCode = Coded(w, Code)
  BY DEF WithCode, Coded
<1>5. WithCode \in CRs(Statuses) /\ SameConnection(WithCode, w)
  BY <1>2, <1>3, <1>4, CodedType
<1>6. QED
  BY <1>1, <1>3, <1>5

LEMMA Accepts == ASSUME PeeringInv, Accept PROVE Asking
<1>1. /\ step.at \in Working /\ step.at # "create" /\ Acceptable
      /\ UNCHANGED <<api, cache, cfresh, made, agreed>> /\ Counted
  BY CodeKnown DEF Accept, k8s, Counted
<1>2. /\ step.at # "idle" /\ w \in CRs(Statuses) /\ SameConnection(w, w)
      /\ (Careful => Attention) /\ AwsOK /\ GivenOut
      /\ Peaceful => AgreedOn(w)
  BY <1>1, AtWork
<1>3. CASE ~InState(w.st.id, {"pending"})
  <2>1. UNCHANGED pcx /\ Continue("report", w, wfresh)
    BY <1>3 DEF Accept, Report
  <2>2. QED
    BY <1>1, <1>2, <2>1, Reported
<1>4. CASE InState(w.st.id, {"pending"})
  <2>1. Become(w.st.id, "provisioning") /\ Goto("redescribe", w)
    BY <1>4 DEF Accept
  <2>2. WorkerOK(Statuses, Labels, Exits)' /\ step'.at = "redescribe" /\ w' = w
    BY <1>2, <2>1, GotoKeeps DEF Labels
  <2>3. /\ DOMAIN pcx' = DOMAIN pcx /\ w.st.id \in DOMAIN pcx
        /\ pcx[w.st.id] = "pending" /\ pcx'[w.st.id] = "provisioning"
        /\ \A p \in DOMAIN pcx : p # w.st.id => pcx'[p] = pcx[p]
    BY <1>4, <2>1 DEF Become, InState
  <2>4. AwsOK' /\ Live' = Live
    BY <1>1, <1>2, <2>3 DEF AwsOK, Live, States, Alive, Transient
  <2>5. GivenOut' /\ AtHand'
    BY <1>1, <1>2, <2>2, <2>3 DEF GivenOut, Judging, NewlyCreated, AtHand
  <2>6. \A p \in agreed : InState(p, {"active"}) => InState(p, {"active"})'
    BY <2>3 DEF InState
  <2>7. Careful => Attention'
    <3>1. step.at # "save" /\ step.at # "idle" /\ (Careful => w.st.id = api.st.id)
      BY <1>1, <1>2 DEF Attention, Working
    <3>2. QED
      BY <1>1, <1>2, <2>2, <2>4, <3>1 DEF Attention
  <2>8. Peaceful => AgreedOn(w)'
    BY <1>1, <1>2, <2>2 DEF AgreedOn
  <2>9. QED
    BY <1>1, <2>2, <2>4, <2>5, <2>6, <2>7, <2>8 DEF Asking, Working
<1>5. QED
  BY <1>3, <1>4

LEMMA DescribesAgain == ASSUME PeeringInv, DescribeAgain PROVE Asking
<1>1. /\ step.at = "redescribe" /\ step.at \in Working
      /\ UNCHANGED <<api, cache, cfresh, pcx, made, agreed>> /\ Counted
  BY DEF DescribeAgain, k8s, aws, Working, Counted, AllFaults
<1>2. /\ step.at # "idle" /\ w \in CRs(Statuses)
      /\ (Careful => Attention) /\ AwsOK /\ GivenOut
      /\ Peaceful => AgreedOn(w)
  BY <1>1, AtWork
<1>3. PICK code \in States : /\ GotoWith("judge", w, code)
                             /\ code = "active" => w.st.id \in agreed
  BY <1>2 DEF DescribeAgain, AwsOK, GivenOut, States, Alive, Transient
<1>4. /\ WorkerOK(Statuses, Labels, Exits)' /\ step'.at = "judge"
      /\ step'.local = code /\ w' = w
  BY <1>2, <1>3, GotoWithKeeps DEF Labels
<1>5. /\ Live' = Live /\ AwsOK'
      /\ \A p \in agreed : InState(p, {"active"}) => InState(p, {"active"})'
  BY <1>1, <1>2, SameAws
<1>6. AtHand' /\ GivenOut'
  BY <1>1, <1>2, <1>3, <1>4 DEF AtHand, GivenOut, Judging, NewlyCreated
<1>7. Careful => Attention'
  BY <1>1, <1>2, <1>4, <1>5 DEF Attention
<1>8. Peaceful => AgreedOn(w)'
  BY <1>1, <1>2, <1>4 DEF AgreedOn
<1>9. QED
  BY <1>1, <1>4, <1>5, <1>6, <1>7, <1>8 DEF Asking, Working

LEMMA Judges == ASSUME PeeringInv, Active \/ Waiting PROVE Asking
<1>1. Judged
  BY DEF Active, Waiting
<1>2. /\ step.at \in Working /\ step.at # "create"
      /\ Code = "active" => w.st.id \in agreed
      /\ WithCode \in CRs(Statuses) /\ SameConnection(WithCode, w)
  BY <1>1, CodeKnown
<1>3. /\ UNCHANGED <<api, cache, cfresh, pcx, made, agreed>> /\ Counted
  BY DEF Active, Waiting, k8s, aws, Counted
<1>4. /\ step.at # "idle" /\ (Careful => Attention) /\ AwsOK /\ GivenOut
  BY <1>2, AtWork
<1>5. PICK new \in CRs(Statuses) :
         /\ Save(new, "idle", "report") /\ new.st.id = w.st.id
         /\ new.abandon = w.abandon
         /\ new.st.ready => w.st.id \in agreed
  <2>1. CASE Active
    <3>1. /\ ReadyNow(Observed(WithCode)) \in CRs(Statuses)
          /\ ReadyNow(Observed(WithCode)).st.id = w.st.id
          /\ ReadyNow(Observed(WithCode)).abandon = w.abandon
      BY <1>2, JudgedTypes DEF SameConnection
    <3>2. w.st.id \in agreed
      BY <1>2, <2>1 DEF Active
    <3>3. QED
      BY <2>1, <3>1, <3>2 DEF Active
  <2>2. CASE Waiting
    <3>1. /\ NotReady(WithCode) \in CRs(Statuses)
          /\ NotReady(WithCode).st.id = w.st.id
          /\ NotReady(WithCode).abandon = w.abandon
          /\ ~NotReady(WithCode).st.ready
      BY <1>2, JudgedTypes DEF SameConnection
    <3>2. QED
      BY <2>2, <3>1 DEF Waiting
  <2>3. QED
    BY <2>1, <2>2
<1>6. /\ WorkerOK(Statuses, Labels, Exits)' /\ step'.at = "save"
      /\ step'.ok = "idle" /\ step'.err = "report" /\ w' = new
  BY <1>4, <1>5, SaveKeeps DEF Exits
<1>7. /\ Live' = Live /\ AwsOK'
      /\ \A p \in agreed : InState(p, {"active"}) => InState(p, {"active"})'
  BY <1>3, <1>4, SameAws
<1>8. AtHand' /\ GivenOut'
  BY <1>3, <1>4, <1>6 DEF AtHand, GivenOut, Judging, NewlyCreated
<1>9. Careful => Attention'
  BY <1>3, <1>4, <1>5, <1>6, <1>7 DEF Attention
<1>10. AgreedOn(w)'
  BY <1>3, <1>5, <1>6 DEF AgreedOn
<1>11. QED
  BY <1>2, <1>3, <1>5, <1>6, <1>7, <1>8, <1>9, <1>10 DEF Asking

LEMMA Ends == ASSUME PeeringInv, Ended PROVE Asking
<1>1. /\ step.at \in Working /\ step.at # "create"
      /\ WithCode \in CRs(Statuses) /\ SameConnection(WithCode, w)
  BY CodeKnown DEF Ended
<1>2. /\ UNCHANGED <<api, cache, cfresh, pcx, made, agreed>> /\ Counted
      /\ Continue("report", WithCode, wfresh)
  BY DEF Ended, k8s, aws, Counted
<1>3. QED
  BY <1>1, <1>2, Reported

LEMMA Fails == ASSUME PeeringInv, CallError PROVE Asking
<1>1. step.at \in Working
  BY DEF CallError, Acceptable, Found, Working
<1>2. /\ UNCHANGED <<api, cache, cfresh, pcx, made, agreed>> /\ Counted
      /\ Continue("report", w, wfresh)
  BY DEF CallError, Report, k8s, aws, Counted, AllFaults
<1>3. Careful => faults' = 1
  BY InvParts, CarefulFaults DEF CallError, AllFaults
<1>4. w \in CRs(Statuses) /\ SameConnection(w, w)
  BY <1>1, AtWork
<1>5. QED
  BY <1>1, <1>2, <1>3, <1>4, Reported

LEMMA Deletes == ASSUME PeeringInv, Delete \/ DeleteRefused PROVE Deleting
<1>1. /\ step.at = "delete" /\ step.at # "idle" /\ Counted
      /\ UNCHANGED <<api, cache, cfresh, made, agreed>> /\ AwsOK
      /\ w \in CRs(Statuses)
  BY InvParts DEF Delete, DeleteRefused, k8s, aws, Counted, AllFaults
<1>2. GivenOut /\ (Careful => Attention)
  BY DEF PeeringInv, Attentive, Attention
<1>3. /\ DOMAIN pcx' = DOMAIN pcx
      /\ \A p \in DOMAIN pcx : pcx'[p] \in {pcx[p], "deleting"}
      /\ Delete /\ w.st.id \in DOMAIN pcx /\ pcx[w.st.id] \in Alive =>
            pcx'[w.st.id] = "deleting"
  BY DEF Delete, DeleteRefused, Become, InState, aws
<1>4. AwsOK' /\ Live' \subseteq Live
  BY <1>1, <1>3 DEF AwsOK, Live, States, Alive, Transient
<1>5. CASE Delete
  <2>1. /\ WorkerOK(Statuses, Labels, Exits)' /\ step'.at = "release"
        /\ w' = w /\ wfresh' = wfresh
    BY <1>1, <1>5, GotoKeeps DEF Delete, Labels
  <2>2. w.st.id \notin Live'
    BY <1>3, <1>5 DEF Live, Alive, Transient
  <2>3. GivenOut'
    BY <1>1, <1>2, <1>3, <2>1 DEF GivenOut, Judging, NewlyCreated
  <2>4. Careful => Attention'
    BY <1>1, <1>2, <1>4, <2>1 DEF Attention
  <2>5. QED
    BY <1>1, <1>4, <2>1, <2>2, <2>3, <2>4 DEF Deleting
<1>6. CASE DeleteRefused
  <2>1. WorkerOK(Statuses, Labels, Exits)' /\ step'.at = "idle"
    BY <1>6, ReturnType DEF DeleteRefused, Labels
  <2>2. GivenOut'
    BY <1>1, <1>2, <1>3, <2>1 DEF GivenOut, Judging, NewlyCreated
  <2>3. Careful => Attention'
    BY <1>1, <1>2, <1>4, <2>1 DEF Attention
  <2>4. QED
    BY <1>1, <1>4, <2>1, <2>2, <2>3 DEF Deleting
<1>7. QED
  BY <1>5, <1>6

-----------------------------------------------------------------------------
(* The steps of AWS and of the other account.                               *)

Environment ==
    \/ AwsReady \/ AwsPending \/ AwsDeleted \/ AwsFailed \/ AwsForget
    \/ PeerAccepts \/ PeerRejects \/ ExternalDelete

\* One connection moves on or is forgotten; it never comes back to life, and
\* an agreed one only stops being active when somebody else deletes it.
Elsewhere ==
    /\ UNCHANGED <<api, cache, cfresh, w, wfresh, step, made>> /\ Counted
    /\ AwsOK' /\ Live' \subseteq Live
    /\ DOMAIN pcx' \subseteq DOMAIN pcx
    /\ agreed \subseteq agreed' /\ agreed' \subseteq agreed \union DOMAIN pcx
    /\ \A p \in DOMAIN pcx' : pcx'[p] = "active" => p \in agreed'
    /\ Peaceful => \A p \in agreed' :
          p \in agreed /\ InState(p, {"active"}) => InState(p, {"active"})'
    /\ \A p \in agreed' \ agreed : InState(p, {"active"})'

LEMMA MoveEffect ==
    ASSUME PeeringInv, NEW from, NEW to \in States, Move(from, to)
    PROVE  /\ UNCHANGED <<api, cache, cfresh, w, wfresh, step, made>>
           /\ DOMAIN pcx' = DOMAIN pcx
           /\ \E p \in DOMAIN pcx :
                 /\ pcx[p] \in from /\ pcx'[p] = to
                 /\ \A q \in DOMAIN pcx : q # p => pcx'[q] = pcx[q]
BY DEF Move, Become, k8s, worker

LEMMA EnvironmentIsElsewhere ==
    ASSUME PeeringInv, Environment
    PROVE  Elsewhere
<1>1. AwsOK /\ GivenOut
  BY InvParts DEF PeeringInv
<1>2. CASE AwsReady
  <2>1. PICK p \in DOMAIN pcx :
           /\ pcx[p] = "provisioning" /\ Become(p, "active")
           /\ agreed' = agreed \union {p}
    BY <1>2 DEF AwsReady
  <2>2. /\ UNCHANGED <<api, cache, cfresh, w, wfresh, step, made>> /\ Counted
        /\ DOMAIN pcx' = DOMAIN pcx /\ pcx'[p] = "active"
        /\ \A q \in DOMAIN pcx : q # p => pcx'[q] = pcx[q]
    BY <1>2, <2>1 DEF AwsReady, Become, k8s, worker, Counted
  <2>3. AwsOK' /\ Live' = Live
    BY <1>1, <2>1, <2>2 DEF AwsOK, Live, States, Alive, Transient
  <2>4. \A q \in agreed' :
           InState(q, {"active"}) \/ q = p => InState(q, {"active"})'
    BY <2>2 DEF InState
  <2>5. \A q \in DOMAIN pcx' : pcx'[q] = "active" => q \in agreed'
    BY <1>1, <2>1, <2>2 DEF GivenOut
  <2>6. QED
    BY <2>1, <2>2, <2>3, <2>4, <2>5 DEF Elsewhere
<1>3. CASE AwsForget
  <2>1. PICK p \in DOMAIN pcx :
           /\ pcx[p] \in {"ended", "deleted"}
           /\ pcx' = [q \in DOMAIN pcx \ {p} |-> pcx[q]]
    BY <1>3 DEF AwsForget
  <2>2. /\ UNCHANGED <<api, cache, cfresh, w, wfresh, step, made, agreed>>
        /\ Counted
        /\ DOMAIN pcx' = DOMAIN pcx \ {p}
        /\ \A q \in DOMAIN pcx : q # p => pcx'[q] = pcx[q]
    BY <1>3, <2>1 DEF AwsForget, k8s, worker, Counted
  <2>3. AwsOK' /\ Live' \subseteq Live
    BY <1>1, <2>1, <2>2 DEF AwsOK, Live
  <2>4. \A q \in agreed' : InState(q, {"active"}) => InState(q, {"active"})'
    BY <2>1, <2>2 DEF InState
  <2>5. \A q \in DOMAIN pcx' : pcx'[q] = "active" => q \in agreed'
    BY <1>1, <2>2 DEF GivenOut
  <2>6. QED
    BY <2>2, <2>3, <2>4, <2>5 DEF Elsewhere
<1>4. CASE \/ AwsPending \/ AwsDeleted \/ AwsFailed \/ PeerAccepts
           \/ PeerRejects \/ ExternalDelete
  <2>1. PICK from \in SUBSET States, to \in States :
           /\ Move(from, to)
           /\ UNCHANGED agreed /\ Counted
           /\ to \in Alive => from \subseteq Alive
           /\ to # "active" /\ (Peaceful => "active" \notin from)
    <3>1. CASE AwsPending
      BY <3>1 DEF AwsPending, Counted, States, Alive, Transient
    <3>2. CASE AwsDeleted
      BY <3>2 DEF AwsDeleted, Counted, States, Alive, Transient
    <3>3. CASE AwsFailed
      BY <3>3 DEF AwsFailed, Counted, States, Alive, Transient, AllFaults
    <3>4. CASE PeerAccepts
      BY <3>4 DEF PeerAccepts, Counted, States, Alive, Transient
    <3>5. CASE PeerRejects
      BY <3>5 DEF PeerRejects, Counted, States, Alive, Transient, AllFaults
    <3>6. CASE ExternalDelete
      <4>1. ~Peaceful /\ Counted
        BY <3>6 DEF ExternalDelete, Fault, Peaceful, FreeOf, Counted, AllFaults
      <4>2. QED
        BY <3>6, <4>1 DEF ExternalDelete, States, Alive, Transient
    <3>7. QED
      BY <1>4, <3>1, <3>2, <3>3, <3>4, <3>5, <3>6
  <2>2. /\ UNCHANGED <<api, cache, cfresh, w, wfresh, step, made>>
        /\ DOMAIN pcx' = DOMAIN pcx
    BY <2>1, MoveEffect
  <2>3. PICK p \in DOMAIN pcx :
           /\ pcx[p] \in from /\ pcx'[p] = to
           /\ \A q \in DOMAIN pcx : q # p => pcx'[q] = pcx[q]
    BY <2>1, MoveEffect
  <2>4. AwsOK'
    BY <1>1, <2>1, <2>2, <2>3 DEF AwsOK
  <2>5. Live' \subseteq Live
    BY <2>1, <2>2, <2>3 DEF Live
  <2>6. Peaceful => \A q \in agreed' :
           InState(q, {"active"}) => InState(q, {"active"})'
    BY <2>1, <2>2, <2>3 DEF InState
  <2>7. \A q \in DOMAIN pcx' : pcx'[q] = "active" => q \in agreed'
    BY <1>1, <2>1, <2>2, <2>3 DEF GivenOut
  <2>8. QED
    BY <2>1, <2>2, <2>4, <2>5, <2>6, <2>7 DEF Elsewhere
<1>5. QED
  BY <1>2, <1>3, <1>4 DEF Environment

LEMMA ElsewhereStep ==
    ASSUME PeeringInv, Elsewhere
    PROVE  PeeringInv'
<1>1. /\ UNCHANGED <<api, cache, cfresh, w, wfresh, step, made>> /\ Counted
      /\ AwsOK /\ AwsOK' /\ AtHand /\ faults \in Nat
  BY InvParts DEF Elsewhere
<1>2. KubeOK(Statuses, Labels, Exits)' /\ Protocol(Removing)'
  BY <1>1, InvParts, AwsKept
<1>3. AtHand' /\ ReleaseEarned'
  BY <1>1 DEF AtHand, PeeringInv, ReleaseEarned, Elsewhere
<1>4. GivenOut'
  <2>1. GivenOut
    BY DEF PeeringInv
  <2>2. DOMAIN pcx' \union agreed' \subseteq 1 .. made'
    BY <1>1, <2>1 DEF GivenOut, Elsewhere
  <2>3. QED
    BY <1>1, <2>1, <2>2 DEF GivenOut, Judging, NewlyCreated, Elsewhere
<1>5. Agreement'
  <2>1. FreeOf({"externalDelete"})' = FreeOf({"externalDelete"})
    BY <1>1, SameScenario
  <2>2. SUFFICES ASSUME Peaceful
        PROVE  /\ AgreedOn(api)' /\ AgreedOn(cache)'
               /\ step'.at # "idle" => AgreedOn(w)'
               /\ step'.at = "create" => ~w'.st.ready
               /\ ~cache'.deleting \/ step'.at \notin Removing \union {"idle"} =>
                     \A p \in agreed' : InState(p, {"active"})'
    BY <2>1 DEF Agreement, Peaceful, Removing
  <2>3. /\ AgreedOn(api) /\ AgreedOn(cache) /\ (step.at # "idle" => AgreedOn(w))
        /\ step.at = "create" => ~w.st.ready
        /\ ~cache.deleting \/ step.at \notin Removing \union {"idle"} =>
              \A p \in agreed : InState(p, {"active"})
    BY <2>2 DEF PeeringInv, Agreement, Peaceful
  <2>4. AgreedOn(api)' /\ AgreedOn(cache)' /\ (step'.at # "idle" => AgreedOn(w)')
    BY <1>1, <2>3 DEF AgreedOn, Elsewhere
  <2>5. ~cache.deleting \/ step.at \notin Removing \union {"idle"} =>
           \A p \in agreed' : InState(p, {"active"})'
    BY <2>2, <2>3 DEF Elsewhere
  <2>6. QED
    BY <1>1, <2>3, <2>4, <2>5
<1>6. Careful => Attention'
  <2>1. SUFFICES ASSUME Careful PROVE Attention'
    OBVIOUS
  <2>2. Attention /\ Live' \subseteq Live
    BY <2>1 DEF PeeringInv, Attentive, Attention, Elsewhere
  <2>3. faults' = faults \/ faults' = 1
    BY <1>1, <2>1, CarefulFaults DEF Counted, NoFault
  <2>4. QED
    BY <1>1, <2>2, <2>3 DEF Attention
<1>7. Attentive'
  BY <1>1, <1>6, CarefulPrimed
<1>8. QED
  BY <1>1, <1>2, <1>3, <1>4, <1>5, <1>7, AgreedReadyPrimed
  DEF PeeringInv, TypeOK, AwsOK, AtHand

-----------------------------------------------------------------------------
(* The invariant.                                                           *)

LEMMA NextCases ==
    ASSUME PeeringInv, Next
    PROVE  \/ Shared /\ UNCHANGED aws
           \/ Asking \/ Deleting \/ Elsewhere
<1>1. \/ Shared /\ UNCHANGED aws
      \/ Describe \/ Create \/ CreateAgain \/ Accept \/ DescribeAgain
      \/ Active \/ Waiting \/ Ended \/ CallError
      \/ Delete \/ DeleteRefused \/ Environment
  BY DEF Next, Work, Reconcile, Shared, Outside, WatchDelivers, Handlers, Peer,
         Environment
<1>2. QED
  BY <1>1, Describes, Creates, CreatesAgain, Accepts, DescribesAgain, Judges,
     Ends, Fails, Deletes, EnvironmentIsElsewhere

LEMMA InitInv == Init => PeeringInv
<1> SUFFICES ASSUME Init PROVE PeeringInv
  OBVIOUS
<1>1. PICK want \in Wants :
         api = [exists |-> TRUE, gen |-> 1, want |-> want, deleting |-> FALSE,
                finalizer |-> FALSE, abandon |-> FALSE, st |-> BlankStatus]
  BY DEF Init, InitKube
<1>2. BlankStatus \in Statuses /\ ~BlankStatus.ready
  BY DEF BlankStatus, Statuses
<1>3. /\ api \in CRs(Statuses) /\ api.exists /\ ~api.finalizer
      /\ ~api.deleting /\ ~api.abandon /\ ~api.st.ready
  BY <1>1, <1>2 DEF CRs
<1>4. /\ cache = api /\ cfresh \in BOOLEAN /\ w = NoCopy /\ wfresh \in BOOLEAN
      /\ step.at = "idle" /\ DOMAIN pcx = {} /\ made = 0 /\ agreed = {}
  BY DEF Init, InitKube, At
<1>5. scenario \in Scenarios /\ faults = 0
  BY DEF Init, InitKube
<1>6. faults \in 0 .. scenario.most
  BY <1>5, ReconcilerAssumption DEF AreScenarios
<1>7. KubeOK(Statuses, Labels, Exits)
  BY <1>3, <1>4, <1>5, <1>6 DEF KubeOK, WorkerOK, Labels
<1>8. made \in 0 .. MaxIds /\ Live = {}
  BY <1>4, PeeringAssumption DEF Live
<1>9. TypeOK
  BY <1>4, <1>7, <1>8 DEF TypeOK
<1>10. Protocol(Removing) /\ ReleaseEarned
  BY <1>3, <1>4 DEF Protocol, FinalizerHeld, DeletionSeen, CopyIsCurrent,
     ReleaseEarned, Removing
<1>11. GivenOut /\ Agreement /\ Attentive /\ ReadyOnlyAgreed
  BY <1>3, <1>4, <1>8 DEF GivenOut, Judging, NewlyCreated, Agreement, AgreedOn,
     Attentive, ReadyOnlyAgreed
<1>12. QED
  BY <1>9, <1>10, <1>11 DEF PeeringInv

LEMMA StutterInv == PeeringInv /\ UNCHANGED vars => PeeringInv'
BY DEF vars, PeeringInv, TypeOK, KubeOK, WorkerOK, Protocol, FinalizerHeld,
       DeletionSeen, CopyIsCurrent, ReleaseEarned, GivenOut, Judging,
       NewlyCreated, Agreement, AgreedOn, InState, Attentive, Live, Careful,
       FreeOf, ReadyOnlyAgreed

\* A connection that a Ready status names was agreed to by both sides, unless
\* others delete connections; with what makes that inductive, for any number of
\* connections, scenarios and bounds.
THEOREM PeeringInvariant == Spec => []PeeringInv
<1>1. Init => PeeringInv
  BY InitInv
<1>2. PeeringInv /\ [Next]_vars => PeeringInv'
  <2>1. SUFFICES ASSUME PeeringInv, [Next]_vars PROVE PeeringInv'
    OBVIOUS
  <2>2. CASE UNCHANGED vars
    BY <2>1, <2>2, StutterInv
  <2>3. CASE Next
    BY <2>1, <2>3, NextCases, SharedStep, AskingStep, DeletingStep,
       ElsewhereStep
  <2>4. QED
    BY <2>1, <2>2, <2>3
<1>3. QED
  BY <1>1, <1>2, PTL DEF Spec

-----------------------------------------------------------------------------
(* The last connection.                                                     *)

\* The step that a released CR goes with.
LEMMA LastStep ==
    ASSUME PeeringInv, [Next]_vars,
           api.exists, ~api'.exists, api.finalizer, ~api.abandon
    PROVE  step.at = "release" /\ wfresh
<1>1. api' # api
  OBVIOUS
<1>2. Next
  BY <1>1 DEF vars
<1>3. Shared
  BY <1>1, <1>2, NextCases DEF Asking, Deleting, Elsewhere
<1>4. PhaseStep
  BY <1>3, InvParts, SharedPhases
<1>5. QED
  BY <1>4 DEF PhaseStep, SamePhase, Phase

\* When no outcome of a call or of a write is lost twice, a CR that was not
\* abandoned takes the last connection of its making with it.
THEOREM PeeringReleasedClean == Spec => ReleasedClean
<1>1. ASSUME PeeringInv, [Next]_vars, Careful,
             api.exists, ~api'.exists, api.finalizer, ~api.abandon
      PROVE  Live = {}
  <2>1. step.at = "release"
    BY <1>1, LastStep
  <2>2. Live \subseteq {w.st.id}
    BY <1>1, <2>1 DEF PeeringInv, Attentive
  <2>3. ~w.abandon
    BY <1>1, <2>1 DEF PeeringInv, Protocol, CopyIsCurrent
  <2>4. w.st.id \notin Live
    BY <1>1, <2>1, <2>3 DEF PeeringInv, ReleaseEarned
  <2>5. QED
    BY <2>2, <2>4
<1>2. PeeringInv /\ [Next]_vars =>
        [Careful /\ api.exists /\ ~api'.exists /\ api.finalizer /\ ~api.abandon
           => Live = {}]_vars
  BY <1>1
<1>3. QED
  BY <1>2, PeeringInvariant, PTL DEF Spec, ReleasedClean

-----------------------------------------------------------------------------
(* The refinement: every step is one of ManagedResource or a stutter.       *)

Abstract == [Managed!Next]_(Managed!vars)

LEMMA SharedIsAbstract ==
    ASSUME PeeringInv, Shared, UNCHANGED aws
    PROVE  Abstract
<1>1. PhaseStep /\ UNCHANGED <<made>> /\ Live' = Live
  BY InvParts, SharedPhases DEF aws, Live
<1>2. 1 .. made \subseteq Ids
  BY InvParts, PeeringAssumption DEF AwsOK, Ids
<1>3. CASE SamePhase
  BY <1>1, <1>3 DEF SamePhase, Abstract, Managed!vars
<1>4. CASE /\ Phase = "new" /\ Phase' = "held"
           /\ api'.abandon = api.abandon /\ api'.st = api.st
  BY <1>1, <1>4 DEF Abstract, Managed!Next, Managed!Hold
<1>5. CASE /\ step.at = "save" /\ Phase \in {"held", "removing"}
           /\ Phase' = Phase /\ api'.abandon = api.abandon
  BY <1>1, <1>2, <1>5 DEF Abstract, Managed!Next, Managed!Manage
<1>6. CASE /\ Phase # "gone" /\ api'.abandon = TRUE
           /\ Phase' = Phase /\ api'.st = api.st
  BY <1>1, <1>6 DEF Abstract, Managed!Next, Managed!Abandon
<1>7. CASE /\ \/ Phase = "new" /\ Phase' = "gone"
              \/ Phase = "held" /\ Phase' = "removing"
           /\ api'.abandon = api.abandon /\ api'.st = api.st
  BY <1>1, <1>7 DEF Abstract, Managed!Next, Managed!Delete
<1>8. CASE /\ step.at = "release" /\ wfresh
           /\ Phase = "removing" /\ Phase' = "gone"
           /\ api'.abandon = api.abandon /\ api'.st = api.st
  <2>1. api.abandon \/ api.st.id \notin Live
    BY <1>8 DEF PeeringInv, ReleaseEarned, Removing, Protocol, CopyIsCurrent
  <2>2. QED
    BY <1>1, <1>8, <2>1 DEF Abstract, Managed!Next, Managed!Release
<1>9. QED
  BY <1>1, <1>3, <1>4, <1>5, <1>6, <1>7, <1>8 DEF PhaseStep

LEMMA AskingIsAbstract ==
    ASSUME PeeringInv, Asking
    PROVE  Abstract
<1>1. UNCHANGED <<Phase, api.abandon>>
  BY DEF Asking, Phase
<1>2. 1 .. made' \subseteq Ids
  BY PeeringAssumption DEF Asking, AwsOK, Ids
<1>3. Phase \in {"held", "removing"}
  <2>1. step.at \notin {"idle", "addFinalizer"} /\ step.at \notin Removing
    BY DEF Asking, Working, Removing
  <2>2. QED
    BY <2>1, InvParts, HeldWhileAtWork
<1>4. QED
  BY <1>1, <1>2, <1>3 DEF Abstract, Managed!Next, Managed!Manage

LEMMA TakingIsAbstract ==
    ASSUME PeeringInv, UNCHANGED <<api, made>>, Live' \subseteq Live
    PROVE  Abstract
<1>1. UNCHANGED <<Phase, api.abandon>> /\ (1 .. made)' = 1 .. made
  BY DEF Phase
<1>2. (api.st.id \in Live)' => api.st.id \in Live
  OBVIOUS
<1>3. QED
  BY <1>1, <1>2 DEF Abstract, Managed!Next, Managed!Vanish

LEMMA NextIsAbstract ==
    ASSUME PeeringInv, [Next]_vars
    PROVE  Abstract
<1>1. CASE UNCHANGED vars
  BY <1>1 DEF vars, Phase, Live, Abstract, Managed!vars
<1>2. CASE Next
  <2>1. \/ Shared /\ UNCHANGED aws
        \/ Asking \/ Deleting \/ Elsewhere
    BY <1>2, NextCases
  <2>2. ASSUME Deleting \/ Elsewhere
        PROVE  UNCHANGED <<api, made>> /\ Live' \subseteq Live
    BY <2>2 DEF Deleting, Elsewhere
  <2>3. QED
    BY <2>1, <2>2, SharedIsAbstract, AskingIsAbstract, TakingIsAbstract
<1>3. QED
  BY <1>1, <1>2

\* Connections are asked for under a stored finalizer, and the finalizer is
\* given up only when the connection that the status names is not alive or the
\* CR is abandoned, whatever fails, lags and is edited.
THEOREM PeeringImplementsManaged == Spec => ImplementsManaged
<1>1. Init => Managed!Init
  <2>1. SUFFICES ASSUME Init PROVE Managed!Init
    OBVIOUS
  <2>2. /\ api.exists /\ ~api.finalizer /\ api.abandon = FALSE
        /\ DOMAIN pcx = {} /\ made = 0
    BY <2>1 DEF Init, InitKube
  <2>3. Live = {} /\ 1 .. made = {}
    BY <2>2 DEF Live
  <2>4. QED
    BY <2>2, <2>3 DEF Phase, Managed!Init
<1>2. PeeringInv /\ [Next]_vars => [Managed!Next]_(Managed!vars)
  BY NextIsAbstract DEF Abstract
<1>3. QED
  BY <1>1, <1>2, PeeringInvariant, PTL
  DEF Spec, ImplementsManaged, Managed!Spec

-----------------------------------------------------------------------------
(* What follows from the promise of ManagedResource.                        *)

LEMMA NothingInit == Managed!Init => Managed!NothingLeftBehind
BY DEF Managed!Init, Managed!NothingLeftBehind

LEMMA NothingStep ==
    ASSUME Managed!NothingLeftBehind, Abstract
    PROVE  Managed!NothingLeftBehind'
BY DEF Managed!NothingLeftBehind, Abstract, Managed!Next, Managed!vars,
       Managed!Hold, Managed!Abandon, Managed!Delete, Managed!Manage,
       Managed!Vanish, Managed!Release

\* Whatever fails, no connection was asked for before the finalizer is stored,
\* and a CR that is gone and was not abandoned leaves none that its status
\* identified alive.
THEOREM PeeringLeavesNothing == Spec => []Managed!NothingLeftBehind
<1>1. Managed!Spec => []Managed!NothingLeftBehind
  BY NothingInit, NothingStep, PTL DEF Managed!Spec, Abstract
<1>2. QED
  BY <1>1, PeeringImplementsManaged, PTL DEF ImplementsManaged

=============================================================================
