------------------------------ MODULE Ec2Proofs ------------------------------
(***************************************************************************)
(* NatGateway: after one bad call at most no gateway and no address is     *)
(* forgotten, a sole gateway is found again whatever happens, and the kind *)
(* implements ManagedResource.  Network: the CRs of a VPC and of a subnet  *)
(* speak of one VPC and one subnet, and no subnet outlives its CR.  All    *)
(* for any bounds and scenarios.                                           *)
(***************************************************************************)
EXTENDS NatGateway, NetworkNamed, ReconcilerProofs, FiniteSetTheorems

-----------------------------------------------------------------------------
(* NatGateway.                                                              *)

LEMMA Kind == KindOK(Statuses, Labels, Exits, Removing)
BY DEF KindOK, Statuses, Labels, Exits, Removing

\* The types of what AWS keeps, and of what the handler keeps.
AwsOK ==
    /\ DOMAIN gws \subseteq 1 .. made /\ \A g \in DOMAIN gws : gws[g] \in Gateways
    /\ eips \subseteq 1 .. given /\ made \in 0 .. MaxIds /\ given \in 0 .. MaxIds
    /\ refs \in [Subnets -> Places] /\ target \in Places
AtHand == step.local # 0 => step.at \in LocalLabels /\ step.local \in Ids

\* What Attentive says when one call or write is bad at most.
Attention ==
    /\ DOMAIN gws \subseteq {Held.nat} /\ eips \subseteq {Held.eip, step.local}
    /\ Held.nat = None => Held.eip = None
    /\ step.at \notin {"idle", "save"} => AsStored
    /\ step.at = "save" /\ step.err = "idle" => AsStored \/ faults = 1
    /\ ~cache.deleting \/ step.at \notin Removing \union {"idle"} =>
          /\ DOMAIN gws = Running
          /\ Held.nat # None => Held.nat \in Running
    /\ step.at \in {"allocate", "create", "undo"} => Held.nat = None
    /\ step.at = "undo" => faults = 1
    /\ Released => eips = {}

LEMMA InvParts ==
    ASSUME GatewayInv
    PROVE  /\ KubeOK(Statuses, Labels, Exits) /\ Protocol(Removing)
           /\ KindOK(Statuses, Labels, Exits, Removing) /\ AwsOK /\ AtHand
           /\ GivenOut /\ ReleaseEarned /\ SoleFound /\ Described
           /\ OneBadCall => Attention
           /\ api \in CRs(Statuses) /\ cache \in CRs(Statuses)
           /\ wfresh \in BOOLEAN /\ step.at \in Labels /\ faults \in Nat
           /\ step.at # "idle" => w \in CRs(Statuses)
BY Kind DEF GatewayInv, TypeOK, KubeOK, WorkerOK, AwsOK, AtHand, GivenOut,
            Attentive, Attention

LEMMA OneFault ==
    ASSUME OneBadCall, NEW kind \in AllFaults, Fault(kind), faults \in Nat
    PROVE  kind \in {"error", "refused"} /\ faults = 0 /\ faults' = 1
BY DEF OneBadCall, FreeOf, Fault

LEMMA SameScenario ==
    ASSUME GatewayInv, Counted
    PROVE  scenario' = scenario /\ OneBadCall' = OneBadCall
<1>1. scenario' = scenario
  BY InvParts, FaultsType
<1>2. QED
  BY <1>1 DEF OneBadCall, FreeOf

\* What is in the worker's hands is accounted for.
LEMMA AttentionAccounts == Attention' /\ AtHand' => Accounted'
BY DEF Attention, Held, Accounted, InHand, Running

LEMMA AttentivePrimed ==
    ASSUME GatewayInv, Counted, AtHand', OneBadCall => Attention'
    PROVE  Attentive' /\ Accounted'
<1>1. OneBadCall' => Attention'
  BY SameScenario
<1>2. QED
  BY <1>1, AttentionAccounts DEF Attentive, Attention, Accounted

-----------------------------------------------------------------------------
(* Copies.                                                                  *)

\* A copy that names the same gateway and the same address.
SameNames(new, cr) ==
    /\ new.abandon = cr.abandon /\ new.want = cr.want
    /\ new.st.nat = cr.st.nat /\ new.st.eip = cr.st.eip

LEMMA NotReadyNames ==
    ASSUME NEW cr \in CRs(Statuses), NEW new,
           SameBut(new, cr, [cr.st EXCEPT !.ready = FALSE])
    PROVE  SameNames(new, cr)
<1>1. cr.st \in Statuses
  BY CopyType
<1>2. QED
  BY <1>1 DEF SameBut, SameNames, Statuses

LEMMA ReadyNames ==
    ASSUME NEW cr \in CRs(Statuses)
    PROVE  /\ ReadyNow(Observed(cr)) \in CRs(Statuses)
           /\ SameNames(ReadyNow(Observed(cr)), cr)
BY DEF ReadyNow, Observed, SameNames, CRs, Statuses

LEMMA WithType ==
    ASSUME NEW cr \in CRs(Statuses),
           NEW g \in Ids \union {None}, NEW e \in Ids \union {None}
    PROVE  /\ With(cr, g, e) \in CRs(Statuses)
           /\ With(cr, g, e).st.nat = g /\ With(cr, g, e).st.eip = e
           /\ With(cr, g, e).abandon = cr.abandon
           /\ With(cr, g, e).want = cr.want
<1>1. PICK named : named = [cr EXCEPT !.st.nat = g]
  OBVIOUS
<1>2. /\ named \in CRs(Statuses) /\ named.st.nat = g
      /\ named.abandon = cr.abandon /\ named.want = cr.want
  BY <1>1 DEF CRs, Statuses
<1>3. PICK new : new = [named EXCEPT !.st.eip = e]
  OBVIOUS
<1>4. /\ new \in CRs(Statuses) /\ new.st.nat = named.st.nat
      /\ new.st.eip = e /\ new.abandon = named.abandon
      /\ new.want = named.want
  BY <1>2, <1>3 DEF CRs, Statuses
<1>5. With(cr, g, e) = new
  BY <1>1, <1>3 DEF With
<1>6. QED
  BY <1>2, <1>4, <1>5

-----------------------------------------------------------------------------
(* The steps of Reconciler.                                                 *)

\* What holds in every scenario.
Facts == AtHand /\ GivenOut /\ ReleaseEarned /\ SoleFound

\* The invariant but for what a CR that is not edited knows.
Sound == TypeOK /\ Protocol(Removing) /\ Facts /\ Attentive /\ Accounted

LEMMA Assembled ==
    ASSUME KubeOK(Statuses, Labels, Exits)', Protocol(Removing)', AwsOK',
           Facts', Attentive', Accounted'
    PROVE  Sound'
<1>1. DOMAIN gws' \subseteq Ids /\ eips' \subseteq Ids
  BY NatGatewayAssumption DEF AwsOK, Ids
<1>2. TypeOK'
  BY <1>1 DEF TypeOK, AwsOK, Facts, AtHand
<1>3. QED
  BY <1>2 DEF Sound

LEMMA SharedCounted == ASSUME Shared PROVE Counted
<1>1. CASE Start("release") \/ Start("delete") \/ Start("addFinalizer")
           \/ Start("read") \/ PersistConflict \/ PersistError \/ Crash
  BY <1>1 DEF Start, PersistConflict, PersistError, Crash, Counted, AllFaults
<1>2. CASE AddFinalizer \/ RemoveFinalizer \/ Persist \/ CacheSync
  BY <1>2 DEF AddFinalizer, RemoveFinalizer, Persist, CacheSync, Counted
<1>3. CASE Users
  BY <1>3 DEF Users, UserEdit, UserAbandon, UserDelete, UserWrite, Counted
<1>4. QED
  BY <1>1, <1>2, <1>3 DEF Shared, SharedWork, ReconcileAbandoned,
     ReconcileDeleted, ReconcileNew, ReconcileExisting

LEMMA SharedAtHand ==
    ASSUME GatewayInv, Shared
    PROVE  AtHand'
BY InvParts, SharedLocal DEF AtHand

LEMMA StartsWell ==
    ASSUME GatewayInv, UNCHANGED aws, AtHand',
           \/ ReconcileAbandoned \/ ReconcileDeleted
           \/ ReconcileNew \/ ReconcileExisting
    PROVE  Facts' /\ (OneBadCall => Attention')
<1>1. /\ KubeOK(Statuses, Labels, Exits) /\ Protocol(Removing)
      /\ KindOK(Statuses, Labels, Exits, Removing) /\ faults \in Nat
      /\ GivenOut /\ (OneBadCall => Attention) /\ AtHand /\ AtHand'
      /\ UNCHANGED <<gws, eips, made, given, refs>>
  BY InvParts DEF aws
<1>2. PICK label \in {"release", "delete", "addFinalizer", "read"} :
          /\ Start(label) /\ (label = "release" => cache.abandon)
          /\ label \in {"release", "delete"} <=> cache.deleting
  BY DEF ReconcileAbandoned, ReconcileDeleted, ReconcileNew, ReconcileExisting
<1>3. /\ step.at = "idle" /\ step'.at = label /\ w' = cache /\ wfresh' = cfresh
      /\ UNCHANGED <<api, cache, cfresh>>
  BY <1>1, <1>2, StartEffect
<1>4. cfresh => cache = api
  BY <1>1 DEF Protocol, CopyIsCurrent
<1>5. step.local = 0 /\ step'.local = 0 /\ Running' = Running /\ ~Released'
  BY <1>1, <1>2, <1>3 DEF AtHand, LocalLabels, Running, Released
<1>6. Facts'
  BY <1>1, <1>3, <1>4, <1>5, Zenon DEF Facts, GivenOut, ReleaseEarned, SoleFound,
     Waiting, Removing
<1>7. ASSUME OneBadCall PROVE Attention'
  <2>1. cache = api
    <3>1. cfresh
      BY <1>1, <1>2, <1>7, OneFault DEF Start, AllFaults
    <3>2. QED
      BY <1>4, <3>1
  <2>2. Held' = Held /\ AsStored'
    BY <1>3, <2>1 DEF Held, AsStored
  <2>3. Attention
    BY <1>1, <1>7
  <2>4. QED
    BY <1>1, <1>2, <1>3, <1>5, <2>2, <2>3 DEF Attention, Removing
<1>8. QED
  BY <1>6, <1>7

LEMMA FinalizesWell ==
    ASSUME GatewayInv, UNCHANGED aws, AtHand', AddFinalizer \/ RemoveFinalizer
    PROVE  Facts' /\ (OneBadCall => Attention')
<1>1. /\ KubeOK(Statuses, Labels, Exits) /\ Protocol(Removing)
      /\ KindOK(Statuses, Labels, Exits, Removing)
      /\ GivenOut /\ (OneBadCall => Attention) /\ AtHand /\ AtHand'
      /\ UNCHANGED <<gws, eips, made, given, refs>>
  BY InvParts DEF aws
<1>2. /\ api'.st = api.st /\ step'.at = "idle" /\ UNCHANGED cache
      /\ api.finalizer => api'.finalizer \/ step.at = "release"
      /\ step.at \in {"addFinalizer", "release"}
      /\ ~api'.finalizer => ~api.finalizer
  <2>1. step.at \in {"addFinalizer", "release"}
    BY DEF AddFinalizer, RemoveFinalizer
  <2>2. QED
    BY <1>1, <2>1, FinalizerEffect
<1>3. step.local = 0 /\ step'.local = 0 /\ Running' = Running /\ ~Released'
  BY <1>1, <1>2 DEF AtHand, LocalLabels, Running, Released
<1>4. Facts'
  BY <1>1, <1>2, <1>3 DEF Facts, GivenOut, ReleaseEarned, SoleFound, Waiting,
     Removing
<1>5. ASSUME OneBadCall PROVE Attention'
  <2>1. Attention /\ AsStored
    BY <1>1, <1>2, <1>5 DEF Attention
  <2>2. Held'.nat = Held.nat /\ Held'.eip = Held.eip
    BY <1>2, <2>1 DEF Held, AsStored
  <2>3. step.at = "release" => cache.deleting
    BY <1>1 DEF Protocol, DeletionSeen, Removing
  <2>4. QED
    BY <1>1, <1>2, <1>3, <2>1, <2>2, <2>3 DEF Attention, Removing
<1>6. QED
  BY <1>4, <1>5

LEMMA PersistsWell ==
    ASSUME GatewayInv, UNCHANGED aws, AtHand', Persist
    PROVE  Facts' /\ (OneBadCall => Attention')
<1>1. /\ KubeOK(Statuses, Labels, Exits) /\ Protocol(Removing)
      /\ KindOK(Statuses, Labels, Exits, Removing)
      /\ GivenOut /\ (OneBadCall => Attention) /\ AtHand /\ AtHand'
      /\ UNCHANGED <<gws, eips, made, given, refs>>
  BY InvParts DEF aws
<1>2. /\ step.at = "save" /\ step.ok \in Exits /\ api' \in CRs(Statuses)
      /\ SameBut(api', api, w.st) /\ UNCHANGED cache
      /\ step.ok = "idle" => step'.at = "idle"
      /\ step.ok = "report" => step'.at = "save" /\ w' \in CRs(Statuses)
            /\ SameBut(w', api', [api'.st EXCEPT !.ready = FALSE])
  BY <1>1, PersistEffect
<1>3. api'.st = w.st /\ api'.finalizer = api.finalizer
  BY <1>2 DEF SameBut
<1>4. \/ step'.at = "idle"
      \/ step'.at = "save" /\ SameNames(w', api')
  BY <1>2, NotReadyNames DEF Exits
<1>5. step.local = 0 /\ step'.local = 0 /\ Running' = Running /\ ~Released'
  BY <1>1, <1>2, <1>4 DEF AtHand, LocalLabels, Running, Released
<1>6. Facts'
  BY <1>1, <1>2, <1>3, <1>4, <1>5 DEF Facts, GivenOut, ReleaseEarned, SoleFound,
     Waiting, Removing, SameNames
<1>7. ASSUME OneBadCall PROVE Attention'
  <2>1. Attention
    BY <1>1, <1>7
  <2>2. Held'.nat = Held.nat /\ Held'.eip = Held.eip
    BY <1>2, <1>3, <1>4 DEF Held, SameNames
  <2>3. step'.at = "save" => AsStored'
    BY <1>4 DEF AsStored, SameNames
  <2>4. QED
    BY <1>1, <1>2, <1>4, <1>5, <2>1, <2>2, <2>3 DEF Attention, Removing
<1>8. QED
  BY <1>6, <1>7

LEMMA PersistFailsWell ==
    ASSUME GatewayInv, UNCHANGED aws, AtHand', PersistConflict \/ PersistError
    PROVE  Facts' /\ (OneBadCall => Attention')
<1>1. /\ KubeOK(Statuses, Labels, Exits) /\ Protocol(Removing)
      /\ KindOK(Statuses, Labels, Exits, Removing) /\ faults \in Nat
      /\ GivenOut /\ (OneBadCall => Attention) /\ AtHand /\ AtHand'
      /\ UNCHANGED <<gws, eips, made, given, refs>>
  BY InvParts DEF aws
<1>2. /\ step.at = "save" /\ UNCHANGED <<api, cache>>
      /\ w \in CRs(Statuses) /\ step.err \in {"idle", "report"}
  BY <1>1, PersistFails, WorkersCopy
  DEF PersistConflict, PersistError, KubeOK, WorkerOK
<1>3. Continue(step.err, w, wfresh)
  BY DEF PersistConflict, PersistError
<1>4. \/ step.err = "idle" /\ step'.at = "idle"
      \/ /\ step.err = "report" /\ step'.at = "save" /\ step'.err = "idle"
         /\ SameNames(w', w)
  <2>1. CASE step.err = "idle"
    <3>1. Return
      BY <1>3, <2>1 DEF Continue
    <3>2. QED
      BY <2>1, <3>1 DEF Return, At
  <2>2. CASE step.err = "report"
    <3>1. Write(NotReady(w), "idle", "idle", wfresh)
      BY <1>3, <2>2 DEF Continue
    <3>2. SameBut(NotReady(w), w, [w.st EXCEPT !.ready = FALSE])
      BY <1>1, <1>2, NotReadyType DEF KindOK
    <3>3. SameNames(NotReady(w), w)
      BY <1>2, <3>2, NotReadyNames
    <3>4. QED
      BY <2>2, <3>1, <3>3 DEF Write
  <2>3. QED
    BY <1>2, <2>1, <2>2
<1>5. step.local = 0 /\ step'.local = 0 /\ Running' = Running /\ ~Released'
  BY <1>1, <1>2, <1>4 DEF AtHand, LocalLabels, Running, Released
<1>6. Facts'
  BY <1>1, <1>2, <1>4, <1>5 DEF Facts, GivenOut, ReleaseEarned, SoleFound,
     Waiting, Removing, SameNames
<1>7. ASSUME OneBadCall PROVE Attention'
  <2>1. Attention
    BY <1>1, <1>7
  <2>2. faults' = 1 /\ faults = 0
    <3>1. api.exists
      BY <1>1, <1>2, HeldWhileAtWork DEF Phase, Removing
    <3>2. \E kind \in AllFaults : Fault(kind)
      BY <3>1 DEF PersistConflict, PersistError, AllFaults
    <3>3. QED
      BY <1>1, <1>7, <3>2, OneFault
  <2>3. Held'.nat = Held.nat /\ Held'.eip = Held.eip
    BY <1>2, <1>4, <2>1, <2>2 DEF Held, SameNames, Attention, AsStored
  <2>4. QED
    BY <1>1, <1>2, <1>4, <1>5, <2>1, <2>2, <2>3 DEF Attention, Removing
<1>8. QED
  BY <1>6, <1>7

LEMMA CrashesWell ==
    ASSUME GatewayInv, UNCHANGED aws, AtHand', Crash
    PROVE  Facts' /\ (OneBadCall => Attention')
<1>1. /\ GivenOut /\ AtHand' /\ faults \in Nat
      /\ UNCHANGED <<gws, eips, made, given, refs>>
  BY InvParts DEF aws
<1>2. /\ step'.at = "idle" /\ UNCHANGED <<api, cache>> /\ Fault("crash")
  BY DEF Crash, Return, At, k8s
<1>3. Facts'
  BY <1>1, <1>2 DEF Facts, GivenOut, ReleaseEarned, SoleFound, Waiting, Removing,
     Released
<1>4. ~OneBadCall
  BY <1>1, <1>2, OneFault DEF AllFaults
<1>5. QED
  BY <1>3, <1>4

LEMMA OutsideWell ==
    ASSUME GatewayInv, UNCHANGED aws, AtHand', Users \/ CacheSync
    PROVE  Facts' /\ (OneBadCall => Attention')
<1>1. /\ KubeOK(Statuses, Labels, Exits) /\ Protocol(Removing)
      /\ GivenOut /\ ReleaseEarned /\ SoleFound /\ (OneBadCall => Attention)
      /\ AtHand' /\ UNCHANGED <<gws, eips, made, given, refs>>
  BY InvParts DEF aws
<1>2. /\ UNCHANGED <<w, step, faults, scenario>> /\ Running' = Running
      /\ api'.st = api.st /\ api'.finalizer = api.finalizer
      /\ wfresh' => wfresh /\ api' = api
      /\ cache'.st = cache.st \/ cache'.st = api.st
      /\ cache'.deleting = cache.deleting \/ cache'.deleting = api.deleting
  <2>1. CASE Users
    BY <1>1, <2>1, UserEffect DEF NoFault, Running
  <2>2. CASE CacheSync
    BY <1>1, <2>2 DEF CacheSync, worker, NoFault, Running
  <2>3. QED
    BY <2>1, <2>2
<1>3. Released' = Released /\ Held' = Held
  BY <1>2 DEF Released, Held
<1>4. GivenOut' /\ ReleaseEarned' /\ SoleFound'
  BY <1>1, <1>2, <1>3 DEF GivenOut, ReleaseEarned, SoleFound, Settled, FreeOf,
     Matches, Resolved
<1>5. cache.deleting => cache'.deleting
  BY <1>1, <1>2 DEF Protocol, DeletionSeen
<1>6. ASSUME OneBadCall PROVE Attention'
  BY <1>1, <1>2, <1>3, <1>5, <1>6 DEF Attention, AsStored
<1>7. QED
  BY <1>1, <1>4, <1>6 DEF Facts

LEMMA SharedStep ==
    ASSUME GatewayInv, Shared, UNCHANGED aws
    PROVE  Sound'
<1>1. KubeOK(Statuses, Labels, Exits)' /\ Protocol(Removing)'
  BY InvParts, SharedKept
<1>2. AtHand' /\ Counted
  BY SharedAtHand, SharedCounted
<1>3. Facts' /\ (OneBadCall => Attention')
  BY <1>2, StartsWell, FinalizesWell, PersistsWell, PersistFailsWell,
     CrashesWell, OutsideWell DEF Shared, SharedWork
<1>4. Attentive' /\ Accounted'
  BY <1>2, <1>3, AttentivePrimed
<1>5. AwsOK'
  BY InvParts DEF AwsOK, aws
<1>6. QED
  BY <1>1, <1>3, <1>4, <1>5, Assembled

-----------------------------------------------------------------------------
(* The steps of the handler that create.                                    *)

Working == {"read", "allocate", "create", "undo"}

\* A gateway keeps its subnet and its tags, or has those of the spec now.
Labelled ==
    \A g \in DOMAIN gws' :
        \/ /\ g \in DOMAIN gws /\ gws'[g].subnet = gws[g].subnet
           /\ \/ gws[g].tags \subseteq gws'[g].tags
              \/ w.want.tags \subseteq gws'[g].tags
        \/ /\ step.at = "create"
           /\ gws'[g].subnet = target /\ w.want.tags \subseteq gws'[g].tags

Asking ==
    /\ step.at \in Working
    /\ WorkerOK(Statuses, Labels, Exits)' /\ Counted
    /\ UNCHANGED <<api, cache, cfresh, refs>>
    /\ AwsOK' /\ AtHand' /\ made <= made' /\ Labelled
    /\ step'.at \in {"idle", "allocate", "create", "undo", "save"}
    /\ step'.at = "idle" => step.at = "read"
    /\ step'.at \in {"allocate", "create"} =>
          \/ step.at = "read" /\ target' = Resolved(w.want)
          \/ step.at = "allocate" /\ target' = target
    /\ step'.at # "idle" =>
          /\ w'.abandon = w.abandon /\ w'.want = w.want
          /\ w'.st.nat <= made'
    /\ OneBadCall => Attention'

LEMMA AskingStep ==
    ASSUME GatewayInv, Asking
    PROVE  Sound'
<1>1. /\ KubeOK(Statuses, Labels, Exits) /\ Protocol(Removing) /\ GivenOut
      /\ KindOK(Statuses, Labels, Exits, Removing) /\ AwsOK
      /\ step.at \notin Removing \union {"idle", "addFinalizer"}
      /\ step'.at \notin Removing \union {"addFinalizer"}
      /\ WorkerOK(Statuses, Labels, Exits)' /\ Counted
      /\ UNCHANGED <<api, cache, cfresh>>
  BY InvParts DEF Asking, Removing, Working
<1>2. KubeOK(Statuses, Labels, Exits)' /\ Protocol(Removing)'
  <2>1. \/ step'.at = "idle"
        \/ /\ w'.abandon = w.abandon /\ step'.at # "addFinalizer"
           /\ step.at \notin {"idle", "addFinalizer"}
           /\ step'.at \in Removing <=> step.at \in Removing
    BY <1>1 DEF Asking
  <2>2. QED
    BY <1>1, <2>1, WorkerKept
<1>3. GivenOut'
  <2>1. api.finalizer
    BY <1>1, HeldWhileAtWork
  <2>2. api.st \in Statuses /\ cache.st \in Statuses
    BY <1>1, CopyType DEF KubeOK
  <2>3. /\ api.st.nat \in Nat /\ cache.st.nat \in Nat
        /\ made \in Nat /\ made' \in Nat
    BY <2>2, <1>1, NatGatewayAssumption DEF Asking, AwsOK, Statuses, Ids, None
  <2>4. api.st.nat <= made' /\ cache.st.nat <= made'
    BY <1>1, <2>3 DEF Asking, GivenOut
  <2>5. QED
    BY <1>1, <2>1, <2>4 DEF Asking, AwsOK, GivenOut
<1>4. ReleaseEarned' /\ SoleFound'
  BY <1>1 DEF ReleaseEarned, SoleFound, Waiting, Released, Removing
<1>5. Attentive' /\ Accounted'
  BY <1>1, AttentivePrimed DEF Asking
<1>6. QED
  BY <1>2, <1>3, <1>4, <1>5, Assembled DEF Asking, Facts

-----------------------------------------------------------------------------
(* Where the handler's steps lead.                                          *)

LEMMA GotoKeeps ==
    ASSUME GatewayInv, step.at # "idle", NEW copy \in CRs(Statuses),
           NEW label \in Labels \ {"idle", "save"}, Goto(label, copy)
    PROVE  /\ WorkerOK(Statuses, Labels, Exits)' /\ step'.at = label
           /\ step'.local = 0 /\ w' = copy /\ wfresh' = wfresh
<1>1. wfresh \in BOOLEAN
  BY InvParts
<1>2. step'.local = 0
  BY DEF Goto, At
<1>3. QED
  BY <1>1, <1>2, GotoType

LEMMA GotoWithKeeps ==
    ASSUME GatewayInv, step.at # "idle", NEW copy \in CRs(Statuses),
           NEW label \in Labels \ {"idle", "save"}, NEW x,
           GotoWith(label, copy, x)
    PROVE  /\ WorkerOK(Statuses, Labels, Exits)' /\ step'.at = label
           /\ step'.local = x /\ w' = copy
BY InvParts, GotoWithType

LEMMA SaveKeeps ==
    ASSUME GatewayInv, step.at # "idle", NEW copy \in CRs(Statuses),
           NEW ok \in Exits, Save(copy, ok, "report")
    PROVE  /\ WorkerOK(Statuses, Labels, Exits)' /\ step'.at = "save"
           /\ step'.err = "report" /\ step'.local = 0 /\ w' = copy
<1>1. wfresh \in BOOLEAN /\ Write(copy, ok, "report", wfresh) /\ "save" \in Labels
  BY InvParts DEF Save, Labels
<1>2. step'.err = "report" /\ step'.local = 0
  BY <1>1 DEF Write
<1>3. QED
  BY <1>1, <1>2, WriteType

LEMMA ReportKeeps ==
    ASSUME GatewayInv, step.at # "idle", Report
    PROVE  /\ WorkerOK(Statuses, Labels, Exits)' /\ step'.at = "save"
           /\ step'.local = 0 /\ SameNames(w', w)
<1>1. /\ KubeOK(Statuses, Labels, Exits) /\ w \in CRs(Statuses)
      /\ KindOK(Statuses, Labels, Exits, Removing)
  BY InvParts
<1>2. /\ WorkerOK(Statuses, Labels, Exits)' /\ step'.at = "save"
      /\ SameBut(w', w, [w.st EXCEPT !.ready = FALSE])
  BY <1>1, ReportEffect
<1>3. Write(NotReady(w), "idle", "idle", wfresh)
  BY DEF Report, Continue
<1>4. step'.local = 0
  BY <1>3 DEF Write
<1>5. QED
  BY <1>1, <1>2, <1>4, NotReadyNames

LEMMA ReturnKeeps ==
    ASSUME Return
    PROVE  /\ WorkerOK(Statuses, Labels, Exits)' /\ step'.at = "idle"
           /\ step'.local = 0
<1>1. step'.local = 0 /\ "idle" \in Labels
  BY DEF Return, At, Labels
<1>2. QED
  BY <1>1, ReturnType

\* The worker's copy, when there is one.
LEMMA InHandType ==
    ASSUME GatewayInv, step.at # "idle"
    PROVE  /\ w \in CRs(Statuses)
           /\ w.st.nat \in Ids \union {None} /\ w.st.eip \in Ids \union {None}
           /\ w.st.nat \in Nat /\ w.st.nat <= made /\ made \in Nat
           /\ None \notin DOMAIN gws \union eips
<1>1. w \in CRs(Statuses) /\ AwsOK /\ GivenOut
  BY InvParts
<1>2. w.st \in Statuses
  BY <1>1, CopyType
<1>3. w.st.nat \in Ids \union {None} /\ w.st.eip \in Ids \union {None}
  BY <1>2 DEF Statuses
<1>4. made \in Nat /\ w.st.nat \in Nat
  BY <1>1, <1>3, NatGatewayAssumption DEF AwsOK, Ids, None
<1>5. QED
  BY <1>1, <1>3, <1>4 DEF AwsOK, GivenOut, None

\* What the handler knows where it creates.
LEMMA AtWork ==
    ASSUME GatewayInv, step.at \in Working
    PROVE  /\ step.at # "idle" /\ w \in CRs(Statuses) /\ AwsOK /\ AtHand
           /\ faults \in Nat /\ w.st.nat \in Nat
           /\ w.st.nat <= made /\ made \in Nat
           /\ OneBadCall =>
                 /\ DOMAIN gws = Running /\ DOMAIN gws \subseteq {w.st.nat}
                 /\ w.st.nat # None => w.st.nat \in Running
                 /\ w.st.nat = None => w.st.eip = None
                 /\ eips \subseteq {w.st.eip, step.local}
                 /\ AsStored
                 /\ step.at # "read" => w.st.nat = None
                 /\ step.at = "undo" => faults = 1
<1>1. step.at \notin Removing \union {"idle", "save"}
  BY DEF Working, Removing
<1>2. QED
  BY <1>1, InvParts, InHandType DEF Attention, Held, Working

\* A report, when AWS has no gateway that it had not before.
LEMMA Reported ==
    ASSUME GatewayInv, step.at \in Working, Counted, Report, AwsOK', Labelled,
           UNCHANGED <<api, cache, cfresh, made, refs>>,
           DOMAIN gws' = DOMAIN gws, Running' = Running,
           OneBadCall => eips' \subseteq {w.st.eip}
    PROVE  Asking
<1>1. /\ step.at # "idle" /\ w.st.nat <= made /\ made \in Nat
      /\ OneBadCall =>
            /\ DOMAIN gws = Running /\ DOMAIN gws \subseteq {w.st.nat}
            /\ w.st.nat # None => w.st.nat \in Running
            /\ w.st.nat = None => w.st.eip = None
            /\ AsStored
  BY AtWork
<1>2. /\ WorkerOK(Statuses, Labels, Exits)' /\ step'.at = "save"
      /\ step'.local = 0 /\ SameNames(w', w)
  BY <1>1, ReportKeeps
<1>3. AtHand'
  BY <1>2 DEF AtHand
<1>4. OneBadCall => Attention'
  BY <1>1, <1>2, <1>3 DEF Attention, Held, AsStored, SameNames, Removing, Released
<1>5. QED
  BY <1>1, <1>2, <1>3, <1>4 DEF Asking, SameNames

LEMMA SameAws ==
    ASSUME GatewayInv, UNCHANGED <<gws, eips, made, given, refs>>,
           target' \in Places
    PROVE  AwsOK' /\ Running' = Running /\ Labelled
BY InvParts DEF AwsOK, Running, Labelled

-----------------------------------------------------------------------------
(* Every step of the handler is one of these.                               *)

LEMMA GatewayParts ==
    ASSUME NEW g \in Gateways
    PROVE  g.subnet \in Places /\ g.tags \in SUBSET Tags
BY DEF Gateways

LEMMA GatewayTagged ==
    ASSUME NEW g \in Gateways, NEW tags \in SUBSET Tags
    PROVE  /\ [g EXCEPT !.tags = tags] \in Gateways
           /\ [g EXCEPT !.tags = tags].state = g.state
           /\ [g EXCEPT !.tags = tags].subnet = g.subnet
           /\ [g EXCEPT !.tags = tags].tags = tags
BY DEF Gateways

LEMMA SpecParts ==
    ASSUME NEW want \in Specs
    PROVE  want.subnet \in Subnets /\ want.tags \in SUBSET Tags
BY DEF Specs

\* The tags of the gateway that the copy names are set to these.
Setting(tags) ==
    /\ Finds({"available"}) /\ SetTags(tags)
    /\ w.want.tags \subseteq tags \/ gws[w.st.nat].tags \subseteq tags
    /\ UNCHANGED <<api, cache, cfresh, eips, made, given, refs, target>>

LEMMA SetsTags ==
    ASSUME GatewayInv, NEW tags \in SUBSET Tags, Setting(tags)
    PROVE  /\ AwsOK' /\ Running' = Running /\ Labelled
           /\ DOMAIN gws' = DOMAIN gws
<1>1. /\ AwsOK /\ w.st.nat \in DOMAIN gws
      /\ gws' = [gws EXCEPT ![w.st.nat].tags = tags]
  BY InvParts DEF Setting, Finds, InState, SetTags
<1>2. PICK new : new = [gws[w.st.nat] EXCEPT !.tags = tags]
  OBVIOUS
<1>3. /\ DOMAIN gws' = DOMAIN gws /\ gws'[w.st.nat] = new
      /\ \A g \in DOMAIN gws : g # w.st.nat => gws'[g] = gws[g]
  BY <1>1, <1>2
<1>4. /\ new \in Gateways /\ new.state = gws[w.st.nat].state
      /\ new.subnet = gws[w.st.nat].subnet /\ new.tags = tags
  <2>1. gws[w.st.nat] \in Gateways
    BY <1>1 DEF AwsOK
  <2>2. QED
    BY <1>2, <2>1, GatewayTagged
<1>5. AwsOK'
  BY <1>1, <1>3, <1>4 DEF AwsOK, Setting
<1>6. Running' = Running
  BY <1>3, <1>4 DEF Running
<1>7. Labelled
  <2>1. SUFFICES ASSUME NEW g \in DOMAIN gws
                 PROVE  /\ gws'[g].subnet = gws[g].subnet
                        /\ \/ gws[g].tags \subseteq gws'[g].tags
                           \/ w.want.tags \subseteq gws'[g].tags
    BY <1>3 DEF Labelled
  <2>2. CASE g = w.st.nat
    BY <1>3, <1>4, <2>2 DEF Setting
  <2>3. CASE g # w.st.nat
    BY <1>3, <2>3
  <2>4. QED
    BY <2>2, <2>3
<1>8. QED
  BY <1>3, <1>5, <1>6, <1>7

\* What the handler has in hand where it looks.
LEMMA AtRead ==
    ASSUME GatewayInv, step.at = "read"
    PROVE  /\ step.at # "idle" /\ step.at \in Working
           /\ w \in CRs(Statuses) /\ w.want.tags \in SUBSET Tags
           /\ w.st.nat <= made /\ made \in Nat /\ step.local = 0
           /\ \A g \in DOMAIN gws : gws[g].tags \in SUBSET Tags
           /\ refs[w.want.subnet] \in Places /\ target \in Places
           /\ OneBadCall =>
                 /\ DOMAIN gws = Running /\ DOMAIN gws \subseteq {w.st.nat}
                 /\ w.st.nat # None => w.st.nat \in Running
                 /\ w.st.nat = None => w.st.eip = None
                 /\ eips \subseteq {w.st.eip}
                 /\ AsStored
<1>1. step.at \in Working /\ step.at \notin LocalLabels
  BY DEF Working, LocalLabels
<1>2. /\ step.at # "idle" /\ w \in CRs(Statuses) /\ AtHand /\ AwsOK
      /\ w.st.nat <= made /\ made \in Nat
      /\ OneBadCall =>
            /\ DOMAIN gws = Running /\ DOMAIN gws \subseteq {w.st.nat}
            /\ w.st.nat # None => w.st.nat \in Running
            /\ w.st.nat = None => w.st.eip = None
            /\ eips \subseteq {w.st.eip, step.local}
            /\ AsStored
  BY <1>1, AtWork
<1>3. step.local = 0 /\ None \notin eips
  BY <1>1, <1>2, InHandType DEF AtHand
<1>4. w.want \in Specs
  BY <1>2, NatGatewayAssumption DEF CRs
<1>5. w.want.subnet \in Subnets /\ w.want.tags \in SUBSET Tags
  BY <1>4, SpecParts
<1>6. \A g \in DOMAIN gws : gws[g].tags \in SUBSET Tags
  <2>1. \A g \in DOMAIN gws : gws[g] \in Gateways
    BY <1>2 DEF AwsOK
  <2>2. QED
    BY <2>1, GatewayParts
<1>7. refs[w.want.subnet] \in Places /\ target \in Places
  BY <1>2, <1>5 DEF AwsOK
<1>8. QED
  BY <1>1, <1>2, <1>3, <1>5, <1>6, <1>7 DEF None

LEMMA SyncsWell == ASSUME GatewayInv, Available \/ SyncFails PROVE Asking
<1>1. /\ step.at = "read" /\ Finds({"available"})
      /\ UNCHANGED <<api, cache, cfresh, eips, made, given, refs, target>>
      /\ Counted /\ w.st.nat \in DOMAIN gws
      /\ \E tags \in {w.want.tags, gws[w.st.nat].tags \union w.want.tags} :
            SetTags(tags)
  BY DEF Available, SyncFails, Finds, InState, k8s, Counted, AllFaults
<1>2. PICK tags \in SUBSET Tags : w.want.tags \subseteq tags /\ SetTags(tags)
  BY <1>1, AtRead
<1>3. /\ AwsOK' /\ Running' = Running /\ Labelled /\ DOMAIN gws' = DOMAIN gws
  BY <1>1, <1>2, SetsTags DEF Setting
<1>4. CASE Available
  <2>1. PICK new : new = ReadyNow(Observed(w))
    OBVIOUS
  <2>2. new \in CRs(Statuses) /\ SameNames(new, w)
    BY <1>1, <2>1, AtRead, ReadyNames
  <2>3. Save(new, "idle", "report")
    BY <1>4, <2>1 DEF Available
  <2>4. /\ WorkerOK(Statuses, Labels, Exits)' /\ step'.at = "save"
        /\ step'.err = "report" /\ step'.local = 0 /\ w' = new
    BY <1>1, <2>2, <2>3, SaveKeeps DEF Exits
  <2>5. AtHand'
    BY <2>4 DEF AtHand
  <2>6. OneBadCall => Attention'
    BY <1>1, <1>3, <2>2, <2>4, AtRead
    DEF Attention, Held, AsStored, SameNames, Removing, Released
  <2>7. w'.st.nat <= made' /\ made <= made'
    BY <1>1, <2>2, <2>4, AtRead DEF SameNames
  <2>8. QED
    BY <1>1, <1>3, <2>2, <2>4, <2>5, <2>6, <2>7, AtRead DEF Asking, SameNames
<1>5. CASE SyncFails
  <2>1. OneBadCall => eips' \subseteq {w.st.eip}
    BY <1>1, AtRead
  <2>2. QED
    BY <1>1, <1>3, <1>5, <2>1, AtRead, Reported DEF SyncFails
<1>6. QED
  BY <1>4, <1>5

LEMMA LooksWell == ASSUME GatewayInv, StillPending \/ Unresolved PROVE Asking
<1>1. /\ step.at = "read" /\ Counted
      /\ UNCHANGED <<api, cache, cfresh>> /\ UNCHANGED aws
      /\ Report \/ (Return /\ Unresolved)
  BY DEF StillPending, Unresolved, Finds, k8s, Counted
<1>2. /\ AwsOK' /\ Running' = Running /\ Labelled
      /\ UNCHANGED <<gws, eips, made, given, refs, target>>
  BY <1>1, SameAws, AtRead DEF aws
<1>3. CASE Report
  <2>1. OneBadCall => eips' \subseteq {w.st.eip}
    BY <1>1, <1>2, AtRead
  <2>2. QED
    BY <1>1, <1>2, <1>3, <2>1, AtRead, Reported
<1>4. CASE Return
  <2>1. /\ WorkerOK(Statuses, Labels, Exits)' /\ step'.at = "idle"
        /\ step'.local = 0
    BY <1>4, ReturnKeeps
  <2>2. AtHand'
    BY <2>1 DEF AtHand
  <2>3. OneBadCall => Attention'
    BY <1>1, <1>2, <2>1, AtRead
    DEF Attention, Held, AsStored, Removing, Released
  <2>4. made <= made'
    BY <1>1, <1>2, AtRead
  <2>5. QED
    BY <1>1, <1>2, <2>1, <2>2, <2>3, <2>4, AtRead DEF Asking
<1>5. QED
  BY <1>1, <1>3, <1>4

LEMMA ReplacesWell == ASSUME GatewayInv, NoGateway PROVE Asking
<1>1. /\ step.at = "read" /\ step.at \in Working /\ Counted
      /\ ~InState(w.st.nat, {"available", "pending"})
      /\ UNCHANGED <<api, cache, cfresh, gws, eips, made, given, refs>>
  BY DEF NoGateway, Working, k8s, Counted
<1>2. /\ step.at # "idle" /\ w \in CRs(Statuses) /\ AtHand
      /\ w.st.nat <= made /\ made \in Nat
      /\ OneBadCall =>
            /\ DOMAIN gws = Running /\ DOMAIN gws \subseteq {w.st.nat}
            /\ w.st.nat # None => w.st.nat \in Running
            /\ w.st.nat = None => w.st.eip = None
            /\ eips \subseteq {w.st.eip, step.local}
            /\ AsStored
  BY <1>1, AtWork
<1>3. target' = Resolved(w.want)
  BY DEF NoGateway, Create
<1>4. AwsOK' /\ Running' = Running /\ Labelled
  BY <1>1, <1>3, SameAws, AtRead DEF Resolved
<1>5. step.local = 0 /\ None \notin DOMAIN gws \union eips
  BY <1>1, <1>2, InHandType DEF AtHand, LocalLabels
<1>6. PICK new \in CRs(Statuses) :
         /\ Create(new) /\ new.abandon = w.abandon /\ new.want = w.want
         /\ new.st.nat \in {w.st.nat, None}
         /\ Known(w.st.nat) \/ SameNames(new, w)
  <2>1. CASE Known(w.st.nat)
    <3>1. Create(With(w, None, None))
      BY <2>1 DEF NoGateway
    <3>2. /\ With(w, None, None) \in CRs(Statuses)
          /\ With(w, None, None).st.nat = None
          /\ With(w, None, None).abandon = w.abandon
          /\ With(w, None, None).want = w.want
      BY <1>2, WithType
    <3>3. QED
      BY <2>1, <3>1, <3>2
  <2>2. CASE ~Known(w.st.nat)
    BY <1>2, <2>2 DEF NoGateway, SameNames
  <2>3. QED
    BY <2>1, <2>2
<1>7. PICK label \in {"allocate", "create"} : Goto(label, new)
  BY <1>6 DEF Create
<1>8. /\ WorkerOK(Statuses, Labels, Exits)' /\ step'.at = label
      /\ step'.local = 0 /\ w' = new
  BY <1>2, <1>7, GotoKeeps DEF Labels
<1>9. AtHand'
  BY <1>8 DEF AtHand
<1>10. OneBadCall => Attention'
  <2>1. SUFFICES ASSUME OneBadCall PROVE Attention'
    OBVIOUS
  <2>2. w.st.nat = None /\ ~Known(w.st.nat)
    BY <1>1, <1>2, <1>5, <2>1 DEF InState, Running, Known
  <2>3. SameNames(new, w) /\ step'.at \notin {"idle", "save", "undo", "release"}
    BY <1>6, <1>8, <2>2
  <2>4. QED
    BY <1>1, <1>2, <1>5, <1>8, <1>4, <2>1, <2>2, <2>3
    DEF Attention, Held, AsStored, SameNames, Released
<1>11. w'.st.nat <= made'
  BY <1>1, <1>2, <1>6, <1>8 DEF None
<1>12. QED
  BY <1>1, <1>2, <1>3, <1>6, <1>8, <1>9, <1>10, <1>11, <1>4 DEF Asking

LEMMA AllocatesWell == ASSUME GatewayInv, AllocateAddress PROVE Asking
<1>1. /\ step.at = "allocate" /\ step.at \in Working /\ given < MaxIds
      /\ given' = given + 1 /\ eips' = eips \union {given'}
      /\ UNCHANGED <<api, cache, cfresh, gws, made, refs, target>>
  BY DEF AllocateAddress, Working, k8s
<1>2. /\ step.at # "idle" /\ w \in CRs(Statuses) /\ AtHand /\ AwsOK
      /\ faults \in Nat /\ w.st.nat <= made /\ made \in Nat
      /\ OneBadCall =>
            /\ DOMAIN gws = Running /\ DOMAIN gws \subseteq {w.st.nat}
            /\ w.st.nat # None => w.st.nat \in Running
            /\ w.st.nat = None => w.st.eip = None
            /\ eips \subseteq {w.st.eip, step.local}
            /\ AsStored
            /\ w.st.nat = None
  BY <1>1, AtWork
<1>3. step.local = 0 /\ None \notin eips
  BY <1>1, <1>2, InHandType DEF AtHand, LocalLabels
<1>4. given' \in Ids /\ given' # 0
  BY <1>1, <1>2, NatGatewayAssumption DEF AwsOK, Ids
<1>5. AwsOK' /\ Running' = Running /\ Labelled
  <2>1. eips' \subseteq 1 .. given' /\ given' \in 0 .. MaxIds
    BY <1>1, <1>2, NatGatewayAssumption DEF AwsOK
  <2>2. QED
    BY <1>1, <1>2, <2>1 DEF AwsOK, Running, Labelled
<1>6. CASE GotoWith("create", w, given') /\ NoFault
  <2>1. /\ WorkerOK(Statuses, Labels, Exits)' /\ step'.at = "create"
        /\ step'.local = given' /\ w' = w
    BY <1>2, <1>6, GotoWithKeeps DEF Labels
  <2>2. AtHand' /\ Counted
    BY <1>4, <1>6, <2>1 DEF AtHand, LocalLabels, Counted
  <2>3. OneBadCall => Attention'
    BY <1>1, <1>2, <1>3, <1>5, <2>1
    DEF Attention, Held, AsStored, Removing, Released, None
  <2>4. QED
    BY <1>1, <1>2, <1>5, <2>1, <2>2, <2>3 DEF Asking
<1>7. CASE Report /\ Fault("lost")
  <2>1. ~OneBadCall /\ Counted
    BY <1>2, <1>7, OneFault DEF Counted, AllFaults
  <2>2. QED
    BY <1>1, <1>5, <1>7, <2>1, Reported
<1>8. QED
  BY <1>6, <1>7 DEF AllocateAddress

LEMMA CreatesWell == ASSUME GatewayInv, CreateNatGateway PROVE Asking
<1>1. /\ step.at = "create" /\ step.at \in Working /\ made < MaxIds
      /\ made' = made + 1
      /\ gws' = [g \in DOMAIN gws \union {made'} |->
                   IF g = made'
                   THEN [state |-> "pending", eip |-> step.local,
                         subnet |-> target, tags |-> w.want.tags]
                   ELSE gws[g]]
      /\ UNCHANGED <<api, cache, cfresh, eips, given, refs, target>>
  BY DEF CreateNatGateway, Working, k8s
<1>2. /\ step.at # "idle" /\ w \in CRs(Statuses) /\ AtHand /\ AwsOK
      /\ faults \in Nat /\ w.st.nat \in Nat /\ w.st.nat <= made /\ made \in Nat
      /\ OneBadCall =>
            /\ DOMAIN gws \subseteq {w.st.nat}
            /\ w.st.nat = None /\ w.st.eip = None
            /\ eips \subseteq {w.st.eip, step.local}
  BY <1>1, AtWork
<1>3. made' \in Ids /\ made' \notin DOMAIN gws /\ made' \in 0 .. MaxIds
  BY <1>1, <1>2, NatGatewayAssumption DEF AwsOK, Ids
<1>4. step.local \in Ids \union {None}
  BY <1>2 DEF AtHand, None
<1>5. None \notin DOMAIN gws \union eips /\ made' # None
  BY <1>2, <1>3, InHandType DEF Ids, None
<1>6. /\ DOMAIN gws' = DOMAIN gws \union {made'}
      /\ gws'[made'] = [state |-> "pending", eip |-> step.local,
                         subnet |-> target, tags |-> w.want.tags]
      /\ \A g \in DOMAIN gws : gws'[g] = gws[g]
  BY <1>1, <1>3
<1>7. AwsOK'
  <2>1. DOMAIN gws' \subseteq 1 .. made'
    BY <1>1, <1>2, <1>6 DEF AwsOK
  <2>2. target \in Places /\ w.want \in Specs
    BY <1>2, NatGatewayAssumption DEF AwsOK, CRs
  <2>3. gws'[made'] \in Gateways
    BY <1>4, <1>6, <2>2 DEF Gateways, States, Specs
  <2>4. QED
    BY <1>1, <1>2, <1>3, <1>6, <2>1, <2>3 DEF AwsOK
<1>8. Labelled
  BY <1>1, <1>6 DEF Labelled
<1>9. Running' = Running \union {made'}
  BY <1>6 DEF Running
<1>10. CASE Save(With(w, made', step.local), "report", "report") /\ NoFault
  <2>1. PICK new : new = With(w, made', step.local)
    OBVIOUS
  <2>2. /\ new \in CRs(Statuses) /\ new.st.nat = made'
        /\ new.st.eip = step.local /\ new.abandon = w.abandon
        /\ new.want = w.want
    BY <1>2, <1>3, <1>4, <2>1, WithType
  <2>3. /\ WorkerOK(Statuses, Labels, Exits)' /\ step'.at = "save"
        /\ step'.err = "report" /\ step'.local = 0 /\ w' = new
    BY <1>2, <1>10, <2>1, <2>2, SaveKeeps DEF Exits
  <2>4. AtHand' /\ Counted /\ made \in Nat /\ made <= made'
    BY <1>1, <1>2, <1>10, <2>3 DEF AtHand, Counted
  <2>5. OneBadCall => Attention'
    BY <1>1, <1>2, <1>5, <1>6, <1>9, <2>2, <2>3
    DEF Attention, Held, Running, Removing, Released, None
  <2>6. w'.st.nat <= made'
    BY <1>3, <2>2, <2>3
  <2>7. QED
    BY <1>1, <1>7, <1>8, <2>2, <2>3, <2>4, <2>5, <2>6 DEF Asking
<1>11. CASE GotoWith("undo", w, step.local) /\ Fault("lost")
  <2>1. ~OneBadCall /\ Counted
    BY <1>2, <1>11, OneFault DEF Counted, AllFaults
  <2>2. /\ WorkerOK(Statuses, Labels, Exits)' /\ step'.at = "undo"
        /\ step'.local = step.local /\ w' = w
    BY <1>2, <1>11, GotoWithKeeps DEF Labels
  <2>3. AtHand'
    BY <1>2, <2>2 DEF AtHand, LocalLabels
  <2>4. made <= made' /\ w'.st.nat <= made'
    BY <1>1, <1>2, <2>2
  <2>5. QED
    BY <1>1, <1>7, <1>8, <2>1, <2>2, <2>3, <2>4 DEF Asking
<1>12. QED
  BY <1>10, <1>11 DEF CreateNatGateway

LEMMA RefusesWell == ASSUME GatewayInv, CreateRefused PROVE Asking
<1>1. /\ step.at = "create" /\ step.at \in Working /\ Fault("refused")
      /\ GotoWith("undo", w, step.local)
      /\ UNCHANGED <<api, cache, cfresh>> /\ UNCHANGED aws
  BY DEF CreateRefused, Working, k8s
<1>2. /\ step.at # "idle" /\ w \in CRs(Statuses) /\ AtHand
      /\ faults \in Nat /\ w.st.nat <= made /\ made \in Nat
      /\ OneBadCall =>
            /\ DOMAIN gws = Running /\ DOMAIN gws \subseteq {w.st.nat}
            /\ w.st.nat = None /\ w.st.eip = None
            /\ eips \subseteq {w.st.eip, step.local}
            /\ AsStored
  BY <1>1, AtWork
<1>3. /\ AwsOK' /\ Running' = Running /\ Labelled
      /\ UNCHANGED <<gws, eips, made, given, refs, target>>
  BY <1>1, SameAws, AtWork DEF aws, AwsOK
<1>4. /\ WorkerOK(Statuses, Labels, Exits)' /\ step'.at = "undo"
      /\ step'.local = step.local /\ w' = w
  BY <1>1, <1>2, GotoWithKeeps DEF Labels
<1>5. AtHand' /\ Counted /\ (OneBadCall => faults' = 1)
  BY <1>1, <1>2, <1>4, OneFault DEF AtHand, LocalLabels, Counted, AllFaults
<1>6. OneBadCall => Attention'
  BY <1>1, <1>2, <1>3, <1>4, <1>5
  DEF Attention, Held, AsStored, Removing, Released
<1>7. QED
  BY <1>1, <1>2, <1>3, <1>4, <1>5, <1>6 DEF Asking

LEMMA UndoesWell == ASSUME GatewayInv, UndoAllocate PROVE Asking
<1>1. /\ step.at = "undo" /\ step.at \in Working /\ Report
      /\ UNCHANGED <<api, cache, cfresh, gws, made, given, refs, target>>
      /\ \/ Release(step.local) /\ NoFault
         \/ UNCHANGED eips /\ Fault("error")
  BY DEF UndoAllocate, Working, k8s
<1>2. /\ AwsOK /\ faults \in Nat
      /\ OneBadCall =>
            /\ DOMAIN gws \subseteq {w.st.nat}
            /\ w.st.nat = None /\ w.st.eip = None
            /\ eips \subseteq {w.st.eip, step.local}
            /\ faults = 1
  BY <1>1, AtWork
<1>3. Counted
  BY <1>1 DEF Counted, AllFaults
<1>4. eips' \subseteq eips
  BY <1>1 DEF Release
<1>5. AwsOK' /\ Running' = Running /\ Labelled
  BY <1>1, <1>2, <1>4 DEF AwsOK, Running, Labelled
<1>6. OneBadCall => eips' \subseteq {w.st.eip}
  <2>1. SUFFICES ASSUME OneBadCall PROVE eips' \subseteq {w.st.eip}
    OBVIOUS
  <2>2. None \notin DOMAIN gws
    BY <1>1, InHandType
  <2>3. ~InUse(step.local)
    BY <1>2, <2>1, <2>2 DEF InUse
  <2>4. Release(step.local)
    BY <1>1, <1>2, <2>1, OneFault DEF AllFaults
  <2>5. QED
    BY <1>2, <2>1, <2>3, <2>4 DEF Release
<1>7. QED
  BY <1>1, <1>3, <1>5, <1>6, Reported

LEMMA FailsWell ==
    ASSUME GatewayInv, CallError, step.at \in {"read", "allocate"}
    PROVE  Asking
<1>1. /\ step.at \in Working /\ step.at \notin LocalLabels /\ Report /\ Counted
      /\ UNCHANGED <<api, cache, cfresh>> /\ UNCHANGED aws
  BY DEF CallError, Working, LocalLabels, k8s, Counted, AllFaults
<1>2. AtHand /\ (OneBadCall => eips \subseteq {w.st.eip, step.local})
  BY <1>1, AtWork
<1>3. /\ AwsOK' /\ Running' = Running /\ Labelled
      /\ UNCHANGED <<gws, eips, made, refs>> /\ None \notin eips
  BY <1>1, SameAws, AtWork, InHandType DEF Working, aws, AwsOK
<1>4. OneBadCall => eips' \subseteq {w.st.eip}
  BY <1>1, <1>2, <1>3 DEF AtHand, None
<1>5. QED
  BY <1>1, <1>3, <1>4, Reported

-----------------------------------------------------------------------------
(* The steps of the deletion.                                               *)

\* It returns, or goes on: to the gateway that its copy names, or past it when
\* that does not run.
SameLabels ==
    \A g \in DOMAIN gws' :
        /\ g \in DOMAIN gws /\ gws'[g].subnet = gws[g].subnet
        /\ gws'[g].tags = gws[g].tags
Undescribed == \A g \in Running : ~Matches(g, w.want)

Deleting ==
    /\ step.at \in Removing \ {"release"}
    /\ WorkerOK(Statuses, Labels, Exits)' /\ Counted
    /\ UNCHANGED <<api, cache, cfresh, made, given, refs>>
    /\ AwsOK' /\ step'.local = 0 /\ Running' \subseteq Running /\ SameLabels
    /\ step'.at \in (Removing \ {"delete"}) \union {"idle"}
    /\ step'.at # "idle" =>
          /\ w'.abandon = w.abandon /\ w'.want = w.want
          /\ wfresh' = wfresh /\ w'.st.nat <= made
          /\ w'.st.nat = w.st.nat \/ w.st.nat = None
          /\ step'.at = "deleteGateway" \/ w'.st.nat \notin Running'
          /\ step'.at = "release" \/ w'.st.nat # None
          /\ step'.at = "release" /\ made = 1 => Undescribed'
    /\ OneBadCall => Attention'

LEMMA DeletingStep ==
    ASSUME GatewayInv, Deleting
    PROVE  Sound'
<1>1. /\ KubeOK(Statuses, Labels, Exits) /\ Protocol(Removing) /\ GivenOut
      /\ KindOK(Statuses, Labels, Exits, Removing) /\ ReleaseEarned
      /\ WorkerOK(Statuses, Labels, Exits)' /\ Counted
      /\ UNCHANGED <<api, cache, cfresh>>
      /\ step.at \in Removing /\ step'.at \in Removing \union {"idle"}
  BY InvParts DEF Deleting, Removing
<1>2. KubeOK(Statuses, Labels, Exits)' /\ Protocol(Removing)'
  <2>1. \/ step'.at = "idle"
        \/ /\ w'.abandon = w.abandon /\ step'.at # "addFinalizer"
           /\ step.at \notin {"idle", "addFinalizer"}
           /\ step'.at \in Removing <=> step.at \in Removing
    BY <1>1 DEF Deleting, Removing
  <2>2. QED
    BY <1>1, <2>1, WorkerKept
<1>3. GivenOut'
  BY <1>1 DEF GivenOut, Deleting, AwsOK
<1>4. ReleaseEarned'
  <2>1. ASSUME step'.at # "idle", wfresh'
        PROVE  api'.st.nat \in {w'.st.nat, None} /\ w'.want = api'.want
    BY <1>1, <2>1 DEF ReleaseEarned, Deleting
  <2>2. QED
    BY <1>1, <2>1 DEF ReleaseEarned, Deleting, Released, Waiting, Removing
<1>5. SoleFound'
  BY DEF SoleFound, Released, Deleting, Undescribed
<1>6. AtHand'
  BY DEF AtHand, Deleting
<1>7. Attentive' /\ Accounted'
  BY <1>1, <1>6, AttentivePrimed DEF Deleting
<1>8. QED
  BY <1>2, <1>3, <1>4, <1>5, <1>6, <1>7, Assembled DEF Deleting, Facts

\* What the handler knows where it deletes.
LEMMA AtDeletion ==
    ASSUME GatewayInv, step.at \in Removing \ {"release"}
    PROVE  /\ step.at # "idle" /\ w \in CRs(Statuses) /\ AwsOK /\ faults \in Nat
           /\ w.st.nat \in Nat /\ w.st.nat <= made /\ made \in Nat
           /\ None \notin DOMAIN gws \union eips
           /\ cache.deleting /\ step.local = 0
           /\ step.at \in Waiting => w.st.nat \notin Running
           /\ step.at # "delete" => w.st.nat # None
           /\ OneBadCall =>
                 /\ DOMAIN gws \subseteq {w.st.nat}
                 /\ eips \subseteq {w.st.eip}
                 /\ w.st.nat = None => w.st.eip = None
                 /\ AsStored
<1>1. step.at \notin {"idle", "save"} /\ step.at \notin LocalLabels
  BY DEF Removing, LocalLabels
<1>2. /\ w \in CRs(Statuses) /\ AwsOK /\ AtHand /\ ReleaseEarned
      /\ Protocol(Removing) /\ faults \in Nat /\ (OneBadCall => Attention)
      /\ w.st.nat \in Nat /\ w.st.nat <= made /\ made \in Nat
      /\ None \notin DOMAIN gws \union eips
  BY <1>1, InvParts, InHandType
<1>3. step.local = 0
  BY <1>1, <1>2 DEF AtHand
<1>4. cache.deleting
  BY <1>2 DEF Protocol, DeletionSeen
<1>5. /\ step.at \in Waiting => w.st.nat \notin Running
      /\ step.at # "delete" => w.st.nat # None
  BY <1>2 DEF ReleaseEarned, Removing, Waiting
<1>6. ASSUME OneBadCall
      PROVE  /\ DOMAIN gws \subseteq {w.st.nat} /\ eips \subseteq {w.st.eip}
             /\ w.st.nat = None => w.st.eip = None
             /\ AsStored
  BY <1>1, <1>2, <1>3, <1>6 DEF Attention, Held, None
<1>7. QED
  BY <1>1, <1>2, <1>3, <1>4, <1>5, <1>6

LEMMA SameAll ==
    ASSUME GatewayInv, UNCHANGED aws
    PROVE  /\ AwsOK' /\ Running' = Running /\ SameLabels
           /\ UNCHANGED <<gws, eips, made, given, refs>>
BY InvParts DEF AwsOK, Running, SameLabels, aws

\* The deletion gives up for now.
LEMMA Returns ==
    ASSUME GatewayInv, step.at \in Removing \ {"release"}, Return, Counted,
           UNCHANGED <<api, cache, cfresh>>, UNCHANGED aws
    PROVE  Deleting
<1>1. /\ cache.deleting
      /\ OneBadCall =>
            /\ DOMAIN gws \subseteq {w.st.nat} /\ eips \subseteq {w.st.eip}
            /\ w.st.nat = None => w.st.eip = None
            /\ AsStored
  BY AtDeletion
<1>2. /\ WorkerOK(Statuses, Labels, Exits)' /\ step'.at = "idle"
      /\ step'.local = 0
  BY ReturnKeeps
<1>3. AwsOK' /\ Running' = Running /\ UNCHANGED <<gws, eips, made, given, refs>>
      /\ SameLabels
  BY SameAll
<1>4. OneBadCall => Attention'
  BY <1>1, <1>2, <1>3 DEF Attention, Held, AsStored, Released
<1>5. QED
  BY <1>2, <1>3, <1>4 DEF Deleting

\* The deletion goes on with the copy it has.
LEMMA GoesOn ==
    ASSUME GatewayInv, step.at \in Removing \ {"release"}, Counted,
           NEW label \in Removing \ {"delete"}, Goto(label, w),
           UNCHANGED <<api, cache, cfresh, made, given, refs>>, AwsOK',
           DOMAIN gws' = DOMAIN gws, Running' \subseteq Running, SameLabels,
           eips' \subseteq eips,
           label = "deleteGateway" \/ w.st.nat \notin Running',
           label = "release" \/ w.st.nat # None,
           label = "release" /\ made = 1 =>
               Running' = {} \/ (Undescribed /\ UNCHANGED gws),
           OneBadCall /\ label = "release" => eips' = {}
    PROVE  Deleting
<1>1. /\ step.at # "idle" /\ w \in CRs(Statuses) /\ w.st.nat <= made
      /\ cache.deleting
      /\ OneBadCall =>
            /\ DOMAIN gws \subseteq {w.st.nat} /\ eips \subseteq {w.st.eip}
            /\ w.st.nat = None => w.st.eip = None
            /\ AsStored
  BY AtDeletion
<1>2. label \in Labels \ {"idle", "save"}
  BY DEF Removing, Labels
<1>3. /\ WorkerOK(Statuses, Labels, Exits)' /\ step'.at = label
      /\ step'.local = 0 /\ w' = w /\ wfresh' = wfresh
  BY <1>1, <1>2, GotoKeeps
<1>4. OneBadCall => Attention'
  BY <1>1, <1>2, <1>3 DEF Attention, Held, AsStored, Released, Removing
<1>5. label = "release" /\ made = 1 => Undescribed'
  BY <1>3 DEF Undescribed, Matches, Resolved, Running
<1>6. QED
  BY <1>1, <1>3, <1>4, <1>5 DEF Deleting

LEMMA AdoptsWell == ASSUME GatewayInv, Adopt PROVE Deleting
<1>1. /\ step.at = "delete" /\ step.at \in Removing \ {"release"} /\ Counted
      /\ UNCHANGED <<api, cache, cfresh>> /\ UNCHANGED aws
  BY DEF Adopt, Removing, k8s, Counted
<1>2. /\ step.at # "idle" /\ w \in CRs(Statuses) /\ AwsOK
      /\ w.st.eip \in Ids \union {None} /\ made \in Nat
      /\ None \notin DOMAIN gws \union eips
      /\ OneBadCall =>
            /\ DOMAIN gws \subseteq {w.st.nat} /\ eips \subseteq {w.st.eip}
            /\ w.st.nat = None => w.st.eip = None
  BY <1>1, AtDeletion, InHandType
<1>3. /\ AwsOK' /\ Running' = Running /\ SameLabels
      /\ UNCHANGED <<gws, eips, made, given, refs>>
  BY <1>1, SameAll
<1>4. CASE w.st.nat # None
  <2>1. Goto("deleteGateway", w)
    BY <1>4 DEF Adopt
  <2>2. QED
    BY <1>1, <1>3, <1>4, <2>1, GoesOn DEF Removing
<1>5. CASE w.st.nat = None /\ Cardinality(Candidates) = 1
  <2>1. PICK g \in Candidates :
           Goto("deleteGateway",
                With(w, g, IF gws[g].eip # None THEN gws[g].eip ELSE w.st.eip))
    BY <1>5 DEF Adopt
  <2>2. g \in DOMAIN gws /\ gws[g] \in Gateways
    BY <1>2, <2>1 DEF Candidates, AwsOK
  <2>3. g \in Ids /\ g # None /\ g <= made
    BY <1>2, <2>2, NatGatewayAssumption DEF AwsOK, Ids, None
  <2>4. PICK e \in Ids \union {None} :
           e = IF gws[g].eip # None THEN gws[g].eip ELSE w.st.eip
    BY <1>2, <2>2 DEF Gateways
  <2>5. PICK new : new = With(w, g, e)
    OBVIOUS
  <2>6. /\ new \in CRs(Statuses) /\ new.st.nat = g
        /\ new.abandon = w.abandon /\ new.want = w.want
    <3>1. w \in CRs(Statuses) /\ g \in Ids \union {None}
      BY <1>2, <2>3
    <3>2. /\ With(w, g, e) \in CRs(Statuses)
          /\ With(w, g, e).st.nat = g /\ With(w, g, e).abandon = w.abandon
          /\ With(w, g, e).want = w.want
      BY <3>1, <2>4, WithType
    <3>3. QED
      BY <2>5, <3>2
  <2>7. Goto("deleteGateway", new)
    BY <2>1, <2>4, <2>5
  <2>8. /\ WorkerOK(Statuses, Labels, Exits)' /\ step'.at = "deleteGateway"
        /\ step'.local = 0 /\ w' = new /\ wfresh' = wfresh
    BY <1>2, <2>6, <2>7, GotoKeeps DEF Labels
  <2>9. ~OneBadCall
    BY <1>2, <1>5, <2>2
  <2>10. QED
    BY <1>1, <1>3, <1>5, <2>3, <2>6, <2>8, <2>9 DEF Deleting, Removing
<1>6. CASE w.st.nat = None /\ Cardinality(Candidates) # 1
  <2>1. Goto("release", w)
    BY <1>6 DEF Adopt
  <2>2. made = 1 => Undescribed
    <3>1. SUFFICES ASSUME made = 1, NEW g \in Running, Matches(g, w.want)
                   PROVE  FALSE
      BY DEF Undescribed
    <3>2. g = 1 /\ Candidates = {1}
      BY <1>2, <3>1 DEF AwsOK, Running, Candidates
    <3>3. Cardinality(Candidates) = 1
      BY <3>2, FS_Singleton
    <3>4. QED
      BY <1>6, <3>3
  <2>3. OneBadCall => eips' = {}
    BY <1>2, <1>3, <1>6
  <2>4. w.st.nat \notin Running'
    BY <1>2, <1>3, <1>6 DEF Running
  <2>5. QED
    BY <1>1, <1>3, <2>1, <2>2, <2>3, <2>4, GoesOn DEF Removing
<1>7. QED
  BY <1>4, <1>5, <1>6

LEMMA DeletesWell == ASSUME GatewayInv, DeleteNatGateway PROVE Deleting
<1>1. /\ step.at = "deleteGateway" /\ step.at \in Removing \ {"release"}
      /\ Counted /\ UNCHANGED <<api, cache, cfresh, eips, made, given, refs, target>>
      /\ Goto(IF w.st.eip = None THEN "release" ELSE "await", w)
  BY DEF DeleteNatGateway, Removing, k8s, Counted
<1>2. /\ AwsOK /\ w.st.nat # None /\ w.st.nat \in Nat /\ w.st.nat <= made
      /\ made \in Nat /\ None \notin eips
      /\ OneBadCall => eips \subseteq {w.st.eip}
  BY <1>1, AtDeletion
<1>3. PICK dying : dying = [gws[w.st.nat] EXCEPT !.state = "deleting"]
  OBVIOUS
<1>4. /\ DOMAIN gws' = DOMAIN gws
      /\ \A g \in DOMAIN gws : g # w.st.nat => gws'[g] = gws[g]
      /\ w.st.nat \in DOMAIN gws => gws'[w.st.nat] \in {gws[w.st.nat], dying}
      /\ InState(w.st.nat, {"pending", "available", "failed"}) =>
            gws'[w.st.nat] = dying
      /\ w.st.nat \in DOMAIN gws =>
            /\ dying \in Gateways /\ dying.state = "deleting"
            /\ dying.subnet = gws[w.st.nat].subnet
            /\ dying.tags = gws[w.st.nat].tags
  <2>1. w.st.nat \in DOMAIN gws => gws[w.st.nat] \in Gateways
    BY <1>2 DEF AwsOK
  <2>2. w.st.nat \in DOMAIN gws =>
            /\ dying \in Gateways /\ dying.state = "deleting"
            /\ dying.subnet = gws[w.st.nat].subnet
            /\ dying.tags = gws[w.st.nat].tags
    BY <1>3, <2>1 DEF Gateways, States
  <2>3. QED
    BY <1>3, <2>2 DEF DeleteNatGateway, InState
<1>5. AwsOK' /\ SameLabels /\ Running' \subseteq Running \ {w.st.nat}
  <2>1. AwsOK'
    BY <1>1, <1>2, <1>4 DEF AwsOK
  <2>2. SameLabels
    BY <1>4 DEF SameLabels
  <2>3. Running' \subseteq Running \ {w.st.nat}
    BY <1>4 DEF Running, InState
  <2>4. QED
    BY <2>1, <2>2, <2>3
<1>6. made = 1 => Running' = {}
  BY <1>2, <1>5 DEF AwsOK, Running, None
<1>7. PICK label \in {"release", "await"} :
         Goto(label, w) /\ (label = "release" => w.st.eip = None)
  BY <1>1
<1>8. OneBadCall /\ label = "release" => eips' = {}
  BY <1>1, <1>2, <1>7
<1>9. label \in Removing \ {"delete"}
  BY DEF Removing
<1>10. QED
  BY <1>1, <1>2, <1>3, <1>4, <1>5, <1>6, <1>7, <1>8, <1>9, GoesOn

LEMMA DescribesWell == ASSUME GatewayInv, GatewayDeleted PROVE Deleting
<1>1. /\ step.at = "await" /\ step.at \in Removing \ {"release"} /\ Counted
      /\ UNCHANGED <<api, cache, cfresh>> /\ UNCHANGED aws
      /\ Goto("deleteAddress", w)
  BY DEF GatewayDeleted, Removing, k8s, Counted, AllFaults
<1>2. w.st.nat # None /\ w.st.nat \notin Running
  BY <1>1, AtDeletion DEF Waiting
<1>3. /\ AwsOK' /\ Running' = Running /\ SameLabels
      /\ UNCHANGED <<gws, eips, made, given, refs>>
  BY <1>1, SameAll
<1>4. QED
  BY <1>1, <1>2, <1>3, GoesOn DEF Removing

LEMMA ReleasesWell == ASSUME GatewayInv, ReleaseAddress PROVE Deleting
<1>1. /\ step.at = "deleteAddress" /\ step.at \in Removing \ {"release"}
      /\ Counted
      /\ UNCHANGED <<api, cache, cfresh, gws, made, given, refs, target>>
  BY DEF ReleaseAddress, Removing, k8s, Counted
<1>2. /\ AwsOK /\ w.st.nat \in Nat /\ w.st.nat <= made /\ made \in Nat
      /\ w.st.nat # None /\ w.st.nat \notin Running
      /\ OneBadCall => eips \subseteq {w.st.eip}
  BY <1>1, AtDeletion DEF Waiting
<1>3. CASE InUse(w.st.eip)
  <2>1. Return /\ UNCHANGED aws
    BY <1>1, <1>3 DEF ReleaseAddress, Release, aws
  <2>2. QED
    BY <1>1, <2>1, Returns
<1>4. CASE ~InUse(w.st.eip)
  <2>1. Goto("release", w) /\ eips' = eips \ {w.st.eip}
    BY <1>4 DEF ReleaseAddress, Release
  <2>2. AwsOK' /\ Running' = Running /\ SameLabels
    BY <1>1, <1>2, <2>1 DEF AwsOK, Running, SameLabels
  <2>3. made = 1 => Running' = {}
    BY <1>2, <2>2 DEF AwsOK, Running, None
  <2>4. OneBadCall => eips' = {}
    BY <1>2, <2>1
  <2>5. QED
    BY <1>1, <1>2, <2>1, <2>2, <2>3, <2>4, GoesOn DEF Removing
<1>5. QED
  BY <1>3, <1>4

LEMMA GivesUpWell ==
    ASSUME GatewayInv,
           AdoptError \/ (CallError /\ step.at \notin {"read", "allocate"})
    PROVE  Deleting
<1>1. step.at \in Removing \ {"release"} /\ Return /\ Counted
      /\ UNCHANGED <<api, cache, cfresh>> /\ UNCHANGED aws
  BY DEF AdoptError, CallError, Removing, k8s, Counted, AllFaults
<1>2. QED
  BY <1>1, Returns

-----------------------------------------------------------------------------
(* The bare status update of the deletion.                                  *)

LEMMA AwaitEffect ==
    ASSUME GatewayInv, AwaitDeleted
    PROVE  /\ step.at = "await" /\ Return /\ NoFault /\ UNCHANGED cache
           /\ UNCHANGED aws
           /\ \/ UNCHANGED <<api, cfresh>>
              \/ /\ api.exists /\ ~cfresh' /\ cfresh' \in BOOLEAN
                 /\ api' \in CRs(Statuses) /\ SameBut(api', api, w.st)
<1>1. /\ step.at = "await" /\ Return /\ NoFault /\ UNCHANGED cache
      /\ UNCHANGED aws
      /\ \/ UNCHANGED <<api, cfresh>>
         \/ api.exists /\ api' = [api EXCEPT !.st = w.st] /\ cfresh' = FALSE
  BY DEF AwaitDeleted
<1>2. api \in CRs(Statuses) /\ w.st \in Statuses
  BY <1>1, InvParts, CopyType
<1>3. api' = [api EXCEPT !.st = w.st] =>
         api' \in CRs(Statuses) /\ SameBut(api', api, w.st)
  BY <1>2, StatusType
<1>4. QED
  BY <1>1, <1>3

LEMMA AwaitStep ==
    ASSUME GatewayInv, AwaitDeleted
    PROVE  Sound'
<1>1. /\ step.at = "await" /\ step.at \in Removing \ {"release"} /\ Return
      /\ UNCHANGED <<cache, gws, eips, made, given, refs, target>> /\ Counted
      /\ \/ UNCHANGED <<api, cfresh>>
         \/ /\ api.exists /\ ~cfresh' /\ cfresh' \in BOOLEAN
            /\ api' \in CRs(Statuses) /\ SameBut(api', api, w.st)
  BY AwaitEffect DEF Removing, Counted, aws
<1>2. /\ WorkerOK(Statuses, Labels, Exits)' /\ step'.at = "idle"
      /\ step'.local = 0
  BY <1>1, ReturnKeeps
<1>3. CASE UNCHANGED <<api, cfresh>>
  <2>1. Deleting
    BY <1>1, <1>3, Returns DEF aws
  <2>2. QED
    BY <2>1, DeletingStep
<1>4. CASE /\ api.exists /\ ~cfresh' /\ cfresh' \in BOOLEAN
           /\ api' \in CRs(Statuses) /\ SameBut(api', api, w.st)
  <2>1. /\ KubeOK(Statuses, Labels, Exits) /\ Protocol(Removing)
        /\ AwsOK /\ GivenOut
    BY InvParts
  <2>2. KubeOK(Statuses, Labels, Exits)'
    BY <1>1, <1>2, <1>4, <2>1, KubeKept DEF KubeOK
  <2>3. /\ api'.deleting = api.deleting /\ api'.finalizer = api.finalizer
        /\ api'.abandon = api.abandon /\ api'.exists = api.exists
        /\ api'.st = w.st
    BY <1>4 DEF SameBut
  <2>4. Protocol(Removing)'
    <3>1. FinalizerHeld'
      BY <1>1, <1>2, <2>1, <2>3 DEF Protocol, FinalizerHeld
    <3>2. DeletionSeen(Removing)'
      BY <1>1, <1>2, <1>4, <2>1, <2>3 DEF Protocol, DeletionSeen, Removing
    <3>3. CopyIsCurrent'
      BY <1>1, <1>2, <1>4, <2>1, <2>3 DEF Protocol, CopyIsCurrent
    <3>4. QED
      BY <3>1, <3>2, <3>3 DEF Protocol
  <2>5. /\ w.st.nat <= made /\ cache.deleting
        /\ OneBadCall =>
              /\ DOMAIN gws \subseteq {w.st.nat} /\ eips \subseteq {w.st.eip}
              /\ w.st.nat = None => w.st.eip = None
    BY <1>1, AtDeletion
  <2>6. AwsOK' /\ AtHand' /\ ~Released'
    BY <1>1, <1>2, <2>1 DEF AwsOK, AtHand, Released
  <2>7. Facts'
    BY <1>1, <1>2, <2>1, <2>3, <2>5, <2>6
    DEF Facts, GivenOut, ReleaseEarned, SoleFound, Waiting, Removing
  <2>8. OneBadCall => Attention'
    BY <1>1, <1>2, <2>3, <2>5, <2>6 DEF Attention, Held
  <2>9. Attentive' /\ Accounted'
    BY <1>1, <2>6, <2>8, AttentivePrimed
  <2>10. QED
    BY <2>2, <2>4, <2>6, <2>7, <2>9, Assembled
<1>5. QED
  BY <1>1, <1>3, <1>4

-----------------------------------------------------------------------------
(* The steps of AWS.                                                        *)

Environment ==
    \/ AwsAvailable \/ AwsDeleted \/ AwsFailed \/ ExternalDelete \/ AwsForget
    \/ SubnetChanges \/ SubnetReady

\* A gateway moves on or is forgotten.  None comes back to life, and one stops
\* running only by a fault or when it is deleted.
Elsewhere ==
    /\ UNCHANGED <<api, cache, cfresh, w, wfresh, step, eips, made, given>>
    /\ UNCHANGED target
    /\ Counted /\ AwsOK' /\ SameLabels /\ (Settled => UNCHANGED refs)
    /\ DOMAIN gws' \subseteq DOMAIN gws /\ Running' \subseteq Running
    /\ OneBadCall => Running' = Running /\ UNCHANGED faults

LEMMA MoveEffect ==
    ASSUME GatewayInv, NEW from, NEW to \in States, Move(from, to)
    PROVE  /\ DOMAIN gws' = DOMAIN gws
           /\ (\A g \in DOMAIN gws' : gws'[g] \in Gateways) /\ SameLabels
           /\ \E g \in DOMAIN gws :
                 /\ gws[g].state \in from /\ gws'[g].state = to
                 /\ \A h \in DOMAIN gws : h # g => gws'[h] = gws[h]
<1>1. PICK g \in DOMAIN gws :
         gws[g].state \in from /\ gws' = [gws EXCEPT ![g].state = to]
  BY DEF Move
<1>2. gws[g] \in Gateways /\ \A h \in DOMAIN gws : gws[h] \in Gateways
  BY InvParts DEF AwsOK
<1>3. PICK moved : moved = [gws[g] EXCEPT !.state = to]
  OBVIOUS
<1>4. /\ moved \in Gateways /\ moved.state = to
      /\ moved.subnet = gws[g].subnet /\ moved.tags = gws[g].tags
  BY <1>2, <1>3 DEF Gateways
<1>5. /\ DOMAIN gws' = DOMAIN gws /\ gws'[g] = moved
      /\ \A h \in DOMAIN gws : h # g => gws'[h] = gws[h]
  BY <1>1, <1>3
<1>6. SameLabels
  BY <1>4, <1>5 DEF SameLabels
<1>7. QED
  BY <1>1, <1>2, <1>4, <1>5, <1>6

LEMMA EnvironmentIsElsewhere ==
    ASSUME GatewayInv, Environment
    PROVE  Elsewhere
<1>1. /\ UNCHANGED <<api, cache, cfresh, w, wfresh, step, eips, made, given>>
      /\ UNCHANGED target /\ Counted /\ AwsOK /\ faults \in Nat
  BY InvParts DEF Environment, AwsAvailable, AwsDeleted, AwsFailed, SubnetReady,
     SubnetChanges, ExternalDelete, AwsForget, k8s, worker, Counted, AllFaults
<1>2. CASE AwsForget
  <2>1. PICK g \in DOMAIN gws :
           /\ gws[g].state \in {"deleted", "failed"}
           /\ gws' = [h \in DOMAIN gws \ {g} |-> gws[h]]
           /\ UNCHANGED refs
    BY <1>2 DEF AwsForget
  <2>2. /\ DOMAIN gws' = DOMAIN gws \ {g}
        /\ \A h \in DOMAIN gws' : gws'[h] = gws[h]
    BY <2>1
  <2>3. Running' = Running /\ SameLabels
    BY <2>1, <2>2 DEF Running, SameLabels
  <2>4. AwsOK'
    BY <1>1, <2>1, <2>2 DEF AwsOK
  <2>5. UNCHANGED faults
    BY <1>2 DEF AwsForget, NoFault
  <2>6. QED
    BY <1>1, <2>1, <2>2, <2>3, <2>4, <2>5 DEF Elsewhere
<1>3. CASE AwsAvailable \/ AwsDeleted \/ AwsFailed \/ ExternalDelete
  <2>1. PICK from \in SUBSET States, to \in States :
           /\ Move(from, to) /\ UNCHANGED refs
           /\ to \in {"pending", "available"} => from = {"pending"}
           /\ \/ ~OneBadCall
              \/ UNCHANGED faults /\ to = "available"
              \/ /\ UNCHANGED faults
                 /\ from \intersect {"pending", "available"} = {}
    <3>1. CASE AwsAvailable
      BY <3>1 DEF AwsAvailable, NoFault, States
    <3>2. CASE AwsDeleted
      BY <3>2 DEF AwsDeleted, NoFault, States
    <3>3. CASE AwsFailed
      <4>1. ~OneBadCall
        BY <1>1, <3>3, OneFault DEF AwsFailed, AllFaults
      <4>2. QED
        BY <3>3, <4>1 DEF AwsFailed, States
    <3>4. CASE ExternalDelete
      <4>1. ~OneBadCall
        BY <1>1, <3>4, OneFault DEF ExternalDelete, AllFaults
      <4>2. QED
        BY <3>4, <4>1 DEF ExternalDelete, States
    <3>5. QED
      BY <1>3, <3>1, <3>2, <3>3, <3>4
  <2>2. /\ DOMAIN gws' = DOMAIN gws
        /\ (\A g \in DOMAIN gws' : gws'[g] \in Gateways) /\ SameLabels
    BY <2>1, MoveEffect
  <2>3. PICK g \in DOMAIN gws :
           /\ gws[g].state \in from /\ gws'[g].state = to
           /\ \A h \in DOMAIN gws : h # g => gws'[h] = gws[h]
    BY <2>1, MoveEffect
  <2>4. AwsOK'
    BY <1>1, <2>1, <2>2 DEF AwsOK
  <2>5. Running' \subseteq Running
    BY <2>1, <2>2, <2>3 DEF Running
  <2>6. OneBadCall => Running' = Running /\ UNCHANGED faults
    BY <2>1, <2>2, <2>3 DEF Running
  <2>7. QED
    BY <1>1, <2>1, <2>2, <2>4, <2>5, <2>6 DEF Elsewhere
<1>4. CASE SubnetChanges \/ SubnetReady
  <2>1. PICK ref \in Subnets, place \in Places :
           /\ refs' = [refs EXCEPT ![ref] = place] /\ UNCHANGED gws
           /\ Fault("dependency") \/ (refs[ref] = None /\ NoFault)
    BY <1>4 DEF SubnetChanges, SubnetReady, Places
  <2>2. AwsOK' /\ Running' = Running /\ SameLabels
    BY <1>1, <2>1 DEF AwsOK, Running, SameLabels
  <2>3. ~Settled
    <3>1. Fault("dependency") => ~Settled
      BY DEF Fault, Settled, FreeOf
    <3>2. refs[ref] = None => ~Settled
      BY <2>1, InvParts, NatGatewayAssumption DEF Described, None
    <3>3. QED
      BY <2>1, <3>1, <3>2
  <2>4. ~OneBadCall \/ UNCHANGED faults
    BY <1>1, <2>1, OneFault DEF AllFaults, NoFault
  <2>5. QED
    BY <1>1, <2>1, <2>2, <2>3, <2>4 DEF Elsewhere
<1>5. QED
  BY <1>2, <1>3, <1>4 DEF Environment

LEMMA ElsewhereStep ==
    ASSUME GatewayInv, Elsewhere
    PROVE  Sound'
<1>1. /\ UNCHANGED <<api, cache, cfresh, w, wfresh, step, eips, made, given>>
      /\ Counted /\ AwsOK' /\ AtHand /\ GivenOut /\ ReleaseEarned /\ SoleFound
      /\ (OneBadCall => Attention) /\ Running' \subseteq Running
      /\ DOMAIN gws' \subseteq DOMAIN gws
  BY InvParts DEF Elsewhere
<1>2. KubeOK(Statuses, Labels, Exits)' /\ Protocol(Removing)'
  BY <1>1, InvParts, AwsKept
<1>3. Released' = Released /\ Held' = Held
  BY <1>1 DEF Released, Held
<1>4. Facts'
  <2>1. SoleFound'
    <3>1. SUFFICES ASSUME Settled', Released', made' = 1, NEW g \in Running'
                   PROVE  ~Matches(g, w.want)'
      BY DEF SoleFound
    <3>2. Settled
      BY <1>1, <3>1, InvParts, FaultsType DEF Settled, FreeOf
    <3>3. ~Matches(g, w.want)
      BY <1>1, <1>3, <3>1, <3>2 DEF SoleFound
    <3>4. UNCHANGED refs /\ g \in DOMAIN gws'
      BY <3>1, <3>2 DEF Elsewhere, Running
    <3>5. gws'[g].subnet = gws[g].subnet /\ gws'[g].tags = gws[g].tags
      BY <3>4 DEF Elsewhere, SameLabels
    <3>6. QED
      BY <1>1, <3>3, <3>4, <3>5 DEF Matches, Resolved
  <2>2. QED
    BY <1>1, <1>3, <2>1 DEF Facts, AtHand, GivenOut, ReleaseEarned, AwsOK
<1>5. OneBadCall => Attention'
  <2>1. SUFFICES ASSUME OneBadCall PROVE Attention'
    OBVIOUS
  <2>2. Running' = Running /\ UNCHANGED faults /\ Running' \subseteq DOMAIN gws'
    BY <2>1 DEF Elsewhere, Running
  <2>3. QED
    BY <1>1, <1>3, <2>1, <2>2 DEF Attention, AsStored
<1>6. Attentive' /\ Accounted'
  BY <1>1, <1>4, <1>5, AttentivePrimed DEF Facts
<1>7. QED
  BY <1>1, <1>2, <1>4, <1>6, Assembled

-----------------------------------------------------------------------------
(* The invariant.                                                           *)

LEMMA NextCases ==
    ASSUME GatewayInv, Next
    PROVE  \/ Shared /\ UNCHANGED aws
           \/ Asking \/ Deleting \/ AwaitDeleted \/ Elsewhere
<1>1. \/ Shared /\ UNCHANGED aws
      \/ Available \/ SyncFails \/ StillPending \/ Unresolved \/ NoGateway
      \/ AllocateAddress \/ CreateNatGateway \/ CreateRefused \/ UndoAllocate
      \/ CallError
      \/ Adopt \/ DeleteNatGateway \/ GatewayDeleted \/ ReleaseAddress
      \/ AdoptError
      \/ AwaitDeleted \/ Environment
  BY DEF Next, Work, Reconcile, Shared, Outside, WatchDelivers, Handlers,
         Environment
<1>2. CASE CallError
  BY <1>2, FailsWell, GivesUpWell
<1>3. QED
  BY <1>1, <1>2, SyncsWell, LooksWell, ReplacesWell, AllocatesWell, CreatesWell, RefusesWell,
     UndoesWell, AdoptsWell, DeletesWell, DescribesWell,
     ReleasesWell, GivesUpWell, EnvironmentIsElsewhere

\* A user who does not edit, and no other, leaves the spec in every copy.
LEMMA SharedWants ==
    ASSUME GatewayInv, Shared, "edit" \notin scenario.users,
           cache.want = api.want, step.at # "idle" => w.want = api.want
    PROVE  /\ cache'.want = api'.want /\ api'.want = api.want
           /\ step'.at # "idle" => w'.want = api'.want
           /\ step'.at \in {"allocate", "create"} => UNCHANGED step
<1>1. /\ KubeOK(Statuses, Labels, Exits)
      /\ KindOK(Statuses, Labels, Exits, Removing)
  BY InvParts
<1>2. ASSUME NEW label \in {"release", "delete", "addFinalizer", "read"},
             Start(label)
      PROVE  /\ UNCHANGED <<api, cache>> /\ w' = cache
             /\ step'.at \notin {"allocate", "create"}
  BY <1>1, <1>2, StartEffect
<1>3. CASE ReconcileAbandoned \/ ReconcileDeleted
           \/ ReconcileNew \/ ReconcileExisting
  BY <1>2, <1>3 DEF ReconcileAbandoned, ReconcileDeleted, ReconcileNew,
     ReconcileExisting
<1>4. CASE AddFinalizer \/ RemoveFinalizer
  BY <1>1, <1>4, FinalizerEffect
<1>5. CASE Persist
  <2>1. /\ SameBut(api', api, w.st) /\ UNCHANGED cache /\ step.ok \in Exits
        /\ step.ok = "idle" => step'.at = "idle"
        /\ step.ok = "report" => step'.at = "save"
              /\ SameBut(w', api', [api'.st EXCEPT !.ready = FALSE])
    BY <1>1, <1>5, PersistEffect
  <2>2. QED
    BY <2>1 DEF SameBut, Exits
<1>6. CASE PersistConflict \/ PersistError
  <2>1. /\ step.at = "save" /\ UNCHANGED <<api, cache>>
        /\ \/ step'.at = "idle"
           \/ /\ step'.at = "save"
              /\ SameBut(w', w, [w.st EXCEPT !.ready = FALSE])
    BY <1>1, <1>6, PersistFails
  <2>2. QED
    BY <2>1 DEF SameBut
<1>7. CASE Crash
  BY <1>7 DEF Crash, Return, At, k8s
<1>8. CASE Users
  BY <1>1, <1>8, UserEffect
<1>9. CASE CacheSync
  BY <1>9 DEF CacheSync, worker
<1>10. QED
  BY <1>3, <1>4, <1>5, <1>6, <1>7, <1>8, <1>9 DEF Shared, SharedWork

LEMMA StepCounted ==
    ASSUME GatewayInv, Next
    PROVE  scenario' = scenario
<1>1. Counted
  BY NextCases, SharedCounted, AwaitEffect
  DEF Asking, Deleting, Elsewhere, Counted
<1>2. QED
  BY <1>1, SameScenario

LEMMA DescribedStep ==
    ASSUME GatewayInv, Next
    PROVE  Described'
<1>1. SUFFICES ASSUME Settled PROVE UNCHANGED refs /\ Unedited'
  BY StepCounted, InvParts DEF Described, Settled, FreeOf
<1>2. /\ \/ Shared /\ UNCHANGED aws
         \/ Asking \/ Deleting \/ AwaitDeleted \/ Elsewhere
      /\ refs = [ref \in Subnets |-> ref] /\ Unedited
  BY <1>1, NextCases, InvParts DEF Described
<1>3. UNCHANGED refs
  BY <1>1, <1>2, AwaitEffect DEF Asking, Deleting, Elsewhere, aws
<1>4. SUFFICES ASSUME "edit" \notin scenario.users
               PROVE  /\ cache'.want = api'.want
                      /\ step'.at # "idle" => w'.want = api'.want
                      /\ step'.at \in {"allocate", "create"} =>
                            target' = Resolved(api.want)
                      /\ \A g \in DOMAIN gws' : Matches(g, api.want)'
                      /\ api'.want = api.want
  BY <1>3, StepCounted DEF Unedited, Resolved, Matches
<1>5. /\ cache.want = api.want /\ (step.at # "idle" => w.want = api.want)
      /\ step.at \in {"allocate", "create"} => target = Resolved(api.want)
      /\ \A g \in DOMAIN gws : Matches(g, api.want)
  BY <1>2, <1>4 DEF Unedited
<1>6. ASSUME UNCHANGED gws, api'.want = api.want
      PROVE  \A g \in DOMAIN gws' : Matches(g, api.want)'
  BY <1>3, <1>5, <1>6 DEF Matches, Resolved
<1>7. ASSUME SameLabels, api'.want = api.want
      PROVE  \A g \in DOMAIN gws' : Matches(g, api.want)'
  BY <1>3, <1>5, <1>7 DEF SameLabels, Matches, Resolved
<1>8. CASE Shared /\ UNCHANGED aws
  BY <1>4, <1>5, <1>6, <1>8, SharedWants DEF aws
<1>9. CASE Asking
  <2>1. step.at # "idle" /\ UNCHANGED <<api, cache>>
    BY <1>9 DEF Asking, Working
  <2>2. api.want.subnet \in Subnets
    BY InvParts, NatGatewayAssumption DEF CRs, Specs
  <2>3. Resolved(api.want) # None
    BY <1>2, <2>2, NatGatewayAssumption DEF Resolved, None
  <2>4. \A g \in DOMAIN gws' : Matches(g, api.want)'
    BY <1>3, <1>5, <1>9, <2>1, <2>3 DEF Asking, Labelled, Matches, Resolved
  <2>5. QED
    BY <1>5, <1>9, <2>1, <2>4 DEF Asking
<1>10. CASE Deleting
  <2>1. step.at # "idle" /\ UNCHANGED <<api, cache>>
    BY <1>10 DEF Deleting, Removing
  <2>2. QED
    BY <1>5, <1>7, <1>10, <2>1 DEF Deleting, Removing
<1>11. CASE AwaitDeleted
  <2>1. /\ UNCHANGED cache /\ UNCHANGED gws /\ step'.at = "idle"
        /\ api' = api \/ SameBut(api', api, w.st)
    <3>1. UNCHANGED cache /\ UNCHANGED gws
      BY <1>11, AwaitEffect DEF aws
    <3>2. step'.at = "idle"
      <4>1. Return
        BY <1>11, AwaitEffect
      <4>2. QED
        BY <4>1 DEF Return, At
    <3>3. api' = api \/ SameBut(api', api, w.st)
      BY <1>11, AwaitEffect
    <3>4. QED
      BY <3>1, <3>2, <3>3
  <2>2. api'.want = api.want
    BY <2>1 DEF SameBut
  <2>3. QED
    BY <1>5, <1>6, <2>1, <2>2
<1>12. CASE Elsewhere
  BY <1>5, <1>7, <1>12 DEF Elsewhere
<1>13. QED
  BY <1>2, <1>8, <1>9, <1>10, <1>11, <1>12

LEMMA Together == Sound' /\ Described' => GatewayInv'
BY DEF Sound, Facts, GatewayInv

LEMMA InitInv == Init => GatewayInv
<1> SUFFICES ASSUME Init PROVE GatewayInv
  OBVIOUS
<1>1. PICK want \in Wants :
         api = [exists |-> TRUE, gen |-> 1, want |-> want, deleting |-> FALSE,
                finalizer |-> FALSE, abandon |-> FALSE, st |-> BlankStatus]
  BY DEF Init, InitKube
<1>2. /\ BlankStatus \in Statuses
      /\ BlankStatus.nat = None /\ BlankStatus.eip = None
  BY DEF BlankStatus, Statuses
<1>3. /\ api \in CRs(Statuses) /\ api.exists /\ ~api.finalizer
      /\ ~api.deleting /\ ~api.abandon
      /\ api.st.nat = None /\ api.st.eip = None
  BY <1>1, <1>2 DEF CRs
<1>4. /\ cache = api /\ cfresh \in BOOLEAN /\ w = NoCopy /\ wfresh \in BOOLEAN
      /\ step.at = "idle" /\ step.local = 0
      /\ DOMAIN gws = {} /\ eips = {} /\ made = 0 /\ given = 0
      /\ refs = [ref \in Subnets |-> ref] /\ target = None
  BY DEF Init, InitKube, At
<1>5. scenario \in Scenarios /\ faults = 0
  BY DEF Init, InitKube
<1>6. faults \in 0 .. scenario.most
  BY <1>5, ReconcilerAssumption DEF AreScenarios
<1>7. KubeOK(Statuses, Labels, Exits)
  BY <1>3, <1>4, <1>5, <1>6 DEF KubeOK, WorkerOK, Labels
<1>8. made \in 0 .. MaxIds /\ given \in 0 .. MaxIds
  BY <1>4, NatGatewayAssumption
<1>9. TypeOK
  BY <1>4, <1>7, <1>8 DEF TypeOK, Places
<1>10. Protocol(Removing)
  BY <1>3, <1>4 DEF Protocol, FinalizerHeld, DeletionSeen, CopyIsCurrent,
     Removing
<1>11. GivenOut /\ ReleaseEarned /\ SoleFound
  BY <1>3, <1>4 DEF GivenOut, ReleaseEarned, SoleFound, Released, Waiting,
     Removing, None
<1>12. Attentive /\ Accounted
  <2>1. Running = {} /\ ~Released
    BY <1>4 DEF Running, Released
  <2>2. QED
    BY <1>3, <1>4, <2>1 DEF Attentive, Accounted, Held, Removing
<1>13. Described
  BY <1>3, <1>4 DEF Described, Unedited
<1>14. QED
  BY <1>9, <1>10, <1>11, <1>12, <1>13 DEF GatewayInv

LEMMA StutterInv == GatewayInv /\ UNCHANGED vars => GatewayInv'
BY DEF vars, GatewayInv, TypeOK, KubeOK, WorkerOK, Protocol, FinalizerHeld,
       DeletionSeen, CopyIsCurrent, GivenOut, ReleaseEarned, SoleFound,
       Released, Running, Attentive, Accounted, InHand, Held, AsStored,
       OneBadCall, FreeOf, Described, Settled, Unedited, Matches, Resolved

\* After one bad call at most, every running gateway and every address is named
\* by the stored status or held by the worker; with what makes that inductive,
\* for any number of gateways and addresses, any scenarios and bounds.
THEOREM GatewayInvariant == Spec => []GatewayInv
<1>1. Init => GatewayInv
  BY InitInv
<1>2. GatewayInv /\ [Next]_vars => GatewayInv'
  <2>1. SUFFICES ASSUME GatewayInv, [Next]_vars PROVE GatewayInv'
    OBVIOUS
  <2>2. CASE UNCHANGED vars
    BY <2>1, <2>2, StutterInv
  <2>3. CASE Next
    <3>1. Sound'
      BY <2>1, <2>3, NextCases, SharedStep, AskingStep, DeletingStep,
         AwaitStep, ElsewhereStep
    <3>2. Described'
      BY <2>1, <2>3, DescribedStep
    <3>3. QED
      BY <3>1, <3>2, Together
  <2>4. QED
    BY <2>1, <2>2, <2>3
<1>3. QED
  BY <1>1, <1>2, PTL DEF Spec

-----------------------------------------------------------------------------
(* What a released CR leaves.                                               *)

\* A shared step that takes a CR away leaves its spec, and one that finds it gone
\* leaves it alone.
LEMMA SharedGone ==
    ASSUME GatewayInv, Shared, ~api'.exists
    PROVE  api'.want = api.want /\ (~api.exists => api' = api)
<1>1. /\ KubeOK(Statuses, Labels, Exits)
      /\ KindOK(Statuses, Labels, Exits, Removing)
  BY InvParts
<1>2. CASE \/ ReconcileAbandoned \/ ReconcileDeleted
           \/ ReconcileNew \/ ReconcileExisting
           \/ PersistConflict \/ PersistError \/ Crash \/ CacheSync
  BY <1>2 DEF ReconcileAbandoned, ReconcileDeleted, ReconcileNew,
     ReconcileExisting, Start, PersistConflict, PersistError, Crash, CacheSync, k8s
<1>3. CASE AddFinalizer \/ RemoveFinalizer
  BY <1>1, <1>3, FinalizerEffect
<1>4. CASE Persist
  BY <1>1, <1>4, PersistEffect DEF SameBut
<1>5. CASE Users
  BY <1>1, <1>5, UserEffect
<1>6. QED
  BY <1>2, <1>3, <1>4, <1>5 DEF Shared, SharedWork

\* No step but that of the finalizer's removal takes a managed CR away.
LEMMA LastStep ==
    ASSUME GatewayInv, [Next]_vars, api.exists, ~api'.exists, api.finalizer
    PROVE  /\ step.at = "release" /\ wfresh /\ api'.abandon = api.abandon
           /\ api'.want = api.want /\ UNCHANGED aws
<1>1. api' # api
  OBVIOUS
<1>2. Next
  BY <1>1 DEF vars
<1>3. ~AwaitDeleted
  <2>1. SUFFICES ASSUME AwaitDeleted PROVE FALSE
    OBVIOUS
  <2>2. SameBut(api', api, w.st)
    BY <1>1, <2>1, AwaitEffect
  <2>3. QED
    BY <2>2 DEF SameBut
<1>4. Shared /\ UNCHANGED aws
  BY <1>1, <1>2, <1>3, NextCases DEF Asking, Deleting, Elsewhere
<1>5. PhaseStep
  BY <1>4, InvParts, SharedPhases
<1>6. step.at = "release" /\ wfresh /\ api'.abandon = api.abandon
  BY <1>4, <1>5 DEF PhaseStep, SamePhase, Phase
<1>7. api'.want = api.want
  BY <1>4, SharedGone
<1>8. QED
  BY <1>4, <1>6, <1>7

\* A worker on its way to the release of a CR that is not abandoned knows that.
LEMMA NotAbandoned ==
    ASSUME GatewayInv, step.at = "release", ~api.abandon
    PROVE  Released
<1>1. Protocol(Removing)
  BY InvParts
<1>2. QED
  BY <1>1 DEF Protocol, CopyIsCurrent, Released

\* After one bad call at most, a CR that is released and was not abandoned
\* leaves no running gateway and no address in AWS.
THEOREM GatewayReleasedClean == Spec => ReleasedClean
<1>1. ASSUME GatewayInv, [Next]_vars, OneBadCall,
             api.exists, ~api'.exists, api.finalizer, ~api.abandon
      PROVE  Running = {} /\ eips = {}
  <2>1. Released /\ step.at = "release"
    BY <1>1, LastStep, NotAbandoned
  <2>2. Attention
    BY <1>1, InvParts
  <2>3. DOMAIN gws \subseteq {w.st.nat} /\ eips = {}
    BY <2>1, <2>2 DEF Attention, Held
  <2>4. w.st.nat \notin Running
    BY <1>1, <2>1, InvParts DEF ReleaseEarned
  <2>5. QED
    BY <2>3, <2>4 DEF Running
<1>2. GatewayInv /\ [Next]_vars =>
        [OneBadCall /\ api.exists /\ ~api'.exists /\ api.finalizer /\ ~api.abandon
           => Running = {} /\ eips = {}]_vars
  BY <1>1
<1>3. QED
  BY <1>2, GatewayInvariant, PTL DEF Spec, ReleasedClean

\* Gateways are created for a CR that exists, and run no more once deleted.
LEMMA RunningKept ==
    ASSUME GatewayInv, [Next]_vars, ~api.exists \/ ~api.finalizer
    PROVE  UNCHANGED made /\ Running' \subseteq Running
<1>1. CASE UNCHANGED vars
  BY <1>1 DEF vars, Running
<1>2. CASE Next
  <2>1. ~Asking
    <3>1. SUFFICES ASSUME Asking PROVE FALSE
      OBVIOUS
    <3>2. step.at \notin Removing \union {"idle", "addFinalizer"}
      BY <3>1 DEF Asking, Working, Removing
    <3>3. api.finalizer /\ Phase \in {"held", "removing"}
      BY <3>2, InvParts, HeldWhileAtWork
    <3>4. QED
      BY <3>3 DEF Phase
  <2>2. CASE Shared /\ UNCHANGED aws
    BY <2>2 DEF aws, Running
  <2>3. CASE Deleting \/ Elsewhere
    BY <2>3 DEF Deleting, Elsewhere
  <2>4. CASE AwaitDeleted
    BY <2>4 DEF AwaitDeleted, aws, Running
  <2>5. QED
    BY <1>2, <2>1, <2>2, <2>3, <2>4, NextCases
<1>3. QED
  BY <1>1, <1>2

\* A step that changes the abandonment of a CR finds it there.
LEMMA AbandonKept ==
    ASSUME GatewayInv, [Next]_vars, ~api.exists
    PROVE  ~api'.exists /\ api'.abandon = api.abandon
<1>1. CASE UNCHANGED api
  BY <1>1
<1>2. CASE ~UNCHANGED api
  <2>1. Next /\ ~AwaitDeleted
    BY <1>2, AwaitEffect DEF vars
  <2>2. Shared
    BY <1>2, <2>1, NextCases DEF Asking, Deleting, Elsewhere
  <2>3. PhaseStep
    BY <2>2, InvParts, SharedPhases
  <2>4. QED
    BY <2>3 DEF PhaseStep, SamePhase, Phase
<1>3. QED
  BY <1>1, <1>2

\* Once a CR is gone nothing changes that bears on what it left.
LEMMA LeftAsItWas ==
    ASSUME GatewayInv, [Next]_vars, Settled, ~api.exists
    PROVE  /\ UNCHANGED refs /\ api'.want = api.want
           /\ \A g \in Running' : g \in Running /\ (Matches(g, api.want)' =>
                                             Matches(g, api.want))
<1>1. CASE UNCHANGED vars
  BY <1>1 DEF vars, Running, Matches, Resolved
<1>2. CASE Next
  <2>1. ~Asking
    <3>1. SUFFICES ASSUME Asking PROVE FALSE
      OBVIOUS
    <3>2. step.at \notin Removing \union {"idle", "addFinalizer"}
      BY <3>1 DEF Asking, Working, Removing
    <3>3. Phase \in {"held", "removing"}
      BY <3>2, InvParts, HeldWhileAtWork
    <3>4. QED
      BY <3>3 DEF Phase
  <2>2. CASE Shared /\ UNCHANGED aws
    <3>1. api' = api
      BY <2>2, AbandonKept, SharedGone
    <3>2. QED
      BY <2>2, <3>1 DEF aws, Running, Matches, Resolved
  <2>3. CASE Deleting \/ Elsewhere
    <3>1. UNCHANGED <<api, refs>> /\ SameLabels /\ Running' \subseteq Running
      BY <2>3 DEF Deleting, Elsewhere
    <3>2. \A g \in Running' : g \in DOMAIN gws'
      BY DEF Running
    <3>3. QED
      BY <3>1, <3>2 DEF SameLabels, Matches, Resolved
  <2>4. CASE AwaitDeleted
    <3>1. UNCHANGED <<api, gws, refs>>
      BY <2>4, AwaitEffect DEF aws
    <3>2. QED
      BY <3>1 DEF Running, Matches, Resolved
  <2>5. QED
    BY <1>2, <2>1, <2>2, <2>3, <2>4, NextCases
<1>3. QED
  BY <1>1, <1>2

\* Whatever was lost on the way, by crashes, lost answers, lost writes or stale
\* copies: when a single gateway was ever created and the Subnet CRs keep their
\* identifiers, it does not run any more once a CR that was not abandoned is
\* gone, unless it is not what the last spec describes, which takes an edit.
THEOREM GatewaySoleRemoved == Spec => []SoleGatewayRemoved
<1>1. Init => SoleGatewayRemoved
  BY DEF Init, InitKube, SoleGatewayRemoved
<1>2. ASSUME GatewayInv, [Next]_vars, SoleGatewayRemoved,
             Settled', ~api'.exists, ~api'.abandon, made' = 1
      PROVE  \A g \in Running' : ~(Matches(g, api.want)')
  <2>0. Settled
    BY <1>2, StepCounted DEF vars, Settled, FreeOf
  <2>1. CASE ~api.exists
    <3>1. made = 1 /\ ~api.abandon
      BY <1>2, <2>1, RunningKept, AbandonKept
    <3>2. \A g \in Running : ~Matches(g, api.want)
      BY <1>2, <2>0, <2>1, <3>1 DEF SoleGatewayRemoved
    <3>3. QED
      BY <1>2, <2>0, <2>1, <3>1, <3>2, LeftAsItWas
  <2>2. CASE api.exists /\ ~api.finalizer
    <3>1. made' = made
      BY <1>2, <2>2, RunningKept
    <3>2. made = 0
      BY <1>2, <2>2, InvParts DEF GivenOut
    <3>3. QED
      BY <1>2, <3>1, <3>2
  <2>3. CASE api.exists /\ api.finalizer
    <3>1. /\ step.at = "release" /\ wfresh /\ api'.abandon = api.abandon
          /\ api'.want = api.want /\ UNCHANGED aws
      BY <1>2, <2>3, LastStep
    <3>2. Released
      BY <1>2, <3>1, NotAbandoned
    <3>3. /\ SoleFound /\ made = 1 /\ w.want = api.want
      BY <1>2, <3>1, InvParts DEF aws, ReleaseEarned, Removing
    <3>4. \A g \in Running : ~Matches(g, api.want)
      BY <2>0, <3>2, <3>3 DEF SoleFound
    <3>5. QED
      BY <3>1, <3>4 DEF aws, Running, Matches, Resolved
  <2>4. QED
    BY <2>1, <2>2, <2>3, InvParts, CopyType
<1>3. ASSUME GatewayInv', Settled', "edit" \notin scenario'.users,
             \A g \in Running' : ~(Matches(g, api.want)')
      PROVE  Running' = {}
  <2>1. Described'
    BY <1>3 DEF GatewayInv
  <2>2. \A g \in DOMAIN gws' : Matches(g, api.want)'
    BY <1>3, <2>1 DEF Described, Unedited
  <2>3. QED
    BY <1>3, <2>2 DEF Running
<1>4. GatewayInv /\ GatewayInv' /\ [Next]_vars /\ SoleGatewayRemoved
        => SoleGatewayRemoved'
  BY <1>2, <1>3 DEF SoleGatewayRemoved
<1>5. QED
  BY <1>1, <1>4, GatewayInvariant, PTL DEF Spec

-----------------------------------------------------------------------------
(* The refinement: every step is one of ManagedResource or a stutter.       *)

Abstract == [Managed!Next]_(Managed!vars)

LEMMA CallsType ==
    ASSUME AwsOK
    PROVE  1 .. made \subseteq Ids
BY NatGatewayAssumption DEF AwsOK, Ids

LEMMA SharedIsAbstract ==
    ASSUME GatewayInv, Shared, UNCHANGED aws
    PROVE  Abstract
<1>1. PhaseStep /\ UNCHANGED made /\ Running' = Running
  BY InvParts, SharedPhases DEF aws, Running
<1>2. 1 .. made \subseteq Ids
  BY InvParts, CallsType
<1>3. CASE SamePhase
  BY <1>1, <1>3 DEF SamePhase, Abstract, Managed!vars
<1>4. CASE /\ Phase = "new" /\ Phase' = "held"
           /\ api'.abandon = api.abandon /\ api'.st = api.st
  BY <1>1, <1>4 DEF Abstract, Managed!Next, Managed!Hold
<1>5. CASE /\ step.at = "save" /\ Phase \in {"held", "removing"}
           /\ Phase' = Phase /\ api'.abandon = api.abandon
  BY <1>1, <1>2, <1>5 DEF Abstract, Managed!Next, Managed!Manage
<1>6. CASE /\ Phase # "gone" /\ api'.abandon = TRUE
           /\ Phase' = Phase /\ api'.st = api.st
  BY <1>1, <1>6 DEF Abstract, Managed!Next, Managed!Abandon
<1>7. CASE /\ \/ Phase = "new" /\ Phase' = "gone"
              \/ Phase = "held" /\ Phase' = "removing"
           /\ api'.abandon = api.abandon /\ api'.st = api.st
  BY <1>1, <1>7 DEF Abstract, Managed!Next, Managed!Delete
<1>8. CASE /\ step.at = "release" /\ wfresh
           /\ Phase = "removing" /\ Phase' = "gone"
           /\ api'.abandon = api.abandon /\ api'.st = api.st
  <2>1. api.abandon \/ api.st.nat \notin Running
    <3>1. SUFFICES ASSUME ~api.abandon PROVE api.st.nat \notin Running
      OBVIOUS
    <3>2. w.st.nat \notin Running /\ api.st.nat \in {w.st.nat, None}
      BY <1>8, <3>1, NotAbandoned, InvParts DEF ReleaseEarned, Removing
    <3>3. None \notin Running
      BY <1>8, InHandType DEF Running
    <3>4. QED
      BY <3>2, <3>3
  <2>2. QED
    BY <1>1, <1>8, <2>1 DEF Abstract, Managed!Next, Managed!Release
<1>9. QED
  BY <1>1, <1>3, <1>4, <1>5, <1>6, <1>7, <1>8 DEF PhaseStep

LEMMA AskingIsAbstract ==
    ASSUME GatewayInv, Asking
    PROVE  Abstract
<1>1. UNCHANGED <<Phase, api.abandon>>
  BY DEF Asking, Phase
<1>2. 1 .. made' \subseteq Ids
  BY NatGatewayAssumption DEF Asking, AwsOK, Ids
<1>3. 1 .. made \subseteq 1 .. made'
  BY InvParts, NatGatewayAssumption DEF Asking, AwsOK
<1>4. Phase \in {"held", "removing"}
  <2>1. step.at \notin {"idle", "addFinalizer"} /\ step.at \notin Removing
    BY DEF Asking, Working, Removing
  <2>2. QED
    BY <2>1, InvParts, HeldWhileAtWork
<1>5. QED
  BY <1>1, <1>2, <1>3, <1>4 DEF Abstract, Managed!Next, Managed!Manage

LEMMA TakingIsAbstract ==
    ASSUME UNCHANGED <<api, made>>, Running' \subseteq Running
    PROVE  Abstract
<1>1. UNCHANGED <<Phase, api.abandon>> /\ (1 .. made)' = 1 .. made
  BY DEF Phase
<1>2. (api.st.nat \in Running)' => api.st.nat \in Running
  OBVIOUS
<1>3. QED
  BY <1>1, <1>2 DEF Abstract, Managed!Next, Managed!Vanish

\* The bare status update names what the copy does, which does not run.
LEMMA AwaitIsAbstract ==
    ASSUME GatewayInv, AwaitDeleted
    PROVE  Abstract
<1>1. /\ step.at = "await" /\ UNCHANGED aws
      /\ \/ UNCHANGED api
         \/ SameBut(api', api, w.st)
  BY AwaitEffect
<1>2. UNCHANGED made /\ Running' = Running /\ w.st.nat \notin Running
  BY <1>1, AtDeletion DEF aws, Running, Removing, Waiting
<1>3. CASE UNCHANGED api
  BY <1>2, <1>3, TakingIsAbstract
<1>4. CASE SameBut(api', api, w.st)
  <2>1. UNCHANGED <<Phase, api.abandon>> /\ (1 .. made)' = 1 .. made
    BY <1>2, <1>4 DEF Phase, SameBut
  <2>2. (api.st.nat \in Running)' = FALSE
    BY <1>2, <1>4 DEF SameBut
  <2>3. QED
    BY <2>1, <2>2 DEF Abstract, Managed!Next, Managed!Vanish
<1>5. QED
  BY <1>1, <1>3, <1>4

LEMMA NextIsAbstract ==
    ASSUME GatewayInv, [Next]_vars
    PROVE  Abstract
<1>1. CASE UNCHANGED vars
  BY <1>1 DEF vars, Phase, Running, Abstract, Managed!vars
<1>2. CASE Next
  <2>1. ASSUME Deleting \/ Elsewhere
        PROVE  UNCHANGED <<api, made>> /\ Running' \subseteq Running
    BY <2>1 DEF Deleting, Elsewhere
  <2>2. QED
    BY <1>2, <2>1, NextCases, SharedIsAbstract, AskingIsAbstract,
       TakingIsAbstract, AwaitIsAbstract
<1>3. QED
  BY <1>1, <1>2

\* Gateways are created under a stored finalizer, and the finalizer is given up
\* only when the gateway that the status names does not run or the CR is
\* abandoned, whatever fails, lags and is edited.
THEOREM GatewayImplementsManaged == Spec => ImplementsManaged
<1>1. Init => Managed!Init
  <2>1. SUFFICES ASSUME Init PROVE Managed!Init
    OBVIOUS
  <2>2. /\ api.exists /\ ~api.finalizer /\ api.abandon = FALSE
        /\ DOMAIN gws = {} /\ made = 0
    BY <2>1 DEF Init, InitKube
  <2>3. Running = {} /\ 1 .. made = {}
    BY <2>2 DEF Running
  <2>4. QED
    BY <2>2, <2>3 DEF Phase, Managed!Init
<1>2. GatewayInv /\ [Next]_vars => [Managed!Next]_(Managed!vars)
  BY NextIsAbstract DEF Abstract
<1>3. QED
  BY <1>1, <1>2, GatewayInvariant, PTL
  DEF Spec, ImplementsManaged, Managed!Spec

-----------------------------------------------------------------------------
(* What follows from the promise of ManagedResource.                        *)

LEMMA NothingInit == Managed!Init => Managed!NothingLeftBehind
BY DEF Managed!Init, Managed!NothingLeftBehind

LEMMA NothingStep ==
    ASSUME Managed!NothingLeftBehind, Abstract
    PROVE  Managed!NothingLeftBehind'
BY DEF Managed!NothingLeftBehind, Abstract, Managed!Next, Managed!vars,
       Managed!Hold, Managed!Abandon, Managed!Delete, Managed!Manage,
       Managed!Vanish, Managed!Release

\* Whatever fails, no gateway was created before the finalizer is stored, and a
\* CR that is gone and was not abandoned leaves none running that its status
\* names.
THEOREM GatewayLeavesNothing == Spec => []Managed!NothingLeftBehind
<1>1. Managed!Spec => []Managed!NothingLeftBehind
  BY NothingInit, NothingStep, PTL DEF Managed!Spec, Abstract
<1>2. QED
  BY <1>1, GatewayImplementsManaged, PTL DEF ImplementsManaged

-----------------------------------------------------------------------------
(* Network: the VPC's CR, cache and worker.  This section says of them what *)
(* ReconcilerProofs says of its own variables, which are the subnet's here: *)
(* a theorem of an instantiated module cannot be cited for the instance.    *)

\* A CR is no NoCopy, and its fields have their types.
LEMMA VpcCopyType ==
    ASSUME NEW StatusSet, NEW cr \in N!V!CRs(StatusSet)
    PROVE  /\ cr # N!V!NoCopy
           /\ cr.exists \in BOOLEAN /\ cr.deleting \in BOOLEAN
           /\ cr.finalizer \in BOOLEAN /\ cr.abandon \in BOOLEAN
           /\ cr.gen \in Nat /\ cr.want \in VpcWants /\ cr.st \in StatusSet
<1>1. "gen" \in DOMAIN cr /\ "gen" \notin DOMAIN N!V!NoCopy
  BY DEF N!V!CRs, N!V!NoCopy
<1>2. QED
  BY <1>1 DEF N!V!CRs

LEMMA VpcStatusType ==
    ASSUME NEW StatusSet, NEW cr \in N!V!CRs(StatusSet), NEW st \in StatusSet,
           NEW new, new = [cr EXCEPT !.st = st]
    PROVE  new \in N!V!CRs(StatusSet) /\ SameBut(new, cr, st)
BY DEF N!V!CRs, SameBut

LEMMA VpcNotReadyType ==
    ASSUME NEW StatusSet, \A st \in StatusSet : [st EXCEPT !.ready = FALSE] \in StatusSet,
           NEW cr \in N!V!CRs(StatusSet)
    PROVE  /\ N!V!NotReady(cr) \in N!V!CRs(StatusSet)
           /\ SameBut(N!V!NotReady(cr), cr, [cr.st EXCEPT !.ready = FALSE])
<1>1. N!V!NotReady(cr) = [cr EXCEPT !.st = [cr.st EXCEPT !.ready = FALSE]]
  BY DEF N!V!NotReady
<1>2. [cr.st EXCEPT !.ready = FALSE] \in StatusSet
  BY VpcCopyType
<1>3. QED
  BY <1>1, <1>2, VpcStatusType

-----------------------------------------------------------------------------
(* Where a step leads.                                                      *)

LEMMA VpcReturnType ==
    ASSUME NEW StatusSet, NEW labels, NEW exits, "idle" \in labels, N!V!Return
    PROVE  N!V!WorkerOK(StatusSet, labels, exits)' /\ vstep'.at = "idle"
<1>1. vstep'.at = "idle" /\ vw' = N!V!NoCopy /\ vwfresh' = FALSE
  BY DEF N!V!Return, N!V!At
<1>2. QED
  BY <1>1 DEF N!V!WorkerOK

LEMMA VpcGotoType ==
    ASSUME NEW StatusSet, NEW labels, NEW exits, NEW copy \in N!V!CRs(StatusSet),
           NEW label \in labels \ {"idle", "save"}, vwfresh \in BOOLEAN,
           N!V!Goto(label, copy)
    PROVE  /\ N!V!WorkerOK(StatusSet, labels, exits)' /\ vstep'.at = label
           /\ vw' = copy /\ vwfresh' = vwfresh
<1>1. vstep'.at = label /\ vw' = copy /\ vwfresh' = vwfresh
  BY DEF N!V!Goto, N!V!At
<1>2. copy # N!V!NoCopy
  BY VpcCopyType
<1>3. QED
  BY <1>1, <1>2 DEF N!V!WorkerOK

LEMMA VpcGotoWithType ==
    ASSUME NEW StatusSet, NEW labels, NEW exits, NEW copy \in N!V!CRs(StatusSet),
           NEW label \in labels \ {"idle", "save"}, NEW x, vwfresh \in BOOLEAN,
           N!V!GotoWith(label, copy, x)
    PROVE  /\ N!V!WorkerOK(StatusSet, labels, exits)' /\ vstep'.at = label
           /\ vstep'.local = x /\ vw' = copy /\ vwfresh' = vwfresh
<1>1. vstep'.at = label /\ vstep'.local = x /\ vw' = copy /\ vwfresh' = vwfresh
  BY DEF N!V!GotoWith, N!V!AtWith, N!V!At
<1>2. copy # N!V!NoCopy
  BY VpcCopyType
<1>3. QED
  BY <1>1, <1>2 DEF N!V!WorkerOK

LEMMA VpcWriteType ==
    ASSUME NEW StatusSet, NEW labels, NEW exits, NEW copy \in N!V!CRs(StatusSet),
           NEW fresh \in BOOLEAN, NEW ok \in exits, NEW err \in {"idle", "report"},
           "save" \in labels, N!V!Write(copy, ok, err, fresh)
    PROVE  /\ N!V!WorkerOK(StatusSet, labels, exits)' /\ vstep'.at = "save"
           /\ vstep'.ok = ok /\ vw' = copy /\ vwfresh' = fresh
<1>1. copy # N!V!NoCopy
  BY VpcCopyType
<1>2. QED
  BY <1>1 DEF N!V!Write, N!V!WorkerOK

LEMMA VpcContinueElsewhere ==
    ASSUME NEW exit, exit \notin {"idle", "report"}, NEW copy, NEW fresh,
           N!V!Continue(exit, copy, fresh)
    PROVE  vstep'.at = exit /\ vw' = copy /\ vwfresh' = fresh
<1>1. vstep' = N!V!At(exit) /\ vw' = copy /\ vwfresh' = fresh
  BY DEF N!V!Continue
<1>2. QED
  BY <1>1 DEF N!V!At

LEMMA VpcContinueType ==
    ASSUME NEW StatusSet, NEW labels, NEW exits, NEW removing,
           KindOK(StatusSet, labels, exits, removing),
           NEW copy \in N!V!CRs(StatusSet), NEW fresh \in BOOLEAN,
           NEW exit \in labels \union {"report"}, exit # "save",
           N!V!Continue(exit, copy, fresh)
    PROVE  /\ N!V!WorkerOK(StatusSet, labels, exits)'
           /\ exit = "idle" => vstep'.at = "idle"
           /\ exit = "report" =>
                 /\ vstep'.at = "save" /\ vstep'.ok = "idle"
                 /\ vw' \in N!V!CRs(StatusSet) /\ vwfresh' = fresh
                 /\ SameBut(vw', copy, [copy.st EXCEPT !.ready = FALSE])
           /\ exit \notin {"idle", "report"} =>
                 vstep'.at = exit /\ vw' = copy /\ vwfresh' = fresh
<1>1. CASE exit = "idle"
  <2>1. "idle" \in labels /\ N!V!Return
    BY <1>1 DEF N!V!Continue, KindOK
  <2>2. QED
    BY <1>1, <2>1, VpcReturnType
<1>2. CASE exit = "report"
  <2>1. N!V!Write(N!V!NotReady(copy), "idle", "idle", fresh)
    BY <1>2 DEF N!V!Continue
  <2>2. /\ N!V!NotReady(copy) \in N!V!CRs(StatusSet)
        /\ SameBut(N!V!NotReady(copy), copy, [copy.st EXCEPT !.ready = FALSE])
    BY VpcNotReadyType DEF KindOK
  <2>3. "save" \in labels /\ "idle" \in exits
    BY DEF KindOK
  <2>4. /\ N!V!WorkerOK(StatusSet, labels, exits)' /\ vstep'.at = "save"
        /\ vstep'.ok = "idle" /\ vw' = N!V!NotReady(copy) /\ vwfresh' = fresh
    BY <2>1, <2>2, <2>3, VpcWriteType
  <2>5. QED
    BY <1>2, <2>2, <2>4
<1>3. CASE exit \notin {"idle", "report"}
  <2>1. vstep' = N!V!At(exit) /\ vw' = copy /\ vwfresh' = fresh
    BY <1>3 DEF N!V!Continue
  <2>2. vstep'.at = exit /\ copy # N!V!NoCopy /\ exit \in labels
    BY <1>3, <2>1, VpcCopyType DEF N!V!At
  <2>3. QED
    BY <1>3, <2>1, <2>2 DEF N!V!WorkerOK
<1>4. QED
  BY <1>1, <1>2, <1>3

-----------------------------------------------------------------------------
(* What the actions of Reconciler do.                                       *)

\* Any step that a fault may accompany.
VpcCounted == N!V!NoFault \/ \E kind \in N!V!AllFaults : N!V!Fault(kind)

LEMMA VpcFaultsType ==
    ASSUME NEW StatusSet, NEW labels, NEW exits,
           N!V!KubeOK(StatusSet, labels, exits), VpcCounted
    PROVE  /\ scenario' = scenario
           /\ scenario' \in Scenarios /\ faults' \in 0 .. scenario'.most
<1>1. scenario \in Scenarios /\ faults \in 0 .. scenario.most
  BY DEF N!V!KubeOK
<1>2. scenario.most \in Nat
  BY <1>1, ReconcilerAssumption DEF AreScenarios
<1>3. QED
  BY <1>1, <1>2 DEF VpcCounted, N!V!NoFault, N!V!Fault

LEMMA VpcWorkersCopy ==
    ASSUME NEW StatusSet, NEW labels, NEW exits,
           N!V!KubeOK(StatusSet, labels, exits), vstep.at # "idle"
    PROVE  vw \in N!V!CRs(StatusSet) /\ vwfresh \in BOOLEAN /\ vstep.at \in labels
BY DEF N!V!KubeOK, N!V!WorkerOK

LEMMA VpcStartEffect ==
    ASSUME NEW StatusSet, NEW labels, NEW exits, NEW removing,
           KindOK(StatusSet, labels, exits, removing),
           N!V!KubeOK(StatusSet, labels, exits),
           NEW label \in {"release", "delete", "addFinalizer", "read"},
           N!V!Start(label)
    PROVE  /\ vstep.at = "idle" /\ vcache.exists
           /\ N!V!WorkerOK(StatusSet, labels, exits)'
           /\ vstep'.at = label /\ vw' = vcache /\ vwfresh' = vcfresh
           /\ UNCHANGED <<vapi, vcache, vcfresh>> /\ VpcCounted
<1>1. /\ label \in labels \union {"report"}
      /\ label # "save" /\ label \notin {"idle", "report"}
  BY DEF KindOK
<1>2. N!V!Continue(label, vcache, vcfresh)
  BY DEF N!V!Start
<1>3. vcache \in N!V!CRs(StatusSet) /\ vcfresh \in BOOLEAN
  BY DEF N!V!KubeOK
<1>4. vstep'.at = label /\ vw' = vcache /\ vwfresh' = vcfresh
  BY <1>1, <1>2, VpcContinueElsewhere, Zenon
<1>5. N!V!WorkerOK(StatusSet, labels, exits)'
  <2>1. vcache # N!V!NoCopy
    BY <1>3, VpcCopyType
  <2>2. vwfresh' \in BOOLEAN
    BY <1>3, <1>4
  <2>3. QED
    BY <1>1, <1>3, <1>4, <2>1, <2>2 DEF N!V!WorkerOK
<1>6. QED
  BY <1>4, <1>5 DEF N!V!Start, VpcCounted, N!V!AllFaults, N!V!k8s

LEMMA VpcReportEffect ==
    ASSUME NEW StatusSet, NEW labels, NEW exits, NEW removing,
           KindOK(StatusSet, labels, exits, removing),
           N!V!KubeOK(StatusSet, labels, exits), vstep.at # "idle", N!V!Report
    PROVE  /\ N!V!WorkerOK(StatusSet, labels, exits)'
           /\ vstep'.at = "save" /\ vstep'.ok = "idle"
           /\ vw' \in N!V!CRs(StatusSet)
           /\ SameBut(vw', vw, [vw.st EXCEPT !.ready = FALSE])
<1>1. vw \in N!V!CRs(StatusSet) /\ vwfresh \in BOOLEAN
  BY VpcWorkersCopy
<1>2. QED
  BY <1>1, VpcContinueType DEF N!V!Report

LEMMA VpcPersistEffect ==
    ASSUME NEW StatusSet, NEW labels, NEW exits, NEW removing,
           KindOK(StatusSet, labels, exits, removing),
           N!V!KubeOK(StatusSet, labels, exits), N!V!Persist
    PROVE  /\ vstep.at = "save" /\ vapi.exists /\ vstep.ok \in exits
           /\ vapi' \in N!V!CRs(StatusSet) /\ SameBut(vapi', vapi, vw.st)
           /\ ~vcfresh' /\ vcfresh' \in BOOLEAN
           /\ UNCHANGED vcache /\ N!V!NoFault /\ N!V!WorkerOK(StatusSet, labels, exits)'
           /\ vstep.ok = "idle" => vstep'.at = "idle"
           /\ vstep.ok = "report" => vstep'.at = "save" /\ vw' \in N!V!CRs(StatusSet)
                 /\ SameBut(vw', vapi', [vapi'.st EXCEPT !.ready = FALSE])
           /\ vstep.ok \notin {"idle", "report"} =>
                 vstep'.at = vstep.ok /\ vw' = vapi'
<1>1. vstep.at = "save" /\ vapi.exists /\ vapi' = [vapi EXCEPT !.st = vw.st]
      /\ vcfresh' = FALSE /\ N!V!Continue(vstep.ok, vapi', TRUE)
      /\ UNCHANGED vcache /\ N!V!NoFault
  BY DEF N!V!Persist
<1>2. vw \in N!V!CRs(StatusSet) /\ vapi \in N!V!CRs(StatusSet) /\ vstep.ok \in exits
  BY <1>1, VpcWorkersCopy DEF N!V!KubeOK, N!V!WorkerOK
<1>3. vw.st \in StatusSet
  BY <1>2, VpcCopyType
<1>4. vapi' \in N!V!CRs(StatusSet) /\ SameBut(vapi', vapi, vw.st)
  BY <1>1, <1>2, <1>3, VpcStatusType
<1>5. /\ vstep.ok \in labels \union {"report"} /\ vstep.ok # "save"
      /\ "idle" \in labels /\ "save" \in labels /\ "idle" \in exits
  BY <1>2 DEF KindOK
<1>6. /\ N!V!WorkerOK(StatusSet, labels, exits)'
      /\ vstep.ok = "idle" => vstep'.at = "idle"
      /\ vstep.ok = "report" => vstep'.at = "save" /\ vw' \in N!V!CRs(StatusSet)
            /\ SameBut(vw', vapi', [vapi'.st EXCEPT !.ready = FALSE])
      /\ vstep.ok \notin {"idle", "report"} => vstep'.at = vstep.ok /\ vw' = vapi'
  <2>1. CASE vstep.ok = "idle"
    <3>1. N!V!Return
      BY <1>1, <2>1 DEF N!V!Continue
    <3>2. QED
      BY <1>5, <2>1, <3>1, VpcReturnType
  <2>2. CASE vstep.ok = "report"
    <3>1. N!V!Write(N!V!NotReady(vapi'), "idle", "idle", TRUE)
      BY <1>1, <2>2 DEF N!V!Continue
    <3>2. vstep'.at = "save" /\ vstep'.ok = "idle" /\ vstep'.err = "idle"
          /\ vw' = N!V!NotReady(vapi') /\ vwfresh' = TRUE
      BY <3>1 DEF N!V!Write
    <3>3. /\ N!V!NotReady(vapi') \in N!V!CRs(StatusSet)
          /\ SameBut(N!V!NotReady(vapi'), vapi', [vapi'.st EXCEPT !.ready = FALSE])
      BY <1>4, VpcNotReadyType DEF KindOK
    <3>4. vw' # N!V!NoCopy
      BY <3>2, <3>3, VpcCopyType
    <3>5. N!V!WorkerOK(StatusSet, labels, exits)'
      BY <1>5, <3>2, <3>3, <3>4 DEF N!V!WorkerOK
    <3>6. QED
      BY <2>2, <3>2, <3>3, <3>5
  <2>3. CASE vstep.ok \notin {"idle", "report"}
    <3>1. vstep'.at = vstep.ok /\ vw' = vapi' /\ vwfresh' = TRUE
      BY <1>1, <2>3, VpcContinueElsewhere, Zenon
    <3>2. vw' # N!V!NoCopy
      BY <1>4, <3>1, VpcCopyType
    <3>3. N!V!WorkerOK(StatusSet, labels, exits)'
      BY <1>4, <1>5, <2>3, <3>1, <3>2 DEF N!V!WorkerOK
    <3>4. QED
      BY <2>3, <3>1, <3>3
  <2>4. QED
    BY <2>1, <2>2, <2>3
<1>7. vcfresh' \in BOOLEAN /\ ~vcfresh'
  BY <1>1
<1>8. QED
  BY <1>1, <1>2, <1>4, <1>6, <1>7

LEMMA VpcPersistFails ==
    ASSUME NEW StatusSet, NEW labels, NEW exits, NEW removing,
           KindOK(StatusSet, labels, exits, removing),
           N!V!KubeOK(StatusSet, labels, exits), N!V!PersistConflict \/ N!V!PersistError
    PROVE  /\ vstep.at = "save" /\ UNCHANGED <<vapi, vcache, vcfresh>> /\ VpcCounted
           /\ N!V!WorkerOK(StatusSet, labels, exits)'
           /\ \/ vstep'.at = "idle"
              \/ /\ vstep'.at = "save" /\ vstep'.ok = "idle"
                 /\ vw' \in N!V!CRs(StatusSet)
                 /\ SameBut(vw', vw, [vw.st EXCEPT !.ready = FALSE])
<1>1. vstep.at = "save" /\ N!V!Continue(vstep.err, vw, vwfresh)
      /\ UNCHANGED <<vapi, vcache, vcfresh>> /\ VpcCounted
  BY DEF N!V!PersistConflict, N!V!PersistError, VpcCounted, N!V!AllFaults, N!V!k8s
<1>2. vw \in N!V!CRs(StatusSet) /\ vwfresh \in BOOLEAN /\ vstep.err \in {"idle", "report"}
  BY <1>1, VpcWorkersCopy DEF N!V!KubeOK, N!V!WorkerOK
<1>3. vstep.err \in labels \union {"report"}
  BY <1>2 DEF KindOK
<1>4. QED
  BY <1>1, <1>2, <1>3, VpcContinueType

LEMMA VpcEditType ==
    ASSUME NEW StatusSet, NEW cr \in N!V!CRs(StatusSet), NEW want \in VpcWants
    PROVE  /\ Edited(cr, want) \in N!V!CRs(StatusSet)
           /\ Edited(cr, want).gen = cr.gen + 1
           /\ Edited(cr, want).want = want
           /\ Edited(cr, want).st = cr.st
           /\ Edited(cr, want).finalizer = cr.finalizer
           /\ Edited(cr, want).abandon = cr.abandon
           /\ Edited(cr, want).deleting = cr.deleting
           /\ Edited(cr, want).exists = cr.exists
<1>1. cr.gen + 1 \in Nat
  BY VpcCopyType
<1>2. PICK gen \in Nat : gen = cr.gen + 1
  BY <1>1
<1>3. Edited(cr, want) = [[cr EXCEPT !.want = want] EXCEPT !.gen = gen]
  BY <1>2 DEF Edited
<1>4. QED
  BY <1>2, <1>3 DEF N!V!CRs

LEMMA VpcDeleteType ==
    ASSUME NEW StatusSet, NEW cr \in N!V!CRs(StatusSet)
    PROVE  /\ Deleted(cr) \in N!V!CRs(StatusSet)
           /\ Deleted(cr).gen = cr.gen + 1
           /\ Deleted(cr).deleting
           /\ Deleted(cr).st = cr.st
           /\ Deleted(cr).finalizer = cr.finalizer
           /\ Deleted(cr).abandon = cr.abandon
           /\ Deleted(cr).want = cr.want
           /\ Deleted(cr).exists = cr.exists
<1>1. cr.gen + 1 \in Nat
  BY VpcCopyType
<1>2. PICK gen \in Nat : gen = cr.gen + 1
  BY <1>1
<1>3. Deleted(cr) = [[cr EXCEPT !.deleting = TRUE] EXCEPT !.gen = gen]
  BY <1>2 DEF Deleted
<1>4. QED
  BY <1>2, <1>3 DEF N!V!CRs

\* Users change everything but the status and the finalizer, one at a time.
LEMMA VpcUserEffect ==
    ASSUME NEW StatusSet, NEW labels, NEW exits,
           N!V!KubeOK(StatusSet, labels, exits), N!V!Users
    PROVE  /\ vapi.exists /\ vapi' \in N!V!CRs(StatusSet)
           /\ vapi'.st = vapi.st /\ vapi'.finalizer = vapi.finalizer
           /\ ~vcfresh' /\ vcfresh' \in BOOLEAN /\ ~vwfresh' /\ vwfresh' \in BOOLEAN
           /\ UNCHANGED <<vcache, vw, vstep>> /\ N!V!NoFault
           /\ \/ /\ "edit" \in scenario.users /\ vapi'.exists
                 /\ vapi'.gen = vapi.gen + 1
                 /\ vapi'.deleting = vapi.deleting /\ vapi'.abandon = vapi.abandon
              \/ /\ vapi'.exists /\ vapi'.abandon /\ vapi'.want = vapi.want
                 /\ vapi'.gen = vapi.gen /\ vapi'.deleting = vapi.deleting
              \/ /\ vapi.finalizer /\ ~vapi.deleting
                 /\ vapi'.exists /\ vapi'.deleting /\ vapi'.want = vapi.want
                 /\ vapi'.gen = vapi.gen + 1 /\ vapi'.abandon = vapi.abandon
              \/ /\ ~vapi.finalizer /\ ~vapi.deleting
                 /\ ~vapi'.exists /\ vapi'.want = vapi.want
                 /\ vapi'.gen = vapi.gen
                 /\ vapi'.deleting = vapi.deleting /\ vapi'.abandon = vapi.abandon
<1>1. vapi \in N!V!CRs(StatusSet)
  BY DEF N!V!KubeOK
<1>2. /\ vapi.exists /\ ~vcfresh' /\ vcfresh' \in BOOLEAN
      /\ ~vwfresh' /\ vwfresh' \in BOOLEAN
      /\ UNCHANGED <<vcache, vw, vstep>> /\ N!V!NoFault
  BY DEF N!V!Users, N!V!UserEdit, N!V!UserAbandon, N!V!UserDelete, N!V!UserWrite
<1>3. CASE N!V!UserEdit
  <2>1. PICK want \in VpcWants : N!V!UserWrite([vapi EXCEPT !.want = want, !.gen = @ + 1])
    BY <1>3 DEF N!V!UserEdit
  <2>2. vapi' = Edited(vapi, want) /\ "edit" \in scenario.users
    BY <1>3, <2>1 DEF N!V!UserWrite, N!V!UserEdit, Edited
  <2>3. /\ vapi' \in N!V!CRs(StatusSet) /\ vapi'.gen = vapi.gen + 1
        /\ vapi'.st = vapi.st /\ vapi'.finalizer = vapi.finalizer
        /\ vapi'.abandon = vapi.abandon /\ vapi'.deleting = vapi.deleting
        /\ vapi'.exists = vapi.exists
    BY <1>1, <2>2, VpcEditType
  <2>4. QED
    BY <1>2, <2>2, <2>3
<1>4. CASE N!V!UserAbandon
  <2>1. vapi' = [vapi EXCEPT !.abandon = TRUE]
    BY <1>4 DEF N!V!UserAbandon, N!V!UserWrite
  <2>2. /\ vapi' \in N!V!CRs(StatusSet) /\ vapi'.abandon
        /\ vapi'.st = vapi.st /\ vapi'.finalizer = vapi.finalizer
        /\ vapi'.deleting = vapi.deleting /\ vapi'.gen = vapi.gen
        /\ vapi'.want = vapi.want /\ vapi'.exists = vapi.exists
    BY <1>1, <2>1 DEF N!V!CRs
  <2>3. QED
    BY <1>2, <2>2
<1>5. CASE N!V!UserDelete /\ vapi.finalizer
  <2>1. vapi' = Deleted(vapi) /\ ~vapi.deleting
    BY <1>5 DEF N!V!UserDelete, N!V!UserWrite, Deleted
  <2>2. /\ vapi' \in N!V!CRs(StatusSet) /\ vapi'.gen = vapi.gen + 1
        /\ vapi'.st = vapi.st /\ vapi'.finalizer = vapi.finalizer
        /\ vapi'.abandon = vapi.abandon /\ vapi'.deleting
        /\ vapi'.exists = vapi.exists /\ vapi'.want = vapi.want
    BY <1>1, <2>1, VpcDeleteType
  <2>3. QED
    BY <1>2, <1>5, <2>1, <2>2
<1>6. CASE N!V!UserDelete /\ ~vapi.finalizer
  <2>1. vapi' = [vapi EXCEPT !.exists = FALSE] /\ ~vapi.deleting
    BY <1>6 DEF N!V!UserDelete, N!V!UserWrite
  <2>2. /\ vapi' \in N!V!CRs(StatusSet) /\ ~vapi'.exists
        /\ vapi'.st = vapi.st /\ vapi'.finalizer = vapi.finalizer
        /\ vapi'.deleting = vapi.deleting /\ vapi'.gen = vapi.gen
        /\ vapi'.want = vapi.want /\ vapi'.abandon = vapi.abandon
    BY <1>1, <2>1 DEF N!V!CRs
  <2>3. QED
    BY <1>2, <1>6, <2>1, <2>2
<1>7. QED
  BY <1>3, <1>4, <1>5, <1>6 DEF N!V!Users

\* The updates that add and remove the finalizer.
LEMMA VpcFinalizerEffect ==
    ASSUME NEW StatusSet, NEW labels, NEW exits, NEW removing,
           KindOK(StatusSet, labels, exits, removing),
           N!V!KubeOK(StatusSet, labels, exits), N!V!AddFinalizer \/ N!V!RemoveFinalizer
    PROVE  /\ vapi' \in N!V!CRs(StatusSet)
           /\ vapi'.gen = vapi.gen /\ vapi'.want = vapi.want
           /\ vapi'.deleting = vapi.deleting /\ vapi'.abandon = vapi.abandon
           /\ vapi'.st = vapi.st
           /\ UNCHANGED vcache /\ N!V!NoFault
           /\ N!V!WorkerOK(StatusSet, labels, exits)' /\ vstep'.at = "idle"
           /\ \/ UNCHANGED <<vapi, vcfresh>>
              \/ /\ ~vcfresh' /\ vcfresh' \in BOOLEAN
                 /\ vwfresh /\ vapi.exists
                 /\ \/ vstep.at = "addFinalizer" /\ vapi'.exists /\ vapi'.finalizer
                    \/ /\ vstep.at = "release" /\ ~vapi'.exists
                       /\ vapi'.finalizer = vapi.finalizer
<1>1. vapi \in N!V!CRs(StatusSet) /\ vcfresh \in BOOLEAN /\ "idle" \in labels
  BY DEF N!V!KubeOK, KindOK
<1>2. N!V!Return /\ UNCHANGED vcache /\ N!V!NoFault
  BY DEF N!V!AddFinalizer, N!V!RemoveFinalizer
<1>3. N!V!WorkerOK(StatusSet, labels, exits)' /\ vstep'.at = "idle"
  BY <1>1, <1>2, VpcReturnType
<1>4. CASE UNCHANGED <<vapi, vcfresh>>
  BY <1>1, <1>2, <1>3, <1>4
<1>5. CASE N!V!AddFinalizer /\ ~UNCHANGED <<vapi, vcfresh>>
  <2>1. /\ vapi' = [vapi EXCEPT !.finalizer = TRUE] /\ vcfresh' = FALSE
        /\ vwfresh /\ vapi.exists /\ vstep.at = "addFinalizer"
    BY <1>5 DEF N!V!AddFinalizer
  <2>2. /\ vapi' \in N!V!CRs(StatusSet) /\ vapi'.finalizer /\ vapi'.exists
        /\ vapi'.gen = vapi.gen /\ vapi'.want = vapi.want
        /\ vapi'.deleting = vapi.deleting /\ vapi'.abandon = vapi.abandon
        /\ vapi'.st = vapi.st
    BY <1>1, <2>1 DEF N!V!CRs
  <2>3. vcfresh' \in BOOLEAN /\ ~vcfresh'
    BY <2>1
  <2>4. QED
    BY <1>2, <1>3, <2>1, <2>2, <2>3
<1>6. CASE N!V!RemoveFinalizer /\ ~UNCHANGED <<vapi, vcfresh>>
  <2>1. /\ vapi' = [vapi EXCEPT !.exists = FALSE] /\ vcfresh' = FALSE
        /\ vwfresh /\ vapi.exists /\ vstep.at = "release"
    BY <1>6 DEF N!V!RemoveFinalizer
  <2>2. /\ vapi' \in N!V!CRs(StatusSet) /\ vapi'.finalizer = vapi.finalizer
        /\ ~vapi'.exists
        /\ vapi'.gen = vapi.gen /\ vapi'.want = vapi.want
        /\ vapi'.deleting = vapi.deleting /\ vapi'.abandon = vapi.abandon
        /\ vapi'.st = vapi.st
    BY <1>1, <2>1 DEF N!V!CRs
  <2>3. vcfresh' \in BOOLEAN /\ ~vcfresh'
    BY <2>1
  <2>4. QED
    BY <1>2, <1>3, <2>1, <2>2, <2>3
<1>7. QED
  BY <1>4, <1>5, <1>6

-----------------------------------------------------------------------------
(* The types and the finalizer protocol are kept.                           *)

LEMMA VpcKubeKept ==
    ASSUME NEW StatusSet, NEW labels, NEW exits,
           N!V!KubeOK(StatusSet, labels, exits), VpcCounted,
           N!V!WorkerOK(StatusSet, labels, exits)',
           vapi' \in N!V!CRs(StatusSet), vcache' \in N!V!CRs(StatusSet),
           vcfresh' \in BOOLEAN
    PROVE  N!V!KubeOK(StatusSet, labels, exits)'
<1>1. scenario' \in Scenarios /\ faults' \in 0 .. scenario'.most
  BY VpcFaultsType
<1>2. QED
  BY <1>1 DEF N!V!KubeOK

LEMMA VpcStartKept ==
    ASSUME NEW StatusSet, NEW labels, NEW exits, NEW removing,
           KindOK(StatusSet, labels, exits, removing),
           N!V!KubeOK(StatusSet, labels, exits), N!V!Protocol(removing),
           \/ N!V!ReconcileAbandoned \/ N!V!ReconcileDeleted
           \/ N!V!ReconcileNew \/ N!V!ReconcileExisting
    PROVE  N!V!KubeOK(StatusSet, labels, exits)' /\ N!V!Protocol(removing)'
<1>1. PICK label \in {"release", "delete", "addFinalizer", "read"} :
          /\ N!V!Start(label)
          /\ label # "addFinalizer" => vcache.finalizer
          /\ label \in {"release", "delete"} <=> vcache.deleting
  BY DEF N!V!ReconcileAbandoned, N!V!ReconcileDeleted, N!V!ReconcileNew,
     N!V!ReconcileExisting
<1>2. /\ vstep.at = "idle" /\ N!V!WorkerOK(StatusSet, labels, exits)'
      /\ vstep'.at = label /\ vw' = vcache /\ vwfresh' = vcfresh
      /\ UNCHANGED <<vapi, vcache, vcfresh>> /\ VpcCounted
  BY <1>1, VpcStartEffect
<1>3. N!V!KubeOK(StatusSet, labels, exits)'
  BY <1>2, VpcKubeKept DEF N!V!KubeOK
<1>4. label \in removing <=> label \in {"release", "delete"}
  BY DEF KindOK
<1>5. N!V!FinalizerHeld'
  BY <1>1, <1>2 DEF N!V!Protocol, N!V!FinalizerHeld
<1>6. N!V!DeletionSeen(removing)'
  BY <1>1, <1>2, <1>4 DEF N!V!Protocol, N!V!DeletionSeen
<1>7. N!V!CopyIsCurrent'
  BY <1>1, <1>2 DEF N!V!Protocol, N!V!CopyIsCurrent
<1>8. QED
  BY <1>3, <1>5, <1>6, <1>7 DEF N!V!Protocol

LEMMA VpcFinalizerKept ==
    ASSUME NEW StatusSet, NEW labels, NEW exits, NEW removing,
           KindOK(StatusSet, labels, exits, removing),
           N!V!KubeOK(StatusSet, labels, exits), N!V!Protocol(removing),
           N!V!AddFinalizer \/ N!V!RemoveFinalizer
    PROVE  N!V!KubeOK(StatusSet, labels, exits)' /\ N!V!Protocol(removing)'
<1>1. /\ vapi' \in N!V!CRs(StatusSet)
      /\ vapi'.deleting = vapi.deleting /\ vapi'.abandon = vapi.abandon
      /\ UNCHANGED vcache /\ N!V!NoFault
      /\ N!V!WorkerOK(StatusSet, labels, exits)' /\ vstep'.at = "idle"
      /\ \/ UNCHANGED <<vapi, vcfresh>>
         \/ /\ ~vcfresh' /\ vcfresh' \in BOOLEAN
            /\ vwfresh /\ vapi.exists
            /\ \/ vstep.at = "addFinalizer" /\ vapi'.exists /\ vapi'.finalizer
               \/ /\ vstep.at = "release" /\ ~vapi'.exists
                  /\ vapi'.finalizer = vapi.finalizer
  BY VpcFinalizerEffect
<1>2. N!V!KubeOK(StatusSet, labels, exits)'
  BY <1>1, VpcKubeKept DEF N!V!KubeOK, VpcCounted
<1>3. "release" \in removing /\ "idle" \notin removing
  BY DEF KindOK
<1>4. N!V!FinalizerHeld'
  BY <1>1 DEF N!V!Protocol, N!V!FinalizerHeld
<1>5. N!V!DeletionSeen(removing)'
  BY <1>1, <1>3 DEF N!V!Protocol, N!V!DeletionSeen
<1>6. N!V!CopyIsCurrent'
  BY <1>1 DEF N!V!Protocol, N!V!CopyIsCurrent
<1>7. QED
  BY <1>2, <1>4, <1>5, <1>6 DEF N!V!Protocol

LEMMA VpcPersistKept ==
    ASSUME NEW StatusSet, NEW labels, NEW exits, NEW removing,
           KindOK(StatusSet, labels, exits, removing),
           N!V!KubeOK(StatusSet, labels, exits), N!V!Protocol(removing), N!V!Persist
    PROVE  N!V!KubeOK(StatusSet, labels, exits)' /\ N!V!Protocol(removing)'
<1>1. /\ vstep.at = "save" /\ vapi.exists /\ vstep.ok \in exits
      /\ vapi' \in N!V!CRs(StatusSet) /\ vapi'.exists = vapi.exists
      /\ vapi'.deleting = vapi.deleting /\ vapi'.finalizer = vapi.finalizer
      /\ vapi'.abandon = vapi.abandon
      /\ ~vcfresh' /\ vcfresh' \in BOOLEAN
      /\ UNCHANGED vcache /\ N!V!NoFault /\ N!V!WorkerOK(StatusSet, labels, exits)'
      /\ \/ vstep'.at = "idle"
         \/ vstep'.at \in {"save", vstep.ok} /\ vw'.abandon = vapi'.abandon
  BY VpcPersistEffect DEF SameBut
<1>2. N!V!KubeOK(StatusSet, labels, exits)'
  BY <1>1, VpcKubeKept DEF N!V!KubeOK, VpcCounted
<1>3. vstep'.at = "addFinalizer" \/ vstep'.at \in removing => FALSE
  BY <1>1 DEF KindOK
<1>4. N!V!FinalizerHeld'
  BY <1>1, <1>3 DEF N!V!Protocol, N!V!FinalizerHeld
<1>5. N!V!DeletionSeen(removing)'
  BY <1>1, <1>3 DEF N!V!Protocol, N!V!DeletionSeen
<1>6. N!V!CopyIsCurrent'
  BY <1>1 DEF N!V!Protocol, N!V!CopyIsCurrent
<1>7. QED
  BY <1>2, <1>4, <1>5, <1>6 DEF N!V!Protocol

LEMMA VpcUsersKept ==
    ASSUME NEW StatusSet, NEW labels, NEW exits, NEW removing,
           N!V!KubeOK(StatusSet, labels, exits), N!V!Protocol(removing), N!V!Users
    PROVE  N!V!KubeOK(StatusSet, labels, exits)' /\ N!V!Protocol(removing)'
<1>1. /\ vapi.exists /\ vapi' \in N!V!CRs(StatusSet)
      /\ vapi'.finalizer = vapi.finalizer
      /\ vapi.abandon => vapi'.abandon
      /\ vapi.deleting => vapi'.deleting
      /\ vapi'.deleting => vapi.deleting \/ vapi.finalizer
      /\ ~vapi'.exists => ~vapi.finalizer
      /\ ~vcfresh' /\ vcfresh' \in BOOLEAN /\ vwfresh' \in BOOLEAN
      /\ UNCHANGED <<vcache, vw, vstep>> /\ N!V!NoFault
  BY VpcUserEffect
<1>2. N!V!WorkerOK(StatusSet, labels, exits)'
  BY <1>1 DEF N!V!KubeOK, N!V!WorkerOK
<1>3. N!V!KubeOK(StatusSet, labels, exits)'
  BY <1>1, <1>2, VpcKubeKept DEF N!V!KubeOK, VpcCounted
<1>4. N!V!FinalizerHeld'
  BY <1>1 DEF N!V!Protocol, N!V!FinalizerHeld
<1>5. N!V!DeletionSeen(removing)'
  BY <1>1 DEF N!V!Protocol, N!V!DeletionSeen, N!V!FinalizerHeld
<1>6. N!V!CopyIsCurrent'
  BY <1>1 DEF N!V!Protocol, N!V!CopyIsCurrent
<1>7. QED
  BY <1>3, <1>4, <1>5, <1>6 DEF N!V!Protocol

LEMMA VpcCacheKept ==
    ASSUME NEW StatusSet, NEW labels, NEW exits, NEW removing,
           N!V!KubeOK(StatusSet, labels, exits), N!V!Protocol(removing), N!V!CacheSync
    PROVE  N!V!KubeOK(StatusSet, labels, exits)' /\ N!V!Protocol(removing)'
<1>1. /\ vcache' = vapi /\ vcfresh' \in BOOLEAN
      /\ UNCHANGED <<vapi, vw, vwfresh, vstep>> /\ N!V!NoFault
  BY DEF N!V!CacheSync, N!V!worker
<1>2. N!V!WorkerOK(StatusSet, labels, exits)'
  BY <1>1 DEF N!V!KubeOK, N!V!WorkerOK
<1>3. N!V!KubeOK(StatusSet, labels, exits)'
  BY <1>1, <1>2, VpcKubeKept DEF N!V!KubeOK, VpcCounted
<1>4. N!V!FinalizerHeld'
  BY <1>1 DEF N!V!Protocol, N!V!FinalizerHeld
<1>5. N!V!DeletionSeen(removing)'
  BY <1>1 DEF N!V!Protocol, N!V!DeletionSeen, N!V!FinalizerHeld
<1>6. N!V!CopyIsCurrent'
  BY <1>1 DEF N!V!Protocol, N!V!CopyIsCurrent
<1>7. QED
  BY <1>3, <1>4, <1>5, <1>6 DEF N!V!Protocol

\* A step that leaves the API server alone stays on its path, or returns.
LEMMA VpcWorkerKept ==
    ASSUME NEW StatusSet, NEW labels, NEW exits, NEW removing,
           KindOK(StatusSet, labels, exits, removing),
           N!V!KubeOK(StatusSet, labels, exits), N!V!Protocol(removing),
           N!V!WorkerOK(StatusSet, labels, exits)', VpcCounted,
           UNCHANGED <<vapi, vcache, vcfresh>>,
           \/ vstep'.at = "idle"
           \/ /\ vw'.abandon = vw.abandon /\ vstep'.at # "addFinalizer"
              /\ vstep.at \notin {"idle", "addFinalizer"}
              /\ vstep'.at \in removing <=> vstep.at \in removing
    PROVE  N!V!KubeOK(StatusSet, labels, exits)' /\ N!V!Protocol(removing)'
<1>1. N!V!KubeOK(StatusSet, labels, exits)'
  BY VpcKubeKept DEF N!V!KubeOK
<1>2. "idle" \notin removing
  BY DEF KindOK
<1>3. N!V!FinalizerHeld'
  BY DEF N!V!Protocol, N!V!FinalizerHeld
<1>4. N!V!DeletionSeen(removing)'
  BY <1>2 DEF N!V!Protocol, N!V!DeletionSeen
<1>5. N!V!CopyIsCurrent'
  BY DEF N!V!Protocol, N!V!CopyIsCurrent
<1>6. QED
  BY <1>1, <1>3, <1>4, <1>5 DEF N!V!Protocol

\* Steps of AWS and of other people.
LEMMA VpcAwsKept ==
    ASSUME NEW StatusSet, NEW labels, NEW exits, NEW removing,
           N!V!KubeOK(StatusSet, labels, exits), N!V!Protocol(removing), VpcCounted,
           UNCHANGED <<vapi, vcache, vcfresh, vw, vwfresh, vstep>>
    PROVE  N!V!KubeOK(StatusSet, labels, exits)' /\ N!V!Protocol(removing)'
<1>1. N!V!WorkerOK(StatusSet, labels, exits)'
  BY DEF N!V!KubeOK, N!V!WorkerOK
<1>2. N!V!KubeOK(StatusSet, labels, exits)'
  BY <1>1, VpcKubeKept DEF N!V!KubeOK
<1>3. QED
  BY <1>2 DEF N!V!Protocol, N!V!FinalizerHeld, N!V!DeletionSeen, N!V!CopyIsCurrent

\* What happens to every kind.
VpcShared == N!V!SharedWork \/ N!V!PersistError \/ N!V!Crash \/ N!V!Users \/ N!V!CacheSync

LEMMA VpcSharedKept ==
    ASSUME NEW StatusSet, NEW labels, NEW exits, NEW removing,
           KindOK(StatusSet, labels, exits, removing),
           N!V!KubeOK(StatusSet, labels, exits), N!V!Protocol(removing), VpcShared
    PROVE  N!V!KubeOK(StatusSet, labels, exits)' /\ N!V!Protocol(removing)'
<1>1. CASE \/ N!V!ReconcileAbandoned \/ N!V!ReconcileDeleted
           \/ N!V!ReconcileNew \/ N!V!ReconcileExisting
  BY <1>1, VpcStartKept
<1>2. CASE N!V!AddFinalizer \/ N!V!RemoveFinalizer
  BY <1>2, VpcFinalizerKept
<1>3. CASE N!V!Persist
  BY <1>3, VpcPersistKept
<1>4. CASE N!V!PersistConflict \/ N!V!PersistError
  <2>1. /\ vstep.at = "save" /\ UNCHANGED <<vapi, vcache, vcfresh>> /\ VpcCounted
        /\ N!V!WorkerOK(StatusSet, labels, exits)'
        /\ \/ vstep'.at = "idle"
           \/ vstep'.at = "save" /\ vw'.abandon = vw.abandon
    BY <1>4, VpcPersistFails DEF SameBut
  <2>2. "save" \notin removing
    BY DEF KindOK
  <2>3. QED
    BY <2>1, <2>2, VpcWorkerKept
<1>5. CASE N!V!Crash
  <2>1. N!V!Return /\ UNCHANGED <<vapi, vcache, vcfresh>> /\ VpcCounted
    BY <1>5 DEF N!V!Crash, N!V!k8s, VpcCounted, N!V!AllFaults
  <2>2. "idle" \in labels
    BY DEF KindOK
  <2>3. N!V!WorkerOK(StatusSet, labels, exits)' /\ vstep'.at = "idle"
    BY <2>1, <2>2, VpcReturnType
  <2>4. QED
    BY <2>1, <2>3, VpcWorkerKept
<1>6. CASE N!V!Users
  BY <1>6, VpcUsersKept
<1>7. CASE N!V!CacheSync
  BY <1>7, VpcCacheKept
<1>8. QED
  BY <1>1, <1>2, <1>3, <1>4, <1>5, <1>6, <1>7 DEF VpcShared, N!V!SharedWork

-----------------------------------------------------------------------------
(* Names.  The subnet's CR is the one that ReconcilerProofs is about.       *)

LEMMA SubnetNames ==
    /\ \A a, b, c : N!S!KubeOK(a, b, c) <=> KubeOK(a, b, c)
    /\ \A r : N!S!Protocol(r) <=> Protocol(r)
    /\ \A label, copy : N!S!Goto(label, copy) <=> Goto(label, copy)
    /\ \A label, copy, x : N!S!GotoWith(label, copy, x) <=> GotoWith(label, copy, x)
    /\ \A copy, ok, err : N!S!Save(copy, ok, err) <=> Save(copy, ok, err)
    /\ N!S!Report <=> Report
    /\ N!S!Return <=> Return
    /\ \A cr : N!S!ReadyNow(cr) = ReadyNow(cr) /\ N!S!Observed(cr) = Observed(cr)
<1>1. \A a, b, c : N!S!KubeOK(a, b, c) <=> KubeOK(a, b, c)
  BY DEF N!S!KubeOK, KubeOK, N!S!WorkerOK, WorkerOK, N!S!CRs, CRs, N!S!NoCopy, NoCopy
<1>2. \A r : N!S!Protocol(r) <=> Protocol(r)
  BY DEF N!S!Protocol, Protocol, N!S!FinalizerHeld, FinalizerHeld,
     N!S!DeletionSeen, DeletionSeen, N!S!CopyIsCurrent, CopyIsCurrent
<1>3. /\ \A label, copy : N!S!Goto(label, copy) <=> Goto(label, copy)
      /\ \A label, copy, x : N!S!GotoWith(label, copy, x) <=> GotoWith(label, copy, x)
      /\ \A copy, ok, err : N!S!Save(copy, ok, err) <=> Save(copy, ok, err)
  BY DEF N!S!Goto, Goto, N!S!GotoWith, GotoWith, N!S!AtWith, AtWith, N!S!At, At,
     N!S!Save, Save, N!S!Write, Write
<1>4. N!S!Report <=> Report
  BY DEF N!S!Report, Report, N!S!Continue, Continue, N!S!Write, Write,
     N!S!NotReady, NotReady, N!S!Return, Return, N!S!At, At, N!S!NoCopy, NoCopy
<1>5. N!S!Return <=> Return
  BY DEF N!S!Return, Return, N!S!At, At, N!S!NoCopy, NoCopy
<1>6. \A cr : N!S!ReadyNow(cr) = ReadyNow(cr) /\ N!S!Observed(cr) = Observed(cr)
  BY DEF N!S!ReadyNow, ReadyNow, N!S!Observed, Observed
<1>7. QED
  BY <1>1, <1>2, <1>3, <1>4, <1>5, <1>6

\* The two kinds count their faults together.
LEMMA FaultNames ==
    /\ \A kind : N!S!Fault(kind) <=> Fault(kind)
    /\ \A kind : N!V!Fault(kind) <=> Fault(kind)
    /\ (N!S!NoFault <=> NoFault) /\ (N!V!NoFault <=> NoFault)
    /\ \A kinds : N!V!FreeOf(kinds) <=> FreeOf(kinds)
    /\ VpcCounted <=> Counted
BY DEF N!S!Fault, N!V!Fault, Fault, N!S!NoFault, N!V!NoFault, NoFault,
   N!V!FreeOf, FreeOf, VpcCounted, Counted, N!V!AllFaults, AllFaults

\* What Network does to the subnet's CR without the subnet's own calls.
LEMMA SubnetShared ==
    /\ N!S!SharedWork => SharedWork
    /\ N!S!PersistError => PersistError
    /\ N!S!Users => Users
    /\ N!S!CacheSync => CacheSync
<1>1. N!S!SharedWork => SharedWork
  BY DEF N!S!SharedWork, SharedWork, N!S!ReconcileAbandoned, ReconcileAbandoned,
     N!S!ReconcileDeleted, ReconcileDeleted, N!S!ReconcileNew, ReconcileNew,
     N!S!ReconcileExisting, ReconcileExisting, N!S!Start, Start,
     N!S!AddFinalizer, AddFinalizer, N!S!RemoveFinalizer, RemoveFinalizer,
     N!S!Persist, Persist, N!S!PersistConflict, PersistConflict,
     N!S!Continue, Continue, N!S!Write, Write, N!S!NotReady, NotReady,
     N!S!Return, Return, N!S!At, At, N!S!NoCopy, NoCopy, N!S!k8s, k8s,
     N!S!Fault, Fault, N!S!NoFault, NoFault
<1>2. N!S!PersistError => PersistError
  BY DEF N!S!PersistError, PersistError,
     N!S!Continue, Continue, N!S!Write, Write, N!S!NotReady, NotReady,
     N!S!Return, Return, N!S!At, At, N!S!NoCopy, NoCopy, N!S!k8s, k8s,
     N!S!Fault, Fault
<1>3. N!S!Users => Users
  BY DEF N!S!Users, Users, N!S!UserEdit, UserEdit, N!S!UserAbandon, UserAbandon,
     N!S!UserDelete, UserDelete, N!S!UserWrite, UserWrite, N!S!NoFault, NoFault
<1>4. N!S!CacheSync => CacheSync
  BY DEF N!S!CacheSync, CacheSync, N!S!worker, worker, N!S!NoFault, NoFault
<1>5. QED
  BY <1>1, <1>2, <1>3, <1>4

LEMMA VpcKind == KindOK(N!V!Statuses, N!V!Labels, N!V!Exits, N!V!Removing)
BY DEF KindOK, N!V!Statuses, N!V!Labels, N!V!Exits, N!V!Removing

LEMMA SubnetKind == KindOK(N!S!Statuses, N!S!Labels, N!S!Exits, N!S!Removing)
BY DEF KindOK, N!S!Statuses, N!S!Labels, N!S!Exits, N!S!Removing

-----------------------------------------------------------------------------
(* The parts of the invariant.                                              *)

VpcKube == N!V!KubeOK(N!V!Statuses, N!V!Labels, N!V!Exits) /\ N!V!Protocol(N!V!Removing)
SubnetKube == KubeOK(N!S!Statuses, N!S!Labels, N!S!Exits) /\ Protocol(N!S!Removing)

Planned == vstep.at = "ranges" =>
    vstep.local \in [add : SUBSET N!V!Ranges, drop : SUBSET N!V!Ranges]
VpcsOK ==
    /\ vmade \in 0 .. MaxVpcs /\ DOMAIN vpcs \subseteq 1 .. vmade
    /\ \A i \in DOMAIN vpcs : vpcs[i] \in N!V!Vpcs
SubnetsOK ==
    /\ smade \in 0 .. MaxSubnets /\ DOMAIN subnets \subseteq 1 .. smade
    /\ \A i \in DOMAIN subnets :
          subnets[i] \in [vpc : DOMAIN vpcs, tags : SUBSET NetworkTags]

VpcGiven ==
    /\ vapi.st.id <= vmade /\ vcache.st.id <= vmade
    /\ vstep.at # "idle" => vw.st.id <= vmade
SubnetGiven ==
    /\ api.st.id <= smade /\ cache.st.id <= smade
    /\ step.at # "idle" => w.st.id <= smade
HandGiven == step.at \in {"lookup", "create"} => step.local \in 1 .. vmade

\* What OneVpc says of the VPC's worker, and of the subnets.
VpcSpeaks ==
    /\ vcache.st.id \in DOMAIN vpcs => vcache.st.id = vapi.st.id
    /\ vstep.at # "idle" =>
          \/ vw.st.id = vapi.st.id
          \/ vstep.at = "save" /\ vapi.st.id \notin DOMAIN vpcs
    /\ vstep.at = "create" => vapi.st.id \notin DOMAIN vpcs
SubnetSpeaks ==
    /\ \A i \in DOMAIN subnets : subnets[i].vpc = vapi.st.id
    /\ step.at \in {"lookup", "create"} /\ step.local \in DOMAIN vpcs =>
          step.local = vapi.st.id

Unlagged == FreeOf({"lag"})
Alone == FreeOf({"lag", "externalDelete"})

LEMMA AloneUnlagged == Alone => Unlagged
BY DEF Alone, Unlagged, FreeOf

\* Everything but the types, as the VPC's steps and the subnet's change it.
VpcFacts == VpcGiven /\ (Unlagged => VpcSpeaks) /\ (Alone => N!VpcStays)
SubnetFacts ==
    /\ SubnetGiven /\ HandGiven
    /\ Unlagged => SubnetSpeaks
    /\ Alone => N!SubnetFound

VpcTypes == VpcKube /\ Planned /\ VpcsOK
SubnetTypes == SubnetKube /\ SubnetsOK

LEMMA NetworkParts == NetworkInv <=>
    VpcTypes /\ VpcFacts /\ SubnetTypes /\ SubnetFacts /\ N!Labelled
<1>1. N!TypeOK /\ N!V!Protocol(N!V!Removing) /\ N!S!Protocol(N!S!Removing)
        <=> VpcTypes /\ SubnetTypes
  <2>1. N!Occupied \subseteq DOMAIN vpcs
          <=> \A i \in DOMAIN subnets : subnets[i].vpc \in DOMAIN vpcs
    BY DEF N!Occupied
  <2>2. N!V!TypeOK <=>
          /\ N!V!KubeOK(N!V!Statuses, N!V!Labels, N!V!Exits)
          /\ VpcsOK /\ Planned /\ N!Occupied \subseteq DOMAIN vpcs
    BY DEF N!V!TypeOK, VpcsOK, Planned
  <2>3. N!S!TypeOK <=> KubeOK(N!S!Statuses, N!S!Labels, N!S!Exits) /\ SubnetsOK
    BY SubnetNames DEF N!S!TypeOK, SubnetsOK
  <2>4. N!S!Protocol(N!S!Removing) <=> Protocol(N!S!Removing)
    BY SubnetNames
  <2>5. QED
    BY <2>1, <2>2, <2>3, <2>4 DEF N!TypeOK, VpcTypes, VpcKube, SubnetTypes,
       SubnetKube, SubnetsOK
<1>2. N!GivenOut <=> VpcGiven /\ SubnetGiven /\ HandGiven
  BY DEF N!GivenOut, VpcGiven, SubnetGiven, HandGiven
<1>3. N!OneVpc <=> (Unlagged => VpcSpeaks /\ SubnetSpeaks)
  BY FaultNames DEF N!OneVpc, Unlagged, VpcSpeaks, SubnetSpeaks
<1>4. N!SoleSubnet <=> (Alone => N!VpcStays /\ N!SubnetFound)
  BY FaultNames DEF N!SoleSubnet, Alone
<1>5. N!OneVpc => N!SubnetInVpc
  BY <1>3, FaultNames DEF N!SubnetInVpc, Unlagged, SubnetSpeaks
<1>6. QED
  BY <1>1, <1>2, <1>3, <1>4, <1>5 DEF NetworkInv, N!NetworkInv, VpcFacts,
     SubnetFacts

\* The types that the steps below need.
LEMMA VpcHas ==
    ASSUME VpcTypes
    PROVE  /\ N!V!KubeOK(N!V!Statuses, N!V!Labels, N!V!Exits)
           /\ N!V!Protocol(N!V!Removing)
           /\ KindOK(N!V!Statuses, N!V!Labels, N!V!Exits, N!V!Removing)
           /\ vapi \in N!V!CRs(N!V!Statuses) /\ vapi.st \in N!V!Statuses
           /\ vcache \in N!V!CRs(N!V!Statuses) /\ vcache.st \in N!V!Statuses
           /\ vapi.st.id \in Nat /\ vcache.st.id \in Nat
           /\ vmade \in Nat /\ MaxVpcs \in Nat /\ DOMAIN vpcs \subseteq 1 .. vmade
           /\ vstep.at \in N!V!Labels /\ vwfresh \in BOOLEAN
           /\ vstep.at # "idle" => vw \in N!V!CRs(N!V!Statuses)
                 /\ vw.st \in N!V!Statuses /\ vw.st.id \in Nat
<1>1. MaxVpcs \in Nat
  BY NetworkAssumption DEF N!Parameters
<1>2. \A st \in N!V!Statuses : st.id \in Nat
  BY <1>1 DEF N!V!Statuses, N!V!Ids, N!V!None
<1>3. \A cr \in N!V!CRs(N!V!Statuses) : cr.st \in N!V!Statuses
  BY VpcCopyType
<1>4. /\ vapi \in N!V!CRs(N!V!Statuses) /\ vcache \in N!V!CRs(N!V!Statuses)
      /\ vstep.at \in N!V!Labels /\ vwfresh \in BOOLEAN
      /\ vstep.at # "idle" => vw \in N!V!CRs(N!V!Statuses)
  BY DEF VpcTypes, VpcKube, N!V!KubeOK, N!V!WorkerOK
<1>5. vmade \in Nat /\ DOMAIN vpcs \subseteq 1 .. vmade
  BY <1>1 DEF VpcTypes, VpcsOK
<1>6. QED
  BY <1>1, <1>2, <1>3, <1>4, <1>5, VpcKind DEF VpcTypes, VpcKube

LEMMA SubnetHas ==
    ASSUME SubnetTypes
    PROVE  /\ KubeOK(N!S!Statuses, N!S!Labels, N!S!Exits)
           /\ Protocol(N!S!Removing)
           /\ KindOK(N!S!Statuses, N!S!Labels, N!S!Exits, N!S!Removing)
           /\ api \in CRs(N!S!Statuses) /\ api.st \in N!S!Statuses
           /\ cache \in CRs(N!S!Statuses) /\ cache.st \in N!S!Statuses
           /\ api.st.id \in Nat /\ cache.st.id \in Nat
           /\ smade \in Nat /\ MaxSubnets \in Nat /\ DOMAIN subnets \subseteq 1 .. smade
           /\ step.at \in N!S!Labels /\ wfresh \in BOOLEAN
           /\ step.at # "idle" => w \in CRs(N!S!Statuses)
                 /\ w.st \in N!S!Statuses /\ w.st.id \in Nat
<1>1. MaxSubnets \in Nat
  BY NetworkAssumption DEF N!Parameters
<1>2. \A st \in N!S!Statuses : st.id \in Nat
  BY <1>1 DEF N!S!Statuses, N!S!Ids, N!S!None
<1>3. \A cr \in CRs(N!S!Statuses) : cr.st \in N!S!Statuses
  BY CopyType
<1>4. /\ api \in CRs(N!S!Statuses) /\ cache \in CRs(N!S!Statuses)
      /\ step.at \in N!S!Labels /\ wfresh \in BOOLEAN
      /\ step.at # "idle" => w \in CRs(N!S!Statuses)
  BY DEF SubnetTypes, SubnetKube, KubeOK, WorkerOK
<1>5. smade \in Nat /\ DOMAIN subnets \subseteq 1 .. smade
  BY <1>1 DEF SubnetTypes, SubnetsOK
<1>6. QED
  BY <1>1, <1>2, <1>3, <1>4, <1>5, SubnetKind DEF SubnetTypes, SubnetKube

LEMMA SameScenarioOfBoth ==
    ASSUME VpcTypes, Counted
    PROVE  scenario' = scenario /\ Unlagged' = Unlagged /\ Alone' = Alone
<1>1. scenario' = scenario
  BY VpcHas, FaultNames, VpcFaultsType
<1>2. QED
  BY <1>1 DEF Unlagged, Alone, FreeOf

-----------------------------------------------------------------------------
(* Steps of the VPC's worker and of those around it.                        *)

\* What a step of the VPC's side comes to: it keeps its part, and the subnet's
\* part may wait.
VpcMoves ==
    /\ VpcTypes' /\ VpcFacts' /\ Counted
    /\ vmade <= vmade' /\ DOMAIN vpcs' \intersect (1 .. vmade) \subseteq DOMAIN vpcs
    /\ N!Occupied \subseteq DOMAIN vpcs'
    /\ Unlagged => vapi'.st.id = vapi.st.id \/ vapi.st.id \notin DOMAIN vpcs

\* Most steps leave alone which VPCs there are and which one the status names.
VpcQuietly ==
    /\ DOMAIN vpcs' = DOMAIN vpcs /\ vmade' = vmade /\ vapi'.st.id = vapi.st.id
    /\ vcache'.st.id \in {vcache.st.id, vapi.st.id}
    /\ vcache.deleting => vcache'.deleting
    /\ \/ vstep'.at = "idle"
       \/ vstep' = vstep /\ vw' = vw
       \/ /\ vstep.at # "idle" /\ vw'.st.id = vw.st.id
          /\ vstep.at = "save" => vstep'.at = "save"
          /\ vstep'.at = "create" => vw.st.id \notin DOMAIN vpcs
          /\ vstep'.at \in N!V!Removing <=> vstep.at \in N!V!Removing

LEMMA VpcQuiet ==
    ASSUME NetworkInv, VpcTypes', Counted, VpcQuietly
    PROVE  VpcMoves
<1>1. /\ VpcTypes /\ VpcFacts /\ SubnetTypes
      /\ Unlagged' = Unlagged /\ Alone' = Alone
  BY NetworkParts, SameScenarioOfBoth
<1>2. /\ vapi.st.id \in Nat /\ vcache.st.id \in Nat /\ vmade \in Nat
      /\ vstep.at # "idle" => vw.st.id \in Nat
  BY <1>1, VpcHas
<1>3. VpcGiven'
  BY <1>1, <1>2 DEF VpcFacts, VpcGiven, VpcQuietly
<1>4. Unlagged => VpcSpeaks'
  BY <1>1 DEF VpcFacts, VpcSpeaks, VpcQuietly
<1>5. Alone => N!VpcStays'
  BY <1>1, AloneUnlagged DEF VpcFacts, VpcSpeaks, N!VpcStays, VpcQuietly, N!V!Removing
<1>6. N!Occupied \subseteq DOMAIN vpcs
  BY <1>1 DEF SubnetTypes, SubnetsOK, N!Occupied
<1>7. vmade <= vmade'
  BY <1>2 DEF VpcQuietly
<1>8. QED
  BY <1>1, <1>3, <1>4, <1>5, <1>6, <1>7 DEF VpcMoves, VpcFacts, VpcQuietly

\* Planned steps are known only at the label where they are taken.
LEMMA VpcSharedPlanned ==
    ASSUME VpcTypes, VpcShared
    PROVE  Planned'
<1>1. /\ N!V!KubeOK(N!V!Statuses, N!V!Labels, N!V!Exits)
      /\ KindOK(N!V!Statuses, N!V!Labels, N!V!Exits, N!V!Removing)
  BY VpcHas
<1>2. CASE \/ N!V!ReconcileAbandoned \/ N!V!ReconcileDeleted
           \/ N!V!ReconcileNew \/ N!V!ReconcileExisting
  <2>1. PICK label \in {"release", "delete", "addFinalizer", "read"} : N!V!Start(label)
    BY <1>2 DEF N!V!ReconcileAbandoned, N!V!ReconcileDeleted, N!V!ReconcileNew,
       N!V!ReconcileExisting
  <2>2. vstep'.at = label
    BY <1>1, <2>1, VpcStartEffect
  <2>3. QED
    BY <2>2 DEF Planned
<1>3. CASE N!V!AddFinalizer \/ N!V!RemoveFinalizer
  BY <1>1, <1>3, VpcFinalizerEffect DEF Planned
<1>4. CASE N!V!Persist
  <2>1. vstep.ok \in N!V!Exits
    BY <1>1, <1>4, VpcPersistEffect
  <2>2. vstep'.at \in {"idle", "attributes"}
    BY <1>1, <1>4, <2>1, VpcPersistEffect DEF N!V!Exits
  <2>3. QED
    BY <2>2 DEF Planned
<1>5. CASE N!V!PersistConflict \/ N!V!PersistError
  BY <1>1, <1>5, VpcPersistFails DEF Planned
<1>6. CASE N!V!Crash
  BY <1>6 DEF N!V!Crash, N!V!Return, N!V!At, Planned
<1>7. CASE UNCHANGED vstep
  BY <1>7 DEF VpcTypes, Planned
<1>8. CASE N!V!Users \/ N!V!CacheSync
  BY <1>7, <1>8 DEF N!V!Users, N!V!UserEdit, N!V!UserAbandon, N!V!UserDelete,
     N!V!UserWrite, N!V!CacheSync, N!V!worker
<1>9. QED
  BY <1>2, <1>3, <1>4, <1>5, <1>6, <1>8 DEF VpcShared, N!V!SharedWork

LEMMA VpcSharedTypes ==
    ASSUME VpcTypes, VpcShared, UNCHANGED <<vpcs, vmade>>
    PROVE  VpcTypes'
<1>1. VpcKube'
  BY VpcHas, VpcSharedKept DEF VpcKube
<1>2. VpcsOK'
  BY DEF VpcTypes, VpcsOK
<1>3. QED
  BY <1>1, <1>2, VpcSharedPlanned DEF VpcTypes

LEMMA VpcStarts ==
    ASSUME NetworkInv, UNCHANGED <<vpcs, vmade>>,
           \/ N!V!ReconcileAbandoned \/ N!V!ReconcileDeleted
           \/ N!V!ReconcileNew \/ N!V!ReconcileExisting
    PROVE  VpcMoves
<1>1. VpcTypes /\ VpcFacts /\ SubnetTypes
  BY NetworkParts
<1>2. VpcTypes'
  BY <1>1, VpcSharedTypes DEF VpcShared, N!V!SharedWork
<1>3. PICK label \in {"release", "delete", "addFinalizer", "read"} :
          /\ N!V!Start(label)
          /\ vcache.deleting => label \in N!V!Removing
  BY DEF N!V!ReconcileAbandoned, N!V!ReconcileDeleted, N!V!ReconcileNew,
     N!V!ReconcileExisting, N!V!Removing
<1>4. /\ vstep.at = "idle" /\ vstep'.at = label /\ vw' = vcache
      /\ UNCHANGED <<vapi, vcache, vcfresh>> /\ Counted
  BY <1>1, <1>3, VpcHas, VpcStartEffect, FaultNames
<1>5. Unlagged' = Unlagged /\ Alone' = Alone
  BY <1>1, <1>4, SameScenarioOfBoth
<1>6. Unlagged => vcache = vapi
  <2>1. Unlagged => vcfresh
    BY <1>3, FaultNames DEF N!V!Start, Fault, Unlagged, FreeOf
  <2>2. QED
    BY <1>1, <2>1, VpcHas DEF N!V!Protocol, N!V!CopyIsCurrent
<1>7. /\ vapi.st.id \in Nat /\ vcache.st.id \in Nat /\ vmade \in Nat
  BY <1>1, VpcHas
<1>8. VpcGiven'
  BY <1>1, <1>4 DEF VpcFacts, VpcGiven
<1>9. Unlagged => VpcSpeaks'
  BY <1>1, <1>4, <1>6 DEF VpcFacts, VpcSpeaks
<1>10. Alone => N!VpcStays'
  BY <1>1, <1>3, <1>4 DEF VpcFacts, N!VpcStays
<1>11. N!Occupied \subseteq DOMAIN vpcs
  BY <1>1 DEF SubnetTypes, SubnetsOK, N!Occupied
<1>12. QED
  BY <1>2, <1>4, <1>5, <1>7, <1>8, <1>9, <1>10, <1>11 DEF VpcMoves, VpcFacts

LEMMA VpcPersists ==
    ASSUME NetworkInv, UNCHANGED <<vpcs, vmade>>, N!V!Persist
    PROVE  VpcMoves
<1>1. VpcTypes /\ VpcFacts /\ SubnetTypes
  BY NetworkParts
<1>2. VpcTypes'
  BY <1>1, VpcSharedTypes DEF VpcShared, N!V!SharedWork
<1>3. /\ vstep.at = "save" /\ SameBut(vapi', vapi, vw.st)
      /\ UNCHANGED vcache /\ N!V!NoFault
      /\ vstep.ok \in N!V!Exits
      /\ vstep.ok = "idle" => vstep'.at = "idle"
      /\ vstep.ok \notin {"idle", "report"} => vstep'.at = vstep.ok /\ vw' = vapi'
  BY <1>1, VpcHas, VpcPersistEffect
<1>4. vapi'.st.id = vw.st.id
  BY <1>3 DEF SameBut
<1>5. \/ vstep'.at = "idle"
      \/ vstep'.at = "attributes" /\ vw' = vapi'
  BY <1>3 DEF N!V!Exits
<1>6. Counted
  BY <1>3, FaultNames DEF Counted
<1>7. Unlagged' = Unlagged /\ Alone' = Alone
  BY <1>1, <1>6, SameScenarioOfBoth
<1>8. /\ vapi.st.id \in Nat /\ vcache.st.id \in Nat /\ vmade \in Nat
      /\ vw.st.id \in Nat
  BY <1>1, <1>3, VpcHas
<1>9. VpcGiven'
  BY <1>1, <1>3, <1>4, <1>5 DEF VpcFacts, VpcGiven
<1>10. Unlagged => vw.st.id = vapi.st.id \/ vapi.st.id \notin DOMAIN vpcs
  BY <1>1, <1>3 DEF VpcFacts, VpcSpeaks
<1>11. Unlagged => VpcSpeaks'
  BY <1>1, <1>3, <1>4, <1>5, <1>10 DEF VpcFacts, VpcSpeaks
<1>12. Alone => N!VpcStays'
  BY <1>1, <1>3, <1>4, <1>5, <1>10, AloneUnlagged DEF VpcFacts, N!VpcStays,
     N!V!Removing
<1>13. N!Occupied \subseteq DOMAIN vpcs
  BY <1>1 DEF SubnetTypes, SubnetsOK, N!Occupied
<1>14. QED
  BY <1>2, <1>4, <1>6, <1>7, <1>8, <1>9, <1>10, <1>11, <1>12, <1>13
     DEF VpcMoves, VpcFacts

\* The other steps that every kind takes are quiet.
LEMMA VpcSharedMoves ==
    ASSUME NetworkInv, UNCHANGED <<vpcs, vmade>>,
           \/ N!V!SharedWork \/ N!V!PersistError \/ N!V!Users \/ N!V!CacheSync
    PROVE  VpcMoves
<1>1. VpcTypes /\ VpcFacts /\ SubnetTypes
  BY NetworkParts
<1>2. VpcTypes'
  BY <1>1, VpcSharedTypes DEF VpcShared
<1>3. /\ N!V!KubeOK(N!V!Statuses, N!V!Labels, N!V!Exits)
      /\ N!V!Protocol(N!V!Removing)
      /\ KindOK(N!V!Statuses, N!V!Labels, N!V!Exits, N!V!Removing)
  BY <1>1, VpcHas
<1>4. CASE N!V!AddFinalizer \/ N!V!RemoveFinalizer
  <2>1. /\ vapi'.st = vapi.st /\ UNCHANGED vcache /\ vstep'.at = "idle"
        /\ N!V!NoFault
    BY <1>3, <1>4, VpcFinalizerEffect
  <2>2. VpcQuietly /\ Counted
    BY <2>1, FaultNames DEF VpcQuietly, Counted
  <2>3. QED
    BY <1>2, <2>2, VpcQuiet
<1>5. CASE N!V!PersistConflict \/ N!V!PersistError
  <2>1. /\ vstep.at = "save" /\ UNCHANGED <<vapi, vcache>> /\ VpcCounted
        /\ \/ vstep'.at = "idle"
           \/ /\ vstep'.at = "save"
              /\ SameBut(vw', vw, [vw.st EXCEPT !.ready = FALSE])
    BY <1>3, <1>5, VpcPersistFails
  <2>2. vw.st \in N!V!Statuses
    BY <1>1, <2>1, VpcHas
  <2>3. [vw.st EXCEPT !.ready = FALSE].id = vw.st.id
    BY <2>2 DEF N!V!Statuses
  <2>4. vstep'.at = "idle" \/ (vstep'.at = "save" /\ vw'.st.id = vw.st.id)
    BY <2>1, <2>3 DEF SameBut
  <2>5. VpcQuietly /\ Counted
    BY <2>1, <2>4, FaultNames DEF VpcQuietly, N!V!Removing
  <2>6. QED
    BY <1>2, <2>5, VpcQuiet
<1>6. CASE N!V!Users
  <2>1. vapi'.st = vapi.st /\ UNCHANGED <<vcache, vw, vstep>> /\ N!V!NoFault
    BY <1>3, <1>6, VpcUserEffect
  <2>2. VpcQuietly /\ Counted
    BY <2>1, FaultNames DEF VpcQuietly, Counted
  <2>3. QED
    BY <1>2, <2>2, VpcQuiet
<1>7. CASE N!V!CacheSync
  <2>1. vcache' = vapi /\ UNCHANGED <<vapi, vw, vstep>> /\ N!V!NoFault
    BY <1>7 DEF N!V!CacheSync, N!V!worker
  <2>2. vcache.deleting => vapi.deleting
    BY <1>3 DEF N!V!Protocol, N!V!DeletionSeen
  <2>3. VpcQuietly /\ Counted
    BY <2>1, <2>2, FaultNames DEF VpcQuietly, Counted
  <2>4. QED
    BY <1>2, <2>3, VpcQuiet
<1>8. QED
  BY <1>4, <1>5, <1>6, <1>7, VpcStarts, VpcPersists DEF N!V!SharedWork

\* The labels of reconcileVPC, and a step from one of them.
VpcWorking == {"read", "create", "attributes", "ipv6", "getRanges", "ranges"}
VpcCalls ==
    /\ vstep.at \in VpcWorking /\ UNCHANGED <<vapi, vcache, vcfresh>> /\ Counted
    /\ VpcsOK'

LEMMA VpcCallTypes ==
    ASSUME VpcTypes, VpcCalls, Planned',
           N!V!WorkerOK(N!V!Statuses, N!V!Labels, N!V!Exits)',
           vw'.abandon = vw.abandon,
           vstep'.at \notin {"addFinalizer", "idle"} \union N!V!Removing
    PROVE  VpcTypes'
<1>1. vstep.at \notin {"idle", "addFinalizer"} \union N!V!Removing
  BY DEF VpcCalls, VpcWorking, N!V!Removing
<1>2. VpcCounted
  BY FaultNames DEF VpcCalls
<1>3. VpcKube'
  BY <1>1, <1>2, VpcHas, VpcWorkerKept DEF VpcKube, VpcCalls
<1>4. QED
  BY <1>3 DEF VpcTypes, VpcCalls

LEMMA VpcGoes ==
    ASSUME VpcTypes, VpcCalls, NEW copy \in N!V!CRs(N!V!Statuses),
           copy.abandon = vw.abandon,
           NEW label \in (VpcWorking \union {"panic"}) \ {"ranges"},
           N!V!Goto(label, copy)
    PROVE  VpcTypes' /\ vstep'.at = label /\ vw' = copy
<1>1. label \in N!V!Labels \ {"idle", "save"}
  BY DEF VpcWorking, N!V!Labels
<1>2. /\ N!V!WorkerOK(N!V!Statuses, N!V!Labels, N!V!Exits)'
      /\ vstep'.at = label /\ vw' = copy
  BY <1>1, VpcHas, VpcGotoType
<1>3. Planned'
  BY <1>2 DEF Planned
<1>4. label \notin {"addFinalizer", "idle"} \union N!V!Removing
  BY DEF VpcWorking, N!V!Removing
<1>5. QED
  BY <1>2, <1>3, <1>4, VpcCallTypes

LEMMA VpcPlans ==
    ASSUME VpcTypes, VpcCalls,
           NEW plan \in [add : SUBSET N!V!Ranges, drop : SUBSET N!V!Ranges],
           N!V!GotoWith("ranges", vw, plan)
    PROVE  VpcTypes' /\ vstep'.at = "ranges" /\ vw' = vw
<1>1. "ranges" \in N!V!Labels \ {"idle", "save"}
  BY DEF N!V!Labels
<1>2. vw \in N!V!CRs(N!V!Statuses)
  BY VpcHas DEF VpcCalls, VpcWorking
<1>3. /\ N!V!WorkerOK(N!V!Statuses, N!V!Labels, N!V!Exits)'
      /\ vstep'.at = "ranges" /\ vstep'.local = plan /\ vw' = vw
  BY <1>1, <1>2, VpcHas, VpcGotoWithType
<1>4. Planned'
  BY <1>3 DEF Planned
<1>5. QED
  BY <1>3, <1>4, VpcCallTypes DEF N!V!Removing

LEMMA VpcReports ==
    ASSUME VpcTypes, VpcCalls, N!V!Report
    PROVE  VpcTypes' /\ vstep'.at = "save" /\ vw'.st.id = vw.st.id
<1>1. vstep.at # "idle" /\ vw \in N!V!CRs(N!V!Statuses) /\ vw.st \in N!V!Statuses
  BY VpcHas DEF VpcCalls, VpcWorking
<1>2. /\ N!V!WorkerOK(N!V!Statuses, N!V!Labels, N!V!Exits)'
      /\ vstep'.at = "save"
      /\ SameBut(vw', vw, [vw.st EXCEPT !.ready = FALSE])
  BY <1>1, VpcHas, VpcReportEffect
<1>3. [vw.st EXCEPT !.ready = FALSE].id = vw.st.id
  BY <1>1 DEF N!V!Statuses
<1>4. Planned'
  BY <1>2 DEF Planned
<1>5. VpcTypes'
  BY <1>2, <1>4, VpcCallTypes DEF SameBut, N!V!Removing
<1>6. QED
  BY <1>2, <1>3, <1>5 DEF SameBut

LEMMA VpcSaves ==
    ASSUME VpcTypes, VpcCalls, NEW copy \in N!V!CRs(N!V!Statuses),
           copy.abandon = vw.abandon, NEW ok \in N!V!Exits,
           N!V!Save(copy, ok, "report")
    PROVE  VpcTypes' /\ vstep'.at = "save" /\ vw' = copy
<1>1. "save" \in N!V!Labels
  BY DEF N!V!Labels
<1>2. N!V!Write(copy, ok, "report", vwfresh)
  BY DEF N!V!Save
<1>3. /\ N!V!WorkerOK(N!V!Statuses, N!V!Labels, N!V!Exits)'
      /\ vstep'.at = "save" /\ vw' = copy
  BY <1>1, <1>2, VpcHas, VpcWriteType
<1>4. Planned'
  BY <1>3 DEF Planned
<1>5. QED
  BY <1>3, <1>4, VpcCallTypes DEF N!V!Removing

\* A call that changes no VPC, or only what is inside one.
LEMMA VpcCallQuiet ==
    ASSUME NetworkInv, VpcCalls, VpcTypes',
           DOMAIN vpcs' = DOMAIN vpcs, vmade' = vmade,
           vw'.st.id = vw.st.id,
           vstep'.at \notin {"idle"} \union N!V!Removing,
           vstep'.at = "create" => vw.st.id \notin DOMAIN vpcs
    PROVE  VpcMoves
<1>1. VpcQuietly
  BY DEF VpcQuietly, VpcCalls, VpcWorking, N!V!Removing
<1>2. QED
  BY <1>1, VpcQuiet DEF VpcCalls

LEMMA VpcSame ==
    ASSUME VpcTypes, vstep.at \in VpcWorking, UNCHANGED <<vpcs, vmade>>,
           UNCHANGED <<vapi, vcache, vcfresh>>, Counted
    PROVE  VpcCalls
BY DEF VpcTypes, VpcsOK, VpcCalls

\* Calls that read.
LEMMA VpcReads ==
    ASSUME NetworkInv, \/ N!V!Get \/ N!V!ModifyAttributes \/ N!V!NilVpc
                       \/ N!V!Refused \/ (N!V!CallError /\ vstep.at # "delete")
    PROVE  VpcMoves
<1>1. VpcTypes
  BY NetworkParts
<1>2. /\ vstep.at \in VpcWorking /\ UNCHANGED <<vpcs, vmade>> /\ Counted
      /\ UNCHANGED <<vapi, vcache, vcfresh>>
  BY FaultNames DEF N!V!Get, N!V!ModifyAttributes, N!V!NilVpc, N!V!Refused,
     N!V!CallError, VpcWorking, N!V!k8s, N!V!aws, Counted, AllFaults
<1>3. VpcCalls
  BY <1>1, <1>2, VpcSame
<1>4. vw \in N!V!CRs(N!V!Statuses)
  BY <1>1, <1>2, VpcHas DEF VpcWorking
<1>5. CASE N!V!Get
  <2>1. PICK label \in {"attributes", "create"} :
            N!V!Goto(label, vw) /\ (label = "create" => vw.st.id \notin DOMAIN vpcs)
    BY <1>5 DEF N!V!Get, N!V!Present
  <2>2. VpcTypes' /\ vstep'.at = label /\ vw' = vw
    BY <1>1, <1>3, <1>4, <2>1, VpcGoes DEF VpcWorking
  <2>3. QED
    BY <1>2, <1>3, <2>1, <2>2, VpcCallQuiet DEF N!V!Removing
<1>6. CASE N!V!ModifyAttributes \/ N!V!NilVpc
  <2>1. PICK label \in {"ipv6", "getRanges", "panic"} : N!V!Goto(label, vw)
    BY <1>6 DEF N!V!ModifyAttributes, N!V!NilVpc
  <2>2. VpcTypes' /\ vstep'.at = label /\ vw' = vw
    BY <1>1, <1>3, <1>4, <2>1, VpcGoes DEF VpcWorking
  <2>3. QED
    BY <1>2, <1>3, <2>1, <2>2, VpcCallQuiet DEF N!V!Removing
<1>7. CASE N!V!Refused \/ (N!V!CallError /\ vstep.at # "delete")
  <2>1. N!V!Report
    BY <1>7 DEF N!V!Refused, N!V!CallError
  <2>2. VpcTypes' /\ vstep'.at = "save" /\ vw'.st.id = vw.st.id
    BY <1>1, <1>3, <2>1, VpcReports
  <2>3. QED
    BY <1>2, <1>3, <2>2, VpcCallQuiet DEF N!V!Removing
<1>8. QED
  BY <1>5, <1>6, <1>7

\* Names of the parts of a status: what a step changes of it.
LEMMA VpcStatusParts ==
    ASSUME NEW cr \in N!V!CRs(N!V!Statuses)
    PROVE  /\ \A b \in BOOLEAN :
                 /\ [cr EXCEPT !.st.ipv6 = b] \in N!V!CRs(N!V!Statuses)
                 /\ [cr EXCEPT !.st.ipv6 = b].st.id = cr.st.id
                 /\ [cr EXCEPT !.st.ipv6 = b].abandon = cr.abandon
           /\ \A i \in N!V!Ids :
                 /\ [cr EXCEPT !.st.id = i] \in N!V!CRs(N!V!Statuses)
                 /\ [cr EXCEPT !.st.id = i].st.id = i
                 /\ [cr EXCEPT !.st.id = i].abandon = cr.abandon
           /\ N!V!ReadyNow(N!V!Observed(cr)) \in N!V!CRs(N!V!Statuses)
           /\ N!V!ReadyNow(N!V!Observed(cr)).st.id = cr.st.id
           /\ N!V!ReadyNow(N!V!Observed(cr)).abandon = cr.abandon
<1>1. cr.st \in N!V!Statuses /\ cr.gen \in Nat
  BY VpcCopyType
<1>2. ASSUME NEW old \in N!V!CRs(N!V!Statuses), NEW st \in N!V!Statuses
      PROVE  /\ [old EXCEPT !.st = st] \in N!V!CRs(N!V!Statuses)
             /\ [old EXCEPT !.st = st].st = st
             /\ [old EXCEPT !.st = st].abandon = old.abandon
  BY VpcStatusType DEF SameBut
<1>3. ASSUME NEW b \in BOOLEAN
      PROVE  /\ [cr EXCEPT !.st.ipv6 = b] \in N!V!CRs(N!V!Statuses)
             /\ [cr EXCEPT !.st.ipv6 = b].st.id = cr.st.id
             /\ [cr EXCEPT !.st.ipv6 = b].abandon = cr.abandon
  <2>1. /\ [cr.st EXCEPT !.ipv6 = b] \in N!V!Statuses
        /\ [cr.st EXCEPT !.ipv6 = b].id = cr.st.id
    BY <1>1 DEF N!V!Statuses
  <2>2. [cr EXCEPT !.st.ipv6 = b] = [cr EXCEPT !.st = [cr.st EXCEPT !.ipv6 = b]]
    OBVIOUS
  <2>3. QED
    BY <1>2, <2>1, <2>2
<1>4. ASSUME NEW i \in N!V!Ids
      PROVE  /\ [cr EXCEPT !.st.id = i] \in N!V!CRs(N!V!Statuses)
             /\ [cr EXCEPT !.st.id = i].st.id = i
             /\ [cr EXCEPT !.st.id = i].abandon = cr.abandon
  <2>1. /\ [cr.st EXCEPT !.id = i] \in N!V!Statuses
        /\ [cr.st EXCEPT !.id = i].id = i
    BY <1>1 DEF N!V!Statuses
  <2>2. [cr EXCEPT !.st.id = i] = [cr EXCEPT !.st = [cr.st EXCEPT !.id = i]]
    OBVIOUS
  <2>3. QED
    BY <1>2, <2>1, <2>2
<1>5. ASSUME NEW old \in N!V!CRs(N!V!Statuses), NEW st \in N!V!Statuses,
             st.id = old.st.id, NEW new, new = [old EXCEPT !.st = st]
      PROVE  /\ new \in N!V!CRs(N!V!Statuses) /\ new.st.id = old.st.id
             /\ new.abandon = old.abandon
  BY <1>2, <1>5
<1>6. /\ N!V!Observed(cr) \in N!V!CRs(N!V!Statuses)
      /\ N!V!Observed(cr).st.id = cr.st.id
      /\ N!V!Observed(cr).abandon = cr.abandon
  <2>1. PICK st \in N!V!Statuses :
            st.id = cr.st.id /\ st = [cr.st EXCEPT !.obsGen = cr.gen]
    BY <1>1 DEF N!V!Statuses
  <2>2. N!V!Observed(cr) = [cr EXCEPT !.st = st]
    BY <2>1 DEF N!V!Observed
  <2>3. QED
    BY <1>5, <2>1, <2>2
<1>7. ASSUME NEW old \in N!V!CRs(N!V!Statuses)
      PROVE  /\ N!V!ReadyNow(old) \in N!V!CRs(N!V!Statuses)
             /\ N!V!ReadyNow(old).st.id = old.st.id
             /\ N!V!ReadyNow(old).abandon = old.abandon
  <2>1. old.st \in N!V!Statuses
    BY VpcCopyType
  <2>2. PICK st \in N!V!Statuses :
            st.id = old.st.id /\ st = [old.st EXCEPT !.ready = TRUE]
    BY <2>1 DEF N!V!Statuses
  <2>3. N!V!ReadyNow(old) = [old EXCEPT !.st = st]
    BY <2>2 DEF N!V!ReadyNow
  <2>4. QED
    BY <1>5, <2>2, <2>3
<1>8. QED
  BY <1>3, <1>4, <1>6, <1>7

\* What the spec wants and what is there are ranges.
LEMMA RangesKnown ==
    ASSUME VpcTypes, vstep.at \in VpcWorking
    PROVE  /\ vw.want.ranges \subseteq N!V!Ranges /\ vw.want.tags \subseteq NetworkTags
           /\ N!V!Present => /\ N!V!Mine \in N!V!Vpcs
                             /\ N!V!Mine.ranges \subseteq N!V!Ranges
                             /\ N!V!Mine.tags \subseteq NetworkTags
<1>1. vw \in N!V!CRs(N!V!Statuses)
  BY VpcHas DEF VpcWorking
<1>2. vw.want \in VpcWants
  BY <1>1, VpcCopyType
<1>3. vw.want.ranges \subseteq N!V!Ranges
  BY <1>2 DEF N!V!Ranges
<1>4. N!V!Present => N!V!Mine \in N!V!Vpcs
  BY DEF VpcTypes, VpcsOK, N!V!Present, N!V!Mine
<1>5. vw.want.tags \subseteq NetworkTags
  BY <1>2, NetworkAssumption DEF N!Parameters, N!V!Specs
<1>6. QED
  BY <1>3, <1>4, <1>5 DEF N!V!Vpcs

LEMMA GetsRanges == ASSUME NetworkInv, N!V!GetRanges PROVE VpcMoves
<1>1. VpcTypes
  BY NetworkParts
<1>2. /\ vstep.at \in VpcWorking /\ UNCHANGED <<vpcs, vmade>> /\ Counted
      /\ UNCHANGED <<vapi, vcache, vcfresh>> /\ N!V!Present
      /\ N!V!GotoWith("ranges", vw, [add  |-> vw.want.ranges \ N!V!Mine.ranges,
                                     drop |-> N!V!Mine.ranges \ vw.want.ranges])
  BY FaultNames DEF N!V!GetRanges, VpcWorking, N!V!k8s, N!V!aws, Counted
<1>3. VpcCalls
  BY <1>1, <1>2, VpcSame
<1>4. PICK plan \in [add : SUBSET N!V!Ranges, drop : SUBSET N!V!Ranges] :
          N!V!GotoWith("ranges", vw, plan)
  BY <1>1, <1>2, RangesKnown
<1>5. VpcTypes' /\ vstep'.at = "ranges" /\ vw' = vw
  BY <1>1, <1>3, <1>4, VpcPlans
<1>6. QED
  BY <1>2, <1>3, <1>5, VpcCallQuiet DEF N!V!Removing

\* One VPC is changed and keeps its type.
LEMMA VpcChanged ==
    ASSUME VpcTypes, NEW i \in DOMAIN vpcs, NEW v \in N!V!Vpcs,
           vpcs' = [vpcs EXCEPT ![i] = v], vmade' = vmade
    PROVE  DOMAIN vpcs' = DOMAIN vpcs /\ VpcsOK'
BY DEF VpcTypes, VpcsOK

LEMMA AssociatesIpv6 == ASSUME NetworkInv, N!V!AssociateIpv6 PROVE VpcMoves
<1>1. VpcTypes
  BY NetworkParts
<1>2. /\ vstep.at \in VpcWorking /\ vmade' = vmade /\ Counted
      /\ UNCHANGED <<vapi, vcache, vcfresh>>
      /\ N!V!Present /\ N!V!Mine.blocks < Ipv6Quota
      /\ vpcs' = [vpcs EXCEPT ![vw.st.id].blocks = @ + 1]
  BY FaultNames DEF N!V!AssociateIpv6, VpcWorking, N!V!k8s, Counted, AllFaults
<1>3. PICK v \in N!V!Vpcs : vpcs' = [vpcs EXCEPT ![vw.st.id] = v]
  <2>1. N!V!Mine \in N!V!Vpcs
    BY <1>1, <1>2, RangesKnown
  <2>2. N!V!Mine.blocks \in Nat /\ Ipv6Quota \in Nat
    BY <2>1, NetworkAssumption DEF N!V!Vpcs, N!Parameters
  <2>3. N!V!Mine.blocks + 1 \in 0 .. Ipv6Quota
    BY <1>2, <2>2
  <2>4. [N!V!Mine EXCEPT !.blocks = N!V!Mine.blocks + 1] \in N!V!Vpcs
    BY <2>1, <2>3 DEF N!V!Vpcs
  <2>5. vpcs' = [vpcs EXCEPT ![vw.st.id] =
                    [N!V!Mine EXCEPT !.blocks = N!V!Mine.blocks + 1]]
    BY <1>2 DEF N!V!Mine
  <2>6. QED
    BY <2>4, <2>5
<1>4. DOMAIN vpcs' = DOMAIN vpcs /\ VpcsOK'
  BY <1>1, <1>2, <1>3, VpcChanged DEF N!V!Present
<1>5. VpcCalls
  BY <1>2, <1>4 DEF VpcCalls
<1>6. vw \in N!V!CRs(N!V!Statuses)
  BY <1>1, <1>2, VpcHas DEF VpcWorking
<1>7. CASE N!V!Report
  <2>1. VpcTypes' /\ vstep'.at = "save" /\ vw'.st.id = vw.st.id
    BY <1>1, <1>5, <1>7, VpcReports
  <2>2. QED
    BY <1>2, <1>4, <1>5, <2>1, VpcCallQuiet DEF N!V!Removing
<1>8. CASE \E named \in BOOLEAN : N!V!Goto("getRanges", [vw EXCEPT !.st.ipv6 = named])
  <2>1. PICK copy \in N!V!CRs(N!V!Statuses) :
            /\ copy.st.id = vw.st.id /\ copy.abandon = vw.abandon
            /\ N!V!Goto("getRanges", copy)
    BY <1>6, <1>8, VpcStatusParts
  <2>2. VpcTypes' /\ vstep'.at = "getRanges" /\ vw' = copy
    BY <1>1, <1>5, <2>1, VpcGoes DEF VpcWorking
  <2>3. QED
    BY <1>2, <1>4, <1>5, <2>1, <2>2, VpcCallQuiet DEF N!V!Removing
<1>9. QED
  BY <1>7, <1>8 DEF N!V!AssociateIpv6

LEMMA SyncsRange ==
    ASSUME NetworkInv, vstep.at = "ranges", NEW r,
           NEW ranges \in SUBSET N!V!Ranges,
           NEW rest \in [add : SUBSET N!V!Ranges, drop : SUBSET N!V!Ranges],
           N!V!SyncRange(r, ranges, rest)
    PROVE  VpcMoves
<1>1. VpcTypes
  BY NetworkParts
<1>2. /\ vstep.at \in VpcWorking /\ vmade' = vmade /\ Counted
      /\ UNCHANGED <<vapi, vcache, vcfresh>> /\ N!V!Present
      /\ vpcs' = [vpcs EXCEPT ![vw.st.id].ranges = ranges]
  BY FaultNames DEF N!V!SyncRange, VpcWorking, N!V!k8s, Counted, AllFaults
<1>3. PICK v \in N!V!Vpcs : vpcs' = [vpcs EXCEPT ![vw.st.id] = v]
  <2>1. N!V!Mine \in N!V!Vpcs
    BY <1>1, <1>2, RangesKnown
  <2>2. [N!V!Mine EXCEPT !.ranges = ranges] \in N!V!Vpcs
    BY <2>1 DEF N!V!Vpcs
  <2>3. vpcs' = [vpcs EXCEPT ![vw.st.id] = [N!V!Mine EXCEPT !.ranges = ranges]]
    BY <1>2 DEF N!V!Mine
  <2>4. QED
    BY <2>2, <2>3
<1>4. DOMAIN vpcs' = DOMAIN vpcs /\ VpcsOK'
  BY <1>1, <1>2, <1>3, VpcChanged DEF N!V!Present
<1>5. VpcCalls
  BY <1>2, <1>4 DEF VpcCalls
<1>6. CASE N!V!Report
  <2>1. VpcTypes' /\ vstep'.at = "save" /\ vw'.st.id = vw.st.id
    BY <1>1, <1>5, <1>6, VpcReports
  <2>2. QED
    BY <1>2, <1>4, <1>5, <2>1, VpcCallQuiet DEF N!V!Removing
<1>7. CASE N!V!GotoWith("ranges", vw, rest)
  <2>1. VpcTypes' /\ vstep'.at = "ranges" /\ vw' = vw
    BY <1>1, <1>5, <1>7, VpcPlans
  <2>2. QED
    BY <1>2, <1>4, <1>5, <2>1, VpcCallQuiet DEF N!V!Removing
<1>8. QED
  BY <1>6, <1>7 DEF N!V!SyncRange

LEMMA SyncsRanges ==
    ASSUME NetworkInv, N!V!Associate \/ N!V!Disassociate PROVE VpcMoves
<1>1. VpcTypes /\ vstep.at = "ranges"
  BY NetworkParts DEF N!V!Associate, N!V!Disassociate
<1>2. vstep.local \in [add : SUBSET N!V!Ranges, drop : SUBSET N!V!Ranges]
  BY <1>1 DEF VpcTypes, Planned
<1>3. CASE N!V!Associate
  <2>1. PICK r \in vstep.local.add :
            N!V!SyncRange(r, N!V!Mine.ranges \union {r},
                          [vstep.local EXCEPT !.add = @ \ {r}])
    BY <1>3 DEF N!V!Associate
  <2>2. N!V!Mine.ranges \union {r} \in SUBSET N!V!Ranges
    BY <1>1, <1>2, <2>1, RangesKnown DEF N!V!SyncRange, VpcWorking
  <2>3. [vstep.local EXCEPT !.add = @ \ {r}]
          \in [add : SUBSET N!V!Ranges, drop : SUBSET N!V!Ranges]
    BY <1>2
  <2>4. QED
    BY <1>1, <2>1, <2>2, <2>3, SyncsRange
<1>4. CASE N!V!Disassociate
  <2>1. PICK r \in vstep.local.drop :
            N!V!SyncRange(r, N!V!Mine.ranges \ {r},
                          [vstep.local EXCEPT !.drop = @ \ {r}])
    BY <1>4 DEF N!V!Disassociate
  <2>2. N!V!Mine.ranges \ {r} \in SUBSET N!V!Ranges
    BY <1>1, <1>2, <2>1, RangesKnown DEF N!V!SyncRange, VpcWorking
  <2>3. [vstep.local EXCEPT !.drop = @ \ {r}]
          \in [add : SUBSET N!V!Ranges, drop : SUBSET N!V!Ranges]
    BY <1>2
  <2>4. QED
    BY <1>1, <2>1, <2>2, <2>3, SyncsRange
<1>5. QED
  BY <1>3, <1>4

LEMMA VpcSyncs ==
    ASSUME NetworkInv, N!V!Synced \/ N!V!SyncFails \/ N!V!SyncedGone
    PROVE  VpcMoves
<1>1. VpcTypes
  BY NetworkParts
<1>2. /\ vstep.at \in VpcWorking /\ vmade' = vmade /\ Counted
      /\ UNCHANGED <<vapi, vcache, vcfresh>>
      /\ N!V!Report \/ N!V!Save(N!V!ReadyNow(N!V!Observed(vw)), "idle", "report")
  BY FaultNames DEF N!V!Synced, N!V!SyncFails, N!V!SyncedGone, N!V!RangesDone,
     VpcWorking, N!V!k8s, N!V!aws, Counted, AllFaults
<1>3. DOMAIN vpcs' = DOMAIN vpcs /\ VpcsOK'
  <2>1. CASE N!V!SyncedGone
    BY <1>1, <2>1 DEF N!V!SyncedGone, N!V!aws, VpcTypes, VpcsOK
  <2>2. CASE N!V!Synced \/ N!V!SyncFails
    <3>1. N!V!Present /\ N!V!Mine \in N!V!Vpcs /\ N!V!Mine.tags \subseteq NetworkTags
          /\ vw.want.tags \subseteq NetworkTags
      BY <1>1, <1>2, <2>2, RangesKnown DEF N!V!Synced, N!V!SyncFails
    <3>2. PICK tags \in SUBSET NetworkTags : vpcs' = [vpcs EXCEPT ![vw.st.id].tags = tags]
      BY <2>2, <3>1 DEF N!V!Synced, N!V!SyncFails, N!V!SetTags
    <3>3. [N!V!Mine EXCEPT !.tags = tags] \in N!V!Vpcs
      BY <3>1 DEF N!V!Vpcs
    <3>4. vpcs' = [vpcs EXCEPT ![vw.st.id] = [N!V!Mine EXCEPT !.tags = tags]]
      BY <3>2 DEF N!V!Mine
    <3>5. QED
      BY <1>1, <1>2, <3>1, <3>3, <3>4, VpcChanged DEF N!V!Present
  <2>3. QED
    BY <2>1, <2>2
<1>4. VpcCalls
  BY <1>2, <1>3 DEF VpcCalls
<1>5. vw \in N!V!CRs(N!V!Statuses)
  BY <1>1, <1>2, VpcHas DEF VpcWorking
<1>6. CASE N!V!Report
  <2>1. VpcTypes' /\ vstep'.at = "save" /\ vw'.st.id = vw.st.id
    BY <1>1, <1>4, <1>6, VpcReports
  <2>2. QED
    BY <1>2, <1>3, <1>4, <2>1, VpcCallQuiet DEF N!V!Removing
<1>7. CASE N!V!Save(N!V!ReadyNow(N!V!Observed(vw)), "idle", "report")
  <2>1. PICK copy \in N!V!CRs(N!V!Statuses) :
            /\ copy.st.id = vw.st.id /\ copy.abandon = vw.abandon
            /\ N!V!Save(copy, "idle", "report")
    BY <1>5, <1>7, VpcStatusParts
  <2>2. "idle" \in N!V!Exits
    BY DEF N!V!Exits
  <2>3. VpcTypes' /\ vstep'.at = "save" /\ vw' = copy
    BY <1>1, <1>4, <2>1, <2>2, VpcSaves
  <2>4. QED
    BY <1>2, <1>3, <1>4, <2>1, <2>3, VpcCallQuiet DEF N!V!Removing
<1>8. QED
  BY <1>2, <1>6, <1>7

LEMMA VpcCreates == ASSUME NetworkInv, N!V!Create PROVE VpcMoves
<1>1. VpcTypes /\ VpcFacts /\ SubnetTypes
  BY NetworkParts
<1>2. /\ vstep.at = "create" /\ vmade < MaxVpcs /\ vmade' = vmade + 1
      /\ vpcs' = N!V!Extend(vpcs, vmade',
                            [blocks |-> 0, ranges |-> {}, tags |-> vw.want.tags])
      /\ UNCHANGED <<vapi, vcache, vcfresh>> /\ Counted
  BY FaultNames DEF N!V!Create, N!V!k8s, Counted, AllFaults
<1>3. /\ vapi.st.id \in Nat /\ vcache.st.id \in Nat /\ vmade \in Nat
      /\ MaxVpcs \in Nat /\ DOMAIN vpcs \subseteq 1 .. vmade
      /\ vw \in N!V!CRs(N!V!Statuses) /\ vw.st.id \in Nat
  BY <1>1, <1>2, VpcHas
<1>4. /\ vmade' \in 1 .. MaxVpcs /\ vmade' \notin 1 .. vmade /\ vmade' # 0
      /\ 1 .. vmade \subseteq 1 .. vmade' /\ vmade <= vmade' /\ vmade' \in Nat
      /\ \A i \in Nat : i <= vmade => i <= vmade' /\ i # vmade'
  BY <1>2, <1>3
<1>5. DOMAIN vpcs' = DOMAIN vpcs \union {vmade'}
  BY <1>2 DEF N!V!Extend
<1>6. VpcsOK'
  <2>1. [blocks |-> 0, ranges |-> {}, tags |-> vw.want.tags] \in N!V!Vpcs
    <3>1. vw.want.tags \subseteq NetworkTags
      BY <1>1, <1>2, RangesKnown DEF VpcWorking
    <3>2. QED
      BY <3>1, NetworkAssumption DEF N!V!Vpcs, N!Parameters
  <2>2. \A i \in DOMAIN vpcs' :
            vpcs'[i] = IF i \in DOMAIN vpcs THEN vpcs[i]
                       ELSE [blocks |-> 0, ranges |-> {}, tags |-> vw.want.tags]
    BY <1>2 DEF N!V!Extend
  <2>3. \A i \in DOMAIN vpcs' : vpcs'[i] \in N!V!Vpcs
    BY <1>1, <2>1, <2>2 DEF VpcTypes, VpcsOK
  <2>4. DOMAIN vpcs' \subseteq 1 .. vmade' /\ vmade' \in 0 .. MaxVpcs
    BY <1>3, <1>4, <1>5
  <2>5. QED
    BY <2>3, <2>4 DEF VpcsOK
<1>7. VpcCalls
  BY <1>2, <1>6 DEF VpcCalls, VpcWorking
<1>8. /\ VpcTypes' /\ vstep'.at = "save"
      /\ vw'.st.id \in {vw.st.id, vmade'}
  <2>1. CASE N!V!Report
    BY <1>1, <1>7, <2>1, VpcReports
  <2>2. CASE N!V!Save([vw EXCEPT !.st.id = vmade'], "attributes", "report")
    <3>1. vmade' \in N!V!Ids /\ "attributes" \in N!V!Exits
      BY <1>4 DEF N!V!Ids, N!V!Exits
    <3>2. PICK copy \in N!V!CRs(N!V!Statuses) :
              /\ copy.st.id = vmade' /\ copy.abandon = vw.abandon
              /\ N!V!Save(copy, "attributes", "report")
      BY <1>3, <2>2, <3>1, VpcStatusParts
    <3>3. VpcTypes' /\ vstep'.at = "save" /\ vw' = copy
      BY <1>1, <1>7, <3>1, <3>2, VpcSaves
    <3>4. QED
      BY <3>2, <3>3
  <2>3. QED
    BY <2>1, <2>2 DEF N!V!Create
<1>9. Unlagged' = Unlagged /\ Alone' = Alone
  BY <1>1, <1>2, SameScenarioOfBoth
<1>10. VpcGiven'
  BY <1>1, <1>2, <1>3, <1>4, <1>8 DEF VpcFacts, VpcGiven
<1>11. Unlagged => VpcSpeaks'
  <2>1. vapi.st.id # vmade' /\ vcache.st.id # vmade'
    BY <1>1, <1>3, <1>4 DEF VpcFacts, VpcGiven
  <2>2. QED
    BY <1>1, <1>2, <1>5, <1>8, <2>1 DEF VpcFacts, VpcSpeaks
<1>12. Alone => N!VpcStays'
  BY <1>1, <1>2, <1>5, <1>8, AloneUnlagged DEF VpcFacts, VpcSpeaks, N!VpcStays,
     N!V!Removing
<1>13. N!Occupied \subseteq DOMAIN vpcs'
  BY <1>1, <1>5 DEF SubnetTypes, SubnetsOK, N!Occupied
<1>14. DOMAIN vpcs' \intersect (1 .. vmade) \subseteq DOMAIN vpcs
  BY <1>4, <1>5
<1>15. QED
  BY <1>2, <1>4, <1>8, <1>9, <1>10, <1>11, <1>12, <1>13, <1>14
     DEF VpcMoves, VpcFacts

\* The worker on the delete path, and a step that deletes VPCs.
LEMMA VpcDeletionTypes ==
    ASSUME VpcTypes, vstep.at = "delete", UNCHANGED <<vapi, vcache, vcfresh>>,
           Counted, VpcsOK', N!V!Goto("release", vw) \/ N!V!Return
    PROVE  /\ VpcTypes' /\ vstep'.at \in {"idle", "release"}
           /\ vstep'.at = "release" => vw' = vw
<1>1. vw \in N!V!CRs(N!V!Statuses)
  BY VpcHas
<1>2. /\ N!V!WorkerOK(N!V!Statuses, N!V!Labels, N!V!Exits)'
      /\ \/ vstep'.at = "idle"
         \/ vstep'.at = "release" /\ vw' = vw
  <2>1. CASE N!V!Goto("release", vw)
    <3>1. "release" \in N!V!Labels \ {"idle", "save"}
      BY DEF N!V!Labels
    <3>2. QED
      BY <1>1, <2>1, <3>1, VpcHas, VpcGotoType
  <2>2. CASE N!V!Return
    <3>1. "idle" \in N!V!Labels
      BY DEF N!V!Labels
    <3>2. QED
      BY <2>2, <3>1, VpcReturnType
  <2>3. QED
    BY <2>1, <2>2
<1>3. Planned'
  BY <1>2 DEF Planned
<1>4. VpcCounted
  BY FaultNames
<1>5. "delete" \in N!V!Removing /\ "release" \in N!V!Removing
  BY DEF N!V!Removing
<1>6. VpcKube'
  BY <1>2, <1>4, <1>5, VpcHas, VpcWorkerKept DEF VpcKube
<1>7. QED
  BY <1>2, <1>3, <1>6 DEF VpcTypes

LEMMA WithoutVpcs ==
    ASSUME VpcTypes, NEW ids, vpcs' = N!V!Without(ids), vmade' = vmade
    PROVE  VpcsOK' /\ DOMAIN vpcs' = DOMAIN vpcs \ ids
BY DEF VpcTypes, VpcsOK, N!V!Without

LEMMA VpcDeletes ==
    ASSUME NetworkInv, \/ N!V!Delete \/ N!V!DeleteRefused
                       \/ (N!V!CallError /\ vstep.at = "delete")
    PROVE  VpcMoves
<1>1. VpcTypes /\ VpcFacts /\ SubnetTypes
  BY NetworkParts
<1>2. /\ vstep.at = "delete" /\ UNCHANGED <<vapi, vcache, vcfresh>> /\ Counted
      /\ vmade' = vmade
      /\ N!V!Goto("release", vw) \/ N!V!Return
  BY FaultNames DEF N!V!Delete, N!V!DeleteRefused, N!V!CallError, N!V!k8s,
     N!V!aws, Counted, AllFaults
<1>3. PICK ids : /\ ids \intersect N!Occupied = {}
                 /\ DOMAIN vpcs' = DOMAIN vpcs \ ids /\ VpcsOK'
  <2>1. CASE N!V!Delete
    BY <1>1, <1>2, <2>1, WithoutVpcs DEF N!V!Delete
  <2>2. CASE ~N!V!Delete
    <3>1. UNCHANGED vpcs
      BY <2>2 DEF N!V!DeleteRefused, N!V!CallError, N!V!aws
    <3>2. VpcsOK'
      BY <1>1, <1>2, <3>1 DEF VpcTypes, VpcsOK
    <3>3. {} \intersect N!Occupied = {} /\ DOMAIN vpcs' = DOMAIN vpcs \ {}
      BY <3>1
    <3>4. QED
      BY <3>2, <3>3
  <2>3. QED
    BY <2>1, <2>2
<1>4. /\ VpcTypes' /\ vstep'.at \in {"idle", "release"}
      /\ vstep'.at = "release" => vw' = vw
  BY <1>1, <1>2, <1>3, VpcDeletionTypes
<1>5. vcache.deleting
  BY <1>1, <1>2, VpcHas DEF N!V!Protocol, N!V!DeletionSeen, N!V!Removing
<1>6. vmade \in Nat
  BY <1>1, VpcHas
<1>7. Unlagged' = Unlagged /\ Alone' = Alone
  BY <1>1, <1>2, SameScenarioOfBoth
<1>8. VpcGiven'
  BY <1>1, <1>2, <1>4 DEF VpcFacts, VpcGiven
<1>9. Unlagged => VpcSpeaks'
  BY <1>1, <1>2, <1>3, <1>4 DEF VpcFacts, VpcSpeaks
<1>10. Alone => N!VpcStays'
  BY <1>1, <1>2, <1>4, <1>5 DEF VpcFacts, N!VpcStays, N!V!Removing
<1>11. N!Occupied \subseteq DOMAIN vpcs'
  BY <1>1, <1>3 DEF SubnetTypes, SubnetsOK, N!Occupied
<1>12. QED
  BY <1>2, <1>3, <1>4, <1>6, <1>7, <1>8, <1>9, <1>10, <1>11 DEF VpcMoves, VpcFacts

LEMMA DriftIsRange == "drifted" \in N!V!Ranges
BY DEF N!V!Ranges

\* Somebody else deletes a VPC without subnets, or adds a range to one.
LEMMA VpcDisturbed ==
    ASSUME NetworkInv, N!V!ExternalDelete \/ N!V!Drift PROVE VpcMoves
<1>1. VpcTypes /\ VpcFacts /\ SubnetTypes
  BY NetworkParts
<1>2. /\ UNCHANGED <<vapi, vcache, vcfresh, vw, vwfresh, vstep>> /\ vmade' = vmade
      /\ Counted
  BY FaultNames DEF N!V!ExternalDelete, N!V!Drift, N!V!k8s, N!V!worker, Counted,
     AllFaults
<1>3. ASSUME VpcsOK' PROVE VpcTypes'
  <2>1. Planned'
    BY <1>1, <1>2 DEF VpcTypes, Planned
  <2>2. VpcCounted
    BY <1>2, FaultNames
  <2>3. VpcKube'
    BY <1>1, <1>2, <2>2, VpcHas, VpcAwsKept DEF VpcKube
  <2>4. QED
    BY <1>3, <2>1, <2>3 DEF VpcTypes
<1>4. CASE N!V!Drift
  <2>1. PICK i \in DOMAIN vpcs :
            vpcs' = [vpcs EXCEPT ![i].ranges = @ \union {"drifted"}]
    BY <1>4 DEF N!V!Drift
  <2>2. PICK v \in N!V!Vpcs : vpcs' = [vpcs EXCEPT ![i] = v]
    <3>1. vpcs[i] \in N!V!Vpcs
      BY <1>1 DEF VpcTypes, VpcsOK
    <3>2. vpcs[i].ranges \union {"drifted"} \in SUBSET N!V!Ranges
      <4>1. vpcs[i].ranges \subseteq N!V!Ranges
        BY <3>1 DEF N!V!Vpcs
      <4>2. QED
        BY <4>1, DriftIsRange
    <3>3. [vpcs[i] EXCEPT !.ranges = vpcs[i].ranges \union {"drifted"}] \in N!V!Vpcs
      BY <3>1, <3>2 DEF N!V!Vpcs
    <3>4. vpcs' = [vpcs EXCEPT ![i] =
                [vpcs[i] EXCEPT !.ranges = vpcs[i].ranges \union {"drifted"}]]
      BY <2>1
    <3>5. QED
      BY <3>3, <3>4
  <2>3. DOMAIN vpcs' = DOMAIN vpcs /\ VpcsOK'
    BY <1>1, <1>2, <2>2, VpcChanged
  <2>4. VpcQuietly
    BY <1>2, <2>3 DEF VpcQuietly
  <2>5. QED
    BY <1>2, <1>3, <2>3, <2>4, VpcQuiet
<1>5. CASE N!V!ExternalDelete
  <2>1. PICK i \in DOMAIN vpcs \ N!Occupied : vpcs' = N!V!Without({i})
    BY <1>5 DEF N!V!ExternalDelete
  <2>2. VpcsOK' /\ DOMAIN vpcs' = DOMAIN vpcs \ {i}
    BY <1>1, <1>2, <2>1, WithoutVpcs
  <2>3. VpcTypes'
    BY <1>3, <2>2
  <2>4. ~Alone
    BY <1>5, FaultNames DEF N!V!ExternalDelete, Fault, Alone, FreeOf
  <2>5. Unlagged' = Unlagged /\ Alone' = Alone
    BY <1>1, <1>2, SameScenarioOfBoth
  <2>6. VpcGiven'
    BY <1>1, <1>2 DEF VpcFacts, VpcGiven
  <2>7. Unlagged => VpcSpeaks'
    BY <1>1, <1>2, <2>2 DEF VpcFacts, VpcSpeaks
  <2>8. N!Occupied \subseteq DOMAIN vpcs'
    BY <1>1, <2>1, <2>2 DEF SubnetTypes, SubnetsOK, N!Occupied
  <2>9. vmade \in Nat
    BY <1>1, VpcHas
  <2>10. QED
    BY <1>2, <2>2, <2>3, <2>4, <2>5, <2>6, <2>7, <2>8, <2>9 DEF VpcMoves, VpcFacts
<1>6. QED
  BY <1>4, <1>5

\* Every step of the VPC's side.
LEMMA VpcSideMoves ==
    ASSUME NetworkInv, \/ N!VpcWork \/ N!VpcWatch \/ N!VpcOther
    PROVE  VpcMoves
<1>1. CASE N!VpcWork
  BY <1>1, VpcSharedMoves, VpcReads, VpcCreates, GetsRanges, AssociatesIpv6,
     SyncsRanges, VpcSyncs, VpcDeletes DEF N!VpcWork, N!V!Work, N!V!Reconcile, N!V!aws
<1>2. CASE N!VpcWatch
  BY <1>2, VpcSharedMoves DEF N!VpcWatch, N!V!WatchDelivers, N!V!aws
<1>3. CASE N!VpcOther
  BY <1>3, VpcSharedMoves, VpcReads, VpcSyncs, VpcDeletes, VpcDisturbed
     DEF N!VpcOther, N!V!Outside, N!V!aws
<1>4. QED
  BY <1>1, <1>2, <1>3

LEMMA ReturnsIdle == ASSUME Return PROVE step'.at = "idle"
<1>1. "idle" \in {"idle"}
  OBVIOUS
<1>2. QED
  BY <1>1, ReturnType

\* Meanwhile the subnet's side waits.
LEMMA SubnetWaits ==
    ASSUME NetworkInv, VpcMoves, UNCHANGED <<api, cache, cfresh, subnets, smade>>,
           \/ UNCHANGED <<w, wfresh, step>>
           \/ Return
    PROVE  SubnetTypes' /\ SubnetFacts'
<1>1. VpcTypes /\ VpcFacts /\ SubnetTypes /\ SubnetFacts
  BY NetworkParts
<1>2. /\ Counted /\ vmade <= vmade'
      /\ DOMAIN vpcs' \intersect (1 .. vmade) \subseteq DOMAIN vpcs
      /\ N!Occupied \subseteq DOMAIN vpcs'
      /\ Unlagged => vapi'.st.id = vapi.st.id \/ vapi.st.id \notin DOMAIN vpcs
  BY DEF VpcMoves
<1>3. Unlagged' = Unlagged /\ Alone' = Alone
  BY <1>1, <1>2, SameScenarioOfBoth
<1>4. vmade \in Nat /\ vmade' \in Nat
  <2>1. MaxVpcs \in Nat
    BY NetworkAssumption DEF N!Parameters
  <2>2. VpcsOK /\ VpcsOK'
    BY <1>1 DEF VpcMoves, VpcTypes
  <2>3. QED
    BY <2>1, <2>2 DEF VpcsOK
<1>5. step'.at = "idle" \/ UNCHANGED <<w, wfresh, step>>
  BY ReturnsIdle
<1>6. SubnetKube'
  <2>1. CASE UNCHANGED <<w, wfresh, step>>
    BY <1>1, <1>2, <2>1, SubnetHas, AwsKept DEF SubnetKube
  <2>2. CASE Return
    <3>1. "idle" \in N!S!Labels
      BY DEF N!S!Labels
    <3>2. WorkerOK(N!S!Statuses, N!S!Labels, N!S!Exits)' /\ step'.at = "idle"
      BY <2>2, <3>1, ReturnType
    <3>3. QED
      BY <1>1, <1>2, <3>2, SubnetHas, WorkerKept DEF SubnetKube
  <2>3. QED
    BY <2>1, <2>2
<1>7. SubnetsOK'
  BY <1>1, <1>2 DEF SubnetTypes, SubnetsOK, N!Occupied
<1>8. SubnetGiven'
  BY <1>1, <1>5 DEF SubnetFacts, SubnetGiven
<1>9. 1 .. vmade \subseteq 1 .. vmade'
  BY <1>2, <1>4
<1>10. HandGiven'
  BY <1>1, <1>5, <1>9 DEF SubnetFacts, HandGiven
<1>11. Unlagged => SubnetSpeaks'
  <2>1. SUFFICES ASSUME Unlagged PROVE SubnetSpeaks'
    OBVIOUS
  <2>2. \A i \in DOMAIN subnets : subnets[i].vpc = vapi'.st.id
    BY <1>1, <1>2, <2>1 DEF SubnetFacts, SubnetSpeaks, SubnetTypes, SubnetsOK
  <2>3. ASSUME step'.at \in {"lookup", "create"}, step'.local \in DOMAIN vpcs'
        PROVE  step'.local = vapi'.st.id
    <3>1. step' = step
      BY <1>5, <2>3
    <3>2. step.local \in DOMAIN vpcs
      BY <1>1, <1>2, <2>3, <3>1 DEF SubnetFacts, HandGiven
    <3>3. QED
      BY <1>1, <1>2, <2>1, <2>3, <3>1, <3>2 DEF SubnetFacts, SubnetSpeaks
  <2>4. QED
    BY <2>2, <2>3 DEF SubnetSpeaks
<1>12. Alone => N!SubnetFound'
  BY <1>1, <1>5 DEF SubnetFacts, N!SubnetFound, N!Tagged
<1>13. QED
  BY <1>3, <1>6, <1>7, <1>8, <1>10, <1>11, <1>12 DEF SubnetTypes, SubnetFacts

-----------------------------------------------------------------------------
(* Steps of the subnet's worker and of those around it.                     *)

SubnetMoves == SubnetTypes' /\ SubnetFacts' /\ Counted

vpcWaits == UNCHANGED <<vapi, vcache, vcfresh, vw, vwfresh, vstep, vpcs, vmade>>

\* Meanwhile the VPC's side waits.
LEMMA VpcWaits ==
    ASSUME VpcTypes, VpcFacts, Counted, vpcWaits
    PROVE  VpcTypes' /\ VpcFacts'
<1>1. Unlagged' = Unlagged /\ Alone' = Alone
  BY SameScenarioOfBoth
<1>2. VpcKube'
  BY VpcHas, FaultNames, VpcAwsKept DEF VpcKube, vpcWaits
<1>3. Planned' /\ VpcsOK'
  BY DEF VpcTypes, Planned, VpcsOK, vpcWaits
<1>4. VpcFacts'
  BY <1>1 DEF VpcFacts, VpcGiven, VpcSpeaks, N!VpcStays, vpcWaits
<1>5. QED
  BY <1>2, <1>3, <1>4 DEF VpcTypes

\* Most steps leave alone which subnets there are and which one the status names.
SubnetQuietly ==
    /\ UNCHANGED <<subnets, smade>> /\ api'.st.id = api.st.id
    /\ cache'.st.id \in {cache.st.id, api.st.id}
    /\ api.finalizer => api'.finalizer
    /\ cache.deleting => cache'.deleting
    /\ \/ step'.at = "idle"
       \/ step' = step /\ w' = w
       \/ /\ step.at \notin {"idle"} \union N!S!Removing /\ w'.st.id = w.st.id
          /\ step'.at \notin {"lookup", "create"} \union N!S!Removing

LEMMA SubnetQuiet ==
    ASSUME NetworkInv, SubnetTypes', Counted, vpcWaits, SubnetQuietly
    PROVE  SubnetMoves
<1>1. VpcTypes /\ SubnetTypes /\ SubnetFacts
      /\ Unlagged' = Unlagged /\ Alone' = Alone
  BY NetworkParts, SameScenarioOfBoth
<1>2. SubnetGiven'
  BY <1>1 DEF SubnetFacts, SubnetGiven, SubnetQuietly
<1>3. HandGiven'
  BY <1>1 DEF SubnetFacts, HandGiven, SubnetQuietly, vpcWaits
<1>4. Unlagged => SubnetSpeaks'
  BY <1>1 DEF SubnetFacts, SubnetSpeaks, SubnetQuietly, vpcWaits
<1>5. Alone => N!SubnetFound'
  BY <1>1 DEF SubnetFacts, N!SubnetFound, N!Tagged, SubnetQuietly, N!S!Removing
<1>6. QED
  BY <1>1, <1>2, <1>3, <1>4, <1>5 DEF SubnetMoves, SubnetFacts

LEMMA SubnetSharedTypes ==
    ASSUME SubnetTypes, Shared, UNCHANGED <<subnets, smade>>, vpcWaits
    PROVE  SubnetTypes'
<1>1. SubnetKube'
  BY SubnetHas, SharedKept DEF SubnetKube
<1>2. SubnetsOK'
  BY DEF SubnetTypes, SubnetsOK, vpcWaits
<1>3. QED
  BY <1>1, <1>2 DEF SubnetTypes

LEMMA SubnetStarts ==
    ASSUME NetworkInv, vpcWaits, UNCHANGED <<subnets, smade>>,
           \/ ReconcileAbandoned \/ ReconcileDeleted
           \/ ReconcileNew \/ ReconcileExisting
    PROVE  SubnetMoves
<1>1. VpcTypes /\ SubnetTypes /\ SubnetFacts
  BY NetworkParts
<1>2. SubnetTypes'
  BY <1>1, SubnetSharedTypes DEF Shared, SharedWork
<1>3. PICK label \in {"release", "delete", "addFinalizer", "read"} :
          /\ Start(label)
          /\ cache.deleting => label \in N!S!Removing
          /\ label = "release" => cache.abandon
  BY DEF ReconcileAbandoned, ReconcileDeleted, ReconcileNew, ReconcileExisting,
     N!S!Removing
<1>4. /\ step.at = "idle" /\ step'.at = label /\ w' = cache
      /\ UNCHANGED <<api, cache, cfresh>> /\ Counted
  BY <1>1, <1>3, SubnetHas, StartEffect
<1>5. Unlagged' = Unlagged /\ Alone' = Alone
  BY <1>1, <1>4, SameScenarioOfBoth
<1>6. SubnetGiven'
  BY <1>1, <1>4 DEF SubnetFacts, SubnetGiven
<1>7. HandGiven' /\ (Unlagged => SubnetSpeaks')
  BY <1>1, <1>4 DEF SubnetFacts, HandGiven, SubnetSpeaks, vpcWaits
<1>8. Alone => N!SubnetFound'
  BY <1>1, <1>3, <1>4 DEF SubnetFacts, N!SubnetFound
<1>9. QED
  BY <1>2, <1>4, <1>5, <1>6, <1>7, <1>8 DEF SubnetMoves, SubnetFacts

LEMMA SubnetPersists ==
    ASSUME NetworkInv, vpcWaits, UNCHANGED <<subnets, smade>>, Persist
    PROVE  SubnetMoves
<1>1. VpcTypes /\ SubnetTypes /\ SubnetFacts
  BY NetworkParts
<1>2. SubnetTypes'
  BY <1>1, SubnetSharedTypes DEF Shared, SharedWork
<1>3. /\ step.at = "save" /\ SameBut(api', api, w.st)
      /\ UNCHANGED cache /\ NoFault
      /\ step.ok \in N!S!Exits
      /\ step.ok = "idle" => step'.at = "idle"
      /\ step.ok \notin {"idle", "report"} => step'.at = step.ok /\ w' = api'
  BY <1>1, SubnetHas, PersistEffect
<1>4. api'.st.id = w.st.id /\ api'.finalizer = api.finalizer
  BY <1>3 DEF SameBut
<1>5. \/ step'.at = "idle"
      \/ step'.at = "modify" /\ w' = api'
  BY <1>3 DEF N!S!Exits
<1>6. Counted
  BY <1>3 DEF Counted
<1>7. Unlagged' = Unlagged /\ Alone' = Alone
  BY <1>1, <1>6, SameScenarioOfBoth
<1>8. SubnetGiven'
  BY <1>1, <1>3, <1>4, <1>5 DEF SubnetFacts, SubnetGiven
<1>9. HandGiven' /\ (Unlagged => SubnetSpeaks')
  BY <1>1, <1>5 DEF SubnetFacts, HandGiven, SubnetSpeaks, vpcWaits
<1>10. Alone => N!SubnetFound'
  BY <1>1, <1>3, <1>4, <1>5 DEF SubnetFacts, N!SubnetFound, N!S!Removing
<1>11. QED
  BY <1>2, <1>6, <1>7, <1>8, <1>9, <1>10 DEF SubnetMoves, SubnetFacts

\* The other steps that every kind takes are quiet.
LEMMA SubnetSharedMoves ==
    ASSUME NetworkInv, vpcWaits, UNCHANGED <<subnets, smade>>,
           SharedWork \/ PersistError \/ Users \/ CacheSync
    PROVE  SubnetMoves
<1>1. VpcTypes /\ SubnetTypes
  BY NetworkParts
<1>2. SubnetTypes'
  BY <1>1, SubnetSharedTypes DEF Shared
<1>3. /\ KubeOK(N!S!Statuses, N!S!Labels, N!S!Exits) /\ Protocol(N!S!Removing)
      /\ KindOK(N!S!Statuses, N!S!Labels, N!S!Exits, N!S!Removing)
  BY <1>1, SubnetHas
<1>4. CASE AddFinalizer \/ RemoveFinalizer
  <2>1. /\ api'.st = api.st /\ UNCHANGED cache /\ step'.at = "idle" /\ NoFault
        /\ api.finalizer => api'.finalizer
    BY <1>3, <1>4, FinalizerEffect
  <2>2. SubnetQuietly /\ Counted
    BY <2>1 DEF SubnetQuietly, Counted
  <2>3. QED
    BY <1>2, <2>2, SubnetQuiet
<1>5. CASE PersistConflict \/ PersistError
  <2>1. /\ step.at = "save" /\ UNCHANGED <<api, cache>> /\ Counted
        /\ \/ step'.at = "idle"
           \/ /\ step'.at = "save"
              /\ SameBut(w', w, [w.st EXCEPT !.ready = FALSE])
    BY <1>3, <1>5, PersistFails
  <2>2. w.st \in N!S!Statuses
    BY <1>1, <2>1, SubnetHas
  <2>3. [w.st EXCEPT !.ready = FALSE].id = w.st.id
    BY <2>2 DEF N!S!Statuses
  <2>4. step'.at = "idle" \/ (step'.at = "save" /\ w'.st.id = w.st.id)
    BY <2>1, <2>3 DEF SameBut
  <2>5. SubnetQuietly
    BY <2>1, <2>4 DEF SubnetQuietly, N!S!Removing
  <2>6. QED
    BY <1>2, <2>1, <2>5, SubnetQuiet
<1>6. CASE Users
  <2>1. /\ api'.st = api.st /\ api'.finalizer = api.finalizer
        /\ UNCHANGED <<cache, w, step>> /\ NoFault
    BY <1>3, <1>6, UserEffect
  <2>2. SubnetQuietly /\ Counted
    BY <2>1 DEF SubnetQuietly, Counted
  <2>3. QED
    BY <1>2, <2>2, SubnetQuiet
<1>7. CASE CacheSync
  <2>1. cache' = api /\ UNCHANGED <<api, w, step>> /\ NoFault
    BY <1>7 DEF CacheSync, worker
  <2>2. cache.deleting => api.deleting
    BY <1>3 DEF Protocol, DeletionSeen
  <2>3. SubnetQuietly /\ Counted
    BY <2>1, <2>2 DEF SubnetQuietly, Counted
  <2>4. QED
    BY <1>2, <2>3, SubnetQuiet
<1>8. QED
  BY <1>4, <1>5, <1>6, <1>7, SubnetStarts, SubnetPersists DEF SharedWork

\* The labels of reconcileSubnet, and a step from one of them.
SubnetWorking == {"read", "lookup", "create", "modify"}
SubnetCalls ==
    /\ step.at \in SubnetWorking /\ UNCHANGED <<api, cache, cfresh>> /\ Counted
    /\ SubnetsOK'

LEMMA SubnetSame ==
    ASSUME SubnetTypes, step.at \in SubnetWorking, UNCHANGED <<subnets, smade>>,
           UNCHANGED <<api, cache, cfresh>>, Counted, vpcWaits
    PROVE  SubnetCalls
BY DEF SubnetTypes, SubnetsOK, SubnetCalls, vpcWaits

LEMMA SubnetCallTypes ==
    ASSUME SubnetTypes, SubnetCalls,
           WorkerOK(N!S!Statuses, N!S!Labels, N!S!Exits)',
           \/ step'.at = "idle"
           \/ /\ w'.abandon = w.abandon
              /\ step'.at \notin {"addFinalizer", "idle"} \union N!S!Removing
    PROVE  SubnetTypes'
<1>1. step.at \notin {"idle", "addFinalizer"} \union N!S!Removing
  BY DEF SubnetCalls, SubnetWorking, N!S!Removing
<1>2. SubnetKube'
  BY <1>1, SubnetHas, WorkerKept DEF SubnetKube, SubnetCalls
<1>3. QED
  BY <1>2 DEF SubnetTypes, SubnetCalls

LEMMA SubnetGoesWith ==
    ASSUME SubnetTypes, SubnetCalls, NEW label \in SubnetWorking, NEW x,
           GotoWith(label, w, x)
    PROVE  SubnetTypes' /\ step'.at = label /\ step'.local = x /\ w' = w
<1>1. label \in N!S!Labels \ {"idle", "save"}
  BY DEF SubnetWorking, N!S!Labels
<1>2. w \in CRs(N!S!Statuses)
  BY SubnetHas DEF SubnetCalls, SubnetWorking
<1>3. /\ WorkerOK(N!S!Statuses, N!S!Labels, N!S!Exits)'
      /\ step'.at = label /\ step'.local = x /\ w' = w
  BY <1>1, <1>2, SubnetHas, GotoWithType
<1>4. label \notin {"addFinalizer", "idle"} \union N!S!Removing
  BY DEF SubnetWorking, N!S!Removing
<1>5. QED
  BY <1>3, <1>4, SubnetCallTypes

LEMMA SubnetReports ==
    ASSUME SubnetTypes, SubnetCalls, Report
    PROVE  SubnetTypes' /\ step'.at = "save" /\ w'.st.id = w.st.id
<1>1. step.at # "idle" /\ w \in CRs(N!S!Statuses) /\ w.st \in N!S!Statuses
  BY SubnetHas DEF SubnetCalls, SubnetWorking
<1>2. /\ WorkerOK(N!S!Statuses, N!S!Labels, N!S!Exits)'
      /\ step'.at = "save"
      /\ SameBut(w', w, [w.st EXCEPT !.ready = FALSE])
  BY <1>1, SubnetHas, ReportEffect
<1>3. [w.st EXCEPT !.ready = FALSE].id = w.st.id
  BY <1>1 DEF N!S!Statuses
<1>4. SubnetTypes'
  BY <1>2, SubnetCallTypes DEF SameBut, N!S!Removing
<1>5. QED
  BY <1>2, <1>3, <1>4 DEF SameBut

LEMMA SubnetSaves ==
    ASSUME SubnetTypes, SubnetCalls, NEW copy \in CRs(N!S!Statuses),
           copy.abandon = w.abandon, NEW ok \in N!S!Exits,
           Save(copy, ok, "report")
    PROVE  SubnetTypes' /\ step'.at = "save" /\ w' = copy
<1>1. "save" \in N!S!Labels
  BY DEF N!S!Labels
<1>2. Write(copy, ok, "report", wfresh)
  BY DEF Save
<1>3. /\ WorkerOK(N!S!Statuses, N!S!Labels, N!S!Exits)'
      /\ step'.at = "save" /\ w' = copy
  BY <1>1, <1>2, SubnetHas, WriteType
<1>4. QED
  BY <1>3, SubnetCallTypes DEF N!S!Removing

LEMMA SubnetReturns ==
    ASSUME SubnetTypes, SubnetCalls, Return
    PROVE  SubnetTypes' /\ step'.at = "idle"
<1>1. "idle" \in N!S!Labels
  BY DEF N!S!Labels
<1>2. WorkerOK(N!S!Statuses, N!S!Labels, N!S!Exits)' /\ step'.at = "idle"
  BY <1>1, ReturnType
<1>3. QED
  BY <1>2, SubnetCallTypes

\* A call that changes nothing in EC2 and does not move towards a creation.
LEMMA SubnetCallQuiet ==
    ASSUME NetworkInv, vpcWaits, SubnetCalls, SubnetTypes',
           UNCHANGED <<subnets, smade>>,
           \/ step'.at = "idle"
           \/ step'.at \in {"save", "modify"} /\ w'.st.id = w.st.id
    PROVE  SubnetMoves
<1>1. SubnetQuietly
  BY DEF SubnetQuietly, SubnetCalls, SubnetWorking, N!S!Removing
<1>2. QED
  BY <1>1, SubnetQuiet DEF SubnetCalls

\* Calls that find the subnet missing, refused or beyond reach.
LEMMA SubnetFails ==
    ASSUME NetworkInv, vpcWaits,
           \/ N!S!NoVpc \/ N!S!CreateRefused
           \/ (N!S!CallError /\ step.at # "delete")
    PROVE  SubnetMoves
<1>1. VpcTypes /\ SubnetTypes
  BY NetworkParts
<1>2. /\ step.at \in SubnetWorking /\ UNCHANGED <<subnets, smade>> /\ Counted
      /\ UNCHANGED <<api, cache, cfresh>> /\ (Report \/ Return)
  BY SubnetNames, FaultNames DEF N!S!NoVpc, N!S!CreateRefused, N!S!CallError,
     SubnetWorking, N!S!k8s, N!S!aws, Counted, AllFaults
<1>3. SubnetCalls
  BY <1>1, <1>2, SubnetSame
<1>4. CASE Report
  BY <1>1, <1>2, <1>3, <1>4, SubnetReports, SubnetCallQuiet
<1>5. CASE Return
  BY <1>1, <1>2, <1>3, <1>5, SubnetReturns, SubnetCallQuiet
<1>6. QED
  BY <1>2, <1>4, <1>5

\* What a step of a status keeps.
LEMMA SubnetStatusParts ==
    ASSUME NEW cr \in CRs(N!S!Statuses)
    PROVE  /\ \A i \in N!S!Ids :
                 /\ [cr EXCEPT !.st.id = i] \in CRs(N!S!Statuses)
                 /\ [cr EXCEPT !.st.id = i].st.id = i
                 /\ [cr EXCEPT !.st.id = i].abandon = cr.abandon
           /\ ReadyNow(Observed(cr)) \in CRs(N!S!Statuses)
           /\ ReadyNow(Observed(cr)).st.id = cr.st.id
           /\ ReadyNow(Observed(cr)).abandon = cr.abandon
<1>1. cr.st \in N!S!Statuses /\ cr.gen \in Nat
  BY CopyType
<1>2. \A old \in CRs(N!S!Statuses), st \in N!S!Statuses :
        /\ [old EXCEPT !.st = st] \in CRs(N!S!Statuses)
        /\ [old EXCEPT !.st = st].st = st
        /\ [old EXCEPT !.st = st].abandon = old.abandon
  BY StatusType DEF SameBut
<1>3. ASSUME NEW i \in N!S!Ids
      PROVE  /\ [cr EXCEPT !.st.id = i] \in CRs(N!S!Statuses)
             /\ [cr EXCEPT !.st.id = i].st.id = i
             /\ [cr EXCEPT !.st.id = i].abandon = cr.abandon
  <2>1. /\ [cr.st EXCEPT !.id = i] \in N!S!Statuses
        /\ [cr.st EXCEPT !.id = i].id = i
    BY <1>1 DEF N!S!Statuses
  <2>2. [cr EXCEPT !.st.id = i] = [cr EXCEPT !.st = [cr.st EXCEPT !.id = i]]
    OBVIOUS
  <2>3. QED
    BY <1>2, <2>1, <2>2
<1>4. /\ Observed(cr) \in CRs(N!S!Statuses)
      /\ Observed(cr).st.id = cr.st.id /\ Observed(cr).abandon = cr.abandon
  <2>1. PICK st \in N!S!Statuses :
            st.id = cr.st.id /\ st = [cr.st EXCEPT !.obsGen = cr.gen]
    BY <1>1 DEF N!S!Statuses
  <2>2. Observed(cr) = [cr EXCEPT !.st = st]
    BY <2>1 DEF Observed
  <2>3. /\ [cr EXCEPT !.st = st] \in CRs(N!S!Statuses)
        /\ [cr EXCEPT !.st = st].st = st
        /\ [cr EXCEPT !.st = st].abandon = cr.abandon
    BY <1>2
  <2>4. QED
    BY <2>1, <2>2, <2>3
<1>5. ASSUME NEW old \in CRs(N!S!Statuses)
      PROVE  /\ ReadyNow(old) \in CRs(N!S!Statuses)
             /\ ReadyNow(old).st.id = old.st.id
             /\ ReadyNow(old).abandon = old.abandon
  <2>1. old.st \in N!S!Statuses
    BY CopyType
  <2>2. PICK st \in N!S!Statuses :
            st.id = old.st.id /\ st = [old.st EXCEPT !.ready = TRUE]
    BY <2>1 DEF N!S!Statuses
  <2>3. ReadyNow(old) = [old EXCEPT !.st = st]
    BY <2>2 DEF ReadyNow
  <2>4. /\ [old EXCEPT !.st = st] \in CRs(N!S!Statuses)
        /\ [old EXCEPT !.st = st].st = st
        /\ [old EXCEPT !.st = st].abandon = old.abandon
    BY <1>2
  <2>5. QED
    BY <2>2, <2>3, <2>4
<1>6. QED
  BY <1>3, <1>4, <1>5

\* A spec lists known tags.
LEMMA TagsKnown ==
    ASSUME SubnetTypes, step.at # "idle"
    PROVE  w.want.tags \subseteq NetworkTags
<1>1. w.want \in Wants
  BY SubnetHas, CopyType
<1>2. QED
  BY <1>1, NetworkAssumption DEF N!Parameters, N!S!Specs

LEMMA SubnetModifies ==
    ASSUME NetworkInv, vpcWaits, N!S!Modify \/ N!S!SyncFails \/ N!S!ModifyRefused
    PROVE  SubnetMoves
<1>1. VpcTypes /\ SubnetTypes /\ SubnetFacts
  BY NetworkParts
<1>2. /\ step.at = "modify" /\ smade' = smade /\ Counted
      /\ UNCHANGED <<api, cache, cfresh>>
      /\ Report \/ Save(ReadyNow(Observed(w)), "idle", "report")
  BY SubnetNames, FaultNames DEF N!S!Modify, N!S!SyncFails, N!S!ModifyRefused,
     N!S!k8s, N!S!aws, Counted, AllFaults
<1>3. /\ SubnetsOK' /\ DOMAIN subnets' = DOMAIN subnets
      /\ \A i \in DOMAIN subnets : subnets'[i].vpc = subnets[i].vpc
  <2>1. CASE N!S!ModifyRefused
    BY <1>1, <2>1 DEF N!S!ModifyRefused, N!S!aws, SubnetTypes, SubnetsOK, vpcWaits
  <2>2. CASE N!S!Modify \/ N!S!SyncFails
    <3>1. /\ w.st.id \in DOMAIN subnets /\ w.want.tags \subseteq NetworkTags
          /\ subnets[w.st.id].tags \subseteq NetworkTags
      BY <1>1, <1>2, <2>2, TagsKnown DEF N!S!Modify, N!S!SyncFails, N!S!Present,
         SubnetTypes, SubnetsOK
    <3>2. PICK tags \in SUBSET NetworkTags :
              subnets' = [subnets EXCEPT ![w.st.id].tags = tags]
      BY <2>2, <3>1 DEF N!S!Modify, N!S!SyncFails, N!S!SetTags
    <3>3. \A i \in DOMAIN subnets :
              /\ subnets[i] \in [vpc : DOMAIN vpcs, tags : SUBSET NetworkTags]
              /\ subnets'[i] = IF i = w.st.id THEN [subnets[i] EXCEPT !.tags = tags]
                                             ELSE subnets[i]
      BY <1>1, <3>2 DEF SubnetTypes, SubnetsOK
    <3>4. /\ DOMAIN subnets' = DOMAIN subnets
          /\ \A i \in DOMAIN subnets :
                /\ subnets'[i] \in [vpc : DOMAIN vpcs, tags : SUBSET NetworkTags]
                /\ subnets'[i].vpc = subnets[i].vpc
      BY <3>2, <3>3
    <3>5. QED
      BY <1>1, <1>2, <3>4 DEF SubnetTypes, SubnetsOK, vpcWaits
  <2>3. QED
    BY <2>1, <2>2
<1>4. SubnetCalls
  BY <1>2, <1>3 DEF SubnetCalls, SubnetWorking
<1>5. SubnetTypes' /\ step'.at = "save" /\ w'.st.id = w.st.id
  <2>1. CASE Report
    BY <1>1, <1>4, <2>1, SubnetReports
  <2>2. CASE Save(ReadyNow(Observed(w)), "idle", "report")
    <3>1. w \in CRs(N!S!Statuses) /\ "idle" \in N!S!Exits
      BY <1>1, <1>2, SubnetHas DEF N!S!Exits
    <3>2. PICK copy \in CRs(N!S!Statuses) :
              /\ copy.st.id = w.st.id /\ copy.abandon = w.abandon
              /\ Save(copy, "idle", "report")
      BY <2>2, <3>1, SubnetStatusParts
    <3>3. SubnetTypes' /\ step'.at = "save" /\ w' = copy
      BY <1>1, <1>4, <3>1, <3>2, SubnetSaves
    <3>4. QED
      BY <3>2, <3>3
  <2>3. QED
    BY <1>2, <2>1, <2>2
<1>6. Unlagged' = Unlagged /\ Alone' = Alone
  BY <1>1, <1>2, SameScenarioOfBoth
<1>7. SubnetGiven'
  BY <1>1, <1>2, <1>5 DEF SubnetFacts, SubnetGiven
<1>8. HandGiven' /\ (Unlagged => SubnetSpeaks')
  BY <1>1, <1>3, <1>5 DEF SubnetFacts, HandGiven, SubnetSpeaks, vpcWaits
<1>9. Alone => N!SubnetFound'
  BY <1>1, <1>2, <1>3, <1>5 DEF SubnetFacts, N!SubnetFound, N!S!Removing
<1>10. QED
  BY <1>2, <1>5, <1>6, <1>7, <1>8, <1>9 DEF SubnetMoves, SubnetFacts

\* A step that knows a VPC, or a subnet, other than the one in the status.
LEMMA SubnetCallKnows ==
    ASSUME NetworkInv, vpcWaits, SubnetCalls, SubnetTypes',
           UNCHANGED <<subnets, smade>>, w'.st.id <= smade,
           step'.at \notin {"idle"} \union N!S!Removing,
           step'.at \in {"lookup", "create"} =>
              /\ step'.local \in 1 .. vmade
              /\ Unlagged /\ step'.local \in DOMAIN vpcs => step'.local = vapi.st.id
    PROVE  SubnetMoves
<1>1. VpcTypes /\ SubnetTypes /\ SubnetFacts /\ Counted
      /\ step.at \notin {"idle"} \union N!S!Removing
      /\ UNCHANGED <<api, cache, cfresh>>
  BY NetworkParts DEF SubnetCalls, SubnetWorking, N!S!Removing
<1>2. Unlagged' = Unlagged /\ Alone' = Alone
  BY <1>1, SameScenarioOfBoth
<1>3. SubnetGiven'
  BY <1>1 DEF SubnetFacts, SubnetGiven
<1>4. HandGiven'
  BY DEF HandGiven, vpcWaits
<1>5. Unlagged => SubnetSpeaks'
  BY <1>1 DEF SubnetFacts, SubnetSpeaks, vpcWaits
<1>6. Alone => N!SubnetFound'
  BY <1>1 DEF SubnetFacts, N!SubnetFound, N!S!Removing
<1>7. QED
  BY <1>1, <1>2, <1>3, <1>4, <1>5, <1>6 DEF SubnetMoves, SubnetFacts

LEMMA SubnetDescribes == ASSUME NetworkInv, vpcWaits, N!S!Describe PROVE SubnetMoves
<1>1. VpcTypes /\ VpcFacts /\ SubnetTypes /\ SubnetFacts
  BY NetworkParts
<1>2. /\ step.at \in SubnetWorking /\ UNCHANGED <<subnets, smade>> /\ Counted
      /\ UNCHANGED <<api, cache, cfresh>> /\ N!Resolved # 0
  BY FaultNames DEF N!S!Describe, SubnetWorking, N!S!k8s, N!S!aws, N!S!None, Counted
<1>3. PICK label \in {"modify", "lookup"} : GotoWith(label, w, N!Resolved)
  BY SubnetNames DEF N!S!Describe
<1>4. SubnetCalls
  BY <1>1, <1>2, SubnetSame
<1>5. label \in SubnetWorking
  BY DEF SubnetWorking
<1>6. SubnetTypes' /\ step'.at = label /\ step'.local = N!Resolved /\ w' = w
  BY <1>1, <1>3, <1>4, <1>5, SubnetGoesWith
<1>7. N!Resolved = vcache.st.id
  BY <1>2 DEF N!Resolved
<1>8. vcache.st.id \in 1 .. vmade
  BY <1>1, <1>2, <1>7, VpcHas DEF VpcFacts, VpcGiven
<1>9. Unlagged /\ vcache.st.id \in DOMAIN vpcs => vcache.st.id = vapi.st.id
  BY <1>1 DEF VpcFacts, VpcSpeaks
<1>10. w.st.id <= smade
  BY <1>1, <1>2 DEF SubnetFacts, SubnetGiven, SubnetWorking
<1>11. QED
  BY <1>2, <1>4, <1>6, <1>7, <1>8, <1>9, <1>10, SubnetCallKnows DEF N!S!Removing

LEMMA SubnetLooksUp == ASSUME NetworkInv, vpcWaits, N!S!Lookup PROVE SubnetMoves
<1>1. VpcTypes /\ SubnetTypes /\ SubnetFacts
  BY NetworkParts
<1>2. /\ step.at = "lookup" /\ UNCHANGED <<subnets, smade>> /\ Counted
      /\ UNCHANGED <<api, cache, cfresh>>
  BY FaultNames DEF N!S!Lookup, N!S!k8s, N!S!aws, Counted
<1>3. SubnetCalls
  BY <1>1, <1>2, SubnetSame DEF SubnetWorking
<1>4. w \in CRs(N!S!Statuses) /\ w.st.id <= smade
  BY <1>1, <1>2, SubnetHas DEF SubnetFacts, SubnetGiven
<1>5. CASE GotoWith("create", w, step.local)
  <2>1. "create" \in SubnetWorking
    BY DEF SubnetWorking
  <2>2. SubnetTypes' /\ step'.at = "create" /\ step'.local = step.local /\ w' = w
    BY <1>1, <1>3, <1>5, <2>1, SubnetGoesWith
  <2>3. /\ step.local \in 1 .. vmade
        /\ Unlagged /\ step.local \in DOMAIN vpcs => step.local = vapi.st.id
    BY <1>1, <1>2 DEF SubnetFacts, HandGiven, SubnetSpeaks
  <2>4. QED
    BY <1>2, <1>3, <1>4, <2>2, <2>3, SubnetCallKnows DEF N!S!Removing
<1>6. CASE \E i \in N!S!In(step.local) : Save([w EXCEPT !.st.id = i], "modify", "report")
  <2>1. PICK i \in DOMAIN subnets : Save([w EXCEPT !.st.id = i], "modify", "report")
    BY <1>6 DEF N!S!In
  <2>2. i \in N!S!Ids /\ i <= smade
    BY <1>1, SubnetHas DEF SubnetTypes, SubnetsOK, N!S!Ids
  <2>3. PICK copy \in CRs(N!S!Statuses) :
            /\ copy.st.id = i /\ copy.abandon = w.abandon
            /\ Save(copy, "modify", "report")
    BY <1>4, <2>1, <2>2, SubnetStatusParts
  <2>4. "modify" \in N!S!Exits
    BY DEF N!S!Exits
  <2>5. SubnetTypes' /\ step'.at = "save" /\ w' = copy
    BY <1>1, <1>3, <2>3, <2>4, SubnetSaves
  <2>6. QED
    BY <1>2, <1>3, <2>2, <2>3, <2>5, SubnetCallKnows DEF N!S!Removing
<1>7. QED
  BY <1>5, <1>6, SubnetNames DEF N!S!Lookup

LEMMA SubnetCreates == ASSUME NetworkInv, vpcWaits, N!S!Create PROVE SubnetMoves
<1>1. VpcTypes /\ SubnetTypes /\ SubnetFacts
  BY NetworkParts
<1>2. /\ step.at = "create" /\ smade < MaxSubnets /\ smade' = smade + 1
      /\ step.local \in DOMAIN vpcs
      /\ subnets' = N!S!Extend(subnets, smade', [vpc |-> step.local, tags |-> w.want.tags])
      /\ UNCHANGED <<api, cache, cfresh>> /\ Counted
  BY FaultNames DEF N!S!Create, N!S!k8s, Counted, AllFaults
<1>3. /\ api.st.id \in Nat /\ cache.st.id \in Nat /\ smade \in Nat
      /\ MaxSubnets \in Nat /\ DOMAIN subnets \subseteq 1 .. smade
      /\ w \in CRs(N!S!Statuses) /\ w.st.id \in Nat
  BY <1>1, <1>2, SubnetHas
<1>4. /\ smade' \in 1 .. MaxSubnets /\ smade' \in Nat
      /\ 1 .. smade \subseteq 1 .. smade'
      /\ \A i \in Nat : i <= smade => i <= smade'
  BY <1>2, <1>3
<1>5. /\ DOMAIN subnets' = DOMAIN subnets \union {smade'}
      /\ \A i \in DOMAIN subnets' :
            subnets'[i] = IF i \in DOMAIN subnets THEN subnets[i]
                          ELSE [vpc |-> step.local, tags |-> w.want.tags]
  BY <1>2 DEF N!S!Extend
<1>6. SubnetsOK'
  <2>1. \A i \in DOMAIN subnets' :
            subnets'[i] \in [vpc : DOMAIN vpcs, tags : SUBSET NetworkTags]
    BY <1>1, <1>2, <1>5, TagsKnown DEF SubnetTypes, SubnetsOK
  <2>2. DOMAIN subnets' \subseteq 1 .. smade' /\ smade' \in 0 .. MaxSubnets
    BY <1>3, <1>4, <1>5
  <2>3. QED
    BY <2>1, <2>2 DEF SubnetsOK, vpcWaits
<1>7. SubnetCalls
  BY <1>2, <1>6 DEF SubnetCalls, SubnetWorking
<1>8. /\ SubnetTypes' /\ step'.at = "save" /\ w'.st.id \in {w.st.id, smade'}
  <2>1. CASE Report
    BY <1>1, <1>7, <2>1, SubnetReports
  <2>2. CASE Save([w EXCEPT !.st.id = smade'], "modify", "report")
    <3>1. smade' \in N!S!Ids /\ "modify" \in N!S!Exits
      BY <1>4 DEF N!S!Ids, N!S!Exits
    <3>2. PICK copy \in CRs(N!S!Statuses) :
              /\ copy.st.id = smade' /\ copy.abandon = w.abandon
              /\ Save(copy, "modify", "report")
      BY <1>3, <2>2, <3>1, SubnetStatusParts
    <3>3. SubnetTypes' /\ step'.at = "save" /\ w' = copy
      BY <1>1, <1>7, <3>1, <3>2, SubnetSaves
    <3>4. QED
      BY <3>2, <3>3
  <2>3. QED
    BY <2>1, <2>2, SubnetNames DEF N!S!Create
<1>9. Unlagged' = Unlagged /\ Alone' = Alone
  BY <1>1, <1>2, SameScenarioOfBoth
<1>10. SubnetGiven'
  BY <1>1, <1>2, <1>3, <1>4, <1>8 DEF SubnetFacts, SubnetGiven
<1>11. HandGiven'
  BY <1>8 DEF HandGiven
<1>12. Unlagged => SubnetSpeaks'
  BY <1>1, <1>2, <1>5, <1>8 DEF SubnetFacts, SubnetSpeaks, vpcWaits
<1>13. Alone => N!SubnetFound'
  <2>1. SUFFICES ASSUME Alone PROVE N!SubnetFound'
    OBVIOUS
  <2>2. N!SubnetFound /\ SubnetSpeaks
    BY <1>1, <2>1, AloneUnlagged DEF SubnetFacts
  <2>3. DOMAIN subnets = {}
    <3>1. N!S!In(step.local) = {}
      BY DEF N!S!Create
    <3>2. \A i \in DOMAIN subnets : subnets[i].vpc = step.local
      BY <1>2, <2>2 DEF SubnetSpeaks
    <3>3. QED
      BY <3>1, <3>2 DEF N!S!In
  <2>4. smade # 1
    BY <1>2, <2>2, <2>3 DEF N!SubnetFound, N!S!Removing
  <2>5. smade' = 1
    BY <1>2, <1>3, <2>2, <2>4 DEF N!SubnetFound
  <2>6. api.finalizer
    BY <1>1, <1>2, SubnetHas DEF Protocol, FinalizerHeld
  <2>7. DOMAIN subnets' # {}
    BY <1>5
  <2>8. QED
    BY <1>2, <1>8, <2>5, <2>6, <2>7 DEF N!SubnetFound
<1>14. QED
  BY <1>2, <1>8, <1>9, <1>10, <1>11, <1>12, <1>13 DEF SubnetMoves, SubnetFacts

LEMMA WithoutSubnets ==
    ASSUME SubnetTypes, vpcWaits, NEW ids, subnets' = N!S!Without(ids), smade' = smade
    PROVE  /\ SubnetsOK' /\ DOMAIN subnets' = DOMAIN subnets \ ids
           /\ \A i \in DOMAIN subnets' : subnets'[i] = subnets[i]
BY DEF SubnetTypes, SubnetsOK, N!S!Without, vpcWaits

\* The worker on the delete path.
LEMMA SubnetDeletionTypes ==
    ASSUME SubnetTypes, step.at = "delete", UNCHANGED <<api, cache, cfresh>>,
           Counted, SubnetsOK', Goto("release", w) \/ Return
    PROVE  /\ SubnetTypes' /\ step'.at \in {"idle", "release"}
           /\ step'.at = "release" => w' = w
<1>1. w \in CRs(N!S!Statuses)
  BY SubnetHas
<1>2. /\ WorkerOK(N!S!Statuses, N!S!Labels, N!S!Exits)'
      /\ \/ step'.at = "idle"
         \/ step'.at = "release" /\ w' = w
  <2>1. CASE Goto("release", w)
    <3>1. "release" \in N!S!Labels \ {"idle", "save"}
      BY DEF N!S!Labels
    <3>2. QED
      BY <1>1, <2>1, <3>1, SubnetHas, GotoType
  <2>2. CASE Return
    <3>1. "idle" \in N!S!Labels
      BY DEF N!S!Labels
    <3>2. QED
      BY <2>2, <3>1, ReturnType
  <2>3. QED
    BY <2>1, <2>2
<1>3. "delete" \in N!S!Removing /\ "release" \in N!S!Removing
  BY DEF N!S!Removing
<1>4. SubnetKube'
  BY <1>2, <1>3, SubnetHas, WorkerKept DEF SubnetKube
<1>5. QED
  BY <1>2, <1>4 DEF SubnetTypes

\* The subnet to delete is found even when its identifier was never stored, if
\* it has the tags of the spec.
LEMMA TargetIsTheSubnet ==
    ASSUME NetworkInv, Alone, step.at = "delete"
    PROVE  N!Tagged(w.want) \subseteq N!S!Target
<1>1. VpcTypes /\ VpcFacts /\ SubnetTypes /\ SubnetFacts
  BY NetworkParts
<1>2. N!SubnetFound /\ SubnetSpeaks /\ N!VpcStays
  BY <1>1, AloneUnlagged DEF SubnetFacts, VpcFacts
<1>3. /\ smade \in Nat /\ smade <= 1 /\ DOMAIN subnets \subseteq 1 .. smade
      /\ w.st.id \in Nat /\ w.st.id <= smade
  BY <1>1, <1>2, SubnetHas DEF N!SubnetFound, SubnetFacts, SubnetGiven
<1>4. DOMAIN subnets \subseteq {1} /\ w.st.id \in {0, 1}
  BY <1>3
<1>5. N!S!Matches = N!Tagged(w.want)
  <2>1. N!Resolved # 0 => N!Resolved = vapi.st.id
    BY <1>2 DEF N!Resolved, N!VpcStays
  <2>2. \A i \in DOMAIN subnets : N!Resolved \in {0, subnets[i].vpc}
    BY <1>2, <2>1 DEF SubnetSpeaks
  <2>3. QED
    BY <2>2 DEF N!S!Matches, N!Tagged, N!S!None
<1>6. CASE w.st.id = 1
  BY <1>4, <1>6 DEF N!S!Target, N!S!None, N!Tagged
<1>7. CASE w.st.id = 0
  <2>1. CASE N!Tagged(w.want) = {}
    BY <2>1
  <2>2. CASE N!Tagged(w.want) = {1}
    <3>1. N!S!Cardinality(N!Tagged(w.want)) = 1
      <4>1. Cardinality({1}) = 1
        BY FS_Singleton
      <4>2. N!S!Cardinality({1}) = Cardinality({1})
        BY DEF N!S!Cardinality, Cardinality, N!S!IsFiniteSet, IsFiniteSet
      <4>3. QED
        BY <2>2, <4>1, <4>2
    <3>2. QED
      BY <1>5, <1>7, <3>1 DEF N!S!Target, N!S!None
  <2>3. N!Tagged(w.want) \subseteq {1}
    BY <1>4 DEF N!Tagged
  <2>4. QED
    BY <2>1, <2>2, <2>3
<1>8. QED
  BY <1>4, <1>6, <1>7

LEMMA SubnetDeletes ==
    ASSUME NetworkInv, vpcWaits,
           N!S!Delete \/ (N!S!CallError /\ step.at = "delete")
    PROVE  SubnetMoves
<1>1. VpcTypes /\ SubnetTypes /\ SubnetFacts
  BY NetworkParts
<1>2. /\ step.at = "delete" /\ UNCHANGED <<api, cache, cfresh>> /\ Counted
      /\ smade' = smade /\ (Goto("release", w) \/ Return)
  BY SubnetNames, FaultNames DEF N!S!Delete, N!S!CallError, N!S!k8s, N!S!aws,
     Counted, AllFaults
<1>3. /\ SubnetsOK' /\ DOMAIN subnets' \subseteq DOMAIN subnets
      /\ \A i \in DOMAIN subnets' : subnets'[i] = subnets[i]
  <2>1. CASE N!S!Delete
    <3>1. subnets' = N!S!Without(N!S!Target)
      BY <2>1 DEF N!S!Delete
    <3>2. QED
      BY <1>1, <1>2, <3>1, WithoutSubnets
  <2>2. CASE N!S!CallError
    <3>1. UNCHANGED <<subnets, smade>>
      BY <2>2 DEF N!S!CallError, N!S!aws
    <3>2. SubnetsOK'
      BY <1>1, <3>1 DEF SubnetTypes, SubnetsOK, vpcWaits
    <3>3. QED
      BY <3>1, <3>2
  <2>3. QED
    BY <2>1, <2>2
<1>4. /\ SubnetTypes' /\ step'.at \in {"idle", "release"}
      /\ step'.at = "release" => w' = w
  BY <1>1, <1>2, <1>3, SubnetDeletionTypes
<1>5. cache.deleting
  BY <1>1, <1>2, SubnetHas DEF Protocol, DeletionSeen, N!S!Removing
<1>6. Unlagged' = Unlagged /\ Alone' = Alone
  BY <1>1, <1>2, SameScenarioOfBoth
<1>7. SubnetGiven'
  BY <1>1, <1>2, <1>4 DEF SubnetFacts, SubnetGiven
<1>8. HandGiven' /\ (Unlagged => SubnetSpeaks')
  BY <1>1, <1>3, <1>4 DEF SubnetFacts, HandGiven, SubnetSpeaks, vpcWaits
<1>9. Alone /\ step'.at = "release" =>
        \A i \in DOMAIN subnets' : ~(w'.want.tags \subseteq subnets'[i].tags)
  <2>1. SUFFICES ASSUME Alone, step'.at = "release", NEW i \in DOMAIN subnets'
                 PROVE  ~(w'.want.tags \subseteq subnets'[i].tags)
    OBVIOUS
  <2>2. CASE N!S!CallError
    <3>1. Return
      BY <1>2, <2>2, SubnetNames DEF N!S!CallError
    <3>2. QED
      BY <2>1, <3>1, ReturnsIdle
  <2>3. CASE N!S!Delete
    <3>1. subnets' = N!S!Without(N!S!Target)
      BY <2>3 DEF N!S!Delete
    <3>2. N!Tagged(w.want) \subseteq N!S!Target
      BY <1>2, <2>1, TargetIsTheSubnet
    <3>3. i \in DOMAIN subnets \ N!S!Target
      BY <2>1, <3>1 DEF N!S!Without
    <3>4. w' = w /\ subnets'[i] = subnets[i]
      BY <1>3, <1>4, <2>1
    <3>5. QED
      BY <3>2, <3>3, <3>4 DEF N!Tagged
  <2>4. QED
    BY <2>2, <2>3
<1>10. Alone => N!SubnetFound'
  BY <1>1, <1>2, <1>4, <1>5, <1>9 DEF SubnetFacts, N!SubnetFound, N!Tagged,
     N!S!Removing
<1>11. QED
  BY <1>2, <1>4, <1>6, <1>7, <1>8, <1>10 DEF SubnetMoves, SubnetFacts

LEMMA SubnetDisturbed ==
    ASSUME NetworkInv, vpcWaits, N!S!ExternalDelete PROVE SubnetMoves
<1>1. VpcTypes /\ SubnetTypes /\ SubnetFacts
  BY NetworkParts
<1>2. /\ UNCHANGED <<api, cache, cfresh, w, wfresh, step>> /\ smade' = smade
      /\ Counted
  BY FaultNames DEF N!S!ExternalDelete, N!S!k8s, N!S!worker, Counted, AllFaults
<1>3. /\ SubnetsOK' /\ DOMAIN subnets' \subseteq DOMAIN subnets
      /\ \A i \in DOMAIN subnets' : subnets'[i] = subnets[i]
  <2>1. PICK i \in DOMAIN subnets : subnets' = N!S!Without({i})
    BY DEF N!S!ExternalDelete
  <2>2. QED
    BY <1>1, <1>2, <2>1, WithoutSubnets
<1>4. ~Alone
  BY FaultNames DEF N!S!ExternalDelete, Fault, Alone, FreeOf
<1>5. Unlagged' = Unlagged /\ Alone' = Alone
  BY <1>1, <1>2, SameScenarioOfBoth
<1>6. SubnetTypes'
  BY <1>1, <1>2, <1>3, SubnetHas, AwsKept DEF SubnetTypes, SubnetKube
<1>7. SubnetGiven' /\ HandGiven' /\ (Unlagged => SubnetSpeaks')
  BY <1>1, <1>2, <1>3 DEF SubnetFacts, SubnetGiven, HandGiven, SubnetSpeaks, vpcWaits
<1>8. QED
  BY <1>2, <1>4, <1>5, <1>6, <1>7 DEF SubnetMoves, SubnetFacts

\* Every step of the subnet's side.
LEMMA SubnetSideMoves ==
    ASSUME NetworkInv, N!SubnetWork \/ N!SubnetWatch \/ N!SubnetOther
    PROVE  SubnetMoves /\ vpcWaits
<1>1. vpcWaits
  BY DEF N!SubnetWork, N!SubnetWatch, N!SubnetOther, N!vpcSide, vpcWaits
<1>2. CASE N!SubnetWork
  <2>1. CASE N!S!Reconcile
    <3>1. N!S!SharedWork /\ UNCHANGED <<subnets, smade>>
      BY <2>1 DEF N!S!Reconcile, N!S!aws
    <3>2. QED
      BY <1>1, <3>1, SubnetShared, SubnetSharedMoves
  <2>2. QED
    BY <1>1, <1>2, <2>1, SubnetDescribes, SubnetFails, SubnetLooksUp, SubnetCreates,
       SubnetModifies, SubnetDeletes DEF N!SubnetWork, N!S!Work
<1>3. CASE N!SubnetWatch
  BY <1>1, <1>3, SubnetShared, SubnetSharedMoves DEF N!SubnetWatch,
     N!S!WatchDelivers, N!S!aws
<1>4. CASE N!SubnetOther
  BY <1>1, <1>4, SubnetShared, SubnetSharedMoves, SubnetFails, SubnetModifies,
     SubnetDeletes, SubnetDisturbed DEF N!SubnetOther, N!S!Outside, N!S!aws
<1>5. QED
  BY <1>1, <1>2, <1>3, <1>4

-----------------------------------------------------------------------------
(* The tags that a lookup goes by.                                          *)

\* Every step is one that may come with a fault, and counts it.
LEMMA NetworkCounted == ASSUME NetworkInv, N!Next PROVE Counted
<1>1. CASE N!VpcWork \/ N!VpcWatch \/ N!VpcOther
  BY <1>1, VpcSideMoves DEF VpcMoves
<1>2. CASE N!SubnetWork \/ N!SubnetWatch \/ N!SubnetOther
  BY <1>2, SubnetSideMoves DEF SubnetMoves
<1>3. CASE N!Crash \/ N!Panic
  BY <1>3, FaultNames DEF N!Crash, N!Panic, Counted, AllFaults
<1>4. QED
  BY <1>1, <1>2, <1>3 DEF N!Next

\* The subnets keep what the spec lists, when that was never edited.
SubnetsLabelled == "edit" \notin scenario.users =>
    \A i \in DOMAIN subnets : api.want.tags \subseteq subnets[i].tags

\* What every kind does leaves the subnets alone, and copies specs about.
LEMMA LabelsShared ==
    ASSUME NetworkInv, SharedWork \/ PersistError \/ Users \/ CacheSync,
           UNCHANGED subnets, scenario' = scenario
    PROVE  N!Labelled'
<1>1. /\ KubeOK(N!S!Statuses, N!S!Labels, N!S!Exits) /\ Protocol(N!S!Removing)
      /\ KindOK(N!S!Statuses, N!S!Labels, N!S!Exits, N!S!Removing)
      /\ N!Labelled
  BY NetworkParts, SubnetHas
<1>2. CASE \/ ReconcileAbandoned \/ ReconcileDeleted
           \/ ReconcileNew \/ ReconcileExisting
  <2>1. PICK label \in {"release", "delete", "addFinalizer", "read"} : Start(label)
    BY <1>2 DEF ReconcileAbandoned, ReconcileDeleted, ReconcileNew, ReconcileExisting
  <2>2. w' = cache /\ wfresh' = cfresh /\ UNCHANGED <<api, cache>>
    BY <1>1, <2>1, StartEffect
  <2>3. cfresh => cache = api
    BY <1>1 DEF Protocol, CopyIsCurrent
  <2>4. QED
    BY <1>1, <2>2, <2>3 DEF N!Labelled
<1>3. CASE AddFinalizer \/ RemoveFinalizer
  <2>1. step'.at = "idle" /\ api'.want = api.want /\ UNCHANGED cache
    BY <1>1, <1>3, FinalizerEffect
  <2>2. QED
    BY <1>1, <2>1 DEF N!Labelled
<1>4. CASE Persist
  <2>1. /\ SameBut(api', api, w.st) /\ UNCHANGED cache /\ step.ok \in N!S!Exits
        /\ step.ok = "idle" => step'.at = "idle"
        /\ step.ok \notin {"idle", "report"} => w' = api'
    BY <1>1, <1>4, PersistEffect
  <2>2. api'.want = api.want /\ (step'.at = "idle" \/ w'.want = api'.want)
    BY <2>1 DEF SameBut, N!S!Exits
  <2>3. QED
    BY <1>1, <2>1, <2>2 DEF N!Labelled
<1>5. CASE PersistConflict \/ PersistError
  <2>1. /\ step.at = "save" /\ UNCHANGED <<api, cache>>
        /\ \/ step'.at = "idle"
           \/ SameBut(w', w, [w.st EXCEPT !.ready = FALSE])
    BY <1>1, <1>5, PersistFails
  <2>2. wfresh' \in {wfresh, FALSE}
    <3>1. Continue(step.err, w, wfresh) /\ step.err \in {"idle", "report"}
      BY <1>1, <1>5, <2>1 DEF PersistConflict, PersistError, KubeOK, WorkerOK
    <3>2. QED
      BY <3>1 DEF Continue, Write, Return
  <2>3. step.at # "idle" /\ (step'.at = "idle" \/ w'.want = w.want)
    BY <2>1 DEF SameBut
  <2>4. /\ wfresh => w.want = api.want
        /\ "edit" \notin scenario.users => w.want = api.want /\ cache.want = api.want
    BY <1>1, <2>3 DEF N!Labelled
  <2>5. step'.at # "idle" /\ wfresh' => w'.want = api'.want
    BY <2>1, <2>2, <2>3, <2>4
  <2>6. "edit" \notin scenario'.users =>
          /\ cache'.want = api'.want
          /\ step'.at # "idle" => w'.want = api'.want
          /\ \A i \in DOMAIN subnets' : api'.want.tags \subseteq subnets'[i].tags
    BY <1>1, <2>1, <2>3, <2>4 DEF N!Labelled
  <2>7. QED
    BY <2>5, <2>6 DEF N!Labelled
<1>6. CASE Users
  <2>1. /\ ~wfresh' /\ UNCHANGED <<cache, w, step>>
        /\ "edit" \notin scenario.users => api'.want = api.want
    BY <1>1, <1>6, UserEffect
  <2>2. QED
    BY <1>1, <2>1 DEF N!Labelled
<1>7. CASE CacheSync
  BY <1>1, <1>7 DEF CacheSync, worker, N!Labelled
<1>8. QED
  BY <1>2, <1>3, <1>4, <1>5, <1>6, <1>7 DEF SharedWork

\* A call of the worker keeps the spec in its copy, or ends the reconcile.
LEMMA CallKeepsWant ==
    ASSUME NetworkInv, step.at # "idle",
           \/ Return \/ Report
           \/ \E label : Goto(label, w)
           \/ \E label, x : GotoWith(label, w, x)
           \/ \E ok : Save(ReadyNow(Observed(w)), ok, "report")
           \/ \E ok, i : Save([w EXCEPT !.st.id = i], ok, "report")
    PROVE  step'.at = "idle" \/ (w'.want = w.want /\ wfresh' = wfresh)
<1>1. w \in CRs(N!S!Statuses)
  BY NetworkParts, SubnetHas
<1>2. /\ ReadyNow(Observed(w)).want = w.want /\ NotReady(w).want = w.want
      /\ \A i : [w EXCEPT !.st.id = i].want = w.want
  BY <1>1 DEF CRs, ReadyNow, Observed, NotReady
<1>3. CASE Return
  BY <1>3, ReturnsIdle
<1>4. CASE Report
  BY <1>2, <1>4 DEF Report, Continue, Write
<1>5. CASE \/ \E label : Goto(label, w)
           \/ \E label, x : GotoWith(label, w, x)
  BY <1>5 DEF Goto, GotoWith
<1>6. CASE \/ \E ok : Save(ReadyNow(Observed(w)), ok, "report")
           \/ \E ok, i : Save([w EXCEPT !.st.id = i], ok, "report")
  BY <1>2, <1>6 DEF Save, Write
<1>7. QED
  BY <1>3, <1>4, <1>5, <1>6

LEMMA LabelsCalled ==
    ASSUME NetworkInv, step.at # "idle", UNCHANGED <<api, cache>>,
           scenario' = scenario, SubnetsLabelled',
           step'.at = "idle" \/ (w'.want = w.want /\ wfresh' = wfresh)
    PROVE  N!Labelled'
BY NetworkParts DEF N!Labelled, SubnetsLabelled

\* Calls that give no subnet other tags.
LEMMA LabelsAsked ==
    ASSUME NetworkInv, scenario' = scenario,
           \/ N!S!Describe \/ N!S!NoVpc \/ N!S!Lookup \/ N!S!CreateRefused
           \/ N!S!ModifyRefused \/ N!S!Delete \/ N!S!CallError
    PROVE  N!Labelled'
<1>1. UNCHANGED <<api, cache>> /\ step.at # "idle"
  BY DEF N!S!Describe, N!S!NoVpc, N!S!Lookup, N!S!CreateRefused, N!S!ModifyRefused,
     N!S!Delete, N!S!CallError, N!S!k8s
<1>2. /\ DOMAIN subnets' \subseteq DOMAIN subnets
      /\ \A i \in DOMAIN subnets' : subnets'[i] = subnets[i]
  BY DEF N!S!Describe, N!S!NoVpc, N!S!Lookup, N!S!CreateRefused, N!S!ModifyRefused,
     N!S!Delete, N!S!CallError, N!S!Without, N!S!aws
<1>3. SubnetsLabelled'
  BY <1>1, <1>2, NetworkParts DEF SubnetsLabelled, N!Labelled
<1>4. \/ Return \/ Report
      \/ \E label : Goto(label, w)
      \/ \E label, x : GotoWith(label, w, x)
      \/ \E ok, i : Save([w EXCEPT !.st.id = i], ok, "report")
  BY SubnetNames DEF N!S!Describe, N!S!NoVpc, N!S!Lookup, N!S!CreateRefused,
     N!S!ModifyRefused, N!S!Delete, N!S!CallError
<1>5. QED
  BY <1>1, <1>3, <1>4, CallKeepsWant, LabelsCalled

\* Calls that do: they give it those of the copy.
LEMMA LabelsGiven ==
    ASSUME NetworkInv, scenario' = scenario,
           N!S!Create \/ N!S!Modify \/ N!S!SyncFails
    PROVE  N!Labelled'
<1>1. UNCHANGED <<api, cache>> /\ step.at # "idle" /\ N!Labelled /\ SubnetTypes
  BY NetworkParts DEF N!S!Create, N!S!Modify, N!S!SyncFails, N!S!k8s
<1>2. SubnetsLabelled'
  <2>1. SUFFICES ASSUME "edit" \notin scenario.users, NEW i \in DOMAIN subnets'
                 PROVE  w.want.tags \subseteq subnets'[i].tags
    BY <1>1 DEF SubnetsLabelled, N!Labelled
  <2>2. \A j \in DOMAIN subnets : w.want.tags \subseteq subnets[j].tags
    BY <1>1, <2>1 DEF N!Labelled
  <2>3. CASE N!S!Create
    BY <2>1, <2>2, <2>3 DEF N!S!Create, N!S!Extend
  <2>4. CASE N!S!Modify \/ N!S!SyncFails
    <3>1. /\ w.st.id \in DOMAIN subnets
          /\ \E tags : /\ w.want.tags \subseteq tags
                       /\ subnets' = [subnets EXCEPT ![w.st.id].tags = tags]
      BY <2>4 DEF N!S!Modify, N!S!SyncFails, N!S!Present, N!S!SetTags
    <3>2. PICK tags : /\ w.want.tags \subseteq tags
                      /\ subnets' = [subnets EXCEPT ![w.st.id].tags = tags]
      BY <3>1
    <3>3. i \in DOMAIN subnets /\ subnets[i] \in [vpc : DOMAIN vpcs, tags : SUBSET NetworkTags]
      BY <1>1, <2>1, <3>2 DEF SubnetTypes, SubnetsOK
    <3>4. CASE i = w.st.id
      <4>1. subnets'[i] = [subnets[i] EXCEPT !.tags = tags]
        BY <3>2, <3>3, <3>4
      <4>2. subnets'[i].tags = tags
        BY <3>3, <4>1
      <4>3. QED
        BY <3>2, <4>2
    <3>5. CASE i # w.st.id
      BY <2>2, <3>2, <3>3, <3>5
    <3>6. QED
      BY <3>4, <3>5
  <2>5. QED
    BY <2>3, <2>4
<1>3. \/ Report
      \/ \E ok : Save(ReadyNow(Observed(w)), ok, "report")
      \/ \E ok, i : Save([w EXCEPT !.st.id = i], ok, "report")
  BY SubnetNames DEF N!S!Create, N!S!Modify, N!S!SyncFails
<1>4. QED
  BY <1>1, <1>2, <1>3, CallKeepsWant, LabelsCalled

LEMMA LabelledStep == ASSUME NetworkInv, N!Next PROVE N!Labelled'
<1>1. scenario' = scenario /\ N!Labelled
  BY NetworkCounted, NetworkParts, SameScenarioOfBoth
<1>2. CASE UNCHANGED <<api, cache, w, wfresh, step>> /\ N!S!ExternalDelete
  BY <1>1, <1>2 DEF N!S!ExternalDelete, N!S!Without, N!Labelled
<1>3. CASE N!VpcWork \/ N!VpcWatch \/ N!VpcOther
  BY <1>1, <1>3 DEF N!VpcWork, N!VpcWatch, N!VpcOther, N!subnetSide, N!Labelled
<1>4. CASE N!Crash \/ N!Panic
  <2>1. Return /\ UNCHANGED <<api, cache, subnets>>
    BY <1>4, SubnetNames DEF N!Crash, N!Panic, N!Dies
  <2>2. step'.at = "idle"
    BY <2>1, ReturnsIdle
  <2>3. QED
    BY <1>1, <2>1, <2>2 DEF N!Labelled
<1>5. CASE N!SubnetWatch
  BY <1>1, <1>5, SubnetShared, LabelsShared DEF N!SubnetWatch, N!S!WatchDelivers,
     N!S!aws
<1>6. CASE N!SubnetWork
  <2>1. CASE N!S!Reconcile
    BY <1>1, <2>1, SubnetShared, LabelsShared DEF N!S!Reconcile, N!S!aws
  <2>2. QED
    BY <1>1, <1>6, <2>1, LabelsAsked, LabelsGiven DEF N!SubnetWork, N!S!Work
<1>7. CASE N!SubnetOther
  <2>1. CASE N!S!Outside
    BY <1>1, <2>1, SubnetShared, LabelsShared DEF N!S!Outside, N!S!aws
  <2>2. CASE N!S!ExternalDelete
    BY <1>2, <2>2 DEF N!S!ExternalDelete, N!S!k8s, N!S!worker
  <2>3. QED
    BY <1>1, <1>7, <2>1, <2>2, LabelsAsked, LabelsGiven DEF N!SubnetOther
<1>8. QED
  BY <1>3, <1>4, <1>5, <1>6, <1>7 DEF N!Next

-----------------------------------------------------------------------------
(* The invariant of the two together.                                       *)

LEMMA InvFromParts ==
    VpcTypes /\ VpcFacts /\ SubnetTypes /\ SubnetFacts /\ N!Labelled => NetworkInv
BY NetworkParts

\* The process dies: both workers are back where they wait.
LEMMA BothDie == ASSUME NetworkInv, N!Crash \/ N!Panic PROVE NetworkInv'
<1>1. VpcTypes /\ SubnetTypes
  BY NetworkParts
<1>2. /\ N!V!Return /\ Return /\ Counted
      /\ UNCHANGED <<vapi, vcache, vcfresh, api, cache, cfresh,
                     vpcs, vmade, subnets, smade>>
  BY SubnetNames, FaultNames DEF N!Crash, N!Panic, N!Dies, Counted, AllFaults
<1>3. N!V!WorkerOK(N!V!Statuses, N!V!Labels, N!V!Exits)' /\ vstep'.at = "idle"
  <2>1. "idle" \in N!V!Labels
    BY DEF N!V!Labels
  <2>2. QED
    BY <1>2, <2>1, VpcReturnType
<1>4. VpcTypes'
  <2>1. VpcKube'
    BY <1>1, <1>2, <1>3, FaultNames, VpcHas, VpcWorkerKept DEF VpcKube
  <2>2. Planned' /\ VpcsOK'
    BY <1>1, <1>2, <1>3 DEF VpcTypes, Planned, VpcsOK
  <2>3. QED
    BY <2>1, <2>2 DEF VpcTypes
<1>5. VpcQuietly
  BY <1>2, <1>3 DEF VpcQuietly
<1>6. VpcMoves
  BY <1>2, <1>4, <1>5, VpcQuiet
<1>7. SubnetTypes' /\ SubnetFacts'
  BY <1>2, <1>6, SubnetWaits
<1>8. VpcTypes' /\ VpcFacts'
  BY <1>6 DEF VpcMoves
<1>9. N!Labelled'
  BY LabelledStep DEF N!Next
<1>10. QED
  BY <1>7, <1>8, <1>9, InvFromParts, PTL

LEMMA NetworkStutter == ASSUME NetworkInv, UNCHANGED N!vars PROVE NetworkInv'
<1>1. /\ UNCHANGED <<api, cache, cfresh, subnets, smade>> /\ vpcWaits
      /\ UNCHANGED <<w, wfresh, step>> /\ NoFault
  BY DEF N!vars, vpcWaits, NoFault
<1>2. VpcTypes /\ VpcFacts /\ Counted
  BY <1>1, NetworkParts DEF Counted
<1>3. VpcTypes' /\ VpcFacts'
  BY <1>1, <1>2, VpcWaits
<1>4. VpcQuietly
  BY <1>1 DEF VpcQuietly, vpcWaits
<1>5. VpcMoves
  BY <1>2, <1>3, <1>4, VpcQuiet
<1>6. SubnetTypes' /\ SubnetFacts'
  BY <1>1, <1>5, SubnetWaits
<1>7. N!Labelled'
  BY NetworkParts DEF N!Labelled, N!vars
<1>8. QED
  BY <1>3, <1>6, <1>7, InvFromParts, PTL

LEMMA NetworkStep == ASSUME NetworkInv, N!Next PROVE NetworkInv'
<1>0. N!Labelled'
  BY LabelledStep
<1>1. CASE N!VpcWork \/ N!VpcWatch \/ N!VpcOther
  <2>1. VpcMoves
    BY <1>1, VpcSideMoves
  <2>2. UNCHANGED <<api, cache, cfresh, w, wfresh, step, subnets, smade>>
    BY <1>1 DEF N!VpcWork, N!VpcWatch, N!VpcOther, N!subnetSide
  <2>3. SubnetTypes' /\ SubnetFacts'
    BY <2>1, <2>2, SubnetWaits
  <2>4. VpcTypes' /\ VpcFacts'
    BY <2>1 DEF VpcMoves
  <2>5. QED
    BY <1>0, <2>3, <2>4, InvFromParts, PTL
<1>2. CASE N!SubnetWork \/ N!SubnetWatch \/ N!SubnetOther
  <2>1. SubnetMoves /\ vpcWaits
    BY <1>2, SubnetSideMoves
  <2>2. VpcTypes /\ VpcFacts
    BY NetworkParts
  <2>3. VpcTypes' /\ VpcFacts'
    BY <2>1, <2>2, VpcWaits DEF SubnetMoves
  <2>4. SubnetTypes' /\ SubnetFacts'
    BY <2>1 DEF SubnetMoves
  <2>5. QED
    BY <1>0, <2>3, <2>4, InvFromParts, PTL
<1>3. QED
  BY <1>1, <1>2, BothDie DEF N!Next

LEMMA NetworkInitially == N!Init => NetworkInv
<1> SUFFICES ASSUME N!Init PROVE NetworkInv
  OBVIOUS
<1>1. /\ vapi.exists /\ ~vapi.deleting /\ ~vapi.finalizer /\ ~vapi.abandon
      /\ vapi.st = N!V!BlankStatus /\ vapi \in N!V!CRs(N!V!Statuses)
      /\ vcache = vapi /\ vcfresh = TRUE
      /\ vw = N!V!NoCopy /\ vwfresh = FALSE /\ vstep.at = "idle"
      /\ vpcs = [i \in {} |-> i] /\ vmade = 0
  <2>1. N!V!InitKube(N!V!BlankStatus)
    BY DEF N!Init, N!V!Init
  <2>2. N!V!BlankStatus \in N!V!Statuses
    BY DEF N!V!BlankStatus, N!V!Statuses, N!V!None
  <2>3. PICK want \in VpcWants :
          vapi = [exists |-> TRUE, gen |-> 1, want |-> want, deleting |-> FALSE,
                  finalizer |-> FALSE, abandon |-> FALSE, st |-> N!V!BlankStatus]
    BY <2>1 DEF N!V!InitKube
  <2>4. vapi \in N!V!CRs(N!V!Statuses)
    BY <2>2, <2>3 DEF N!V!CRs
  <2>5. vstep.at = "idle"
    <3>1. vstep = N!V!At("idle")
      BY <2>1 DEF N!V!InitKube
    <3>2. N!V!At("idle").at = "idle"
      BY DEF N!V!At
    <3>3. QED
      BY <3>1, <3>2
  <2>6. QED
    BY <2>1, <2>3, <2>4, <2>5 DEF N!Init, N!V!Init, N!V!InitKube
<1>2. /\ api.exists /\ ~api.deleting /\ ~api.finalizer /\ ~api.abandon
      /\ api.st = N!S!BlankStatus /\ api \in CRs(N!S!Statuses)
      /\ cache = api /\ cfresh = TRUE
      /\ w = NoCopy /\ wfresh = FALSE /\ step.at = "idle"
      /\ subnets = [i \in {} |-> i] /\ smade = 0
      /\ scenario \in Scenarios /\ faults = 0
  <2>1. N!S!InitKube(N!S!BlankStatus)
    BY DEF N!Init, N!S!Init
  <2>2. N!S!BlankStatus \in N!S!Statuses
    BY DEF N!S!BlankStatus, N!S!Statuses, N!S!None
  <2>3. PICK want \in Wants :
          api = [exists |-> TRUE, gen |-> 1, want |-> want, deleting |-> FALSE,
                 finalizer |-> FALSE, abandon |-> FALSE, st |-> N!S!BlankStatus]
    BY <2>1 DEF N!S!InitKube
  <2>4. api \in CRs(N!S!Statuses)
    BY <2>2, <2>3 DEF CRs
  <2>5. step.at = "idle"
    <3>1. step = N!S!At("idle")
      BY <2>1 DEF N!S!InitKube
    <3>2. N!S!At("idle").at = "idle"
      BY DEF N!S!At
    <3>3. QED
      BY <3>1, <3>2
  <2>6. N!S!NoCopy = NoCopy
    BY DEF N!S!NoCopy, NoCopy
  <2>7. QED
    BY <2>1, <2>3, <2>4, <2>5, <2>6 DEF N!Init, N!S!Init, N!S!InitKube
<1>3. scenario.most \in Nat /\ faults \in 0 .. scenario.most
  <2>1. scenario.most \in Nat
    BY <1>2, ReconcilerAssumption DEF AreScenarios
  <2>2. QED
    BY <1>2, <2>1
<1>4. MaxVpcs \in Nat /\ MaxSubnets \in Nat
  BY NetworkAssumption DEF N!Parameters
<1>5. vapi.st.id = 0 /\ api.st.id = 0
  BY <1>1, <1>2 DEF N!V!BlankStatus, N!S!BlankStatus, N!V!None, N!S!None
<1>6. VpcTypes
  <2>1. "idle" \in N!V!Labels /\ N!V!Removing \intersect {"idle"} = {}
    BY DEF N!V!Labels, N!V!Removing
  <2>2. N!V!KubeOK(N!V!Statuses, N!V!Labels, N!V!Exits)
    BY <1>1, <1>2, <1>3, <2>1 DEF N!V!KubeOK, N!V!WorkerOK
  <2>3. N!V!Protocol(N!V!Removing)
    BY <1>1, <2>1 DEF N!V!Protocol, N!V!FinalizerHeld, N!V!DeletionSeen,
       N!V!CopyIsCurrent
  <2>4. Planned /\ VpcsOK
    BY <1>1, <1>4 DEF Planned, VpcsOK
  <2>5. QED
    BY <2>2, <2>3, <2>4 DEF VpcTypes, VpcKube
<1>7. VpcFacts
  BY <1>1, <1>5 DEF VpcFacts, VpcGiven, VpcSpeaks, N!VpcStays
<1>8. SubnetTypes
  <2>1. "idle" \in N!S!Labels /\ N!S!Removing \intersect {"idle"} = {}
    BY DEF N!S!Labels, N!S!Removing
  <2>2. KubeOK(N!S!Statuses, N!S!Labels, N!S!Exits)
    BY <1>2, <1>3, <2>1 DEF KubeOK, WorkerOK
  <2>3. Protocol(N!S!Removing)
    BY <1>2, <2>1 DEF Protocol, FinalizerHeld, DeletionSeen, CopyIsCurrent
  <2>4. SubnetsOK
    BY <1>2, <1>4 DEF SubnetsOK
  <2>5. QED
    BY <2>2, <2>3, <2>4 DEF SubnetTypes, SubnetKube
<1>9. SubnetFacts
  BY <1>2, <1>5 DEF SubnetFacts, SubnetGiven, HandGiven, SubnetSpeaks, N!SubnetFound
<1>10. N!Labelled
  BY <1>2 DEF N!Labelled
<1>11. QED
  BY <1>6, <1>7, <1>8, <1>9, <1>10, NetworkParts

\* In every reachable state the two CRs speak of one VPC and its one subnet,
\* however the steps of their workers, users and caches interleave.
THEOREM NetworkInvariant == NetworkSpec => []NetworkInv
<1>1. N!Init => NetworkInv
  BY NetworkInitially
<1>2. NetworkInv /\ [N!Next]_(N!vars) => NetworkInv'
  BY NetworkStep, NetworkStutter
<1>3. QED
  BY <1>1, <1>2, PTL DEF NetworkSpec, N!Spec

-----------------------------------------------------------------------------
(* What is left when the subnet's CR is gone.                               *)

\* What a step does to the existence and the abandonment of the subnet's CR.
SubnetCrSteps ==
    \/ /\ api'.exists = api.exists /\ api'.abandon = api.abandon
       /\ api'.want = api.want
       /\ \/ step.at \in {"create", "modify"}
          \/ /\ DOMAIN subnets' \subseteq DOMAIN subnets
             /\ \A i \in DOMAIN subnets' : subnets'[i] = subnets[i]
    \/ api'.exists
    \/ /\ api.exists /\ api'.abandon = api.abandon /\ api'.want = api.want
       /\ UNCHANGED subnets
       /\ ~api.finalizer \/ (step.at = "release" /\ wfresh)

LEMMA SubnetShareds ==
    ASSUME NetworkInv, SharedWork \/ PersistError \/ Users \/ CacheSync,
           UNCHANGED subnets
    PROVE  SubnetCrSteps
<1>1. /\ KubeOK(N!S!Statuses, N!S!Labels, N!S!Exits)
      /\ KindOK(N!S!Statuses, N!S!Labels, N!S!Exits, N!S!Removing)
  BY NetworkParts, SubnetHas
<1>2. CASE UNCHANGED api
  BY <1>2 DEF SubnetCrSteps
<1>3. CASE AddFinalizer \/ RemoveFinalizer
  BY <1>1, <1>2, <1>3, FinalizerEffect DEF SubnetCrSteps
<1>4. CASE Persist
  BY <1>1, <1>4, PersistEffect DEF SubnetCrSteps, SameBut
<1>5. CASE Users
  BY <1>1, <1>5, UserEffect DEF SubnetCrSteps
<1>6. CASE PersistConflict \/ PersistError \/ CacheSync
  BY <1>2, <1>6 DEF PersistConflict, PersistError, CacheSync, k8s
<1>7. CASE \/ ReconcileAbandoned \/ ReconcileDeleted
           \/ ReconcileNew \/ ReconcileExisting
  BY <1>2, <1>7 DEF ReconcileAbandoned, ReconcileDeleted, ReconcileNew,
     ReconcileExisting, Start, k8s
<1>8. QED
  BY <1>3, <1>4, <1>5, <1>6, <1>7 DEF SharedWork

LEMMA NetworkCrSteps == ASSUME NetworkInv, N!Next PROVE SubnetCrSteps
<1>1. CASE UNCHANGED <<api, subnets>>
  BY <1>1 DEF SubnetCrSteps
<1>2. CASE N!VpcWork \/ N!VpcWatch \/ N!VpcOther
  BY <1>1, <1>2 DEF N!VpcWork, N!VpcWatch, N!VpcOther, N!subnetSide
<1>3. CASE N!Crash \/ N!Panic
  BY <1>1, <1>3 DEF N!Crash, N!Panic, N!Dies
<1>4. CASE N!SubnetWatch
  BY <1>4, SubnetShared, SubnetShareds DEF N!SubnetWatch, N!S!WatchDelivers, N!S!aws
<1>5. CASE N!SubnetWork
  <2>1. CASE N!S!Reconcile
    BY <2>1, SubnetShared, SubnetShareds DEF N!S!Reconcile, N!S!aws
  <2>2. CASE \/ N!S!Describe \/ N!S!NoVpc \/ N!S!Lookup \/ N!S!CreateRefused
             \/ N!S!ModifyRefused
    BY <1>1, <2>2 DEF N!S!Describe, N!S!NoVpc, N!S!Lookup, N!S!CreateRefused,
       N!S!ModifyRefused, N!S!k8s, N!S!aws
  <2>3. CASE N!S!Create \/ N!S!Modify
    BY <2>3 DEF N!S!Create, N!S!Modify, N!S!k8s, SubnetCrSteps
  <2>4. CASE N!S!Delete
    BY <2>4 DEF N!S!Delete, N!S!k8s, N!S!Without, SubnetCrSteps
  <2>5. QED
    BY <1>5, <2>1, <2>2, <2>3, <2>4 DEF N!SubnetWork, N!S!Work
<1>6. CASE N!SubnetOther
  <2>1. CASE N!S!Outside
    BY <2>1, SubnetShared, SubnetShareds DEF N!S!Outside, N!S!aws
  <2>2. CASE N!S!CallError
    BY <1>1, <2>2 DEF N!S!CallError, N!S!k8s, N!S!aws
  <2>3. CASE N!S!ExternalDelete
    BY <2>3 DEF N!S!ExternalDelete, N!S!k8s, N!S!Without, SubnetCrSteps
  <2>4. CASE N!S!SyncFails
    BY <2>4 DEF N!S!SyncFails, N!S!k8s, SubnetCrSteps
  <2>5. QED
    BY <1>6, <2>1, <2>2, <2>3, <2>4 DEF N!SubnetOther
<1>7. QED
  BY <1>2, <1>3, <1>4, <1>5, <1>6 DEF N!Next

\* Without an edit every subnet has the tags of the spec.
LEMMA OrphanTagged ==
    ASSUME NetworkInv
    PROVE  NoOrphanSubnet <=>
             (Alone /\ ~api.exists /\ ~api.abandon => N!Tagged(api.want) = {})
<1>1. "edit" \notin scenario.users => N!Tagged(api.want) = DOMAIN subnets
  BY NetworkParts DEF N!Labelled, N!Tagged
<1>2. QED
  BY <1>1, FaultNames DEF NoOrphanSubnet, N!NoOrphanSubnet, Alone

LEMMA NoOrphanStep ==
    ASSUME NetworkInv, NoOrphanSubnet, N!Next, Alone', ~api'.exists, ~api'.abandon,
           NEW i \in DOMAIN subnets'
    PROVE  ~(api'.want.tags \subseteq subnets'[i].tags)
<1>1. VpcTypes /\ SubnetTypes /\ SubnetFacts /\ N!Labelled
  BY NetworkParts
<1>2. SubnetCrSteps
  BY NetworkCrSteps
<1>3. Alone
  BY NetworkCounted, <1>1, SameScenarioOfBoth
<1>4. N!SubnetFound
  BY <1>1, <1>3 DEF SubnetFacts
<1>5. Protocol(N!S!Removing) /\ DOMAIN subnets \subseteq 1 .. smade
  BY <1>1, SubnetHas
<1>6. CASE api.exists
  <2>1. /\ UNCHANGED subnets /\ ~api.abandon /\ api'.want = api.want
        /\ ~api.finalizer \/ (step.at = "release" /\ wfresh)
    BY <1>2, <1>6 DEF SubnetCrSteps
  <2>2. CASE ~api.finalizer
    <3>1. smade = 0
      BY <1>4, <2>2 DEF N!SubnetFound
    <3>2. 1 .. smade = {}
      BY <3>1
    <3>3. QED
      BY <1>5, <2>1, <3>2
  <2>3. CASE step.at = "release" /\ wfresh
    <3>1. w.want = api.want /\ ~w.abandon
      BY <1>1, <1>5, <2>1, <2>3 DEF N!Labelled, Protocol, CopyIsCurrent
    <3>2. QED
      BY <1>4, <2>1, <2>3, <3>1 DEF N!SubnetFound, N!Tagged
  <2>4. QED
    BY <2>1, <2>2, <2>3
<1>7. CASE ~api.exists
  <2>1. step.at \notin {"create", "modify"}
    BY <1>5, <1>7 DEF Protocol, FinalizerHeld, DeletionSeen, N!S!Removing
  <2>2. /\ api'.abandon = api.abandon /\ api'.want = api.want
        /\ i \in DOMAIN subnets /\ subnets'[i] = subnets[i]
    BY <1>2, <1>7, <2>1 DEF SubnetCrSteps
  <2>3. N!Tagged(api.want) = {}
    BY <1>3, <1>7, <2>2, OrphanTagged
  <2>4. QED
    BY <2>2, <2>3 DEF N!Tagged
<1>8. QED
  BY <1>6, <1>7

\* Without old caches and deletions by others, a CR that was not abandoned
\* leaves no subnet behind that has the tags of its spec, and none at all if
\* that was never edited: its finalizer is removed only by a worker that has
\* found and deleted the subnet, in the one VPC in which it can be.
THEOREM NetworkLeavesNoSubnet == NetworkSpec => []NoOrphanSubnet
<1>1. N!Init => NoOrphanSubnet
  BY DEF N!Init, N!S!Init, NoOrphanSubnet, N!NoOrphanSubnet, N!Tagged
<1>2. NetworkInv /\ NetworkInv' /\ NoOrphanSubnet /\ [N!Next]_(N!vars)
        => NoOrphanSubnet'
  <2>1. CASE UNCHANGED N!vars
    BY <2>1 DEF N!vars, NoOrphanSubnet, N!NoOrphanSubnet, N!V!FreeOf, N!Tagged
  <2>2. ASSUME NetworkInv, NetworkInv', NoOrphanSubnet, N!Next
        PROVE  NoOrphanSubnet'
    <3>1. Alone' /\ ~api'.exists /\ ~api'.abandon =>
            \A i \in DOMAIN subnets' : ~(api'.want.tags \subseteq subnets'[i].tags)
      BY <2>2, NoOrphanStep
    <3>2. N!Labelled'
      BY <2>2, LabelledStep
    <3>3. QED
      BY <3>1, <3>2 DEF NoOrphanSubnet, N!NoOrphanSubnet, N!Tagged, N!Labelled,
         N!V!FreeOf, Alone, FreeOf
  <2>3. QED
    BY <2>1, <2>2
<1>3. QED
  BY <1>1, <1>2, NetworkInvariant, PTL DEF NetworkSpec, N!Spec

=============================================================================
