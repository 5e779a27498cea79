------------------------ MODULE CloudControlProofs ------------------------
(* Theorems about the Cloud Control engine, for any properties, specs,      *)
(* bounds, users and faults.                                                *)
EXTENDS CloudControl, TLAPS

-----------------------------------------------------------------------------
(* Operators on properties and patches stay within their types.             *)

\* BuildPatch yields JSON Patch operations on known properties.
LEMMA PatchType ==
    ASSUME NEW lv \in Props, NEW want \in Props
    PROVE  BuildPatch(lv, want) \subseteq PatchOps
<1>1. \A f \in Props : DOMAIN f \subseteq Keys /\ \A k \in DOMAIN f : f[k] \in Vals
  BY DEF Props
<1>2. QED
  BY <1>1 DEF BuildPatch, PatchOps

\* Applying such a patch to a resource yields properties again.
LEMMA ApplyType ==
    ASSUME NEW lv \in Props, NEW patch \in SUBSET PatchOps
    PROVE  ApplyPatch(lv, patch) \in Props
<1> DEFINE D == DOMAIN lv \union {o.path : o \in patch}
<1>1. DOMAIN lv \subseteq Keys /\ \A k \in DOMAIN lv : lv[k] \in Vals
  BY DEF Props
<1>2. D \subseteq Keys
  BY <1>1 DEF PatchOps
<1>3. ASSUME NEW k \in D
      PROVE (IF \E o \in patch : o.path = k
             THEN (CHOOSE o \in patch : o.path = k).value ELSE lv[k]) \in Vals
  <2>1. CASE \E o \in patch : o.path = k
    BY <2>1 DEF PatchOps
  <2>2. CASE ~ \E o \in patch : o.path = k
    BY <1>1, <1>3, <2>2
  <2>3. QED
    BY <2>1, <2>2
<1>4. ApplyPatch(lv, patch) \in [D -> Vals]
  BY <1>3 DEF ApplyPatch
<1>5. QED
  BY <1>2, <1>4 DEF Props

LEMMA BlankType == BlankCR \in CRs
<1>1. [k \in {} |-> 0] \in [{} -> Vals]
  OBVIOUS
<1>2. [k \in {} |-> 0] \in Props
  BY <1>1 DEF Props
<1>3. QED
  BY <1>2 DEF BlankCR, CRs, NoId, NoToken

\* What the status writes record stays a CR.
LEMMA CopyType ==
    ASSUME NEW cr \in CRs
    PROVE  /\ Cleared(cr) \in CRs
           /\ Failed(cr) \in CRs
           /\ NotReady(cr) \in CRs
           /\ \A id \in Nat : Identified(cr, id) \in CRs
<1>1. Cleared(cr) \in CRs
  BY DEF CRs, Cleared
<1>2. Failed(cr) \in CRs
  <2>1. \A c \in CRs : [c EXCEPT !.attempt = @ + 1] \in CRs
    BY DEF CRs
  <2>2. QED
    BY <1>1, <2>1 DEF Failed
<1>3. NotReady(cr) \in CRs
  BY DEF CRs, NotReady
<1>4. \A id \in Nat : Identified(cr, id) \in CRs
  BY DEF CRs, Identified, NoId
<1>5. QED
  BY <1>1, <1>2, <1>3, <1>4

\* What users write stays a CR.
LEMMA WriteOfUserType ==
    ASSUME NEW cr \in CRs
    PROVE  /\ \A want \in Props : [cr EXCEPT !.want = want, !.gen = @ + 1] \in CRs
           /\ [cr EXCEPT !.abandon = TRUE] \in CRs
           /\ [cr EXCEPT !.deleting = TRUE, !.gen = @ + 1] \in CRs
           /\ [cr EXCEPT !.exists = FALSE] \in CRs
<1>1. \A want \in Props, n \in Nat : [cr EXCEPT !.want = want, !.gen = n] \in CRs
  BY DEF CRs
<1>2. \A n \in Nat : [cr EXCEPT !.deleting = TRUE, !.gen = n] \in CRs
  BY DEF CRs
<1>3. cr.gen + 1 \in Nat
  BY DEF CRs
<1>4. [cr EXCEPT !.abandon = TRUE] \in CRs /\ [cr EXCEPT !.exists = FALSE] \in CRs
  BY DEF CRs
<1>5. QED
  BY <1>1, <1>2, <1>3, <1>4

\* A token of the worker is a token.
LEMMA TokenType ==
    ASSUME NEW cr \in CRs, NEW op \in Ops, NEW patch \in SUBSET PatchOps
    PROVE  ClientToken(cr, op, patch) \in Tokens
BY DEF CRs, ClientToken, Tokens

-----------------------------------------------------------------------------
(* Where the worker may go.                                                 *)

\* After a write or a return the worker is at a label without a token.
Worker(s, copy, fresh) ==
    /\ s \in Steps /\ copy \in CRs /\ fresh \in BOOLEAN
    /\ s.at \notin Calling

LEMMA WriteType ==
    ASSUME NEW copy \in CRs, NEW ok \in Exits, NEW err \in Exits,
           NEW fresh \in BOOLEAN, Write(copy, ok, err, fresh)
    PROVE  Worker(step', w', wfresh')
BY DEF Write, Worker, Steps, Calling

LEMMA AtLabel == \A label : At(label).at = label
BY DEF At

LEMMA ReturnType == ASSUME Return PROVE Worker(step', w', wfresh')
BY BlankType DEF Return, Worker, Steps, Plain, Calling, At

LEMMA ContinueType ==
    ASSUME NEW exit \in Exits \union Plain, NEW copy \in CRs,
           NEW fresh \in BOOLEAN, Continue(exit, copy, fresh)
    PROVE  Worker(step', w', wfresh')
<1> USE DEF Exits
<1>1. CASE exit = "idle"
  BY <1>1, ReturnType DEF Continue
<1>2. CASE exit \in {"pending", "fail", "trackFailed", "trackDone"}
  <2>1. PICK c \in CRs, ok \in Exits, err \in Exits : Write(c, ok, err, fresh)
    BY <1>2, CopyType
    DEF Continue, Pending, RecordError, TrackFailed, TrackDone
  <2>2. QED
    BY <2>1, WriteType
<1>3. CASE exit \in Plain \ {"idle"}
  <2>1. step' = At(exit) /\ w' = copy /\ wfresh' = fresh
    BY <1>3 DEF Continue, Plain
  <2>2. QED
    BY <2>1, <1>3 DEF Worker, Steps, Plain, Calling, At
<1>4. QED
  BY <1>1, <1>2, <1>3 DEF Plain

LEMMA SaveType ==
    ASSUME NEW copy \in CRs, NEW ok \in Exits, NEW err \in Exits,
           wfresh \in BOOLEAN, Save(copy, ok, err)
    PROVE  Worker(step', w', wfresh')
BY WriteType DEF Save

LEMMA CallType ==
    ASSUME NEW label \in Calling, NEW copy \in CRs, NEW token \in Tokens,
           wfresh \in BOOLEAN, Call(label, copy, token)
    PROVE  WorkerOK' /\ step'.at = label /\ step'.call = token
BY DEF Call, WorkerOK, Steps, Calling, At

LEMMA FaultType ==
    ASSUME faults \in 0 .. MaxFaults,
           NoFault \/ \E kind \in AllFaults : Fault(kind)
    PROVE  faults' \in 0 .. MaxFaults
BY CloudControlAssumption DEF Fault, NoFault

-----------------------------------------------------------------------------
(* Type correctness.                                                        *)

LEMMA InitType == Init => TypeOK
<1> SUFFICES ASSUME Init PROVE TypeOK
  OBVIOUS
<1>1. api \in CRs
  <2>1. PICK want \in Wants :
          api = [BlankCR EXCEPT !.exists = TRUE, !.gen = 1, !.want = want]
    BY DEF Init
  <2>2. want \in Props
    BY CloudControlAssumption
  <2>3. \A cr \in CRs :
          [cr EXCEPT !.exists = TRUE, !.gen = 1, !.want = want] \in CRs
    BY <2>2 DEF CRs
  <2>4. QED
    BY <2>1, <2>3, BlankType
<1>2. K8sOK
  BY <1>1 DEF Init, K8sOK
<1>3. WorkerOK /\ step.at = "idle"
  BY BlankType DEF Init, WorkerOK, Steps, Plain, At
<1>4. AwsOK
  <2>1. DOMAIN reqs = {}
    BY DEF Init
  <2>2. PICK found \in SUBSET ({SpecIdentifier} \ {NoId}), p \in Props :
          live = [i \in found |-> [gen |-> 0, props |-> p]]
    BY DEF Init
  <2>3. DOMAIN live \subseteq Ids
    BY <2>2, CloudControlAssumption DEF Ids, NoId
  <2>4. \A i \in DOMAIN live : live[i] \in Resources
    BY <2>2 DEF Resources
  <2>5. made \in 0 .. MaxIds
    BY CloudControlAssumption DEF Init, NoId
  <2>6. QED
    BY <2>1, <2>3, <2>4, <2>5 DEF AwsOK
<1>5. faults \in 0 .. MaxFaults
  BY CloudControlAssumption DEF Init
<1>6. QED
  BY <1>2, <1>3, <1>4, <1>5 DEF TypeOK, Tracked

\* What a step of the worker that stays off AWS has to establish.
LEMMA WorkerStepType ==
    ASSUME TypeOK, UNCHANGED aws, K8sOK', Worker(step', w', wfresh'),
           faults' \in 0 .. MaxFaults
    PROVE  TypeOK'
BY DEF TypeOK, AwsOK, aws, Worker, WorkerOK, Tracked, Calling

\* The copy with which a failed call is reported.
LEMMA FailedCall ==
    ASSUME TypeOK, CallError
    PROVE  \/ Return
           \/ Continue("fail", w, wfresh)
           \/ /\ step.at = "get"
              /\ \E c \in CRs :
                    /\ Continue("fail", c, wfresh)
                    /\ c.ident = Identifier(w) /\ c.token = w.token
                    /\ c.abandon = w.abandon /\ (c.ident = w.ident => c = w)
<1>1. w \in CRs
  BY DEF TypeOK, WorkerOK
<1>2. Identifier(w) \in Nat
  BY <1>1, CloudControlAssumption DEF Identifier, NoId, CRs
<1>3. PICK c : c = [w EXCEPT !.ident = Identifier(w)]
  OBVIOUS
<1>4. /\ c \in CRs /\ c.ident = Identifier(w) /\ c.token = w.token
      /\ c.abandon = w.abandon /\ (c.ident = w.ident => c = w)
  BY <1>1, <1>2, <1>3 DEF CRs
<1>5. \/ Return
      \/ Continue("fail", w, wfresh)
      \/ step.at = "get" /\ Continue("fail", c, wfresh)
  BY <1>3 DEF CallError
<1>6. QED
  BY <1>4, <1>5

LEMMA WorkType ==
    ASSUME TypeOK, Work \/ PersistError \/ PollError \/ CallError \/ Crash
    PROVE  TypeOK'
<1> USE DEF TypeOK
<1> DEFINE Quiet == UNCHANGED aws /\ K8sOK' /\ faults' \in 0 .. MaxFaults
<1>0. ASSUME UNCHANGED <<k8s, aws>>, NoFault \/ \E kind \in AllFaults : Fault(kind)
      PROVE  Quiet
  BY <1>0, FaultType DEF K8sOK, k8s
<1>1. ASSUME NEW label \in Plain, Start(label) PROVE TypeOK'
  <2>1. Quiet
    BY <1>0, <1>1 DEF Start
  <2>2. Worker(step', w', wfresh')
    BY <1>1, ContinueType DEF Start, K8sOK
  <2>3. QED
    BY <2>1, <2>2, WorkerStepType
<1>2. CASE ReconcileAbandoned \/ ReconcileDeleted \/ ReconcileNew \/ ReconcileExisting
  BY <1>1, <1>2 DEF ReconcileAbandoned, ReconcileDeleted, ReconcileNew,
                    ReconcileExisting, Plain
<1>3. CASE AddFinalizer
  <2>1. api' \in CRs /\ cfresh' \in BOOLEAN
    BY <1>3 DEF AddFinalizer, K8sOK, CRs
  <2>2. Quiet
    BY <1>3, <2>1, FaultType DEF AddFinalizer, K8sOK
  <2>3. QED
    BY <1>3, <2>2, ReturnType, WorkerStepType DEF AddFinalizer
<1>4. CASE RemoveFinalizer
  <2>1. api' \in CRs /\ cfresh' \in BOOLEAN
    BY <1>4 DEF RemoveFinalizer, K8sOK, CRs
  <2>2. Quiet
    BY <1>4, <2>1, FaultType DEF RemoveFinalizer, K8sOK
  <2>3. QED
    BY <1>4, <2>2, ReturnType, WorkerStepType DEF RemoveFinalizer
<1>5. ASSUME step.at = "save"
      PROVE  step.ok \in Exits /\ step.err \in Exits
  BY <1>5 DEF WorkerOK, Steps, Plain, Calling
<1>6. CASE Persist
  <2>1. api' \in CRs /\ cfresh' \in BOOLEAN
    <3>1. \A c, d \in CRs :
            [c EXCEPT !.token = d.token, !.ident = d.ident, !.attempt = d.attempt,
                      !.obsGen = d.obsGen, !.ready = d.ready] \in CRs
      BY DEF CRs
    <3>2. QED
      BY <1>6, <3>1 DEF Persist, K8sOK, WorkerOK
  <2>2. Quiet
    BY <1>6, <2>1, FaultType DEF Persist, K8sOK
  <2>3. Worker(step', w', wfresh')
    BY <1>5, <1>6, <2>1, ContinueType DEF Persist
  <2>4. QED
    BY <2>2, <2>3, WorkerStepType
<1>7. CASE PersistConflict
  <2>1. Worker(step', w', wfresh')
    BY <1>5, <1>7, ContinueType DEF PersistConflict, WorkerOK
  <2>2. QED
    BY <1>0, <1>7, <2>1, WorkerStepType DEF PersistConflict
<1>8. CASE PersistError
  <2>1. Worker(step', w', wfresh')
    BY <1>5, <1>8, ContinueType DEF PersistError, WorkerOK
  <2>2. QED
    BY <1>0, <1>8, <2>1, WorkerStepType DEF PersistError, AllFaults
<1>9. ASSUME NEW here, NEW done \in Exits, NEW failed \in Exits,
             PollRequest(here, done, failed)
      PROVE  TypeOK'
  <2> DEFINE copy == Identified(w, reqs[w.token].id)
  <2>1. Cleared(w) \in CRs
    BY CopyType DEF WorkerOK
  <2>2. ASSUME w.token \in DOMAIN reqs
        PROVE  copy \in CRs /\ Cleared(copy) \in CRs /\ Failed(copy) \in CRs
    <3>1. reqs[w.token].id \in Nat
      BY <2>2 DEF AwsOK, Requests
    <3>2. copy \in CRs
      BY <3>1, CopyType DEF WorkerOK
    <3>3. QED
      BY <3>2, CopyType
  <2>3. PICK c \in CRs, ok \in Exits : Save(c, ok, failed)
    <3> HIDE DEF copy
    <3>1. \/ Save(Cleared(w), done, failed)
          \/ w.token \in DOMAIN reqs /\ \/ Save(Cleared(copy), done, failed)
                                          \/ Save(Failed(copy), failed, failed)
                                          \/ Save(copy, "pending", failed)
      BY <1>9 DEF PollRequest, copy
    <3>2. "pending" \in Exits
      BY DEF Exits
    <3>3. QED
      BY <2>1, <2>2, <3>1, <3>2, <1>9
  <2>4. Worker(step', w', wfresh')
    BY <2>3, <1>9, SaveType DEF WorkerOK
  <2>5. QED
    BY <1>0, <1>9, <2>4, WorkerStepType DEF PollRequest
<1>10. CASE Poll \/ DeletePoll
  BY <1>9, <1>10 DEF Poll, DeletePoll, Exits
<1>11. CASE PollError
  <2>1. \E exit \in Exits : Continue(exit, w, wfresh)
    BY <1>11 DEF PollError, Exits
  <2>2. Worker(step', w', wfresh')
    BY <2>1, ContinueType DEF WorkerOK
  <2>3. QED
    BY <1>0, <1>11, <2>2, WorkerStepType DEF PollError, AllFaults
<1>12. ASSUME Identifier(w) \in DOMAIN live
       PROVE  Difference \subseteq PatchOps
  <2>1. live[Identifier(w)].props \in Props /\ w.want \in Props
    BY <1>12 DEF AwsOK, Resources, WorkerOK, CRs
  <2>2. QED
    BY <2>1, PatchType DEF Difference
<1>13. Identifier(w) \in Nat
  BY CloudControlAssumption DEF Identifier, NoId, WorkerOK, CRs
<1>14. \A id \in Nat, c \in CRs : [c EXCEPT !.ident = id] \in CRs
  BY DEF CRs
<1>15. CASE InSync
  <2>1. \A id \in Nat, c \in CRs :
          [c EXCEPT !.ident = id, !.obsGen = c.gen, !.ready = TRUE] \in CRs
    BY DEF CRs
  <2>2. Worker(step', w', wfresh')
    BY <1>13, <1>15, <2>1, SaveType DEF InSync, WorkerOK, Exits
  <2>3. QED
    BY <1>0, <1>15, <2>2, WorkerStepType DEF InSync
<1>16. ASSUME NEW label \in {"issue", "delIssue"}, NEW c \in CRs,
              NEW token \in Tokens, Call(label, c, token), Quiet
       PROVE  TypeOK'
  <2>1. WorkerOK' /\ step'.at = label
    BY <1>16, CallType DEF Calling, WorkerOK
  <2>2. QED
    BY <1>16, <2>1 DEF AwsOK, aws, Tracked
<1>17. CASE PlanUpdate
  <2>1. ClientToken(w, "UPDATE", Difference) \in Tokens
    BY <1>12, <1>17, TokenType DEF PlanUpdate, WorkerOK, Ops
  <2>2. QED
    BY <1>0, <1>13, <1>14, <1>16, <1>17, <2>1 DEF PlanUpdate, WorkerOK
<1>18. CASE PlanCreate
  <2>1. ClientToken(w, "CREATE", {}) \in Tokens
    BY TokenType DEF WorkerOK, Ops
  <2>2. [w EXCEPT !.ident = NoId] \in CRs
    BY <1>14 DEF NoId, WorkerOK
  <2>3. QED
    BY <1>0, <1>16, <1>18, <2>1, <2>2 DEF PlanCreate
<1>19. CASE PlanDelete
  <2>1. ClientToken(w, "DELETE", {}) \in Tokens
    BY TokenType DEF WorkerOK, Ops
  <2>2. Quiet
    BY <1>0, <1>19 DEF PlanDelete, AllFaults
  <2>3. QED
    BY <1>16, <1>19, <2>1, <2>2 DEF PlanDelete, WorkerOK
<1>20. ASSUME step.at \in Calling PROVE step.call \in Tokens
  BY <1>20 DEF WorkerOK, Steps, Plain, Calling
<1>21. ASSUME NEW here \in Calling, NEW next \in Calling, Request(here, next)
       PROVE  TypeOK'
  <2> DEFINE r == [status |-> "IN_PROGRESS", id |-> Target, want |-> w.want]
  <2>1. WorkerOK' /\ step'.at = next /\ step'.call = step.call
    BY <1>20, <1>21, CallType DEF Request, WorkerOK
  <2>2. r \in Requests
    BY DEF Requests, Statuses, Target, WorkerOK, CRs, NoId
  <2>3. reqs' = Extend(reqs, step.call, r)
    BY <1>21 DEF Request
  <2>4. DOMAIN reqs' = DOMAIN reqs \union {step.call}
    BY <2>3 DEF Extend
  <2>5. \A t \in DOMAIN reqs' : reqs'[t] \in Requests
    <3> HIDE DEF r
    <3>1. \A t \in DOMAIN reqs' : (t \in DOMAIN reqs /\ reqs'[t] = reqs[t]) \/ reqs'[t] = r
      BY <2>3 DEF Extend
    <3>2. QED
      BY <2>2, <3>1 DEF AwsOK
  <2>6. AwsOK'
    BY <1>20, <1>21, <2>4, <2>5 DEF AwsOK, Request
  <2>7. K8sOK' /\ faults' \in 0 .. MaxFaults
    BY <1>21, FaultType DEF Request, K8sOK, k8s
  <2>8. QED
    BY <2>1, <2>4, <2>6, <2>7 DEF Tracked
<1>22. CASE Issue \/ DeleteIssue
  BY <1>21, <1>22 DEF Issue, DeleteIssue, Calling
<1>23. CASE UpdateRefused
  <2>1. Worker(step', w', wfresh')
    BY <1>23, SaveType, CopyType DEF UpdateRefused, WorkerOK, Exits
  <2>2. QED
    BY <1>0, <1>23, <2>1, WorkerStepType DEF UpdateRefused
<1>24. CASE TokenConflict \/ CallError \/ Crash
  <2>1. Return \/ \E c \in CRs : Continue("fail", c, wfresh)
    <3>1. CASE CallError
      BY <3>1, FailedCall DEF WorkerOK
    <3>2. CASE TokenConflict \/ Crash
      BY <3>2 DEF TokenConflict, Crash, WorkerOK
    <3>3. QED
      BY <1>24, <3>1, <3>2
  <2>2. Worker(step', w', wfresh')
    BY <2>1, ReturnType, ContinueType DEF WorkerOK, Exits
  <2>3. UNCHANGED <<k8s, aws>> /\ (NoFault \/ \E kind \in AllFaults : Fault(kind))
    BY <1>24 DEF TokenConflict, CallError, Crash, AllFaults
  <2>4. QED
    BY <1>0, <2>2, <2>3, WorkerStepType
<1>25. ASSUME step.at \in {"track", "delTrack"}
       PROVE  /\ step.call \in Tokens
              /\ \A c \in CRs : [c EXCEPT !.token = step.call] \in CRs
              /\ Identified(w, reqs[step.call].id) \in CRs
  <2>1. step.call \in Tokens
    BY <1>20, <1>25 DEF Calling
  <2>2. reqs[step.call].id \in Nat
    BY <1>25 DEF Tracked, AwsOK, Requests
  <2>3. \A c \in CRs : [c EXCEPT !.token = step.call] \in CRs
    BY <2>1 DEF CRs
  <2>4. QED
    BY <2>1, <2>2, <2>3, CopyType DEF WorkerOK
<1>26. CASE TrackOperation
  <2>1. step.at = "track"
    BY <1>26 DEF TrackOperation
  <2>2. PICK c \in CRs, ok \in Exits : Save(c, ok, "fail")
    <3> DEFINE c == [Identified(w, reqs[step.call].id) EXCEPT !.token = step.call]
    <3>1. c \in CRs
      BY <1>25, <2>1
    <3> HIDE DEF c
    <3>2. \E ok \in {"trackFailed", "trackDone", "pending"} : Save(c, ok, "fail")
      BY <1>26 DEF TrackOperation, c
    <3>3. QED
      BY <3>1, <3>2 DEF Exits
  <2>3. Worker(step', w', wfresh')
    BY <2>2, SaveType DEF WorkerOK, Exits
  <2>4. QED
    BY <1>0, <1>26, <2>3, WorkerStepType DEF TrackOperation
<1>27. CASE DeleteTrack
  <2>1. step.at = "delTrack"
    BY <1>27 DEF DeleteTrack
  <2>2. PICK c \in CRs, ok \in Exits : Save(c, ok, "idle")
    BY <1>25, <1>27, <2>1 DEF DeleteTrack, WorkerOK, Exits
  <2>3. Worker(step', w', wfresh')
    BY <2>2, SaveType DEF WorkerOK, Exits
  <2>4. QED
    BY <1>0, <1>27, <2>3, WorkerStepType DEF DeleteTrack
<1>28. CASE DeleteDone
  <2>1. Worker(step', w', wfresh')
    BY <1>28, ContinueType, CopyType DEF DeleteDone, WorkerOK, Exits
  <2>2. QED
    BY <1>0, <1>28, <2>1, WorkerStepType DEF DeleteDone
<1>29. QED
  BY <1>2, <1>3, <1>4, <1>6, <1>7, <1>8, <1>10, <1>11, <1>15, <1>17, <1>18,
     <1>19, <1>22, <1>23, <1>24, <1>26, <1>27, <1>28 DEF Work

\* The environment: users, the cache, AWS.
LEMMA EnvironmentType ==
    ASSUME TypeOK,
           \/ CacheSync \/ UserEdit \/ UserAbandon \/ UserDelete
           \/ Handlers \/ AwsFailed \/ AwsExpire \/ AwsExpireUnseen
           \/ Drift \/ ExternalDelete
    PROVE  TypeOK'
<1> USE DEF TypeOK
<1>0. faults' \in 0 .. MaxFaults
  <2>1. NoFault \/ \E kind \in AllFaults : Fault(kind)
    BY DEF CacheSync, UserEdit, UserAbandon, UserDelete, UserWrite, Handlers,
           AwsMaterialise, AwsCreated, AwsUpdated, AwsDeleted, AwsGone, AwsFailed,
           AwsExpire, AwsExpireUnseen, Drift, ExternalDelete, AllFaults
  <2>2. QED
    BY <2>1, FaultType
<1>1. CASE CacheSync
  <2>1. K8sOK'
    BY <1>1 DEF CacheSync, K8sOK
  <2>2. WorkerOK' /\ AwsOK' /\ Tracked'
    BY <1>1 DEF CacheSync, WorkerOK, AwsOK, Tracked, worker, aws
  <2>3. QED
    BY <1>0, <2>1, <2>2
<1>2. ASSUME NEW cr \in CRs, UserWrite(cr)
      PROVE  TypeOK'
  <2>1. K8sOK'
    BY <1>2 DEF UserWrite, K8sOK
  <2>2. WorkerOK' /\ AwsOK' /\ Tracked'
    BY <1>2 DEF UserWrite, WorkerOK, AwsOK, Tracked, aws
  <2>3. QED
    BY <1>0, <2>1, <2>2
<1>3. CASE UserEdit
  <2>1. PICK want \in Wants :
          UserWrite([api EXCEPT !.want = want, !.gen = @ + 1])
    BY <1>3 DEF UserEdit
  <2>2. want \in Props
    BY CloudControlAssumption
  <2>3. QED
    BY <1>2, <2>1, <2>2, WriteOfUserType DEF K8sOK
<1>4. CASE UserAbandon
  BY <1>2, <1>4, WriteOfUserType DEF UserAbandon, K8sOK
<1>5. CASE UserDelete
  BY <1>2, <1>5, WriteOfUserType DEF UserDelete, K8sOK
<1>6. ASSUME UNCHANGED <<k8s, worker>>, AwsOK', Tracked'
      PROVE  TypeOK'
  BY <1>0, <1>6 DEF K8sOK, WorkerOK, k8s, worker
<1>7. ASSUME UNCHANGED <<k8s, worker, live, made>>, NEW t \in DOMAIN reqs,
             NEW status \in Statuses, reqs' = Finish(t, status)
      PROVE  TypeOK'
  <2>1. DOMAIN reqs' = DOMAIN reqs
    BY <1>7 DEF Finish
  <2>2. \A u \in DOMAIN reqs : reqs'[u] \in Requests
    BY <1>7 DEF Finish, AwsOK, Requests
  <2>3. AwsOK' /\ Tracked'
    BY <1>7, <2>1, <2>2 DEF AwsOK, Tracked, worker
  <2>4. QED
    BY <1>6, <1>7, <2>3
<1>8. CASE AwsCreated \/ AwsGone \/ AwsFailed
  <2>1. \E t \in DOMAIN reqs, status \in Statuses : reqs' = Finish(t, status)
    BY <1>8 DEF AwsCreated, AwsGone, AwsFailed, Running, Statuses
  <2>2. UNCHANGED <<k8s, worker, live, made>>
    BY <1>8 DEF AwsCreated, AwsGone, AwsFailed
  <2>3. QED
    BY <1>7, <2>1, <2>2
<1>9. CASE AwsMaterialise
  <2>1. PICK t \in DOMAIN reqs :
          /\ reqs' = [reqs EXCEPT ![t].id = made + 1]
          /\ live' = Extend(live, made + 1, [gen |-> t.gen, props |-> reqs[t].want])
    BY <1>9 DEF AwsMaterialise, Running
  <2>2. made + 1 \in Ids /\ made' \in 0 .. MaxIds
    BY <1>9, CloudControlAssumption DEF AwsMaterialise, AwsOK, Ids
  <2>3. DOMAIN reqs' = DOMAIN reqs
    BY <2>1
  <2>4. \A u \in DOMAIN reqs : reqs'[u] \in Requests
    BY <2>1, <2>2 DEF AwsOK, Requests, Ids
  <2>5. [gen |-> t.gen, props |-> reqs[t].want] \in Resources
    BY DEF AwsOK, Tokens, Requests, Resources
  <2>6. DOMAIN live' \subseteq Ids
    BY <2>1, <2>2 DEF Extend, AwsOK
  <2>7. \A i \in DOMAIN live' : live'[i] \in Resources
    BY <2>1, <2>5 DEF Extend, AwsOK
  <2>8. AwsOK' /\ Tracked'
    BY <1>9, <2>2, <2>3, <2>4, <2>6, <2>7
    DEF AwsMaterialise, AwsOK, Tracked, worker
  <2>9. QED
    BY <1>6, <1>9, <2>8 DEF AwsMaterialise
<1>10. CASE AwsUpdated
  <2>1. PICK t \in DOMAIN reqs :
          /\ reqs[t].id \in DOMAIN live
          /\ live' = [live EXCEPT ![reqs[t].id].props = ApplyPatch(@, t.patch)]
          /\ reqs' = Finish(t, "SUCCESS")
    BY <1>10 DEF AwsUpdated, Running
  <2>2. ApplyPatch(live[reqs[t].id].props, t.patch) \in Props
    BY <2>1, ApplyType DEF AwsOK, Resources, Tokens
  <2>3. \A i \in DOMAIN live' : live'[i] \in Resources
    BY <2>1, <2>2 DEF AwsOK, Resources
  <2>4. \A u \in DOMAIN reqs : reqs'[u] \in Requests
    BY <2>1 DEF Finish, AwsOK, Requests, Statuses
  <2>5. DOMAIN reqs' = DOMAIN reqs /\ DOMAIN live' = DOMAIN live
    BY <2>1 DEF Finish
  <2>6. AwsOK' /\ Tracked'
    BY <1>10, <2>3, <2>4, <2>5 DEF AwsUpdated, AwsOK, Tracked, worker
  <2>7. QED
    BY <1>6, <1>10, <2>6 DEF AwsUpdated
<1>11. ASSUME NEW S \in SUBSET DOMAIN live, live' = Restrict(live, S)
       PROVE  DOMAIN live' \subseteq Ids /\ \A i \in DOMAIN live' : live'[i] \in Resources
  BY <1>11 DEF Restrict, AwsOK
<1>12. CASE AwsDeleted
  <2>1. PICK t \in DOMAIN reqs :
          /\ live' = Restrict(live, DOMAIN live \ {reqs[t].id})
          /\ reqs' = Finish(t, "SUCCESS")
    BY <1>12 DEF AwsDeleted, Running
  <2>2. \A u \in DOMAIN reqs : reqs'[u] \in Requests
    BY <2>1 DEF Finish, AwsOK, Requests, Statuses
  <2>3. DOMAIN reqs' = DOMAIN reqs
    BY <2>1 DEF Finish
  <2>4. AwsOK' /\ Tracked'
    BY <1>11, <1>12, <2>1, <2>2, <2>3 DEF AwsDeleted, AwsOK, Tracked, worker
  <2>5. QED
    BY <1>6, <1>12, <2>4 DEF AwsDeleted
<1>13. CASE AwsExpire \/ AwsExpireUnseen
  <2>1. PICK t \in DOMAIN reqs : Forget(t)
    BY <1>13 DEF AwsExpire, AwsExpireUnseen
  <2>2. reqs' = Restrict(reqs, DOMAIN reqs \ {t}) /\ step.at = "idle"
        /\ UNCHANGED <<k8s, worker, live, made>>
    BY <2>1 DEF Forget
  <2>3. DOMAIN reqs' \subseteq DOMAIN reqs /\ \A u \in DOMAIN reqs' : reqs'[u] \in Requests
    BY <2>2 DEF Restrict, AwsOK
  <2>4. AwsOK' /\ Tracked'
    BY <2>2, <2>3 DEF AwsOK, Tracked, worker
  <2>5. QED
    BY <1>6, <2>2, <2>4
<1>14. CASE Drift
  <2>1. PICK i \in DOMAIN live, p \in Props : live' = [live EXCEPT ![i].props = p]
    BY <1>14 DEF Drift
  <2>2. DOMAIN live' = DOMAIN live /\ \A j \in DOMAIN live : live'[j] \in Resources
    BY <2>1 DEF AwsOK, Resources
  <2>3. AwsOK' /\ Tracked'
    BY <1>14, <2>2 DEF Drift, AwsOK, Tracked, worker
  <2>4. QED
    BY <1>6, <1>14, <2>3 DEF Drift
<1>15. CASE ExternalDelete
  <2>1. AwsOK' /\ Tracked'
    BY <1>11, <1>15 DEF ExternalDelete, AwsOK, Tracked, worker
  <2>2. QED
    BY <1>6, <1>15, <2>1 DEF ExternalDelete
<1>16. QED
  BY <1>1, <1>3, <1>4, <1>5, <1>8, <1>9, <1>10, <1>12, <1>13, <1>14, <1>15
  DEF Handlers

\* Every variable has its type in every reachable state, and the worker never
\* tracks a request AWS does not know.
THEOREM TypeCorrect == Spec => []TypeOK
<1>1. Init => TypeOK
  BY InitType
<1>2. TypeOK /\ [Next]_vars => TypeOK'
  <2>1. CASE Next
    BY <2>1, WorkType, EnvironmentType DEF Next
  <2>2. CASE UNCHANGED vars
    BY <2>2 DEF vars, TypeOK, K8sOK, WorkerOK, AwsOK, Tracked
  <2>3. QED
    BY <2>1, <2>2
<1>3. QED
  BY <1>1, <1>2, PTL DEF Spec
-----------------------------------------------------------------------------
(* What any step does to the stored CR.                                     *)

\* The actions that leave the API server and its cache alone.
Local ==
    \/ ReconcileAbandoned \/ ReconcileDeleted \/ ReconcileNew \/ ReconcileExisting
    \/ PersistConflict \/ Poll \/ DeletePoll
    \/ InSync \/ PlanUpdate \/ PlanCreate
    \/ Issue \/ UpdateRefused \/ TokenConflict \/ TrackOperation
    \/ DeleteDone \/ PlanDelete \/ DeleteIssue \/ DeleteTrack
    \/ PersistError \/ PollError \/ CallError \/ Crash
    \/ Handlers \/ AwsFailed \/ AwsExpire \/ AwsExpireUnseen
    \/ Drift \/ ExternalDelete

LEMMA LocalStep == Local => UNCHANGED k8s
BY DEF Local, ReconcileAbandoned, ReconcileDeleted, ReconcileNew, ReconcileExisting,
       Start, PersistConflict, Poll, DeletePoll, PollRequest, InSync, PlanUpdate,
       PlanCreate, Issue, DeleteIssue, Request, UpdateRefused, TokenConflict,
       TrackOperation, DeleteDone, PlanDelete, DeleteTrack, PersistError, PollError,
       CallError, Crash, Handlers, AwsMaterialise, AwsCreated, AwsUpdated,
       AwsDeleted, AwsGone, AwsFailed, AwsExpire, AwsExpireUnseen, Forget,
       Drift, ExternalDelete

LEMMA NextCases ==
    Next <=> \/ Local \/ AddFinalizer \/ RemoveFinalizer \/ Persist
             \/ CacheSync \/ UserEdit \/ UserAbandon \/ UserDelete
BY DEF Next, Work, Local

\* Marks of the stored CR are never taken back, a CR that is gone stays as it
\* was, only the worker removes a CR that holds the finalizer, and only a
\* status write changes the identifier.
LEMMA ApiStep ==
    ASSUME TypeOK, Next
    PROVE  /\ api.finalizer => api'.finalizer
           /\ api.deleting => api'.deleting
           /\ api.abandon => api'.abandon
           /\ ~api.exists => api' = api
           /\ api.exists /\ ~api'.exists => RemoveFinalizer \/ ~api'.finalizer
           /\ api'.ident = api.ident \/ Persist
           /\ api' = api \/ ~cfresh'
<1> USE DEF TypeOK, K8sOK, WorkerOK
<1>1. CASE Local
  BY <1>1, LocalStep DEF k8s
<1>2. CASE AddFinalizer
  BY <1>2 DEF AddFinalizer, CRs
<1>3. CASE RemoveFinalizer
  BY <1>3 DEF RemoveFinalizer, CRs
<1>4. CASE Persist
  BY <1>4 DEF Persist, CRs
<1>5. CASE CacheSync
  BY <1>5 DEF CacheSync
<1>6. CASE UserEdit
  BY <1>6 DEF UserEdit, UserWrite, CRs
<1>7. CASE UserAbandon
  BY <1>7 DEF UserAbandon, UserWrite, CRs
<1>8. CASE UserDelete
  BY <1>8 DEF UserDelete, UserWrite, CRs
<1>9. QED
  BY <1>1, <1>2, <1>3, <1>4, <1>5, <1>6, <1>7, <1>8, NextCases

-----------------------------------------------------------------------------
(* The finalizer comes first.                                               *)

LEMMA InitFinalizer == Init => FinalizerHeld
<1> SUFFICES ASSUME Init PROVE FinalizerHeld
  OBVIOUS
<1>1. step.at = "idle" /\ cache = api /\ DOMAIN reqs = {}
  BY AtLabel DEF Init
<1>2. QED
  BY <1>1 DEF FinalizerHeld

\* Once the finalizer is stored the invariant holds for good; before, the
\* worker can only be about to store it, and AWS has nothing to do.
LEMMA FinalizerStep ==
    ASSUME TypeOK, FinalizerHeld, [Next]_vars
    PROVE  FinalizerHeld'
<1>1. CASE api.finalizer /\ Next
  <2>1. api'.finalizer
    BY <1>1, ApiStep
  <2>2. QED
    BY <2>1 DEF FinalizerHeld
<1>2. CASE ~api.finalizer /\ Next
  <2>1. ~cache.finalizer /\ DOMAIN reqs = {} /\ step.at \in {"idle", "addFinalizer"}
    BY <1>2 DEF FinalizerHeld
  <2>2. CASE ReconcileNew
    <3>1. step'.at = "addFinalizer"
      BY <2>2, AtLabel DEF ReconcileNew, Start, Continue
    <3>2. UNCHANGED <<api, cache, reqs>>
      BY <2>2 DEF ReconcileNew, Start, k8s, aws
    <3>3. QED
      BY <2>1, <3>1, <3>2 DEF FinalizerHeld
  <2>3. CASE AddFinalizer \/ Crash
    <3>1. step'.at = "idle"
      BY <2>3, AtLabel DEF AddFinalizer, Crash, Return
    <3>2. UNCHANGED <<cache, reqs>>
      BY <2>3 DEF AddFinalizer, Crash, k8s, aws
    <3>3. QED
      BY <2>1, <3>1, <3>2 DEF FinalizerHeld
  <2>4. CASE CacheSync
    BY <2>1, <2>4 DEF CacheSync, worker, aws, FinalizerHeld
  <2>5. CASE UserEdit \/ UserAbandon \/ UserDelete
    BY <2>1, <2>5 DEF UserEdit, UserAbandon, UserDelete, UserWrite, aws, FinalizerHeld
  <2>6. CASE Drift \/ ExternalDelete
    BY <2>1, <2>6 DEF Drift, ExternalDelete, worker, k8s, FinalizerHeld
  <2>7. ~(Handlers \/ AwsFailed \/ AwsExpire \/ AwsExpireUnseen)
    BY <2>1 DEF Handlers, AwsMaterialise, AwsCreated, AwsUpdated, AwsDeleted,
                AwsGone, AwsFailed, AwsExpire, AwsExpireUnseen, Running
  <2>8. ~(ReconcileAbandoned \/ ReconcileDeleted \/ ReconcileExisting)
    BY <2>1 DEF ReconcileAbandoned, ReconcileDeleted, ReconcileExisting
  <2>9. ~(\/ RemoveFinalizer \/ Persist \/ PersistConflict \/ PersistError
          \/ Poll \/ DeletePoll \/ PollError \/ InSync \/ PlanUpdate \/ PlanCreate
          \/ Issue \/ UpdateRefused \/ TokenConflict \/ CallError \/ TrackOperation
          \/ DeleteDone \/ PlanDelete \/ DeleteIssue \/ DeleteTrack)
    BY <2>1 DEF RemoveFinalizer, Persist, PersistConflict, PersistError, Poll,
                DeletePoll, PollRequest, PollError, InSync, PlanUpdate, PlanCreate,
                Issue, Request, UpdateRefused, TokenConflict, CallError,
                TrackOperation, DeleteDone, PlanDelete, DeleteIssue, DeleteTrack
  <2>10. QED
    BY <1>2, <2>2, <2>3, <2>4, <2>5, <2>6, <2>7, <2>8, <2>9 DEF Next, Work
<1>3. CASE UNCHANGED vars
  BY <1>3 DEF vars, FinalizerHeld
<1>4. QED
  BY <1>1, <1>2, <1>3

\* AWS is never asked for anything on behalf of a CR without the finalizer.
THEOREM FinalizerFirst == Spec => []AskedUnderFinalizer
<1>1. Init => FinalizerHeld
  BY InitFinalizer
<1>2. TypeOK /\ FinalizerHeld /\ [Next]_vars => FinalizerHeld'
  BY FinalizerStep
<1>3. FinalizerHeld => AskedUnderFinalizer
  BY DEF FinalizerHeld, AskedUnderFinalizer
<1>4. QED
  BY <1>1, <1>2, <1>3, TypeCorrect, PTL DEF Spec

-----------------------------------------------------------------------------
(* The paths of a reconcile.                                                *)

Marks == {step.at, step.ok, step.err}

LEMMA AtMarks ==
    \A label : At(label).at = label /\ At(label).ok = "" /\ At(label).err = ""
BY DEF At

LEMMA ContinueMarks ==
    ASSUME NEW exit \in Exits \union Plain, NEW copy, NEW fresh,
           Continue(exit, copy, fresh)
    PROVE  Marks' \subseteq {exit, "", "save", "idle", "fail"}
<1>1. CASE exit = "idle"
  BY <1>1, AtMarks DEF Continue, Return, Marks
<1>2. CASE exit \in {"pending", "fail", "trackFailed", "trackDone"}
  <2>1. PICK c, ok, err :
           Write(c, ok, err, fresh) /\ {ok, err} \subseteq {"idle", "fail"}
    BY <1>2 DEF Continue, Pending, RecordError, TrackFailed, TrackDone
  <2>2. step'.at = "save" /\ step'.ok = ok /\ step'.err = err
    BY <2>1 DEF Write
  <2>3. QED
    BY <2>1, <2>2 DEF Marks
<1>3. CASE exit \notin {"idle", "pending", "fail", "trackFailed", "trackDone"}
  <2>1. step' = At(exit)
    BY <1>3 DEF Continue
  <2>2. QED
    BY <2>1, AtMarks DEF Marks
<1>4. QED
  BY <1>1, <1>2, <1>3

LEMMA SaveMarks ==
    ASSUME NEW copy, NEW ok, NEW err, Save(copy, ok, err)
    PROVE  Marks' \subseteq {"save", ok, err}
BY DEF Save, Write, Marks

LEMMA CallMarks ==
    ASSUME NEW label, NEW copy, NEW token, Call(label, copy, token)
    PROVE  Marks' = {label, ""}
BY DEF Call, At, Marks

LEMMA ReturnMarks == Return => Marks' = {"idle", ""}
BY AtMarks DEF Return, Marks
RemovingLabels == {"delPoll", "check", "delIssue", "delTrack", "release"}
MakingLabels   == {"poll", "get", "issue", "track"}
Neutral == {"", "save", "idle", "fail", "pending", "trackFailed", "trackDone"}
Making == Leads(MakingLabels)

LEMMA Paths ==
    /\ Removing <=> Marks \intersect RemovingLabels # {}
    /\ Making <=> Marks \intersect MakingLabels # {}
    /\ Making <=> Creating \/ Leads({"poll"})
BY DEF Removing, Making, Creating, Leads, Marks, RemovingLabels, MakingLabels

LEMMA PollSaves ==
    ASSUME NEW here, NEW done, NEW failed, PollRequest(here, done, failed)
    PROVE  \E c : \E ok \in {done, failed, "pending"} : Save(c, ok, failed)
<1> DEFINE known == w.token \in DOMAIN reqs
           ev    == reqs[w.token]
           copy  == Identified(w, ev.id)
           ended == ev.status \in {"FAILED", "GONE"}
           gone  == ev.status = "GONE" /\ w.token.op = "DELETE"
<1>1. \/ Save(Cleared(w), done, failed)
      \/ Save(Cleared(copy), done, failed)
      \/ Save(Failed(copy), failed, failed)
      \/ Save(copy, "pending", failed)
  BY DEF PollRequest
<1> HIDE DEF copy
<1>2. QED
  BY <1>1

\* The steps of deleteResource stay on its path.
LEMMA RemovingStep ==
    ASSUME DeletePoll \/ DeleteDone \/ PlanDelete \/ DeleteIssue \/ DeleteTrack
    PROVE  /\ step.at \in RemovingLabels
           /\ Marks' \subseteq RemovingLabels \union Neutral
<1> USE DEF RemovingLabels, Neutral
<1>1. CASE DeletePoll
  <2>1. PICK c, ok : ok \in {"release", "check", "pending"} /\ Save(c, ok, "check")
    BY <1>1, PollSaves DEF DeletePoll
  <2>2. step.at \in RemovingLabels
    BY <1>1 DEF DeletePoll, PollRequest
  <2>3. Marks' \subseteq {"save", ok, "check"}
    BY <2>1, SaveMarks
  <2>4. QED
    BY <2>1, <2>2, <2>3
<1>6. CASE DeleteTrack
  <2>1. PICK c, ok : ok \in {"release", "idle"} /\ Save(c, ok, "idle")
    BY <1>6 DEF DeleteTrack
  <2>2. step.at \in RemovingLabels
    BY <1>6 DEF DeleteTrack
  <2>3. Marks' \subseteq {"save", ok, "idle"}
    BY <2>1, SaveMarks
  <2>4. QED
    BY <2>1, <2>2, <2>3
<1>2. CASE DeleteDone
  BY <1>2, ContinueMarks DEF DeleteDone, Plain
<1>3. CASE PlanDelete
  BY <1>3, CallMarks DEF PlanDelete
<1>4. CASE DeleteIssue
  BY <1>4, CallMarks DEF DeleteIssue, Request
<1>5. QED
  BY <1>1, <1>2, <1>3, <1>4, <1>6

\* The steps of reconcile stay on its path.
LEMMA MakingStep ==
    ASSUME Poll \/ InSync \/ PlanUpdate \/ PlanCreate \/ Issue
           \/ UpdateRefused \/ TrackOperation
    PROVE  /\ step.at \in MakingLabels
           /\ Marks' \subseteq MakingLabels \union Neutral
<1> USE DEF MakingLabels, Neutral
<1>1. CASE Poll
  <2>1. PICK c, ok : ok \in {"get", "fail", "pending"} /\ Save(c, ok, "fail")
    BY <1>1, PollSaves DEF Poll
  <2>2. step.at \in MakingLabels
    BY <1>1 DEF Poll, PollRequest
  <2>3. Marks' \subseteq {"save", ok, "fail"}
    BY <2>1, SaveMarks
  <2>4. QED
    BY <2>1, <2>2, <2>3
<1>2. CASE InSync \/ UpdateRefused
  <2>1. PICK c, ok : ok = "idle" /\ Save(c, ok, "fail")
    BY <1>2 DEF InSync, UpdateRefused
  <2>2. step.at \in MakingLabels
    BY <1>2 DEF InSync, UpdateRefused
  <2>3. Marks' \subseteq {"save", ok, "fail"}
    BY <2>1, SaveMarks
  <2>4. QED
    BY <2>1, <2>2, <2>3
<1>3. CASE TrackOperation
  <2>1. PICK c, ok : ok \in {"trackFailed", "trackDone", "pending"} /\ Save(c, ok, "fail")
    BY <1>3 DEF TrackOperation
  <2>2. step.at \in MakingLabels
    BY <1>3 DEF TrackOperation
  <2>3. Marks' \subseteq {"save", ok, "fail"}
    BY <2>1, SaveMarks
  <2>4. QED
    BY <2>1, <2>2, <2>3
<1>4. CASE PlanUpdate \/ PlanCreate
  BY <1>4, CallMarks DEF PlanUpdate, PlanCreate
<1>5. CASE Issue
  BY <1>5, CallMarks DEF Issue, Request
<1>6. QED
  BY <1>1, <1>2, <1>3, <1>4, <1>5

\* Every other step of the worker goes on where it was going, or ends.
LEMMA EndingStep ==
    ASSUME TypeOK,
           \/ AddFinalizer \/ RemoveFinalizer \/ Persist \/ PersistConflict
           \/ PersistError \/ TokenConflict \/ CallError \/ Crash
    PROVE  Marks' \subseteq Marks \union Neutral
<1> USE DEF Neutral
<1>1. CASE AddFinalizer \/ RemoveFinalizer \/ Crash
  BY <1>1, ReturnMarks DEF AddFinalizer, RemoveFinalizer, Crash
<1>2. step.at = "save" => step.ok \in Exits /\ step.err \in Exits
  BY DEF TypeOK, WorkerOK, Steps, Plain, Calling
<1>3. CASE Persist
  <2>1. step.ok \in Exits /\ Continue(step.ok, api', TRUE)
    BY <1>2, <1>3 DEF Persist
  <2>2. QED
    BY <2>1, ContinueMarks DEF Marks
<1>4. CASE PersistConflict \/ PersistError
  <2>1. step.err \in Exits /\ Continue(step.err, w, wfresh)
    BY <1>2, <1>4 DEF PersistConflict, PersistError
  <2>2. QED
    BY <2>1, ContinueMarks DEF Marks
<1>5. CASE TokenConflict \/ CallError
  <2>1. Return \/ \E c : Continue("fail", c, wfresh)
    BY <1>5 DEF TokenConflict, CallError
  <2>2. "fail" \in Exits
    BY DEF Exits
  <2>3. QED
    BY <2>1, <2>2, ContinueMarks, ReturnMarks
<1>6. QED
  BY <1>1, <1>3, <1>4, <1>5
LEMMA EnvironmentStep ==
    ASSUME \/ CacheSync \/ UserEdit \/ UserAbandon \/ UserDelete \/ Handlers
           \/ AwsFailed \/ AwsExpire \/ AwsExpireUnseen \/ Drift \/ ExternalDelete
    PROVE  UNCHANGED step
BY DEF CacheSync, UserEdit, UserAbandon, UserDelete, UserWrite, Handlers,
       AwsMaterialise, AwsCreated, AwsUpdated, AwsDeleted, AwsGone, AwsFailed,
       AwsExpire, AwsExpireUnseen, Forget, Drift, ExternalDelete, worker

\* A reconcile turns to deleteResource only under a cache that shows the
\* deletion, and to create and update only under one that does not.
LEMMA PathStep ==
    ASSUME TypeOK, Next
    PROVE  /\ Removing' => Removing \/ cache.deleting
           /\ Making' => Making \/ ~cache.deleting
<1>1. {step.at, step.ok, step.err} = Marks
  BY DEF Marks
<1>2. /\ Removing <=> Marks \intersect RemovingLabels # {}
      /\ Making <=> Marks \intersect MakingLabels # {}
      /\ Removing' <=> Marks' \intersect RemovingLabels # {}
      /\ Making' <=> Marks' \intersect MakingLabels # {}
  BY DEF Removing, Making, Leads, Marks, RemovingLabels, MakingLabels
<1>3. /\ RemovingLabels \intersect MakingLabels = {}
      /\ Neutral \intersect MakingLabels = {} /\ Neutral \intersect RemovingLabels = {}
  BY DEF RemovingLabels, MakingLabels, Neutral
<1>4. CASE ReconcileAbandoned \/ ReconcileDeleted
  <2>1. cache.deleting
    BY <1>4 DEF ReconcileAbandoned, ReconcileDeleted
  <2>2. PICK exit \in {"release", "delPoll", "check"} : Continue(exit, cache, cfresh)
    BY <1>4 DEF ReconcileAbandoned, ReconcileDeleted, Start
  <2>3. exit \in Plain /\ exit \in RemovingLabels
    BY DEF Plain, RemovingLabels
  <2>4. Marks' \subseteq {exit, "", "save", "idle", "fail"}
    BY <2>2, <2>3, ContinueMarks
  <2>5. QED
    BY <2>1, <2>3, <2>4, <1>2, <1>3 DEF Neutral
<1>5. CASE ReconcileNew \/ ReconcileExisting
  <2>1. ~cache.deleting
    BY <1>5 DEF ReconcileNew, ReconcileExisting
  <2>2. PICK exit \in {"addFinalizer", "get", "poll"} : Continue(exit, cache, cfresh)
    BY <1>5 DEF ReconcileNew, ReconcileExisting, Start
  <2>3. exit \in Plain /\ exit \notin RemovingLabels
    BY DEF Plain, RemovingLabels
  <2>4. Marks' \subseteq {exit, "", "save", "idle", "fail"}
    BY <2>2, <2>3, ContinueMarks
  <2>5. QED
    BY <2>1, <2>3, <2>4, <1>2, <1>3 DEF Neutral
<1>6. CASE DeletePoll \/ DeleteDone \/ PlanDelete \/ DeleteIssue \/ DeleteTrack
  BY <1>6, <1>1, <1>2, <1>3, RemovingStep
<1>7. CASE Poll \/ InSync \/ PlanUpdate \/ PlanCreate \/ Issue
           \/ UpdateRefused \/ TrackOperation
  BY <1>7, <1>1, <1>2, <1>3, MakingStep
<1>8. CASE \/ AddFinalizer \/ RemoveFinalizer \/ Persist \/ PersistConflict
           \/ PersistError \/ TokenConflict \/ CallError \/ Crash
  BY <1>8, <1>2, <1>3, EndingStep
<1>9. CASE PollError
  <2>1. PICK exit \in {"fail", "check"} :
           /\ Continue(exit, w, wfresh)
           /\ exit = "check" => step.at = "delPoll"
    BY <1>9 DEF PollError
  <2>2. exit \in Exits /\ exit \notin MakingLabels
        /\ (exit = "fail" => exit \in Neutral) /\ "delPoll" \in RemovingLabels
    BY DEF Exits, MakingLabels, Neutral, RemovingLabels
  <2>3. Marks' \subseteq {exit, "", "save", "idle", "fail"}
    BY <2>1, <2>2, ContinueMarks
  <2>4. QED
    BY <2>1, <2>2, <2>3, <1>1, <1>2, <1>3 DEF Neutral
<1>10. CASE \/ CacheSync \/ UserEdit \/ UserAbandon \/ UserDelete \/ Handlers
            \/ AwsFailed \/ AwsExpire \/ AwsExpireUnseen \/ Drift \/ ExternalDelete
  <2>1. UNCHANGED step
    BY <1>10, EnvironmentStep
  <2>2. Marks' = Marks
    BY <2>1 DEF Marks
  <2>3. QED
    BY <2>2, <1>2
<1>11. QED
  BY <1>4, <1>5, <1>6, <1>7, <1>8, <1>9, <1>10 DEF Next, Work

-----------------------------------------------------------------------------
(* A CR that is gone stays quiet.                                           *)

LEMMA InitDeletion == Init => DeletionSeen
<1> SUFFICES ASSUME Init PROVE DeletionSeen
  OBVIOUS
<1>1. step.at = "idle" /\ step.ok = "" /\ step.err = ""
  BY AtMarks DEF Init
<1>2. ~Removing
  BY <1>1 DEF Removing, Leads
<1>3. cache = api /\ ~api.deleting /\ ~api.finalizer
  BY DEF Init, BlankCR
<1>4. QED
  BY <1>2, <1>3 DEF DeletionSeen

LEMMA DeletionStep ==
    ASSUME TypeOK, DeletionSeen, [Next]_vars
    PROVE  DeletionSeen'
<1>1. Making <=> Creating \/ Leads({"poll"})
  BY Paths
<1>2. Making' <=> Creating' \/ Leads({"poll"})'
  BY DEF Making, Creating, Leads, MakingLabels
<1>3. CASE Next
  <2>1. cache' = cache \/ cache' = api
    BY <1>3, NextCases, LocalStep
    DEF k8s, AddFinalizer, RemoveFinalizer, Persist, CacheSync,
        UserEdit, UserAbandon, UserDelete, UserWrite
  <2>2. cache.deleting => cache'.deleting
    BY <2>1 DEF DeletionSeen
  <2>3. cache'.deleting => api'.deleting
    BY <2>1, <1>3, ApiStep DEF DeletionSeen
  <2>4. Removing' => cache'.deleting
    BY <2>2, <1>3, PathStep DEF DeletionSeen
  <2>5. ASSUME api'.finalizer, ~api'.exists
        PROVE  cache'.deleting /\ ~Making'
    <3>1. CASE ~api.exists
      <4>1. api.finalizer
        BY <3>1, <2>5, <1>3, ApiStep
      <4>2. QED
        BY <3>1, <4>1, <2>2, <1>1, <1>3, PathStep DEF DeletionSeen
    <3>2. CASE api.exists
      <4>1. RemoveFinalizer
        BY <3>2, <2>5, <1>3, ApiStep
      <4>2. step.at = "release" /\ Marks' = {"idle", ""}
        BY <4>1, ReturnMarks DEF RemoveFinalizer
      <4>3. Removing
        BY <4>2 DEF Removing, Leads
      <4>4. ~Making'
        BY <4>2 DEF Making, Leads, Marks, MakingLabels
      <4>5. QED
        BY <4>3, <4>4, <2>2 DEF DeletionSeen
    <3>3. QED
      BY <3>1, <3>2
  <2>6. QED
    BY <2>3, <2>4, <2>5, <1>2 DEF DeletionSeen
<1>4. CASE UNCHANGED vars
  BY <1>4 DEF vars, DeletionSeen, Removing, Creating, Leads
<1>5. QED
  BY <1>3, <1>4
\* Only PlanUpdate, PlanCreate and PlanDelete choose a token to call AWS with,
\* and Issue and DeleteIssue go on with the one they have.
LEMMA CallStep ==
    ASSUME TypeOK, [Next]_vars, step'.at \in Calling
    PROVE  \/ step' = step
           \/ /\ Issue /\ step.at = "issue"
              /\ step'.at = "track" /\ step'.call = step.call
           \/ /\ DeleteIssue /\ step.at = "delIssue"
              /\ step'.at = "delTrack" /\ step'.call = step.call
           \/ PlanUpdate /\ step'.at = "issue" /\ step'.call.op = "UPDATE"
           \/ PlanCreate /\ step'.at = "issue" /\ step'.call.op = "CREATE"
           \/ PlanDelete /\ step'.at = "delIssue" /\ step'.call.op = "DELETE"
<1>1. ASSUME NEW exit \in (Exits \union Plain), NEW copy, NEW fresh,
             Continue(exit, copy, fresh)
      PROVE  FALSE
  <2>1. step'.at \in {exit, "", "save", "idle", "fail"}
    BY <1>1, ContinueMarks DEF Marks
  <2>2. QED
    BY <2>1 DEF Exits, Plain, Calling
<1>2. ASSUME NEW copy, NEW ok, NEW err, Save(copy, ok, err) PROVE FALSE
  BY <1>2 DEF Save, Write, Calling
<1>3. ~Return
  BY AtMarks DEF Return, Calling
<1>4. step.at = "save" => step.ok \in Exits /\ step.err \in Exits
  BY DEF TypeOK, WorkerOK, Steps, Plain, Calling
<1>5. ASSUME NEW label \in Calling, NEW copy, NEW token, Call(label, copy, token)
      PROVE  step'.at = label /\ step'.call = token
  BY <1>5 DEF Call, At, Calling
<1>6. {"issue", "track", "delIssue", "delTrack"} \subseteq Calling
  BY DEF Calling
<1>7. CASE Issue
  <2>1. step.at = "issue" /\ Call("track", w, step.call)
    BY <1>7 DEF Issue, Request
  <2>2. QED
    BY <2>1, <1>5, <1>6, <1>7
<1>8. CASE DeleteIssue
  <2>1. step.at = "delIssue" /\ Call("delTrack", w, step.call)
    BY <1>8 DEF DeleteIssue, Request
  <2>2. QED
    BY <2>1, <1>5, <1>6, <1>8
<1>9. CASE PlanUpdate \/ PlanCreate \/ PlanDelete
  <2>1. \/ PlanUpdate /\ \E c, t : Call("issue", c, t) /\ t.op = "UPDATE"
        \/ PlanCreate /\ \E c, t : Call("issue", c, t) /\ t.op = "CREATE"
        \/ PlanDelete /\ \E c, t : Call("delIssue", c, t) /\ t.op = "DELETE"
    BY <1>9 DEF PlanUpdate, PlanCreate, PlanDelete, ClientToken
  <2>2. QED
    BY <2>1, <1>5, <1>6
<1>10. ~(Poll \/ DeletePoll \/ InSync \/ UpdateRefused \/ TrackOperation \/ DeleteTrack)
  <2>1. ASSUME Poll \/ DeletePoll PROVE FALSE
    <3>1. \/ PollRequest("poll", "get", "fail")
          \/ PollRequest("delPoll", "release", "check")
      BY <2>1 DEF Poll, DeletePoll
    <3>2. QED
      BY <3>1, <1>2, PollSaves
  <2>2. ASSUME InSync \/ UpdateRefused \/ TrackOperation \/ DeleteTrack PROVE FALSE
    <3>1. \E c, ok, err : Save(c, ok, err)
      BY <2>2 DEF InSync, UpdateRefused, TrackOperation, DeleteTrack
    <3>2. QED
      BY <3>1, <1>2
  <2>3. QED
    BY <2>1, <2>2
<1>11. ~(\/ ReconcileAbandoned \/ ReconcileDeleted \/ ReconcileNew \/ ReconcileExisting
         \/ DeleteDone \/ PollError \/ TokenConflict \/ CallError)
  <2>1. ASSUME \/ ReconcileAbandoned \/ ReconcileDeleted \/ ReconcileNew
               \/ ReconcileExisting \/ DeleteDone \/ PollError \/ TokenConflict
               \/ CallError
        PROVE  FALSE
    <3>1. \/ Return
          \/ \E exit \in {"release", "delPoll", "check", "addFinalizer", "get",
                          "poll", "fail"} :
                \E c, f : Continue(exit, c, f)
      BY <2>1 DEF ReconcileAbandoned, ReconcileDeleted, ReconcileNew,
                  ReconcileExisting, Start, DeleteDone, PollError, TokenConflict,
                  CallError
    <3>2. {"release", "delPoll", "check", "addFinalizer", "get", "poll", "fail"}
             \subseteq Exits \union Plain
      BY DEF Exits, Plain
    <3>3. QED
      BY <3>1, <3>2, <1>1, <1>3
  <2>2. QED
    BY <2>1
<1>12. ~(Persist \/ PersistConflict \/ PersistError)
  BY <1>1, <1>4 DEF Persist, PersistConflict, PersistError
<1>13. ~(AddFinalizer \/ RemoveFinalizer \/ Crash)
  BY <1>3 DEF AddFinalizer, RemoveFinalizer, Crash
<1>14. CASE \/ CacheSync \/ UserEdit \/ UserAbandon \/ UserDelete \/ Handlers
            \/ AwsFailed \/ AwsExpire \/ AwsExpireUnseen \/ Drift \/ ExternalDelete
  BY <1>14, EnvironmentStep
<1>15. CASE UNCHANGED vars
  BY <1>15 DEF vars
<1>16. QED
  BY <1>7, <1>8, <1>9, <1>10, <1>11, <1>12, <1>13, <1>14, <1>15 DEF Next, Work

LEMMA CallTokensStep ==
    ASSUME TypeOK, CallTokens, [Next]_vars
    PROVE  CallTokens'
<1>1. CASE step'.at \notin Calling
  BY <1>1 DEF CallTokens, Calling
<1>2. CASE step'.at \in Calling
  BY <1>2, CallStep DEF CallTokens
<1>3. QED
  BY <1>1, <1>2

\* New requests are started by Issue and DeleteIssue alone.
LEMMA NewRequests ==
    ASSUME [Next]_vars, DOMAIN reqs' \ DOMAIN reqs # {}
    PROVE  /\ Issue \/ DeleteIssue
           /\ DOMAIN reqs' = DOMAIN reqs \union {step.call}
<1>1. ASSUME Issue \/ DeleteIssue PROVE DOMAIN reqs' = DOMAIN reqs \union {step.call}
  BY <1>1 DEF Issue, DeleteIssue, Request, Extend
<1>2. ~UNCHANGED reqs
  OBVIOUS
<1>3. \A t, s : DOMAIN Finish(t, s) = DOMAIN reqs
  BY DEF Finish
<1>4. ~(AwsMaterialise \/ AwsCreated \/ AwsUpdated \/ AwsDeleted \/ AwsGone \/ AwsFailed)
  <2>1. CASE AwsMaterialise
    <3>1. DOMAIN reqs' = DOMAIN reqs
      BY <2>1 DEF AwsMaterialise
    <3>2. QED
      BY <3>1
  <2>2. CASE AwsCreated \/ AwsUpdated \/ AwsDeleted \/ AwsGone \/ AwsFailed
    <3>1. PICK t, s : reqs' = Finish(t, s)
      BY <2>2 DEF AwsCreated, AwsUpdated, AwsDeleted, AwsGone, AwsFailed
    <3>2. QED
      BY <3>1, <1>3
  <2>3. QED
    BY <2>1, <2>2
<1>5. ~(AwsExpire \/ AwsExpireUnseen)
  BY DEF AwsExpire, AwsExpireUnseen, Forget, Restrict
<1>6. Issue \/ DeleteIssue
  BY <1>2, <1>4, <1>5
  DEF Next, Work, Handlers, vars, aws,
      ReconcileAbandoned, ReconcileDeleted, ReconcileNew, ReconcileExisting,
      Start, AddFinalizer, RemoveFinalizer, Persist, PersistConflict,
      PersistError, Poll, DeletePoll, PollRequest, PollError, InSync, PlanUpdate,
      PlanCreate, UpdateRefused, TokenConflict, CallError, TrackOperation,
      DeleteDone, PlanDelete, DeleteTrack, Crash, CacheSync, UserEdit,
      UserAbandon, UserDelete, UserWrite, Drift, ExternalDelete
<1>7. QED
  BY <1>1, <1>6

\* Once a CR is gone, whatever the cache still shows, AWS is asked for nothing
\* but its deletion: by then the cache shows the deletion too.
THEOREM GoneStaysQuiet == Spec => QuietAfterGone
<1>1. Init => FinalizerHeld /\ DeletionSeen
  BY InitFinalizer, InitDeletion
<1>2. Init => CallTokens
  BY AtMarks DEF Init, CallTokens
<1>3. TypeOK /\ FinalizerHeld /\ [Next]_vars => FinalizerHeld'
  BY FinalizerStep
<1>4. TypeOK /\ DeletionSeen /\ [Next]_vars => DeletionSeen'
  BY DeletionStep
<1>5. TypeOK /\ CallTokens /\ [Next]_vars => CallTokens'
  BY CallTokensStep
<1>6. ASSUME FinalizerHeld, DeletionSeen, CallTokens, [Next]_vars, ~api.exists,
             NEW t \in DOMAIN reqs' \ DOMAIN reqs
      PROVE  t.op = "DELETE"
  <2>1. t = step.call /\ (Issue \/ DeleteIssue)
    BY <1>6, NewRequests
  <2>2. CASE Issue
    <3>1. step.at = "issue"
      BY <2>2 DEF Issue, Request
    <3>2. api.finalizer /\ Creating
      BY <1>6, <3>1 DEF FinalizerHeld, Creating, Leads
    <3>3. QED
      BY <1>6, <3>2 DEF DeletionSeen
  <2>3. CASE DeleteIssue
    BY <1>6, <2>1, <2>3 DEF DeleteIssue, Request, CallTokens
  <2>4. QED
    BY <2>1, <2>2, <2>3
<1>7. TypeOK /\ FinalizerHeld /\ DeletionSeen /\ CallTokens /\ [Next]_vars
        => [~api.exists => \A t \in DOMAIN reqs' \ DOMAIN reqs : t.op = "DELETE"]_vars
  BY <1>6
<1>8. QED
  BY <1>1, <1>2, <1>3, <1>4, <1>5, <1>7, TypeCorrect, PTL DEF Spec, QuietAfterGone

-----------------------------------------------------------------------------
(* A finalizer is removed only when the resource is gone.                   *)

\* What AWS keeps of the requests it knows, as long as it forgets no DELETE.
LEMMA RequestsKept ==
    ASSUME TypeOK, [Next]_vars, "DELETE" \notin Expiring,
           NEW t \in DOMAIN reqs, t.op = "DELETE"
    PROVE  t \in DOMAIN reqs' /\ reqs'[t].id = reqs[t].id
<1> USE DEF TypeOK, AwsOK
<1>1. CASE UNCHANGED reqs
  BY <1>1
<1>2. CASE Issue \/ DeleteIssue
  BY <1>2 DEF Issue, DeleteIssue, Request, Extend
<1>3. CASE AwsMaterialise
  <2>1. PICK r \in Running("CREATE") : reqs' = [reqs EXCEPT ![r].id = made + 1]
    BY <1>3 DEF AwsMaterialise
  <2>2. r # t
    BY <2>1 DEF Running
  <2>3. QED
    BY <2>1, <2>2
<1>4. CASE AwsCreated \/ AwsUpdated \/ AwsDeleted \/ AwsGone \/ AwsFailed
  <2>1. PICK r, s : r \in DOMAIN reqs /\ reqs' = Finish(r, s)
    BY <1>4 DEF AwsCreated, AwsUpdated, AwsDeleted, AwsGone, AwsFailed, Running
  <2>2. reqs[t] \in Requests
    OBVIOUS
  <2>3. reqs'[t] = IF t = r THEN [reqs[t] EXCEPT !.status = s] ELSE reqs[t]
    BY <2>1 DEF Finish
  <2>4. t \in DOMAIN reqs'
    BY <2>1 DEF Finish
  <2>5. QED
    BY <2>2, <2>3, <2>4 DEF Requests
<1>5. CASE AwsExpire \/ AwsExpireUnseen
  <2>1. PICK r \in DOMAIN reqs : Forget(r)
    BY <1>5 DEF AwsExpire, AwsExpireUnseen
  <2>2. r # t
    BY <2>1 DEF Forget
  <2>3. QED
    BY <2>1, <2>2 DEF Forget, Restrict
<1>6. QED
  BY <1>1, <1>2, <1>3, <1>4, <1>5
  DEF Next, Work, Handlers, vars, aws,
      ReconcileAbandoned, ReconcileDeleted, ReconcileNew, ReconcileExisting,
      Start, AddFinalizer, RemoveFinalizer, Persist, PersistConflict,
      PersistError, Poll, DeletePoll, PollRequest, PollError, InSync, PlanUpdate,
      PlanCreate, UpdateRefused, TokenConflict, CallError, TrackOperation,
      DeleteDone, PlanDelete, DeleteTrack, Crash, CacheSync, UserEdit,
      UserAbandon, UserDelete, UserWrite, Drift, ExternalDelete

\* Resources appear under identifiers never given out before.
LEMMA LiveStep ==
    ASSUME TypeOK, [Next]_vars
    PROVE  /\ made' \in Nat /\ made <= made'
           /\ \A i \in DOMAIN live' : i \in DOMAIN live \/ (made < i /\ i <= made')
<1> USE DEF TypeOK, AwsOK
<1>0. made \in Nat
  BY CloudControlAssumption
<1>1. CASE UNCHANGED <<live, made>>
  BY <1>0, <1>1
<1>2. CASE AwsMaterialise
  <2>1. DOMAIN live' = DOMAIN live \union {made + 1} /\ made' = made + 1
    BY <1>2 DEF AwsMaterialise, Extend
  <2>2. QED
    BY <1>0, <2>1
<1>3. CASE AwsUpdated \/ AwsDeleted \/ Drift \/ ExternalDelete
  <2>1. DOMAIN live' \subseteq DOMAIN live /\ made' = made
    BY <1>3 DEF AwsUpdated, AwsDeleted, Drift, ExternalDelete, Restrict
  <2>2. QED
    BY <1>0, <2>1
<1>4. QED
  BY <1>1, <1>2, <1>3
  DEF Next, Work, Handlers, vars, aws,
      ReconcileAbandoned, ReconcileDeleted, ReconcileNew, ReconcileExisting,
      Start, AddFinalizer, RemoveFinalizer, Persist, PersistConflict,
      PersistError, Poll, DeletePoll, PollRequest, PollError, InSync, PlanUpdate,
      PlanCreate, Issue, DeleteIssue, Request, UpdateRefused, TokenConflict,
      CallError, TrackOperation, DeleteDone, PlanDelete, DeleteTrack, Crash,
      CacheSync, UserEdit, UserAbandon, UserDelete, UserWrite, AwsCreated,
      AwsGone, AwsFailed, AwsExpire, AwsExpireUnseen, Forget

\* Resources whose deletion AWS finished never come back.
LEMMA DeletedStep ==
    ASSUME TypeOK, IdsKnown, DeletedIsGone, [Next]_vars
    PROVE  DeletedIsGone'
<1> USE DEF TypeOK, AwsOK
<1> SUFFICES ASSUME NEW t \in DOMAIN reqs', t.op = "DELETE",
                    reqs'[t].status \in {"SUCCESS", "GONE"}
             PROVE  reqs'[t].id \notin DOMAIN live'
  BY DEF DeletedIsGone
<1>1. ASSUME t \in DOMAIN reqs, reqs[t].status \in {"SUCCESS", "GONE"},
             reqs'[t].id = reqs[t].id
      PROVE  reqs'[t].id \notin DOMAIN live'
  <2>1. reqs[t].id \notin DOMAIN live /\ reqs[t].id <= made
    BY <1>1 DEF DeletedIsGone, IdsKnown
  <2>2. reqs[t].id \in Nat /\ made \in Nat
    BY <1>1, CloudControlAssumption DEF Requests
  <2>3. QED
    BY <2>1, <2>2, <1>1, LiveStep
<1>2. CASE UNCHANGED reqs
  BY <1>1, <1>2
<1>3. CASE Issue \/ DeleteIssue
  <2>1. PICK r : r.status = "IN_PROGRESS" /\ reqs' = Extend(reqs, step.call, r)
    BY <1>3 DEF Issue, DeleteIssue, Request
  <2>2. t \in DOMAIN reqs /\ reqs'[t] = reqs[t]
    BY <2>1 DEF Extend
  <2>3. QED
    BY <2>2, <1>1
<1>4. CASE AwsMaterialise
  <2>1. PICK r \in Running("CREATE") : reqs' = [reqs EXCEPT ![r].id = made + 1]
    BY <1>4 DEF AwsMaterialise
  <2>2. r # t
    BY <2>1 DEF Running
  <2>3. t \in DOMAIN reqs /\ reqs'[t] = reqs[t]
    BY <2>1, <2>2
  <2>4. QED
    BY <2>3, <1>1
<1>5. CASE AwsCreated \/ AwsUpdated \/ AwsFailed
  <2>1. PICK r, s : /\ r \in DOMAIN reqs /\ reqs' = Finish(r, s)
                    /\ s = "SUCCESS" => r.op # "DELETE"
                    /\ s \in {"SUCCESS", "FAILED"}
    BY <1>5 DEF AwsCreated, AwsUpdated, AwsFailed, Running
  <2>2. t \in DOMAIN reqs
    BY <2>1 DEF Finish
  <2>3. reqs[t] \in Requests
    BY <2>2
  <2>4. reqs'[t] = IF t = r THEN [reqs[t] EXCEPT !.status = s] ELSE reqs[t]
    BY <2>1, <2>2 DEF Finish
  <2>5. r # t
    BY <2>1, <2>3, <2>4 DEF Requests
  <2>6. QED
    BY <2>2, <2>4, <2>5, <1>1
<1>6. CASE AwsDeleted \/ AwsGone
  <2>1. PICK r, s : r \in DOMAIN reqs /\ reqs' = Finish(r, s)
                    /\ reqs[r].id \notin DOMAIN live'
    BY <1>6 DEF AwsDeleted, AwsGone, Running, Restrict
  <2>2. t \in DOMAIN reqs
    BY <2>1 DEF Finish
  <2>3. reqs[t] \in Requests
    BY <2>2
  <2>4. reqs'[t] = IF t = r THEN [reqs[t] EXCEPT !.status = s] ELSE reqs[t]
    BY <2>1, <2>2 DEF Finish
  <2>5. CASE r = t
    BY <2>1, <2>3, <2>4, <2>5 DEF Requests
  <2>6. CASE r # t
    BY <2>2, <2>4, <2>6, <1>1
  <2>7. QED
    BY <2>5, <2>6
<1>7. CASE AwsExpire \/ AwsExpireUnseen
  <2>1. PICK r \in DOMAIN reqs : Forget(r)
    BY <1>7 DEF AwsExpire, AwsExpireUnseen
  <2>2. t \in DOMAIN reqs /\ reqs'[t] = reqs[t]
    BY <2>1 DEF Forget, Restrict
  <2>3. QED
    BY <2>2, <1>1
<1>8. QED
  BY <1>2, <1>3, <1>4, <1>5, <1>6, <1>7
  DEF Next, Work, Handlers, vars, aws,
      ReconcileAbandoned, ReconcileDeleted, ReconcileNew, ReconcileExisting,
      Start, AddFinalizer, RemoveFinalizer, Persist, PersistConflict,
      PersistError, Poll, DeletePoll, PollRequest, PollError, InSync, PlanUpdate,
      PlanCreate, UpdateRefused, TokenConflict, CallError, TrackOperation,
      DeleteDone, PlanDelete, DeleteTrack, Crash, CacheSync, UserEdit,
      UserAbandon, UserDelete, UserWrite, Drift, ExternalDelete

\* What ReleaseInv says of a copy, of the worker, and of the rest.
Sound(cr) == Deletes(cr) /\ cr.ident <= made
SoundNext(cr) ==
    /\ cr.token.op = "DELETE" =>
          cr.token \in DOMAIN reqs' /\ reqs'[cr.token].id = cr.ident
    /\ cr.ident <= made'

WorkerInv ==
    /\ Sound(w) /\ PathTokens /\ ReleaseEarned
    /\ w.abandon => api.abandon
    /\ Removing /\ wfresh => w.ident = api.ident

StoredInv ==
    /\ Sound(api) /\ Sound(cache)
    /\ cfresh => cache = api
    /\ cache.abandon => api.abandon

AwsInv ==
    /\ SpecIdentifier <= made
    /\ \A t \in DOMAIN reqs : reqs[t].id <= made
    /\ \A i \in DOMAIN live : i <= made
    /\ DeletedIsGone

LEMMA ReleaseParts ==
    ReleaseInv <=> CallTokens /\ WorkerInv /\ StoredInv /\ AwsInv
BY DEF ReleaseInv, TokensKept, IdsKnown, CopyIsCurrent, WorkerInv, StoredInv,
       AwsInv, Sound

\* A sound copy stays sound, and so does what a status write makes of it.
LEMMA SoundStep ==
    ASSUME TypeOK, [Next]_vars, "DELETE" \notin Expiring,
           NEW cr \in CRs, Sound(cr)
    PROVE  SoundNext(cr)
<1>1. cr.ident \in Nat /\ made \in Nat /\ made' \in Nat /\ made <= made'
  BY LiveStep, CloudControlAssumption DEF TypeOK, AwsOK, CRs
<1>2. cr.ident <= made /\ cr.ident <= made'
  BY <1>1 DEF Sound
<1>3. ASSUME cr.token.op = "DELETE"
      PROVE  cr.token \in DOMAIN reqs' /\ reqs'[cr.token].id = cr.ident
  <2>1. cr.token \in DOMAIN reqs /\ reqs[cr.token].id = cr.ident
    BY <1>3 DEF Sound, Deletes
  <2>2. QED
    BY <2>1, <1>3, RequestsKept
<1>4. QED
  BY <1>2, <1>3 DEF SoundNext

\* new is old, but for its status fields other than the identifier.
Carries(new, old) ==
    /\ new.ident = old.ident /\ new.abandon = old.abandon
    /\ new.token \in {old.token, NoToken}

LEMMA CarriesCopy ==
    ASSUME NEW cr \in CRs
    PROVE  /\ Carries(cr, cr) /\ Carries(Cleared(cr), cr)
           /\ Carries(Failed(cr), cr) /\ Carries(NotReady(cr), cr)
           /\ Cleared(cr).token = NoToken /\ Failed(cr).token = NoToken
<1>1. Carries(cr, cr) /\ Carries(NotReady(cr), cr)
  BY DEF Carries, NotReady, CRs
<1>2. Carries(Cleared(cr), cr) /\ Cleared(cr).token = NoToken
  BY DEF Carries, Cleared, CRs
<1>3. Carries(Failed(cr), cr) /\ Failed(cr).token = NoToken
  <2>1. Cleared(cr) \in CRs
    BY CopyType
  <2>2. \A c \in CRs : /\ [c EXCEPT !.attempt = @ + 1].ident = c.ident
                       /\ [c EXCEPT !.attempt = @ + 1].abandon = c.abandon
                       /\ [c EXCEPT !.attempt = @ + 1].token = c.token
    BY DEF CRs
  <2>3. QED
    BY <2>1, <2>2, <1>2 DEF Failed, Carries
<1>4. QED
  BY <1>1, <1>2, <1>3

LEMMA ContinueCarries ==
    ASSUME NEW exit \in Exits \union Plain, NEW copy \in CRs, NEW fresh,
           Continue(exit, copy, fresh), exit # "idle"
    PROVE  Carries(w', copy) /\ wfresh' = fresh
<1>1. CASE exit \in {"pending", "fail", "trackFailed", "trackDone"}
  <2>1. PICK c, ok, err : Write(c, ok, err, fresh) /\ Carries(c, copy)
    BY <1>1, CarriesCopy
    DEF Continue, Pending, RecordError, TrackFailed, TrackDone
  <2>2. QED
    BY <2>1 DEF Write
<1>2. CASE exit \notin {"idle", "pending", "fail", "trackFailed", "trackDone"}
  <2>1. w' = copy /\ wfresh' = fresh
    BY <1>2 DEF Continue
  <2>2. QED
    BY <2>1, CarriesCopy
<1>3. QED
  BY <1>1, <1>2

LEMMA ContinueEnds ==
    ASSUME NEW exit \in Exits \union Plain, NEW copy, NEW fresh,
           Continue(exit, copy, fresh)
    PROVE  /\ step'.at \in {exit, "save", "idle"}
           /\ step'.ok \in {"", "idle", "fail"} /\ step'.err \in {"", "idle", "fail"}
<1>1. CASE exit = "idle"
  BY <1>1, AtMarks DEF Continue, Return
<1>2. CASE exit \in {"pending", "fail", "trackFailed", "trackDone"}
  <2>1. PICK c, ok, err :
           Write(c, ok, err, fresh) /\ {ok, err} \subseteq {"idle", "fail"}
    BY <1>2 DEF Continue, Pending, RecordError, TrackFailed, TrackDone
  <2>2. step'.at = "save" /\ step'.ok = ok /\ step'.err = err
    BY <2>1 DEF Write
  <2>3. QED
    BY <2>1, <2>2
<1>3. CASE exit \notin {"idle", "pending", "fail", "trackFailed", "trackDone"}
  <2>1. step' = At(exit)
    BY <1>3 DEF Continue
  <2>2. QED
    BY <2>1, AtMarks
<1>4. QED
  BY <1>1, <1>2, <1>3

LEMMA BlankFields ==
    /\ NoToken.op = "" /\ BlankCR.token = NoToken
    /\ BlankCR.ident = 0 /\ BlankCR.abandon = FALSE
BY DEF NoToken, BlankCR, NoId

LEMMA BlankCopy ==
    ASSUME Return, made' \in Nat
    PROVE  WorkerInv'
<1>1. w' = BlankCR /\ step'.at = "idle" /\ step'.ok = "" /\ step'.err = ""
  BY AtMarks DEF Return
<1>2. ~Removing' /\ ~Creating'
  BY <1>1 DEF Removing, Creating, Leads
<1>3. Sound(w)'
  <2>1. w'.token.op = "" /\ w'.ident = 0
    BY <1>1, BlankFields
  <2>2. \A n \in Nat : 0 <= n
    OBVIOUS
  <2>3. w'.ident <= made'
    BY <2>1, <2>2
  <2>4. QED
    BY <2>1, <2>3 DEF Sound, Deletes
<1>4. PathTokens' /\ ReleaseEarned' /\ ~w'.abandon
  BY <1>1, <1>2, BlankFields DEF PathTokens, ReleaseEarned
<1>5. QED
  BY <1>2, <1>3, <1>4 DEF WorkerInv

LEMMA SoundCarried ==
    ASSUME NEW copy \in CRs, SoundNext(copy), Carries(w', copy)
    PROVE  Sound(w)'
<1>1. w'.token = copy.token \/ w'.token.op # "DELETE"
  BY BlankFields DEF Carries
<1>2. QED
  BY <1>1 DEF Sound, Deletes, SoundNext, Carries

\* When the worker goes on at exit with a copy ...
LEMMA Continued ==
    ASSUME NEW exit \in Exits \union Plain, NEW copy \in CRs, NEW fresh \in BOOLEAN,
           Continue(exit, copy, fresh), made' \in Nat, SoundNext(copy),
           copy.abandon => api'.abandon,
           exit = "get" => copy.token.op # "DELETE",
           exit = "delPoll" => copy.token.op = "DELETE",
           exit \in RemovingLabels /\ fresh => copy.ident = api'.ident,
           exit = "release" => copy.abandon \/ copy.ident \notin DOMAIN live'
    PROVE  WorkerInv'
<1>1. CASE exit = "idle"
  BY <1>1, BlankCopy DEF Continue
<1>2. CASE exit # "idle"
  <2>1. Carries(w', copy) /\ wfresh' = fresh
    BY <1>2, ContinueCarries
  <2>2. /\ step'.at \in {exit, "save", "idle"}
        /\ step'.ok \in {"", "idle", "fail"} /\ step'.err \in {"", "idle", "fail"}
    BY ContinueEnds
  <2>3. exit \notin {"issue", "track", "delIssue", "delTrack"}
    BY DEF Exits, Plain
  <2>4. Sound(w)'
    BY <2>1, SoundCarried
  <2>5. /\ Removing' => step'.at = exit /\ exit \in RemovingLabels
        /\ Creating' => step'.at = exit /\ exit = "get"
    BY <2>2, <2>3 DEF Removing, Creating, Leads, RemovingLabels
  <2>6. w'.abandon => api'.abandon
    BY <2>1 DEF Carries
  <2>7. Removing' /\ wfresh' => w'.ident = api'.ident
    BY <2>1, <2>5 DEF Carries
  <2>8. Creating' => w'.token.op # "DELETE"
    BY <2>1, <2>5, BlankFields DEF Carries
  <2>9. step'.at = "delPoll" => w'.token.op = "DELETE"
    <3> SUFFICES ASSUME step'.at = "delPoll" PROVE w'.token.op = "DELETE"
      OBVIOUS
    <3>1. exit = "delPoll"
      BY <2>2
    <3>2. w' = copy
      BY <3>1 DEF Continue
    <3>3. QED
      BY <3>1, <3>2
  <2>10. PathTokens'
    BY <2>2, <2>3, <2>8, <2>9 DEF PathTokens
  <2>11. step'.at = "release" => w'.abandon \/ w'.ident \notin DOMAIN live'
    BY <2>1, <2>2 DEF Carries
  <2>12. ReleaseEarned'
    BY <2>2, <2>11 DEF ReleaseEarned
  <2>13. QED
    BY <2>4, <2>6, <2>7, <2>10, <2>12 DEF WorkerInv
<1>3. QED
  BY <1>1, <1>2

\* ... or writes its status first ...
LEMMA Saved ==
    ASSUME NEW ok \in Exits, NEW err \in Exits \ {"release"}, NEW copy \in CRs,
           Save(copy, ok, err), SoundNext(copy),
           copy.abandon => api'.abandon,
           "get" \in {ok, err} => copy.token.op # "DELETE",
           wfresh /\ {ok, err} \intersect RemovingLabels # {} => copy.ident = api'.ident,
           ok = "release" => copy.ident \notin DOMAIN live'
    PROVE  WorkerInv'
<1>1. /\ step'.at = "save" /\ step'.ok = ok /\ step'.err = err
      /\ w' = copy /\ wfresh' = wfresh
  BY DEF Save, Write
<1>2. {ok, err} \intersect {"issue", "track"} = {}
  BY DEF Exits
<1>3. /\ Removing' => {ok, err} \intersect RemovingLabels # {}
      /\ Creating' => "get" \in {ok, err}
  BY <1>1, <1>2 DEF Removing, Creating, Leads, RemovingLabels
<1>4. Sound(w)'
  BY <1>1 DEF Sound, Deletes, SoundNext
<1>5. PathTokens'
  BY <1>1, <1>3 DEF PathTokens
<1>6. ReleaseEarned'
  BY <1>1 DEF ReleaseEarned
<1>7. QED
  BY <1>1, <1>3, <1>4, <1>5, <1>6 DEF WorkerInv

\* ... or calls AWS with it.
LEMMA Called ==
    ASSUME NEW label \in Calling, NEW copy \in CRs, NEW token,
           Call(label, copy, token), SoundNext(copy),
           copy.abandon => api'.abandon,
           label \in {"issue", "track"} => copy.token.op # "DELETE",
           wfresh /\ label \in RemovingLabels => copy.ident = api'.ident,
           label = "delTrack" => reqs'[token].id = copy.ident
    PROVE  WorkerInv'
<1>1. /\ step'.at = label /\ step'.call = token /\ step'.ok = "" /\ step'.err = ""
      /\ w' = copy /\ wfresh' = wfresh
  BY DEF Call, At, Calling
<1>2. label \notin {"release", "delPoll", "get"}
  BY DEF Calling
<1>3. /\ Removing' => label \in RemovingLabels
      /\ Creating' => label \in {"issue", "track"}
  BY <1>1, <1>2 DEF Removing, Creating, Leads, RemovingLabels
<1>4. Sound(w)'
  BY <1>1 DEF Sound, Deletes, SoundNext
<1>5. PathTokens'
  BY <1>1, <1>2, <1>3 DEF PathTokens
<1>6. ReleaseEarned'
  BY <1>1, <1>2 DEF ReleaseEarned
<1>7. QED
  BY <1>1, <1>3, <1>4, <1>5, <1>6 DEF WorkerInv

\* What a copy becomes when the worker polls or tracks a request.
LEMMA IdentifiedCopy ==
    ASSUME NEW cr \in CRs, NEW id \in Nat
    PROVE  /\ Identified(cr, id) \in CRs
           /\ Identified(cr, id).token = cr.token
           /\ Identified(cr, id).abandon = cr.abandon
           /\ Identified(cr, id).ident \in {cr.ident, id}
BY DEF Identified, CRs

\* While the worker stands still nobody invalidates its copy unnoticed.
LEMMA WorkerIdle ==
    ASSUME TypeOK, ReleaseInv, [Next]_vars, "DELETE" \notin Expiring,
           UNCHANGED <<w, step>>, wfresh' => wfresh,
           api.abandon => api'.abandon, api'.ident = api.ident
    PROVE  WorkerInv'
<1>1. WorkerInv
  BY ReleaseParts
<1>2. w \in CRs /\ Sound(w)
  BY <1>1 DEF TypeOK, WorkerOK, WorkerInv
<1>3. SoundNext(w)
  BY <1>2, SoundStep
<1>4. Sound(w)'
  BY <1>3 DEF Sound, Deletes, SoundNext
<1>5. /\ Removing' <=> Removing
      /\ Creating' <=> Creating
  BY DEF Removing, Creating, Leads
<1>6. step.at = "delTrack" => reqs'[step.call].id = w.ident
  <2> SUFFICES ASSUME step.at = "delTrack" PROVE reqs'[step.call].id = w.ident
    OBVIOUS
  <2>1. step.call \in DOMAIN reqs /\ step.call.op = "DELETE"
    BY DEF TypeOK, Tracked, ReleaseInv, CallTokens
  <2>2. reqs[step.call].id = w.ident
    BY DEF ReleaseInv, PathTokens
  <2>3. QED
    BY <2>1, <2>2, RequestsKept
<1>7. PathTokens'
  BY <1>1, <1>5, <1>6 DEF WorkerInv, PathTokens
<1>8. w.ident \notin DOMAIN live => w.ident \notin DOMAIN live'
  <2>1. w.ident \in Nat /\ made \in Nat /\ w.ident <= made
    BY <1>2, CloudControlAssumption DEF CRs, Sound, TypeOK, AwsOK
  <2>2. QED
    BY <2>1, LiveStep
<1>9. ReleaseEarned'
  BY <1>1, <1>8 DEF WorkerInv, ReleaseEarned
<1>10. QED
  BY <1>1, <1>4, <1>5, <1>7, <1>9 DEF WorkerInv

LEMMA WorkerInvStep ==
    ASSUME TypeOK, ReleaseInv, Next, "DELETE" \notin Expiring
    PROVE  WorkerInv'
<1>1. /\ api \in CRs /\ cache \in CRs /\ w \in CRs
      /\ cfresh \in BOOLEAN /\ wfresh \in BOOLEAN
      /\ made \in Nat /\ made' \in Nat
  BY LiveStep, CloudControlAssumption DEF TypeOK, K8sOK, WorkerOK, AwsOK
<1>2. WorkerInv /\ StoredInv /\ AwsInv /\ CallTokens
  BY ReleaseParts
<1>3. SoundNext(w) /\ SoundNext(cache) /\ w.ident <= made
  BY <1>1, <1>2, SoundStep DEF WorkerInv, StoredInv, Sound
<1>4. api.abandon => api'.abandon
  BY ApiStep
<1>5. w.abandon => api'.abandon
  BY <1>2, <1>4 DEF WorkerInv
<1>6. ASSUME step.at \in RemovingLabels, wfresh PROVE w.ident = api.ident
  BY <1>2, <1>6 DEF WorkerInv, Removing, Leads, RemovingLabels
<1>7. step.at \in {"get", "issue", "track"} => w.token.op # "DELETE"
  BY <1>2 DEF WorkerInv, PathTokens, Creating, Leads
<1>8. \A t \in DOMAIN reqs : reqs[t].id \in Nat /\ reqs[t].id <= made
  BY <1>2 DEF AwsInv, TypeOK, AwsOK, Requests
<1>9. CASE ReconcileAbandoned \/ ReconcileDeleted
  <2>1. PICK exit \in {"release", "delPoll", "check"} :
           /\ Continue(exit, cache, cfresh)
           /\ exit = "delPoll" => cache.token.op = "DELETE"
           /\ exit = "release" => cache.abandon
    BY <1>9 DEF ReconcileAbandoned, ReconcileDeleted, Start
  <2>2. UNCHANGED api
    BY <1>9 DEF ReconcileAbandoned, ReconcileDeleted, Start, k8s
  <2>3. exit \in Plain /\ exit # "get"
    BY DEF Plain
  <2>4. cache.abandon => api'.abandon
    BY <1>2, <2>2 DEF StoredInv
  <2>5. cfresh => cache.ident = api'.ident
    BY <1>2, <2>2 DEF StoredInv
  <2>6. QED
    BY <2>1, <2>3, <2>4, <2>5, <1>1, <1>3, Continued
<1>10. CASE ReconcileNew \/ ReconcileExisting
  <2>1. PICK exit \in {"addFinalizer", "get", "poll"} :
           /\ Continue(exit, cache, cfresh)
           /\ exit = "get" => cache.token.op # "DELETE"
    BY <1>10, BlankFields DEF ReconcileNew, ReconcileExisting, Start
  <2>2. UNCHANGED api
    BY <1>10 DEF ReconcileNew, ReconcileExisting, Start, k8s
  <2>3. exit \in Plain /\ exit \notin RemovingLabels
    BY DEF Plain, RemovingLabels
  <2>4. exit # "release" /\ exit # "delPoll"
    OBVIOUS
  <2>5. cache.abandon => api'.abandon
    BY <1>2, <2>2 DEF StoredInv
  <2>6. QED
    BY <2>1, <2>3, <2>4, <2>5, <1>1, <1>3, Continued
<1>11. CASE AddFinalizer \/ RemoveFinalizer \/ Crash
  BY <1>11, <1>1, BlankCopy DEF AddFinalizer, RemoveFinalizer, Crash
<1>12. step.at = "save" => step.ok \in Exits /\ step.err \in Exits
  BY DEF TypeOK, WorkerOK, Steps, Plain, Calling
<1>13. CASE Persist
  <2>1. Continue(step.ok, api', TRUE) /\ step.ok \in Exits /\ live' = live
    BY <1>12, <1>13 DEF Persist, aws
  <2>2. api' \in CRs
    BY WorkType, <1>13 DEF Work, TypeOK, K8sOK
  <2>3. api'.token = w.token /\ api'.ident = w.ident
    BY <1>1, <1>13 DEF Persist, CRs
  <2>4. SoundNext(api')
    BY <1>3, <2>3 DEF SoundNext
  <2>5. step.ok = "get" => api'.token.op # "DELETE"
    BY <1>2, <2>3 DEF WorkerInv, PathTokens, Creating, Leads
  <2>6. step.ok = "release" => api'.ident \notin DOMAIN live'
    BY <1>2, <2>1, <2>3 DEF WorkerInv, ReleaseEarned
  <2>7. step.ok # "delPoll"
    BY <2>1 DEF Exits
  <2>8. QED
    BY <2>1, <2>2, <2>4, <2>5, <2>6, <2>7, <1>1, Continued
<1>14. CASE PersistConflict \/ PersistError
  <2>1. Continue(step.err, w, wfresh) /\ step.err \in Exits /\ UNCHANGED api
    BY <1>12, <1>14 DEF PersistConflict, PersistError, k8s
  <2>2. step.err # "release" /\ step.err # "delPoll"
    BY <1>2, <2>1 DEF WorkerInv, ReleaseEarned, Exits
  <2>3. step.err = "get" => w.token.op # "DELETE"
    BY <1>2 DEF WorkerInv, PathTokens, Creating, Leads
  <2>4. step.err \in RemovingLabels /\ wfresh => w.ident = api'.ident
    BY <1>2, <2>1 DEF WorkerInv, Removing, Leads, RemovingLabels
  <2>5. QED
    BY <2>1, <2>2, <2>3, <2>4, <1>1, <1>3, <1>5, Continued
<1>15. ASSUME w.token \in DOMAIN reqs
       PROVE  LET c == Identified(w, reqs[w.token].id) IN
              /\ c \in CRs /\ SoundNext(c)
              /\ c.abandon = w.abandon /\ c.token = w.token
              /\ w.token.op = "DELETE" => c.ident = w.ident
  <2> DEFINE id == reqs[w.token].id
             c == Identified(w, id)
  <2>1. id \in Nat /\ id <= made
    BY <1>8, <1>15
  <2> HIDE DEF id
  <2>2. /\ c \in CRs /\ c.token = w.token /\ c.abandon = w.abandon
        /\ c.ident \in {w.ident, id}
    BY <2>1, <1>1, IdentifiedCopy
  <2>3. w.token.op = "DELETE" => id = w.ident
    BY <1>2 DEF WorkerInv, Sound, Deletes, id
  <2>4. c.ident <= made
    BY <2>1, <2>2, <1>3
  <2> HIDE DEF c
  <2>5. Sound(c)
    BY <1>2, <2>2, <2>3, <2>4 DEF WorkerInv, Sound, Deletes
  <2>6. SoundNext(c)
    BY <2>2, <2>5, SoundStep
  <2>7. QED
    BY <2>2, <2>3, <2>6 DEF c, id
<1>16. ASSUME NEW c \in CRs, NEW d, SoundNext(c), Carries(d, c)
       PROVE  SoundNext(d) /\ d.ident = c.ident /\ d.abandon = c.abandon
  BY <1>16, BlankFields DEF SoundNext, Carries
<1>17. CASE Poll
  <2>1. UNCHANGED api
    BY <1>17 DEF Poll, PollRequest, k8s
  <2>2. PICK c \in CRs, ok \in Exits :
           /\ Save(c, ok, "fail") /\ SoundNext(c) /\ c.abandon = w.abandon
           /\ ok \in {"get", "fail", "pending"}
           /\ ok = "get" => c.token = NoToken
    <3> DEFINE copy == Identified(w, reqs[w.token].id)
    <3>1. \/ Save(Cleared(w), "get", "fail")
          \/ /\ w.token \in DOMAIN reqs
             /\ \/ Save(Cleared(copy), "get", "fail")
                \/ Save(Failed(copy), "fail", "fail")
                \/ Save(copy, "pending", "fail")
      BY <1>17 DEF Poll, PollRequest
    <3>2. w.token \in DOMAIN reqs =>
             copy \in CRs /\ SoundNext(copy) /\ copy.abandon = w.abandon
      BY <1>15
    <3> HIDE DEF copy
    <3>3. ASSUME NEW c \in CRs, SoundNext(c), c.abandon = w.abandon
          PROVE  /\ Cleared(c) \in CRs /\ SoundNext(Cleared(c))
                 /\ Cleared(c).abandon = w.abandon /\ Cleared(c).token = NoToken
                 /\ Failed(c) \in CRs /\ SoundNext(Failed(c))
                 /\ Failed(c).abandon = w.abandon
      BY <3>3, <1>16, CopyType, CarriesCopy
    <3>4. {"get", "fail", "pending"} \subseteq Exits
      BY DEF Exits
    <3>5. CASE Save(Cleared(w), "get", "fail")
      BY <3>3, <3>4, <3>5, <1>1, <1>3
    <3>6. CASE w.token \in DOMAIN reqs /\ Save(Cleared(copy), "get", "fail")
      BY <3>2, <3>3, <3>4, <3>6
    <3>7. CASE w.token \in DOMAIN reqs /\ Save(Failed(copy), "fail", "fail")
      BY <3>2, <3>3, <3>4, <3>7
    <3>8. CASE w.token \in DOMAIN reqs /\ Save(copy, "pending", "fail")
      BY <3>2, <3>4, <3>8
    <3>9. QED
      BY <3>1, <3>5, <3>6, <3>7, <3>8
  <2>3. /\ "fail" \in Exits \ {"release"} /\ ok # "release"
        /\ {ok, "fail"} \intersect RemovingLabels = {}
    BY <2>2 DEF Exits, RemovingLabels
  <2>4. "get" \in {ok, "fail"} => c.token.op # "DELETE"
    BY <2>2, BlankFields
  <2>5. c.abandon => api'.abandon
    BY <2>1, <2>2, <1>5
  <2>6. QED
    BY <2>2, <2>3, <2>4, <2>5, Saved
<1>18. CASE DeletePoll
  <2> DEFINE copy == Identified(w, reqs[w.token].id)
  <2>1. step.at = "delPoll" /\ UNCHANGED <<api, live>>
    BY <1>18 DEF DeletePoll, PollRequest, k8s, aws
  <2>2. w.token.op = "DELETE"
    BY <2>1, <1>2 DEF WorkerInv, PathTokens
  <2>3. w.token \in DOMAIN reqs /\ reqs[w.token].id = w.ident
    BY <2>2, <1>2 DEF WorkerInv, Sound, Deletes
  <2>4. /\ copy \in CRs /\ SoundNext(copy) /\ copy.abandon = w.abandon
        /\ copy.ident = w.ident
    BY <2>2, <2>3, <1>15
  <2>5. \/ /\ reqs[w.token].status \in {"SUCCESS", "GONE"}
           /\ Save(Cleared(copy), "release", "check")
        \/ Save(Failed(copy), "check", "check")
        \/ Save(copy, "pending", "check")
    BY <1>18, <2>3 DEF DeletePoll, PollRequest
  <2> HIDE DEF copy
  <2>6. ASSUME reqs[w.token].status \in {"SUCCESS", "GONE"}
        PROVE  w.ident \notin DOMAIN live'
    BY <2>1, <2>2, <2>3, <2>6, <1>2 DEF AwsInv, DeletedIsGone
  <2>7. PICK c \in CRs, ok \in Exits :
           /\ Save(c, ok, "check") /\ SoundNext(c)
           /\ c.abandon = w.abandon /\ c.ident = w.ident
           /\ ok # "get" /\ (ok = "release" => w.ident \notin DOMAIN live')
    <3>1. {"release", "check", "pending"} \subseteq Exits
      BY DEF Exits
    <3>2. /\ Cleared(copy) \in CRs /\ Failed(copy) \in CRs
          /\ Carries(Cleared(copy), copy) /\ Carries(Failed(copy), copy)
      BY <2>4, CopyType, CarriesCopy
    <3>3. /\ SoundNext(Cleared(copy)) /\ SoundNext(Failed(copy))
          /\ Cleared(copy).ident = w.ident /\ Cleared(copy).abandon = w.abandon
          /\ Failed(copy).ident = w.ident /\ Failed(copy).abandon = w.abandon
      BY <3>2, <2>4, <1>16
    <3>4. CASE reqs[w.token].status \in {"SUCCESS", "GONE"}
               /\ Save(Cleared(copy), "release", "check")
      BY <3>1, <3>2, <3>3, <3>4, <2>6
    <3>5. CASE Save(Failed(copy), "check", "check")
      BY <3>1, <3>2, <3>3, <3>5
    <3>6. CASE Save(copy, "pending", "check")
      BY <3>1, <3>6, <2>4
    <3>7. QED
      BY <3>4, <3>5, <3>6, <2>5
  <2>8. "check" \in Exits \ {"release"} /\ "get" \notin {ok, "check"}
    BY <2>7 DEF Exits
  <2>9. wfresh => c.ident = api'.ident
    BY <2>1, <2>7, <1>6 DEF RemovingLabels
  <2>10. (c.abandon => api'.abandon) /\ (ok = "release" => c.ident \notin DOMAIN live')
    BY <2>7, <1>5
  <2>11. QED
    BY <2>7, <2>8, <2>9, <2>10, Saved
<1>19. CASE PollError
  <2>1. UNCHANGED api
    BY <1>19 DEF PollError, k8s
  <2>2. PICK exit \in {"fail", "check"} :
           Continue(exit, w, wfresh) /\ (exit = "check" => step.at = "delPoll")
    BY <1>19 DEF PollError
  <2>3. exit \in RemovingLabels /\ wfresh => w.ident = api'.ident
    BY <2>1, <2>2, <1>6 DEF RemovingLabels
  <2>4. /\ exit \in Exits /\ exit # "get" /\ exit # "delPoll" /\ exit # "release"
    BY DEF Exits
  <2>5. QED
    BY <2>2, <2>3, <2>4, <1>1, <1>3, <1>5, Continued
<1>20. Identifier(w) \in Nat /\ Identifier(w) <= made /\ NoId \in Nat /\ NoId <= made
  BY <1>1, <1>2, <1>3, CloudControlAssumption DEF Identifier, NoId, AwsInv, CRs
<1>21. ASSUME w.token.op # "DELETE", NEW c \in CRs, c.token = w.token,
              c.ident \in Nat, c.ident <= made
       PROVE  SoundNext(c)
  <2>1. Sound(c)
    BY <1>21 DEF Sound, Deletes
  <2>2. QED
    BY <2>1, SoundStep
<1>22. {"idle", "fail"} \subseteq Exits \ {"release"}
       /\ {"idle", "fail", "get"} \intersect RemovingLabels = {}
  BY DEF Exits, RemovingLabels
<1>23. CASE InSync
  <2>1. \A c \in CRs, id \in Nat :
          LET d == [c EXCEPT !.ident = id, !.obsGen = c.gen, !.ready = TRUE] IN
          d \in CRs /\ d.token = c.token /\ d.abandon = c.abandon /\ d.ident = id
    BY DEF CRs
  <2> DEFINE c == [w EXCEPT !.ident = Identifier(w), !.obsGen = w.gen, !.ready = TRUE]
  <2>2. /\ c \in CRs /\ c.token = w.token /\ c.abandon = w.abandon
        /\ c.ident = Identifier(w)
    BY <2>1, <1>1, <1>20
  <2>6. Save(c, "idle", "fail")
    BY <1>23 DEF InSync
  <2> HIDE DEF c
  <2>3. SoundNext(c) /\ c.token.op # "DELETE"
    BY <2>2, <1>7, <1>20, <1>21, <1>23 DEF InSync
  <2>4. c.abandon => api'.abandon
    BY <2>2, <1>5
  <2>5. QED
    BY <2>2, <2>3, <2>4, <2>6, <1>22, Saved
<1>24. CASE PlanUpdate \/ PlanCreate
  <2>1. \A c \in CRs, id \in Nat :
          LET d == [c EXCEPT !.ident = id] IN
          d \in CRs /\ d.token = c.token /\ d.abandon = c.abandon /\ d.ident = id
    BY DEF CRs
  <2>2. PICK id, t : /\ id \in {Identifier(w), NoId}
                     /\ Call("issue", [w EXCEPT !.ident = id], t)
    BY <1>24 DEF PlanUpdate, PlanCreate
  <2> DEFINE c == [w EXCEPT !.ident = id]
  <2>3. c \in CRs /\ c.token = w.token /\ c.abandon = w.abandon /\ c.ident = id
    BY <2>1, <2>2, <1>1, <1>20
  <2>4. id \in Nat /\ id <= made /\ Call("issue", c, t)
    BY <2>2, <1>20
  <2> HIDE DEF c
  <2>5. w.token.op # "DELETE"
    BY <1>7, <1>24 DEF PlanUpdate, PlanCreate
  <2>6. SoundNext(c)
    BY <2>3, <2>4, <2>5, <1>21
  <2>7. /\ "issue" \in Calling /\ "issue" \notin RemovingLabels
        /\ c.token.op # "DELETE" /\ (c.abandon => api'.abandon)
    BY <2>3, <2>5, <1>5 DEF Calling, RemovingLabels
  <2>8. QED
    BY <2>3, <2>4, <2>6, <2>7, Called
<1>25. CASE Issue
  <2>1. step.at = "issue" /\ Call("track", w, step.call)
    BY <1>25 DEF Issue, Request
  <2>2. "track" \in Calling /\ "track" \notin RemovingLabels
    BY DEF Calling, RemovingLabels
  <2>3. QED
    BY <2>1, <2>2, <1>1, <1>3, <1>5, <1>7, Called
<1>26. CASE UpdateRefused
  <2>1. step.at = "issue" /\ Save(NotReady(w), "idle", "fail")
    BY <1>26 DEF UpdateRefused
  <2>2. NotReady(w) \in CRs /\ Carries(NotReady(w), w)
    BY <1>1, CopyType, CarriesCopy
  <2>3. SoundNext(NotReady(w)) /\ (NotReady(w).abandon => api'.abandon)
    BY <2>2, <1>1, <1>3, <1>5, <1>16
  <2>4. QED
    BY <2>1, <2>2, <2>3, <1>22, Saved
<1>27. CASE TokenConflict
  <2>1. Continue("fail", w, wfresh) \/ Return
    BY <1>27 DEF TokenConflict
  <2>2. QED
    BY <2>1, <1>1, <1>3, <1>5, <1>22, Continued, BlankCopy
<1>28. CASE CallError
  <2>1. CASE Continue("fail", w, wfresh) \/ Return
    BY <2>1, <1>1, <1>3, <1>5, <1>22, Continued, BlankCopy
  <2>2. CASE step.at = "get" /\ \E c \in CRs :
                /\ Continue("fail", c, wfresh)
                /\ c.ident = Identifier(w) /\ c.token = w.token
                /\ c.abandon = w.abandon
    <3>1. PICK c \in CRs :
             /\ Continue("fail", c, wfresh)
             /\ c.ident = Identifier(w) /\ c.token = w.token
             /\ c.abandon = w.abandon
      BY <2>2
    <3>2. SoundNext(c) /\ (c.abandon => api'.abandon)
      BY <2>2, <3>1, <1>5, <1>7, <1>20, <1>21
    <3>3. QED
      BY <3>1, <3>2, <1>1, <1>22, Continued
  <2>3. QED
    BY <1>28, <2>1, <2>2, FailedCall
<1>29. CASE TrackOperation
  <2> DEFINE ev == reqs[step.call]
             copy == Identified(w, ev.id)
             c == [copy EXCEPT !.token = step.call]
  <2>1. step.at = "track"
    BY <1>29 DEF TrackOperation
  <2>2. step.call \in DOMAIN reqs /\ step.call \in Tokens /\ step.call.op # "DELETE"
    BY <2>1, <1>2 DEF TypeOK, Tracked, AwsOK, CallTokens
  <2>3. ev.id \in Nat /\ ev.id <= made
    BY <2>2, <1>8
  <2>4. /\ copy \in CRs /\ copy.abandon = w.abandon
        /\ copy.ident \in Nat /\ copy.ident <= made
    <3> HIDE DEF ev
    <3>1. copy \in CRs /\ copy.abandon = w.abandon /\ copy.ident \in {w.ident, ev.id}
      BY <2>3, <1>1, IdentifiedCopy
    <3>2. w.ident \in Nat
      BY <1>1 DEF CRs
    <3> HIDE DEF copy
    <3>3. QED
      BY <3>1, <3>2, <2>3, <1>3
  <2>5. \A d \in CRs, t \in Tokens :
          LET e == [d EXCEPT !.token = t] IN
          e \in CRs /\ e.token = t /\ e.abandon = d.abandon /\ e.ident = d.ident
    BY DEF CRs
  <2>6. PICK ok \in {"trackFailed", "trackDone", "pending"} : Save(c, ok, "fail")
    BY <1>29 DEF TrackOperation
  <2> HIDE DEF copy
  <2>7. /\ c \in CRs /\ c.token = step.call /\ c.abandon = w.abandon
        /\ c.ident <= made
    BY <2>2, <2>4, <2>5
  <2> HIDE DEF c
  <2>8. Sound(c)
    BY <2>2, <2>7 DEF Sound, Deletes
  <2>9. SoundNext(c) /\ (c.abandon => api'.abandon)
    BY <2>7, <2>8, <1>5, SoundStep
  <2>10. ok \in Exits /\ ok # "release" /\ ok \notin RemovingLabels
    BY DEF Exits, RemovingLabels
  <2>11. QED
    BY <2>2, <2>6, <2>7, <2>9, <2>10, <1>22, Saved
<1>30. CASE DeleteDone
  <2>1. /\ step.at \in RemovingLabels /\ Continue("release", Cleared(w), wfresh)
        /\ w.ident \notin DOMAIN live /\ UNCHANGED <<api, live>>
    BY <1>30 DEF DeleteDone, RemovingLabels, k8s, aws
  <2>2. Cleared(w) \in CRs /\ Carries(Cleared(w), w)
    BY <1>1, CopyType, CarriesCopy
  <2>3. /\ SoundNext(Cleared(w)) /\ Cleared(w).ident = w.ident
        /\ Cleared(w).abandon = w.abandon
    BY <2>2, <1>1, <1>3, <1>16
  <2>4. wfresh => Cleared(w).ident = api'.ident
    BY <2>1, <2>3, <1>6
  <2>5. Cleared(w).ident \notin DOMAIN live' /\ (Cleared(w).abandon => api'.abandon)
    BY <2>1, <2>3, <1>5
  <2>6. "release" \in Plain
    BY DEF Plain
  <2>7. QED
    BY <2>1, <2>2, <2>3, <2>4, <2>5, <2>6, <1>1, Continued
<1>31. CASE PlanDelete
  <2>1. PICK t : Call("delIssue", w, t)
    BY <1>31 DEF PlanDelete
  <2>2. step.at = "check" /\ UNCHANGED api
    BY <1>31 DEF PlanDelete, k8s
  <2>3. wfresh => w.ident = api'.ident
    BY <2>2, <1>6 DEF RemovingLabels
  <2>4. "delIssue" \in Calling
    BY DEF Calling
  <2>5. QED
    BY <2>1, <2>3, <2>4, <1>1, <1>3, <1>5, Called
<1>32. CASE DeleteIssue
  <2>1. /\ step.at = "delIssue" /\ Call("delTrack", w, step.call)
        /\ UNCHANGED api /\ ~Conflicting
    BY <1>32 DEF DeleteIssue, Request, k8s
  <2>2. PICK r : r.id = Target /\ reqs' = Extend(reqs, step.call, r)
    BY <1>32 DEF DeleteIssue, Request
  <2>3. step.call.op = "DELETE"
    BY <2>1, <1>2 DEF CallTokens
  <2>4. Target = w.ident
    BY <2>3 DEF Target
  <2>5. reqs'[step.call].id = w.ident
    <3>1. CASE step.call \in DOMAIN reqs
      <4>1. reqs[step.call].id = w.ident
        BY <3>1, <2>1, <2>3, <2>4 DEF Conflicting
      <4>2. reqs'[step.call] = reqs[step.call]
        BY <3>1, <2>2 DEF Extend
      <4>3. QED
        BY <4>1, <4>2
    <3>2. CASE step.call \notin DOMAIN reqs
      BY <3>2, <2>2, <2>4 DEF Extend
    <3>3. QED
      BY <3>1, <3>2
  <2>6. wfresh => w.ident = api'.ident
    BY <2>1, <1>6 DEF RemovingLabels
  <2>7. "delTrack" \in Calling
    BY DEF Calling
  <2>8. QED
    BY <2>1, <2>5, <2>6, <2>7, <1>1, <1>3, <1>5, Called
<1>33. CASE DeleteTrack
  <2> DEFINE c == [w EXCEPT !.token = step.call]
  <2>1. step.at = "delTrack" /\ UNCHANGED <<api, live>>
    BY <1>33 DEF DeleteTrack, k8s, aws
  <2>2. /\ step.call \in DOMAIN reqs /\ step.call \in Tokens
        /\ step.call.op = "DELETE" /\ reqs[step.call].id = w.ident
    BY <2>1, <1>2 DEF TypeOK, Tracked, AwsOK, CallTokens, WorkerInv, PathTokens
  <2>3. \A d \in CRs, t \in Tokens :
          LET e == [d EXCEPT !.token = t] IN
          e \in CRs /\ e.token = t /\ e.abandon = d.abandon /\ e.ident = d.ident
    BY DEF CRs
  <2>4. /\ c \in CRs /\ c.token = step.call /\ c.abandon = w.abandon
        /\ c.ident = w.ident
    BY <2>2, <2>3, <1>1
  <2>5. PICK ok \in {"release", "idle"} :
           /\ Save(c, ok, "idle")
           /\ ok = "release" => reqs[step.call].status \in {"SUCCESS", "GONE"}
    BY <1>33 DEF DeleteTrack
  <2> HIDE DEF c
  <2>6. Sound(c)
    BY <2>2, <2>4, <1>3 DEF Sound, Deletes
  <2>7. SoundNext(c) /\ (c.abandon => api'.abandon)
    BY <2>4, <2>6, <1>5, SoundStep
  <2>8. ok = "release" => c.ident \notin DOMAIN live'
    BY <2>1, <2>2, <2>4, <2>5, <1>2 DEF AwsInv, DeletedIsGone
  <2>9. wfresh => c.ident = api'.ident
    BY <2>1, <2>4, <1>6 DEF RemovingLabels
  <2>10. ok \in Exits /\ "idle" \in Exits \ {"release"} /\ ok # "get"
    BY DEF Exits
  <2>11. QED
    BY <2>4, <2>5, <2>7, <2>8, <2>9, <2>10, Saved
<1>34. CASE \/ CacheSync \/ UserEdit \/ UserAbandon \/ UserDelete \/ Handlers
            \/ AwsFailed \/ AwsExpire \/ AwsExpireUnseen \/ Drift \/ ExternalDelete
  <2>1. UNCHANGED step
    BY <1>34, EnvironmentStep
  <2>4. UNCHANGED w
    BY <1>34
    DEF CacheSync, UserEdit, UserAbandon, UserDelete, UserWrite, Handlers,
        AwsMaterialise, AwsCreated, AwsUpdated, AwsDeleted, AwsGone, AwsFailed,
        AwsExpire, AwsExpireUnseen, Forget, Drift, ExternalDelete, worker
  <2>5. wfresh' => wfresh
    BY <1>34, <1>1
    DEF CacheSync, UserEdit, UserAbandon, UserDelete, UserWrite, Handlers,
        AwsMaterialise, AwsCreated, AwsUpdated, AwsDeleted, AwsGone, AwsFailed,
        AwsExpire, AwsExpireUnseen, Forget, Drift, ExternalDelete, worker
  <2>2. api'.ident = api.ident
    BY <1>34, <1>1
    DEF CacheSync, UserEdit, UserAbandon, UserDelete, UserWrite, Handlers,
        AwsMaterialise, AwsCreated, AwsUpdated, AwsDeleted, AwsGone, AwsFailed,
        AwsExpire, AwsExpireUnseen, Forget, Drift, ExternalDelete, k8s, CRs
  <2>3. QED
    BY <2>1, <2>2, <2>4, <2>5, <1>4, WorkerIdle
<1>35. QED
  BY <1>9, <1>10, <1>11, <1>13, <1>14, <1>17, <1>18, <1>19, <1>23, <1>24, <1>25,
     <1>26, <1>27, <1>28, <1>29, <1>30, <1>31, <1>32, <1>33, <1>34 DEF Next, Work

LEMMA StoredInvStep ==
    ASSUME TypeOK, ReleaseInv, Next, "DELETE" \notin Expiring
    PROVE  StoredInv'
<1>1. api \in CRs /\ cache \in CRs /\ w \in CRs
  BY DEF TypeOK, K8sOK, WorkerOK
<1>2. WorkerInv /\ StoredInv
  BY ReleaseParts
<1>3. SoundNext(api) /\ SoundNext(cache) /\ SoundNext(w)
  BY <1>1, <1>2, SoundStep DEF StoredInv, WorkerInv
<1>4. \/ api'.token = api.token /\ api'.ident = api.ident
      \/ api'.token = w.token /\ api'.ident = w.ident
  <2>1. CASE Local \/ CacheSync
    BY <2>1, LocalStep DEF k8s, CacheSync
  <2>2. CASE AddFinalizer \/ RemoveFinalizer
    BY <2>2, <1>1 DEF AddFinalizer, RemoveFinalizer, CRs
  <2>3. CASE Persist
    BY <2>3, <1>1 DEF Persist, CRs
  <2>4. CASE UserEdit \/ UserAbandon \/ UserDelete
    BY <2>4, <1>1 DEF UserEdit, UserAbandon, UserDelete, UserWrite, CRs
  <2>5. QED
    BY <2>1, <2>2, <2>3, <2>4, NextCases
<1>5. Sound(api)'
  BY <1>3, <1>4 DEF SoundNext, Sound, Deletes
<1>6. \/ cache' = api /\ api' = api
      \/ cache' = cache /\ (cfresh' => cfresh)
  BY <1>1, NextCases, LocalStep
  DEF k8s, AddFinalizer, RemoveFinalizer, Persist, CacheSync,
      UserEdit, UserAbandon, UserDelete, UserWrite
<1>7. Sound(cache)'
  BY <1>3, <1>6 DEF SoundNext, Sound, Deletes
<1>8. cfresh' => cache' = api'
  BY <1>2, <1>6, ApiStep DEF StoredInv
<1>9. cache'.abandon => api'.abandon
  BY <1>2, <1>6, ApiStep DEF StoredInv
<1>10. QED
  BY <1>5, <1>7, <1>8, <1>9 DEF StoredInv

LEMMA AwsInvStep ==
    ASSUME TypeOK, ReleaseInv, Next
    PROVE  AwsInv'
<1> USE DEF TypeOK, AwsOK
<1>1. WorkerInv /\ AwsInv /\ w \in CRs
  BY ReleaseParts DEF WorkerOK
<1>2. /\ made \in Nat /\ made' \in Nat /\ made <= made' /\ SpecIdentifier \in Nat
      /\ \A i \in DOMAIN live' : i \in DOMAIN live \/ (made < i /\ i <= made')
  BY LiveStep, CloudControlAssumption DEF NoId
<1>3. SpecIdentifier <= made'
  BY <1>1, <1>2 DEF AwsInv
<1>4. ASSUME NEW i \in DOMAIN live' PROVE i <= made'
  <2>1. CASE i \in DOMAIN live
    <3>1. i \in Nat /\ i <= made
      BY <2>1, <1>1 DEF AwsInv, Ids
    <3>2. QED
      BY <3>1, <1>2
  <2>2. QED
    BY <2>1, <1>2
<1>5. DeletedIsGone'
  BY DeletedStep DEF ReleaseInv
<1>6. ASSUME NEW t \in DOMAIN reqs', t \in DOMAIN reqs, reqs'[t].id = reqs[t].id
      PROVE  reqs'[t].id <= made'
  <2>1. reqs[t].id \in Nat /\ reqs[t].id <= made
    BY <1>1, <1>6 DEF AwsInv, Requests
  <2>2. QED
    BY <2>1, <1>2, <1>6
<1>7. ASSUME NEW t \in DOMAIN reqs' PROVE reqs'[t].id <= made'
  <2>1. CASE UNCHANGED reqs
    BY <2>1, <1>6
  <2>2. CASE Issue \/ DeleteIssue
    <3>1. PICK r : /\ r.id = Target /\ reqs' = Extend(reqs, step.call, r)
                   /\ UNCHANGED made
      BY <2>2 DEF Issue, DeleteIssue, Request
    <3>2. Target \in Nat /\ Target <= made
      BY <1>1, <1>2 DEF Target, NoId, WorkerInv, Sound, CRs
    <3>3. t \in DOMAIN reqs => reqs'[t] = reqs[t]
      BY <3>1 DEF Extend
    <3>4. t \notin DOMAIN reqs => reqs'[t] = r
      BY <3>1 DEF Extend
    <3>5. QED
      BY <3>1, <3>2, <3>3, <3>4, <1>6
  <2>3. CASE AwsMaterialise
    <3>1. PICK r \in DOMAIN reqs :
             reqs' = [reqs EXCEPT ![r].id = made + 1] /\ made' = made + 1
      BY <2>3 DEF AwsMaterialise, Running
    <3>2. t \in DOMAIN reqs /\ reqs[t] \in Requests
      BY <3>1
    <3>3. reqs'[t] = IF t = r THEN [reqs[t] EXCEPT !.id = made + 1] ELSE reqs[t]
      BY <3>1, <3>2
    <3>4. CASE t = r
      BY <3>1, <3>2, <3>3, <3>4, <1>2 DEF Requests
    <3>5. CASE t # r
      BY <3>2, <3>3, <3>5, <1>6
    <3>6. QED
      BY <3>4, <3>5
  <2>4. CASE AwsCreated \/ AwsUpdated \/ AwsDeleted \/ AwsGone \/ AwsFailed
    <3>1. PICK r, s : r \in DOMAIN reqs /\ reqs' = Finish(r, s)
      BY <2>4 DEF AwsCreated, AwsUpdated, AwsDeleted, AwsGone, AwsFailed, Running
    <3>2. t \in DOMAIN reqs /\ reqs[t] \in Requests
      BY <3>1 DEF Finish
    <3>3. reqs'[t] = IF t = r THEN [reqs[t] EXCEPT !.status = s] ELSE reqs[t]
      BY <3>1, <3>2 DEF Finish
    <3>4. reqs'[t].id = reqs[t].id
      BY <3>2, <3>3 DEF Requests
    <3>5. QED
      BY <3>2, <3>4, <1>6
  <2>5. CASE AwsExpire \/ AwsExpireUnseen
    <3>1. PICK r \in DOMAIN reqs : Forget(r)
      BY <2>5 DEF AwsExpire, AwsExpireUnseen
    <3>2. t \in DOMAIN reqs /\ reqs'[t] = reqs[t]
      BY <3>1 DEF Forget, Restrict
    <3>3. QED
      BY <3>2, <1>6
  <2>6. QED
    BY <2>1, <2>2, <2>3, <2>4, <2>5
    DEF Next, Work, Handlers, aws,
        ReconcileAbandoned, ReconcileDeleted, ReconcileNew, ReconcileExisting,
        Start, AddFinalizer, RemoveFinalizer, Persist, PersistConflict,
        PersistError, Poll, DeletePoll, PollRequest, PollError, InSync, PlanUpdate,
        PlanCreate, UpdateRefused, TokenConflict, CallError, TrackOperation,
        DeleteDone, PlanDelete, DeleteTrack, Crash, CacheSync, UserEdit,
        UserAbandon, UserDelete, UserWrite, Drift, ExternalDelete
<1>8. QED
  BY <1>3, <1>4, <1>5, <1>7 DEF AwsInv

LEMMA InitRelease == Init => ReleaseInv
<1> SUFFICES ASSUME Init PROVE ReleaseInv
  OBVIOUS
<1>1. step.at = "idle" /\ step.ok = "" /\ step.err = ""
  BY AtMarks DEF Init
<1>2. PICK want \in Wants :
         api = [BlankCR EXCEPT !.exists = TRUE, !.gen = 1, !.want = want]
  BY DEF Init
<1>3. api.token = NoToken /\ api.ident = 0 /\ ~api.abandon
  BY <1>2, BlankFields, BlankType DEF CRs
<1>4. w.token = NoToken /\ w.ident = 0 /\ ~w.abandon
  BY BlankFields DEF Init
<1>5. cache = api /\ DOMAIN reqs = {}
  BY DEF Init
<1>6. made = SpecIdentifier /\ SpecIdentifier \in Nat
  BY CloudControlAssumption DEF Init, NoId
<1>7. ~Removing /\ ~Creating
  BY <1>1 DEF Removing, Creating, Leads
<1>8. TokensKept
  BY <1>3, <1>4, <1>5, BlankFields DEF TokensKept, Deletes
<1>9. IdsKnown
  <2>1. DOMAIN live \subseteq {SpecIdentifier}
    BY DEF Init
  <2>2. 0 <= made /\ made <= made
    BY <1>6
  <2>3. QED
    BY <2>1, <2>2, <1>3, <1>4, <1>5, <1>6 DEF IdsKnown
<1>10. DeletedIsGone
  BY <1>5 DEF DeletedIsGone
<1>11. CallTokens /\ PathTokens /\ ReleaseEarned
  BY <1>1, <1>7 DEF CallTokens, PathTokens, ReleaseEarned
<1>12. CopyIsCurrent
  BY <1>4, <1>5, <1>7 DEF CopyIsCurrent
<1>13. QED
  BY <1>8, <1>9, <1>10, <1>11, <1>12 DEF ReleaseInv

LEMMA ReleaseStep ==
    ASSUME TypeOK, ReleaseInv, [Next]_vars, "DELETE" \notin Expiring
    PROVE  ReleaseInv'
<1>1. CASE Next
  <2>1. WorkerInv' /\ StoredInv' /\ AwsInv'
    BY <1>1, WorkerInvStep, StoredInvStep, AwsInvStep
  <2>2. CallTokens'
    BY <1>1, CallTokensStep DEF ReleaseInv
  <2>3. (ReleaseInv <=> CallTokens /\ WorkerInv /\ StoredInv /\ AwsInv)'
    BY DEF ReleaseInv, TokensKept, IdsKnown, CopyIsCurrent, WorkerInv, StoredInv,
           AwsInv, Sound
  <2>4. QED
    BY <2>1, <2>2, <2>3
<1>2. CASE UNCHANGED vars
  BY <1>2 DEF vars, ReleaseInv, TokensKept, Deletes, IdsKnown, DeletedIsGone,
              CallTokens, PathTokens, Creating, CopyIsCurrent, Removing,
              ReleaseEarned, Leads
<1>3. QED
  BY <1>1, <1>2

\* As long as AWS remembers the deletes it ran, the finalizer of a CR that was
\* not abandoned goes only after the resource its status identifies.
THEOREM ReleaseAfterDelete ==
    ASSUME "DELETE" \notin Expiring
    PROVE  Spec => ReleasedWhenGone
<1>1. Init => ReleaseInv
  BY InitRelease
<1>2. TypeOK /\ ReleaseInv /\ [Next]_vars => ReleaseInv'
  BY ReleaseStep
<1>3. ASSUME TypeOK, ReleaseInv, Next,
             api.exists, ~api'.exists, api.finalizer, ~api.abandon
      PROVE  api.ident \notin DOMAIN live
  <2>1. RemoveFinalizer
    BY <1>3, ApiStep
  <2>2. step.at = "release" /\ wfresh
    BY <2>1, <1>3 DEF RemoveFinalizer
  <2>3. Removing
    BY <2>2 DEF Removing, Leads
  <2>4. w.ident = api.ident /\ ~w.abandon
    BY <1>3, <2>2, <2>3 DEF ReleaseInv, CopyIsCurrent
  <2>5. QED
    BY <1>3, <2>2, <2>4 DEF ReleaseInv, ReleaseEarned
<1>4. TypeOK /\ ReleaseInv /\ [Next]_vars
        => [api.exists /\ ~api'.exists /\ api.finalizer /\ ~api.abandon
              => api.ident \notin DOMAIN live]_vars
  BY <1>3
<1>5. QED
  BY <1>1, <1>2, <1>4, TypeCorrect, PTL DEF Spec, ReleasedWhenGone

-----------------------------------------------------------------------------
(* Until its spec is edited a CR owns one resource.                         *)

\* The steps that change what AWS holds.
LEMMA AwsStep ==
    ASSUME [Next]_vars
    PROVE  \/ UNCHANGED aws \/ Issue \/ DeleteIssue \/ Handlers \/ AwsFailed
           \/ AwsExpire \/ AwsExpireUnseen \/ Drift \/ ExternalDelete
BY DEF Next, Work, vars, aws,
       ReconcileAbandoned, ReconcileDeleted, ReconcileNew, ReconcileExisting,
       Start, AddFinalizer, RemoveFinalizer, Persist, PersistConflict,
       PersistError, Poll, DeletePoll, PollRequest, PollError, InSync, PlanUpdate,
       PlanCreate, UpdateRefused, TokenConflict, CallError, TrackOperation,
       DeleteDone, PlanDelete, DeleteTrack, Crash, CacheSync, UserEdit,
       UserAbandon, UserDelete, UserWrite

\* A request keeps what it was asked, once it ended it stays as it is, and an
\* identifier it has is one it keeps.
LEMMA RequestStep ==
    ASSUME TypeOK, [Next]_vars, NEW t \in DOMAIN reqs, t \in DOMAIN reqs'
    PROVE  /\ reqs'[t].want = reqs[t].want
           /\ reqs[t].status # "IN_PROGRESS" => reqs'[t] = reqs[t]
           /\ \/ reqs'[t].id = reqs[t].id
              \/ /\ reqs[t].id = NoId /\ t.op = "CREATE"
                 /\ reqs'[t].id = made + 1 /\ made' = made + 1
<1>0. reqs[t] \in Requests
  BY DEF TypeOK, AwsOK
<1>1. CASE UNCHANGED aws \/ Drift \/ ExternalDelete
  BY <1>1 DEF aws, Drift, ExternalDelete
<1>2. CASE Issue \/ DeleteIssue
  <2>1. reqs'[t] = reqs[t]
    BY <1>2 DEF Issue, DeleteIssue, Request, Extend
  <2>2. QED
    BY <2>1
<1>3. CASE AwsMaterialise
  <2>1. PICK r \in Running("CREATE") :
           reqs[r].id = NoId /\ reqs' = [reqs EXCEPT ![r].id = made + 1]
    BY <1>3 DEF AwsMaterialise
  <2>2. r \in DOMAIN reqs /\ reqs[r].status = "IN_PROGRESS" /\ r.op = "CREATE"
    BY <2>1 DEF Running
  <2>3. reqs'[t] = IF t = r THEN [reqs[t] EXCEPT !.id = made + 1] ELSE reqs[t]
    BY <2>1
  <2>4. made' = made + 1
    BY <1>3 DEF AwsMaterialise
  <2>5. CASE t = r
    BY <2>1, <2>2, <2>3, <2>4, <2>5, <1>0 DEF Requests
  <2>6. CASE t # r
    BY <2>3, <2>6
  <2>7. QED
    BY <2>5, <2>6
<1>4. CASE AwsCreated \/ AwsUpdated \/ AwsDeleted \/ AwsGone \/ AwsFailed
  <2>1. PICK r, s : /\ r \in DOMAIN reqs /\ reqs[r].status = "IN_PROGRESS"
                    /\ reqs' = Finish(r, s)
    BY <1>4 DEF AwsCreated, AwsUpdated, AwsDeleted, AwsGone, AwsFailed, Running
  <2>2. reqs'[t] = IF t = r THEN [reqs[t] EXCEPT !.status = s] ELSE reqs[t]
    BY <2>1 DEF Finish
  <2>3. CASE t = r
    BY <2>1, <2>2, <2>3, <1>0 DEF Requests
  <2>4. CASE t # r
    BY <2>2, <2>4
  <2>5. QED
    BY <2>3, <2>4
<1>5. CASE AwsExpire \/ AwsExpireUnseen
  <2>1. PICK r \in DOMAIN reqs : Forget(r)
    BY <1>5 DEF AwsExpire, AwsExpireUnseen
  <2>2. reqs'[t] = reqs[t]
    BY <2>1 DEF Forget, Restrict
  <2>3. QED
    BY <2>2
<1>6. QED
  BY <1>1, <1>2, <1>3, <1>4, <1>5, AwsStep DEF Handlers

\* AWS remembers the operations that are not in Expiring.
LEMMA Remembered ==
    ASSUME [Next]_vars, NEW t \in DOMAIN reqs, t.op \notin Expiring
    PROVE  t \in DOMAIN reqs'
<1>1. CASE UNCHANGED aws \/ Drift \/ ExternalDelete
  BY <1>1 DEF aws, Drift, ExternalDelete
<1>2. CASE Issue \/ DeleteIssue
  BY <1>2 DEF Issue, DeleteIssue, Request, Extend
<1>3. CASE AwsMaterialise
  BY <1>3 DEF AwsMaterialise
<1>4. CASE AwsCreated \/ AwsUpdated \/ AwsDeleted \/ AwsGone \/ AwsFailed
  <2>1. PICK r, s : reqs' = Finish(r, s)
    BY <1>4 DEF AwsCreated, AwsUpdated, AwsDeleted, AwsGone, AwsFailed
  <2>2. QED
    BY <2>1 DEF Finish
<1>5. CASE AwsExpire \/ AwsExpireUnseen
  <2>1. PICK r \in DOMAIN reqs : Forget(r)
    BY <1>5 DEF AwsExpire, AwsExpireUnseen
  <2>2. r # t
    BY <2>1 DEF Forget
  <2>3. QED
    BY <2>1, <2>2 DEF Forget, Restrict
<1>6. QED
  BY <1>1, <1>2, <1>3, <1>4, <1>5, AwsStep DEF Handlers

\* A resource is the one it was, and looks as it did unless an update or a
\* drift changed it; or a create has just made it.
LEMMA ResourceStep ==
    ASSUME TypeOK, [Next]_vars, NEW i \in DOMAIN live'
    PROVE  \/ /\ i \in DOMAIN live /\ live'[i].gen = live[i].gen
              /\ \/ live'[i].props = live[i].props
                 \/ "drift" \in FaultKinds
                 \/ \E t \in DOMAIN reqs : t.op = "UPDATE"
           \/ /\ i = made + 1 /\ made' = made + 1
              /\ \E t \in DOMAIN reqs :
                    /\ t.op = "CREATE" /\ t \in DOMAIN reqs' /\ reqs'[t].id = i
                    /\ live'[i].gen = t.gen /\ live'[i].props = reqs[t].want
<1>0. \A j \in DOMAIN live : live[j] \in Resources
  BY DEF TypeOK, AwsOK
<1>1. CASE UNCHANGED live
  BY <1>1
<1>2. CASE AwsMaterialise
  <2>1. PICK r \in Running("CREATE") :
           /\ reqs' = [reqs EXCEPT ![r].id = made + 1]
           /\ live' = Extend(live, made + 1, [gen |-> r.gen, props |-> reqs[r].want])
    BY <1>2 DEF AwsMaterialise
  <2>2. r \in DOMAIN reqs /\ r.op = "CREATE" /\ reqs[r] \in Requests
    BY <2>1 DEF Running, TypeOK, AwsOK
  <2>3. r \in DOMAIN reqs' /\ reqs'[r].id = made + 1
    BY <2>1, <2>2 DEF Requests
  <2>4. made' = made + 1
    BY <1>2 DEF AwsMaterialise
  <2>5. i \in DOMAIN live => live'[i] = live[i]
    BY <2>1 DEF Extend
  <2>6. i \notin DOMAIN live => /\ i = made + 1 /\ live'[i].gen = r.gen
                                /\ live'[i].props = reqs[r].want
    BY <2>1 DEF Extend
  <2>7. QED
    BY <2>2, <2>3, <2>4, <2>5, <2>6
<1>3. CASE AwsDeleted \/ ExternalDelete
  <2>1. PICK D \in SUBSET DOMAIN live : live' = Restrict(live, D)
    <3>1. \E j : live' = Restrict(live, DOMAIN live \ {j})
      BY <1>3 DEF AwsDeleted, ExternalDelete
    <3>2. QED
      BY <3>1
  <2>2. i \in DOMAIN live /\ live'[i] = live[i]
    BY <2>1 DEF Restrict
  <2>3. QED
    BY <2>2
<1>4. CASE AwsUpdated \/ Drift
  <2>1. PICK j, p : j \in DOMAIN live /\ live' = [live EXCEPT ![j].props = p]
    <3>1. CASE AwsUpdated
      <4>1. PICK t \in Running("UPDATE") :
               /\ reqs[t].id \in DOMAIN live
               /\ live' = [live EXCEPT ![reqs[t].id].props = ApplyPatch(@, t.patch)]
        BY <3>1 DEF AwsUpdated
      <4>2. live' = [live EXCEPT ![reqs[t].id].props =
                          ApplyPatch(live[reqs[t].id].props, t.patch)]
        BY <4>1
      <4>3. QED
        BY <4>1, <4>2
    <3>2. CASE Drift
      BY <3>2 DEF Drift
    <3>3. QED
      BY <1>4, <3>1, <3>2
  <2>2. i \in DOMAIN live
    BY <2>1
  <2>3. live'[i] = IF i = j THEN [live[i] EXCEPT !.props = p] ELSE live[i]
    BY <2>1, <2>2
  <2>4. live'[i].gen = live[i].gen
    BY <2>2, <2>3, <1>0 DEF Resources
  <2>5. "drift" \in FaultKinds \/ \E t \in DOMAIN reqs : t.op = "UPDATE"
    BY <1>4 DEF AwsUpdated, Drift, Fault, Running
  <2>6. QED
    BY <2>2, <2>4, <2>5
<1>5. QED
  BY <1>1, <1>2, <1>3, <1>4, AwsStep
  DEF Handlers, aws, Issue, DeleteIssue, Request, AwsCreated, AwsGone,
      AwsFailed, AwsExpire, AwsExpireUnseen, Forget

\* The requests of the first generation in their order.
LEMMA FirstFields ==
    \A n : /\ First(n).op = "CREATE" /\ First(n).gen = 1
           /\ First(n).attempt = n /\ First(n).patch = {}
BY DEF First

LEMMA BeforeFields ==
    ASSUME NEW n \in Nat, NEW u
    PROVE  u \in Before(n) <=> \E m \in Nat : m < n /\ u = First(m)
BY DEF Before

\* Every request of the first generation is one of them.
LEMMA CreateIsFirst ==
    ASSUME TypeOK, Accounted, NEW t \in Creates
    PROVE  t.attempt \in Nat /\ t = First(t.attempt)
<1>1. t \in Tokens /\ t.op = "CREATE" /\ t.gen = 1 /\ t.patch = {}
  BY DEF TypeOK, AwsOK, Accounted, Creates
<1>2. QED
  BY <1>1 DEF Tokens, First

\* What CreatesInv says of the stored copies, of the worker, and of AWS.
StoredPart ==
    /\ 1 <= cache.gen /\ cache.gen <= api.gen
    /\ api.deleting => 1 < api.gen
    /\ api.gen = 1 => cache.want = api.want
    /\ View(api) /\ View(cache)

WorkerPart ==
    /\ w.gen <= api.gen /\ (step.at # "idle" => 1 <= w.gen)
    /\ api.gen = 1 =>
          /\ step.at # "idle" => w.want = api.want
          /\ step.at \in Calling => step.call.op = "CREATE"
    /\ WorkerView /\ AskedAs /\ Grows

AwsPart ==
    /\ Accounted /\ Ordered
    /\ api.gen = 1 =>
          /\ \A t \in DOMAIN reqs : t.op = "CREATE" /\ reqs[t].want = api.want
          /\ \A i \in DOMAIN live : live[i].props = api.want

LEMMA CreatesParts ==
    /\ CreatesInv => StoredPart /\ WorkerPart /\ AwsPart
    /\ StoredPart /\ WorkerPart /\ AwsPart => CreatesInv
BY DEF CreatesInv, Generations, Unedited, StoredPart, WorkerPart, AwsPart

\* The same of the next state, about a copy or a request of this one.
AliveNext(t) == reqs'[t].status = "IN_PROGRESS" \/ reqs'[t].id \in DOMAIN live'
ViewNext(cr) == cr.gen = 1 =>
    /\ cr.token \in {NoToken, First(cr.attempt)}
    /\ Before(cr.attempt) \subseteq Creates'
    /\ First(cr.attempt) \notin Creates' =>
          \A t \in Creates' : AliveNext(t) =>
              reqs'[t].status # "IN_PROGRESS" /\ reqs'[t].id = cr.ident

\* A create is not forgotten, and once it can lead to nothing that is final.
LEMMA CreateStep ==
    ASSUME TypeOK, Accounted, Steady, [Next]_vars, NEW t \in Creates
    PROVE  /\ t \in Creates'
           /\ AliveNext(t) => Alive(t)
           /\ reqs[t].status # "IN_PROGRESS" => reqs'[t] = reqs[t]
<1>1. t \in DOMAIN reqs /\ t.op = "CREATE" /\ t.gen = 1 /\ t.op \notin Expiring
  BY DEF Creates, Steady
<1>2. t \in DOMAIN reqs'
  BY <1>1, Remembered
<1>3. reqs[t].status # "IN_PROGRESS" => reqs'[t] = reqs[t]
  BY <1>1, <1>2, RequestStep
<1>4. reqs[t].id \in Nat /\ reqs[t].id <= made /\ made \in Nat
  BY <1>1, CloudControlAssumption DEF Accounted, TypeOK, AwsOK, Requests
<1>5. \A i \in DOMAIN live' : i \in DOMAIN live \/ made < i
  BY LiveStep
<1>6. AliveNext(t) => Alive(t)
  BY <1>3, <1>4, <1>5 DEF AliveNext, Alive
<1>7. QED
  BY <1>1, <1>2, <1>3, <1>6 DEF Creates

\* A new create is the worker's, and nothing came of those before it.
LEMMA NewCreate ==
    ASSUME TypeOK, CallTokens, CreatesInv, [Next]_vars,
           NEW t \in Creates', t \notin Creates
    PROVE  /\ Issue /\ t = step.call /\ t = First(w.attempt) /\ w.attempt \in Nat
           /\ w.gen = 1
           /\ Before(w.attempt) \subseteq Creates
           /\ \A u \in Creates : ~Alive(u)
<1>1. t \in DOMAIN reqs' \ DOMAIN reqs /\ t.op = "CREATE" /\ t.gen = 1
  BY DEF Creates
<1>2. t = step.call /\ (Issue \/ DeleteIssue)
  BY <1>1, NewRequests
<1>3. Issue /\ step.at = "issue"
  BY <1>1, <1>2 DEF CallTokens, Issue, DeleteIssue, Request
<1>4. t = [First(w.attempt) EXCEPT !.gen = w.gen] /\ w.ident = NoId
  BY <1>1, <1>2, <1>3 DEF CreatesInv, AskedAs
<1>5. w.gen = 1 /\ t = First(w.attempt)
  BY <1>1, <1>4 DEF First
<1>6. View(w)
  BY <1>3 DEF CreatesInv, WorkerView
<1>7. ASSUME NEW u \in Creates, Alive(u) PROVE FALSE
  <2>1. reqs[u].status # "IN_PROGRESS" /\ reqs[u].id = NoId
    BY <1>4, <1>5, <1>6, <1>7 DEF View
  <2>2. NoId \notin DOMAIN live
    BY CloudControlAssumption DEF TypeOK, AwsOK, Ids, NoId
  <2>3. QED
    BY <2>1, <2>2, <1>7 DEF Alive
<1>8. w.attempt \in Nat
  BY DEF TypeOK, WorkerOK, CRs
<1>9. QED
  BY <1>2, <1>3, <1>5, <1>6, <1>7, <1>8 DEF View

\* What a copy knows stays true of it.
LEMMA KeptView ==
    ASSUME TypeOK, CallTokens, CreatesInv, Steady, [Next]_vars,
           NEW cr \in CRs, View(cr)
    PROVE  ViewNext(cr)
<1> SUFFICES ASSUME cr.gen = 1
             PROVE  /\ cr.token \in {NoToken, First(cr.attempt)}
                    /\ Before(cr.attempt) \subseteq Creates'
                    /\ First(cr.attempt) \notin Creates' =>
                          \A t \in Creates' : AliveNext(t) =>
                              reqs'[t].status # "IN_PROGRESS" /\ reqs'[t].id = cr.ident
  BY DEF ViewNext
<1>1. Accounted /\ cr.attempt \in Nat
  BY DEF CreatesInv, CRs
<1>2. Creates \subseteq Creates'
  BY <1>1, CreateStep
<1>3. /\ cr.token \in {NoToken, First(cr.attempt)}
      /\ Before(cr.attempt) \subseteq Creates
  BY DEF View
<1>4. ASSUME First(cr.attempt) \notin Creates', NEW t \in Creates', AliveNext(t)
      PROVE  reqs'[t].status # "IN_PROGRESS" /\ reqs'[t].id = cr.ident
  <2>1. First(cr.attempt) \notin Creates
    BY <1>2, <1>4
  <2>2. CASE t \in Creates
    <3>1. Alive(t)
      BY <2>2, <1>1, <1>4, CreateStep
    <3>2. reqs[t].status # "IN_PROGRESS" /\ reqs[t].id = cr.ident
      BY <2>1, <2>2, <3>1 DEF View
    <3>3. QED
      BY <2>2, <3>2, <1>1, CreateStep
  <2>3. CASE t \notin Creates
    <3>1. t = First(w.attempt) /\ w.attempt \in Nat /\ Before(w.attempt) \subseteq Creates
      BY <2>3, NewCreate
    <3>2. cr.attempt # w.attempt
      BY <3>1, <1>4
    <3>3. ~(cr.attempt < w.attempt)
      BY <2>1, <3>1, <1>1, BeforeFields
    <3>4. ~(w.attempt < cr.attempt)
      BY <2>3, <3>1, <1>1, <1>3, BeforeFields
    <3>5. QED
      BY <3>1, <3>2, <3>3, <3>4, <1>1
  <2>4. QED
    BY <2>2, <2>3
<1>5. QED
  BY <1>2, <1>3, <1>4

\* What AWS holds.
LEMMA AwsPartStep ==
    ASSUME TypeOK, CallTokens, CreatesInv, Steady, [Next]_vars,
           api'.gen = 1 => api.gen = 1 /\ api'.want = api.want
    PROVE  AwsPart'
<1>1. Accounted /\ AwsPart /\ WorkerPart
  BY CreatesParts DEF CreatesInv
<1>2. Creates \subseteq Creates'
  BY <1>1, CreateStep
<1>3. made \in Nat /\ made' \in Nat /\ made <= made'
  BY LiveStep, CloudControlAssumption DEF TypeOK, AwsOK
<1>4. ASSUME NEW t \in DOMAIN reqs', t \notin DOMAIN reqs
      PROVE  /\ t = step.call /\ (Issue \/ DeleteIssue)
             /\ reqs'[t] = [status |-> "IN_PROGRESS", id |-> Target, want |-> w.want]
  <2>1. t = step.call /\ (Issue \/ DeleteIssue)
    BY <1>4, NewRequests
  <2>2. QED
    BY <2>1, <1>4 DEF Issue, DeleteIssue, Request, Extend
<1>5. ASSUME NEW t \in DOMAIN reqs', t.op = "CREATE"
      PROVE  t.patch = {} /\ reqs'[t].id <= made'
  <2>1. CASE t \in DOMAIN reqs
    <3>1. /\ t.patch = {} /\ reqs[t].id \in Nat /\ reqs[t].id <= made
      BY <1>1, <1>5, <2>1 DEF Accounted, TypeOK, AwsOK, Requests
    <3>2. \/ reqs'[t].id = reqs[t].id
          \/ reqs'[t].id = made + 1 /\ made' = made + 1
      BY <2>1, RequestStep
    <3>3. QED
      BY <3>1, <3>2, <1>3
  <2>2. CASE t \notin DOMAIN reqs
    <3>1. /\ t = step.call /\ (Issue \/ DeleteIssue)
          /\ reqs'[t] = [status |-> "IN_PROGRESS", id |-> Target, want |-> w.want]
      BY <1>4, <2>2
    <3>2. step.at \in {"issue", "track"} /\ Target = NoId
      BY <3>1, <1>5 DEF CallTokens, Issue, DeleteIssue, Request, Target
    <3>3. t.patch = {}
      BY <3>1, <3>2, <1>5, FirstFields DEF CreatesInv, AskedAs, First
    <3>4. QED
      BY <3>1, <3>2, <3>3, <1>3 DEF NoId
  <2>3. QED
    BY <2>1, <2>2
<1>6. ASSUME NEW i \in DOMAIN live', live'[i].gen = 1
      PROVE  \E t \in Creates' : reqs'[t].id = i
  <2>1. CASE i \in DOMAIN live /\ live'[i].gen = live[i].gen
    <3>1. PICK t \in Creates : reqs[t].id = i
      BY <2>1, <1>1, <1>6 DEF Accounted
    <3>2. i # NoId
      BY <2>1, CloudControlAssumption DEF TypeOK, AwsOK, Ids, NoId
    <3>3. t \in DOMAIN reqs /\ t \in Creates' /\ t \in DOMAIN reqs'
      BY <1>2 DEF Creates
    <3>4. reqs'[t].id = i
      BY <3>1, <3>2, <3>3, RequestStep
    <3>5. QED
      BY <3>3, <3>4
  <2>2. CASE ~(i \in DOMAIN live /\ live'[i].gen = live[i].gen)
    <3>1. PICK t \in DOMAIN reqs :
             /\ t.op = "CREATE" /\ t \in DOMAIN reqs' /\ reqs'[t].id = i
             /\ live'[i].gen = t.gen
      BY <2>2, ResourceStep
    <3>2. QED
      BY <3>1, <1>6 DEF Creates
  <2>3. QED
    BY <2>1, <2>2
<1>7. Accounted'
  BY <1>5, <1>6 DEF Accounted
<1>8. ASSUME NEW t \in Creates', NEW u \in Before(t.attempt)
      PROVE  u \in Creates' /\ ~AliveNext(u)
  <2>1. CASE t \in Creates
    <3>1. u \in Creates /\ ~Alive(u)
      BY <2>1, <1>1, <1>8 DEF AwsPart, Ordered
    <3>2. QED
      BY <3>1, <1>1, CreateStep
  <2>2. CASE t \notin Creates
    <3>1. /\ t = First(w.attempt) /\ Before(w.attempt) \subseteq Creates
          /\ \A v \in Creates : ~Alive(v)
      BY <2>2, NewCreate
    <3>2. u \in Creates /\ ~Alive(u)
      BY <3>1, <1>8, FirstFields
    <3>3. QED
      BY <3>2, <1>1, CreateStep
  <2>3. QED
    BY <2>1, <2>2
<1>9. Ordered'
  BY <1>8 DEF Ordered, Alive, AliveNext
<1>10. ASSUME api'.gen = 1, NEW t \in DOMAIN reqs'
       PROVE  t.op = "CREATE" /\ reqs'[t].want = api'.want
  <2>1. api.gen = 1 /\ api'.want = api.want
    BY <1>10
  <2>2. CASE t \in DOMAIN reqs
    BY <2>1, <2>2, <1>1, RequestStep DEF AwsPart
  <2>3. CASE t \notin DOMAIN reqs
    <3>1. t = step.call /\ (Issue \/ DeleteIssue) /\ reqs'[t].want = w.want
      BY <1>4, <2>3
    <3>2. step.at \in Calling /\ step.at # "idle"
      BY <3>1 DEF Issue, DeleteIssue, Request, Calling
    <3>3. QED
      BY <2>1, <3>1, <3>2, <1>1 DEF WorkerPart
  <2>4. QED
    BY <2>2, <2>3
<1>11. ASSUME api'.gen = 1, NEW i \in DOMAIN live'
       PROVE  live'[i].props = api'.want
  <2>1. api.gen = 1 /\ api'.want = api.want
    BY <1>11
  <2>2. ~ \E t \in DOMAIN reqs : t.op = "UPDATE"
    BY <2>1, <1>1 DEF AwsPart
  <2>3. \/ i \in DOMAIN live /\ live'[i].props = live[i].props
        \/ \E t \in DOMAIN reqs : live'[i].props = reqs[t].want
    BY <2>2, ResourceStep DEF Steady
  <2>4. QED
    BY <2>1, <2>3, <1>1 DEF AwsPart
<1>12. QED
  BY <1>7, <1>9, <1>10, <1>11 DEF AwsPart

\* new is old, but for the token it may have cleared and what it reports.
Sees(new, old) ==
    /\ new.gen = old.gen /\ new.want = old.want
    /\ new.ident = old.ident /\ new.attempt = old.attempt
    /\ new.token \in {old.token, NoToken}

LEMMA CopySees ==
    ASSUME NEW cr \in CRs
    PROVE  Sees(cr, cr) /\ Sees(Cleared(cr), cr) /\ Sees(NotReady(cr), cr)
BY DEF Sees, Cleared, NotReady, CRs

LEMMA FailedFields ==
    ASSUME NEW cr \in CRs
    PROVE  /\ Failed(cr).gen = cr.gen /\ Failed(cr).want = cr.want
           /\ Failed(cr).ident = cr.ident /\ Failed(cr).attempt = cr.attempt + 1
           /\ Failed(cr).token = NoToken
<1>1. Cleared(cr) \in CRs
  BY CopyType
<1>2. \A c \in CRs : LET d == [c EXCEPT !.attempt = @ + 1] IN
          /\ d.gen = c.gen /\ d.want = c.want /\ d.ident = c.ident
          /\ d.attempt = c.attempt + 1 /\ d.token = c.token
  BY DEF CRs
<1>3. /\ Cleared(cr).gen = cr.gen /\ Cleared(cr).want = cr.want
      /\ Cleared(cr).ident = cr.ident /\ Cleared(cr).attempt = cr.attempt
      /\ Cleared(cr).token = NoToken
  BY DEF Cleared, CRs
<1>4. QED
  BY <1>1, <1>2, <1>3 DEF Failed

LEMMA IdentifiedFields ==
    ASSUME NEW cr \in CRs, NEW id \in Nat
    PROVE  /\ Identified(cr, id).gen = cr.gen /\ Identified(cr, id).want = cr.want
           /\ Identified(cr, id).attempt = cr.attempt
           /\ Identified(cr, id).token = cr.token
           /\ id # NoId => Identified(cr, id).ident = id
BY DEF Identified, CRs

LEMMA SameView ==
    ASSUME UNCHANGED aws, NEW cr, View(cr)
    PROVE  ViewNext(cr)
BY DEF aws, View, ViewNext, Creates, Alive, AliveNext

LEMMA SeenView ==
    ASSUME NEW cr, ViewNext(cr), Sees(w', cr)
    PROVE  View(w)'
<1>1. w'.gen = cr.gen /\ w'.attempt = cr.attempt /\ w'.ident = cr.ident
      /\ w'.token \in {cr.token, NoToken}
  BY DEF Sees
<1>2. QED
  BY <1>1 DEF View, ViewNext, Alive, AliveNext

\* The next attempt follows one that ended, and left what the copy identifies.
LEMMA FailedView ==
    ASSUME TypeOK, Accounted, Ordered, NEW cr \in CRs, View(cr), cr.gen = 1,
           Concluded(cr)
    PROVE  View(Failed(cr))
<1> DEFINE n == cr.attempt
           t == First(n)
<1>1. n \in Nat
  BY DEF CRs
<1>2. t \in Creates /\ reqs[t].status # "IN_PROGRESS"
      /\ (reqs[t].id # NoId => cr.ident = reqs[t].id)
  <2>1. cr.token \in {NoToken, t}
    BY DEF View
  <2>2. NoToken \notin Creates
    BY BlankFields DEF Creates
  <2>3. QED
    BY <2>1, <2>2 DEF Concluded
<1>3. Before(n) \subseteq Creates /\ \A u \in Before(n) : ~Alive(u)
  BY <1>2, FirstFields DEF Ordered
<1>4. Before(n + 1) \subseteq Creates
  <2>1. \A u \in Before(n + 1) : u \in Before(n) \/ u = t
    <3>1. ASSUME NEW u \in Before(n + 1) PROVE u \in Before(n) \/ u = t
      <4>1. PICK m \in Nat : m < n + 1 /\ u = First(m)
        BY <3>1, <1>1, BeforeFields
      <4>2. m < n \/ m = n
        BY <4>1, <1>1
      <4>3. QED
        BY <4>1, <4>2, <1>1, BeforeFields
    <3>2. QED
      BY <3>1
  <2>2. QED
    BY <2>1, <1>2, <1>3
<1>5. ASSUME First(n + 1) \notin Creates, NEW u \in Creates, Alive(u)
      PROVE  reqs[u].status # "IN_PROGRESS" /\ reqs[u].id = cr.ident
  <2>1. u.attempt \in Nat /\ u = First(u.attempt)
    BY <1>5, CreateIsFirst
  <2>2. ~(u.attempt < n)
    BY <2>1, <1>1, <1>3, <1>5, BeforeFields
  <2>3. ~(n + 1 < u.attempt)
    <3>1. ASSUME n + 1 < u.attempt PROVE FALSE
      <4>1. First(n + 1) \in Before(u.attempt)
        BY <3>1, <2>1, <1>1, BeforeFields
      <4>2. QED
        BY <4>1, <1>5 DEF Ordered
    <3>2. QED
      BY <3>1
  <2>4. u.attempt # n + 1
    BY <2>1, <1>5
  <2>5. u = t
    BY <2>1, <2>2, <2>3, <2>4, <1>1
  <2>6. NoId \notin DOMAIN live
    BY CloudControlAssumption DEF TypeOK, AwsOK, Ids, NoId
  <2>7. QED
    BY <2>5, <2>6, <1>2, <1>5 DEF Alive
<1>6. QED
  BY <1>4, <1>5, FailedFields DEF View

\* When the worker goes on with a copy that fits what is stored ...
Fits(copy) ==
    /\ copy \in CRs /\ 1 <= copy.gen /\ copy.gen <= api'.gen
    /\ api'.gen = 1 => copy.want = api'.want /\ View(copy)

LEMMA WorkerReturns ==
    ASSUME Return, api'.gen \in Nat
    PROVE  WorkerPart'
<1>1. w' = BlankCR /\ step'.at = "idle" /\ step'.ok = "" /\ step'.err = ""
  BY AtMarks DEF Return
<1>2. w'.gen = 0
  BY <1>1 DEF BlankCR
<1>3. View(w)'
  BY <1>2 DEF View
<1>4. w'.gen <= api'.gen
  <2>1. \A n \in Nat : 0 <= n
    OBVIOUS
  <2>2. QED
    BY <1>2, <2>1
<1>5. WorkerView' /\ AskedAs' /\ Grows'
  BY <1>1, <1>3 DEF WorkerView, AskedAs, Grows
<1>6. QED
  BY <1>1, <1>4, <1>5 DEF WorkerPart, Calling

LEMMA WorkerContinues ==
    ASSUME TypeOK, Accounted, Ordered, UNCHANGED aws, api'.gen \in Nat,
           NEW exit \in Exits \union Plain, NEW copy, NEW fresh,
           Continue(exit, copy, fresh), Fits(copy),
           exit = "get" => View(copy),
           exit = "trackFailed" /\ api'.gen = 1 => Concluded(copy)
    PROVE  WorkerPart'
<1>1. CASE exit = "idle"
  BY <1>1, WorkerReturns DEF Continue
<1>2. CASE exit # "idle"
  <2>1. copy \in CRs /\ 1 <= copy.gen /\ copy.gen <= api'.gen
    BY DEF Fits
  <2>2. /\ step'.at \in {exit, "save", "idle"}
        /\ step'.ok \in {"", "idle", "fail"} /\ step'.err \in {"", "idle", "fail"}
    BY ContinueEnds
  <2>3. step'.at \notin Calling /\ exit # "save"
    BY <2>2 DEF Exits, Plain, Calling
  <2>4. exit # "trackFailed" => Sees(w', copy)
    <3>1. CASE exit \in {"pending", "fail", "trackDone"}
      <4>1. PICK c, ok, err : Write(c, ok, err, fresh) /\ Sees(c, copy)
        BY <3>1, <2>1, CopySees DEF Continue, Pending, RecordError, TrackDone
      <4>2. QED
        BY <4>1 DEF Write
    <3>2. CASE exit \notin {"idle", "pending", "fail", "trackFailed", "trackDone"}
      <4>1. w' = copy
        BY <3>2 DEF Continue
      <4>2. QED
        BY <4>1, <2>1, CopySees
    <3>3. QED
      BY <3>1, <3>2, <1>2
  <2>5. exit = "trackFailed" => w' = Failed(copy)
    BY DEF Continue, TrackFailed, Write
  <2>6. w'.gen = copy.gen /\ w'.want = copy.want
    BY <2>1, <2>4, <2>5, FailedFields DEF Sees
  <2>7. ASSUME api'.gen = 1 \/ step'.at \in {"get", "issue"} PROVE View(w)'
    <3>1. View(copy)
      BY <2>2, <2>3, <2>7 DEF Fits, Calling
    <3>2. CASE exit # "trackFailed"
      BY <3>1, <3>2, <2>4, SameView, SeenView
    <3>3. CASE exit = "trackFailed"
      <4>1. api'.gen = 1
        BY <2>2, <2>3, <2>7, <3>3 DEF Calling
      <4>2. copy.gen = 1
        BY <4>1, <2>1 DEF CRs
      <4>3. View(Failed(copy)) /\ Failed(copy) \in CRs
        BY <2>1, <3>1, <3>3, <4>1, <4>2, FailedView, CopyType
      <4>4. ViewNext(Failed(copy)) /\ Sees(Failed(copy), Failed(copy))
        BY <4>3, SameView, CopySees
      <4>5. QED
        BY <4>4, <2>5, <3>3, SeenView
    <3>4. QED
      BY <3>2, <3>3
  <2>8. WorkerView'
    BY <2>7 DEF WorkerView
  <2>9. AskedAs' /\ Grows'
    BY <2>2, <2>3 DEF AskedAs, Grows, Calling
  <2>10. QED
    BY <2>1, <2>3, <2>6, <2>8, <2>9 DEF WorkerPart, Fits
<1>3. QED
  BY <1>1, <1>2

\* ... or writes its status first ...
LEMMA WorkerSaves ==
    ASSUME UNCHANGED aws, NEW ok, NEW err \in {"idle", "fail", "check"}, NEW copy,
           Save(copy, ok, err), Fits(copy),
           ok = "trackFailed" /\ api'.gen = 1 => Concluded(copy)
    PROVE  WorkerPart'
<1>1. step'.at = "save" /\ step'.ok = ok /\ step'.err = err /\ w' = copy
  BY DEF Save, Write
<1>2. "save" \notin Calling /\ "save" \notin {"get", "issue"}
  BY DEF Calling
<1>3. copy \in CRs /\ 1 <= copy.gen /\ copy.gen <= api'.gen
  BY DEF Fits
<1>4. ASSUME api'.gen = 1 PROVE View(w)'
  <2>1. View(copy)
    BY <1>4 DEF Fits
  <2>2. QED
    BY <2>1, <1>1, <1>3, SameView, SeenView, CopySees
<1>5. WorkerView' /\ AskedAs'
  BY <1>1, <1>2, <1>4 DEF WorkerView, AskedAs
<1>6. Grows'
  BY <1>1 DEF Grows, Concluded, Creates, aws
<1>7. QED
  BY <1>1, <1>2, <1>3, <1>5, <1>6 DEF WorkerPart, Fits

\* ... or calls AWS with it.
LEMMA WorkerCalls ==
    ASSUME NEW label \in Calling, NEW copy \in CRs, NEW token,
           Call(label, copy, token), 1 <= copy.gen, copy.gen <= api'.gen,
           api'.gen = 1 => copy.want = api'.want /\ token.op = "CREATE",
           api'.gen = 1 \/ label = "issue" => ViewNext(copy),
           label \in {"issue", "track"} /\ token.op = "CREATE" =>
               token = [First(copy.attempt) EXCEPT !.gen = copy.gen] /\ copy.ident = NoId
    PROVE  WorkerPart'
<1>1. /\ step'.at = label /\ step'.call = token /\ step'.ok = "" /\ step'.err = ""
      /\ w' = copy
  BY DEF Call, At, Calling
<1>2. label # "get"
  BY DEF Calling
<1>3. WorkerView'
  BY <1>1, <1>2, SeenView, CopySees DEF WorkerView
<1>4. AskedAs' /\ Grows'
  BY <1>1 DEF AskedAs, Grows
<1>5. QED
  BY <1>1, <1>3, <1>4 DEF WorkerPart

\* Generations grow, and a spec is edited only with its generation.
LEMMA GenerationStep ==
    ASSUME TypeOK, Next
    PROVE  /\ api'.gen \in Nat /\ api.gen <= api'.gen
           /\ api'.gen = api.gen =>
                 api'.want = api.want /\ (api'.deleting <=> api.deleting)
           /\ api'.token = api.token \/ Persist
           /\ api'.ident = api.ident \/ Persist
           /\ api'.attempt = api.attempt \/ Persist
<1> USE DEF TypeOK, K8sOK, WorkerOK
<1>0. api.gen \in Nat
  BY DEF CRs
<1>1. CASE Local \/ CacheSync
  BY <1>0, <1>1, LocalStep DEF k8s, CacheSync
<1>2. CASE AddFinalizer \/ RemoveFinalizer
  BY <1>2 DEF AddFinalizer, RemoveFinalizer, CRs
<1>3. CASE Persist
  <2>1. api' = [api EXCEPT !.token = w.token, !.ident = w.ident,
                           !.attempt = w.attempt, !.obsGen = w.obsGen,
                           !.ready = w.ready]
    BY <1>3 DEF Persist
  <2>2. api'.gen = api.gen /\ api'.want = api.want /\ api'.deleting = api.deleting
    BY <2>1 DEF CRs
  <2>3. QED
    BY <1>0, <1>3, <2>2
<1>4. CASE UserEdit
  BY <1>4 DEF UserEdit, UserWrite, CRs
<1>5. CASE UserAbandon
  BY <1>5 DEF UserAbandon, UserWrite, CRs
<1>6. CASE UserDelete
  BY <1>6 DEF UserDelete, UserWrite, CRs
<1>7. QED
  BY <1>1, <1>2, <1>3, <1>4, <1>5, <1>6, NextCases

\* A copy that learns the identifier of the request it knows.
LEMMA IdentifiedView ==
    ASSUME TypeOK, NEW cr \in CRs, View(cr), cr.gen = 1, cr.token \in DOMAIN reqs
    PROVE  LET copy == Identified(cr, reqs[cr.token].id) IN
           /\ copy \in CRs /\ View(copy)
           /\ reqs[cr.token].status # "IN_PROGRESS" => Concluded(copy)
<1> DEFINE id == reqs[cr.token].id
           copy == Identified(cr, id)
<1>1. id \in Nat /\ cr.token \in Tokens
  BY DEF TypeOK, AwsOK, Requests
<1>2. copy \in CRs
  BY <1>1, CopyType
<1>3. cr.token = First(cr.attempt)
  BY <1>1, BlankFields DEF View, Tokens, Ops
<1>4. cr.token \in Creates
  BY <1>3, FirstFields DEF Creates
<1>5. /\ copy.gen = cr.gen /\ copy.attempt = cr.attempt /\ copy.token = cr.token
      /\ id # NoId => copy.ident = id
  BY <1>1, IdentifiedFields
<1> HIDE DEF copy
<1>6. View(copy)
  BY <1>3, <1>4, <1>5 DEF View
<1>7. reqs[cr.token].status # "IN_PROGRESS" => Concluded(copy)
  BY <1>4, <1>5 DEF Concluded
<1>8. QED
  BY <1>2, <1>6, <1>7 DEF copy

LEMMA WorkerPartStep ==
    ASSUME TypeOK, DeletionSeen, CallTokens, CreatesInv, Steady, Next
    PROVE  WorkerPart'
<1>1. /\ api \in CRs /\ cache \in CRs /\ w \in CRs
      /\ api.gen \in Nat /\ cache.gen \in Nat /\ w.gen \in Nat
  BY DEF TypeOK, K8sOK, WorkerOK, CRs
<1>2. StoredPart /\ WorkerPart /\ AwsPart /\ Accounted /\ Ordered
  BY CreatesParts DEF CreatesInv
<1>3. /\ api'.gen \in Nat /\ api.gen <= api'.gen
      /\ api'.gen = 1 => api.gen = 1 /\ api'.want = api.want
  BY <1>1, <1>2, GenerationStep DEF StoredPart
<1>4. Fits(cache) /\ View(cache)
  BY <1>1, <1>2, <1>3 DEF StoredPart, Fits
<1>5. ASSUME step.at # "idle" PROVE Fits(w)
  BY <1>1, <1>2, <1>3, <1>5 DEF WorkerPart, WorkerView, Fits
<1>6. ASSUME step.at \in RemovingLabels PROVE api'.gen # 1
  <2>1. api.deleting
    BY <1>6 DEF DeletionSeen, Removing, Leads, RemovingLabels
  <2>2. QED
    BY <2>1, <1>1, <1>2, <1>3 DEF StoredPart
<1>7. ASSUME NEW new \in CRs, NEW old, Fits(old), Sees(new, old)
      PROVE  Fits(new)
  BY <1>7 DEF Fits, Sees, View
<1>8. ASSUME NEW new \in CRs, Fits(w), new.gen = w.gen, api'.gen # 1
      PROVE  Fits(new)
  BY <1>8 DEF Fits
<1>9. CASE ReconcileAbandoned \/ ReconcileDeleted \/ ReconcileNew \/ ReconcileExisting
  <2>1. PICK exit \in {"release", "delPoll", "check", "addFinalizer", "get", "poll"} :
           Continue(exit, cache, cfresh)
    BY <1>9 DEF ReconcileAbandoned, ReconcileDeleted,
                ReconcileNew, ReconcileExisting, Start
  <2>2. UNCHANGED aws
    BY <1>9 DEF ReconcileAbandoned, ReconcileDeleted,
                ReconcileNew, ReconcileExisting, Start, aws
  <2>3. exit \in Exits \union Plain /\ exit # "trackFailed"
    BY DEF Plain
  <2>4. QED
    BY <2>1, <2>2, <2>3, <1>2, <1>3, <1>4, WorkerContinues
<1>10. CASE AddFinalizer \/ RemoveFinalizer \/ Crash
  BY <1>10, <1>3, WorkerReturns DEF AddFinalizer, RemoveFinalizer, Crash
<1>11. step.at = "save" => step.ok \in Exits /\ step.err \in Exits
  BY DEF TypeOK, WorkerOK, Steps, Plain, Calling
<1>12. CASE Persist
  <2>1. /\ Continue(step.ok, api', TRUE) /\ step.ok \in Exits /\ UNCHANGED aws
        /\ step.at = "save"
    BY <1>11, <1>12 DEF Persist, aws
  <2>2. api' \in CRs
    BY WorkType, <1>12 DEF Work, TypeOK, K8sOK
  <2>3. /\ api'.token = w.token /\ api'.ident = w.ident /\ api'.attempt = w.attempt
        /\ api'.gen = api.gen /\ api'.want = api.want
    BY <1>1, <1>12 DEF Persist, CRs
  <2>4. ASSUME api'.gen = 1 PROVE View(w) /\ w.gen = 1 /\ api.gen = 1
    BY <1>1, <1>2, <2>1, <2>3, <2>4 DEF WorkerPart, WorkerView
  <2>5. ASSUME NEW c, c = api' PROVE View(c)
    BY <2>3, <2>4, <2>5 DEF View
  <2>6. ASSUME NEW c, c = api' PROVE Fits(c)
    BY <1>1, <1>2, <2>2, <2>3, <2>5, <2>6 DEF Fits, StoredPart
  <2>7. ASSUME NEW c, c = api', api'.gen = 1, step.ok = "trackFailed"
        PROVE  Concluded(c)
    BY <1>2, <2>3, <2>4, <2>7 DEF WorkerPart, Grows, Concluded
  <2>8. PICK c : c = api'
    OBVIOUS
  <2>9. Continue(step.ok, c, TRUE)
    BY <2>1, <2>8
  <2>10. Fits(c) /\ View(c) /\ (step.ok = "trackFailed" /\ api'.gen = 1 => Concluded(c))
    BY <2>5, <2>6, <2>7, <2>8
  <2>11. QED
    BY <2>1, <2>9, <2>10, <1>2, <1>3, WorkerContinues
<1>13. CASE PersistConflict \/ PersistError
  <2>1. /\ Continue(step.err, w, wfresh) /\ step.err \in Exits /\ UNCHANGED aws
        /\ step.at = "save"
    BY <1>11, <1>13 DEF PersistConflict, PersistError, aws
  <2>2. step.err \notin {"get", "trackFailed"}
    BY <1>2 DEF WorkerPart, Grows
  <2>3. Fits(w)
    BY <2>1, <1>5
  <2>4. QED
    BY <2>1, <2>2, <2>3, <1>2, <1>3, WorkerContinues
<1>14. CASE PollError \/ TokenConflict \/ CallError
  <2>1. /\ UNCHANGED aws /\ step.at # "idle"
        /\ \/ Return \/ \E exit \in {"fail", "check"} : Continue(exit, w, wfresh)
    <3>1. UNCHANGED aws /\ step.at # "idle"
      BY <1>14 DEF PollError, TokenConflict, CallError, aws
    <3>2. CASE PollError \/ TokenConflict
      BY <3>1, <3>2 DEF PollError, TokenConflict
    <3>3. CASE CallError
      <4>1. Identifier(w) = w.ident
        BY DEF Steady, Identifier
      <4>2. QED
        BY <3>1, <3>3, <4>1, FailedCall
    <3>4. QED
      BY <1>14, <3>2, <3>3
  <2>2. CASE Return
    BY <2>2, <1>3, WorkerReturns
  <2>3. CASE \E exit \in {"fail", "check"} : Continue(exit, w, wfresh)
    <3>1. PICK exit \in {"fail", "check"} : Continue(exit, w, wfresh)
      BY <2>3
    <3>2. exit \in Exits \union Plain /\ exit # "get" /\ exit # "trackFailed"
      BY DEF Exits
    <3>3. Fits(w)
      BY <2>1, <1>5
    <3>4. QED
      BY <2>1, <3>1, <3>2, <3>3, <1>2, <1>3, WorkerContinues
  <2>4. QED
    BY <2>1, <2>2, <2>3
<1>15. CASE DeleteDone
  <2>1. /\ UNCHANGED aws /\ step.at \in RemovingLabels /\ step.at # "idle"
        /\ Continue("release", Cleared(w), wfresh)
    BY <1>15 DEF DeleteDone, aws, RemovingLabels
  <2>2. "release" \in Exits \union Plain
    BY DEF Exits
  <2>3. Fits(Cleared(w))
    BY <2>1, <1>1, <1>5, <1>7, CopyType, CopySees
  <2>4. QED
    BY <2>1, <2>2, <2>3, <1>2, <1>3, WorkerContinues
<1>16. CASE InSync
  <2>1. /\ UNCHANGED aws /\ step.at = "get"
        /\ Save([w EXCEPT !.ident = Identifier(w), !.obsGen = w.gen,
                           !.ready = TRUE], "idle", "fail")
    BY <1>16 DEF InSync, aws
  <2>2. PICK c \in CRs : Sees(c, w) /\ Save(c, "idle", "fail")
    <3>1. Identifier(w) = w.ident
      BY DEF Steady, Identifier
    <3>2. LET c == [w EXCEPT !.ident = w.ident, !.obsGen = w.gen, !.ready = TRUE]
          IN c \in CRs /\ Sees(c, w)
      BY <1>1 DEF CRs, Sees
    <3>3. QED
      BY <2>1, <3>1, <3>2
  <2>3. Fits(c)
    BY <2>1, <2>2, <1>5, <1>7
  <2>4. QED
    BY <2>1, <2>2, <2>3, WorkerSaves
<1>17. CASE UpdateRefused
  <2>1. UNCHANGED aws /\ step.at = "issue" /\ Save(NotReady(w), "idle", "fail")
    BY <1>17 DEF UpdateRefused, aws
  <2>2. Fits(NotReady(w))
    BY <2>1, <1>1, <1>5, <1>7, CopyType, CopySees
  <2>3. QED
    BY <2>1, <2>2, WorkerSaves
<1>18. CASE CacheSync \/ UserEdit \/ UserAbandon \/ UserDelete \/ Handlers
            \/ AwsFailed \/ AwsExpire \/ AwsExpireUnseen \/ Drift \/ ExternalDelete
  <2>1. UNCHANGED step
    BY <1>18, EnvironmentStep
  <2>2. UNCHANGED w
    BY <1>18
    DEF CacheSync, UserEdit, UserAbandon, UserDelete, UserWrite, Handlers,
        AwsMaterialise, AwsCreated, AwsUpdated, AwsDeleted, AwsGone, AwsFailed,
        AwsExpire, AwsExpireUnseen, Forget, Drift, ExternalDelete, worker
  <2>3. ASSUME api'.gen = 1 \/ step'.at \in {"get", "issue"} PROVE View(w)'
    <3>1. View(w)
      BY <2>1, <2>3, <1>2, <1>3 DEF WorkerPart, WorkerView
    <3>2. QED
      BY <3>1, <2>2, <1>1, KeptView, SeenView, CopySees
  <2>4. Concluded(w) => Concluded(w)'
    <3>1. SUFFICES ASSUME Concluded(w) PROVE Concluded(w)'
      OBVIOUS
    <3>2. w.token \in Creates /\ reqs[w.token].status # "IN_PROGRESS"
      BY <3>1 DEF Concluded
    <3>3. w.token \in Creates' /\ reqs'[w.token] = reqs[w.token]
      BY <3>2, <1>2, CreateStep
    <3>4. QED
      BY <3>1, <3>3, <2>2 DEF Concluded
  <2>5. Grows'
    BY <2>1, <2>4, <1>2, <1>3 DEF WorkerPart, Grows
  <2>6. AskedAs' /\ WorkerView'
    BY <2>1, <2>2, <2>3, <1>2 DEF WorkerPart, AskedAs, WorkerView
  <2>7. w'.gen <= api'.gen /\ (step'.at # "idle" => 1 <= w'.gen)
    BY <2>1, <2>2, <1>1, <1>2, <1>3 DEF WorkerPart
  <2>8. QED
    BY <2>1, <2>2, <2>5, <2>6, <2>7, <1>2, <1>3 DEF WorkerPart
<1>19. ASSUME NEW here, NEW done \in Exits, NEW failed \in {"fail", "check"},
              PollRequest(here, done, failed), here # "idle", done # "trackFailed",
              here \in RemovingLabels \/ here = "poll"
       PROVE  WorkerPart'
  <2> DEFINE ev   == reqs[w.token]
             copy == Identified(w, ev.id)
  <2>1. UNCHANGED aws /\ step.at = here /\ step.at # "idle"
    BY <1>19 DEF PollRequest, aws
  <2>2. Fits(w)
    BY <2>1, <1>5
  <2>3. \/ Save(Cleared(w), done, failed)
        \/ /\ w.token \in DOMAIN reqs
           /\ \/ Save(Cleared(copy), done, failed)
              \/ ev.status \in {"FAILED", "GONE"} /\ Save(Failed(copy), failed, failed)
              \/ Save(copy, "pending", failed)
    BY <1>19 DEF PollRequest
  <2>4. ASSUME w.token \in DOMAIN reqs
        PROVE  /\ copy \in CRs /\ Fits(copy)
               /\ ev.status \in {"FAILED", "GONE"} => Fits(Failed(copy))
    <3>1. ev.id \in Nat
      BY <2>4 DEF TypeOK, AwsOK, Requests
    <3>2. copy \in CRs /\ copy.gen = w.gen /\ copy.want = w.want
      BY <3>1, <1>1, CopyType, IdentifiedFields
    <3>3. Failed(copy) \in CRs /\ Failed(copy).gen = w.gen /\ Failed(copy).want = w.want
      BY <3>2, CopyType, FailedFields
    <3>4. CASE api'.gen # 1
      BY <2>2, <3>2, <3>3, <3>4, <1>8
    <3>5. CASE api'.gen = 1
      <4>1. View(w) /\ w.gen = 1
        BY <2>2, <3>5, <1>1 DEF Fits
      <4>2. View(copy) /\ (ev.status \in {"FAILED", "GONE"} => Concluded(copy))
        BY <2>4, <4>1, <1>1, IdentifiedView
      <4>3. ev.status \in {"FAILED", "GONE"} => View(Failed(copy))
        BY <3>2, <4>1, <4>2, <1>2, FailedView
      <4>4. QED
        BY <2>2, <3>2, <3>3, <4>2, <4>3 DEF Fits
    <3>6. QED
      BY <3>2, <3>4, <3>5
  <2> HIDE DEF copy
  <2>5. CASE Save(Cleared(w), done, failed)
    <3>1. Fits(Cleared(w))
      BY <2>2, <1>1, <1>7, CopyType, CopySees
    <3>2. QED
      BY <2>1, <2>5, <3>1, <1>19, WorkerSaves
  <2>6. CASE w.token \in DOMAIN reqs /\ Save(Cleared(copy), done, failed)
    <3>1. copy \in CRs /\ Fits(copy)
      BY <2>4, <2>6
    <3>2. Fits(Cleared(copy))
      BY <3>1, <1>7, CopyType, CopySees
    <3>3. QED
      BY <2>1, <2>6, <3>2, <1>19, WorkerSaves
  <2>7. CASE /\ w.token \in DOMAIN reqs /\ ev.status \in {"FAILED", "GONE"}
             /\ Save(Failed(copy), failed, failed)
    <3>1. Fits(Failed(copy))
      BY <2>4, <2>7
    <3>2. QED
      BY <2>1, <2>7, <3>1, <1>19, WorkerSaves
  <2>8. CASE w.token \in DOMAIN reqs /\ Save(copy, "pending", failed)
    <3>1. Fits(copy)
      BY <2>4, <2>8
    <3>2. QED
      BY <2>1, <2>8, <3>1, <1>19, WorkerSaves
  <2>9. QED
    BY <2>3, <2>5, <2>6, <2>7, <2>8
<1>20. CASE Poll \/ DeletePoll
  BY <1>19, <1>20 DEF Poll, DeletePoll, Exits, RemovingLabels
<1>21. CASE TrackOperation
  <2> DEFINE ev == reqs[step.call]
             c  == [Identified(w, ev.id) EXCEPT !.token = step.call]
  <2>1. UNCHANGED aws /\ step.at = "track"
    BY <1>21 DEF TrackOperation, aws
  <2>2. PICK ok : /\ Save(c, ok, "fail")
                  /\ ok = "trackFailed" => ev.status \in {"FAILED", "GONE"}
    <3>1. \/ Save(c, "trackFailed", "fail") /\ ev.status \in {"FAILED", "GONE"}
          \/ Save(c, "trackDone", "fail")
          \/ Save(c, "pending", "fail")
      <4> HIDE DEF c
      <4>1. \E ok : /\ Save(c, ok, "fail")
                    /\ ok = (CASE ev.status \in {"FAILED", "GONE"} -> "trackFailed"
                               [] ev.status = "SUCCESS"            -> "trackDone"
                               [] OTHER                            -> "pending")
        BY <1>21 DEF TrackOperation, c
      <4>2. QED
        BY <4>1
    <3> HIDE DEF c
    <3>2. QED
      BY <3>1
  <2>3. Fits(w)
    BY <2>1, <1>5
  <2>4. step.call \in DOMAIN reqs /\ step.call \in Tokens /\ ev.id \in Nat
    BY <2>1 DEF TypeOK, Tracked, AwsOK, Requests
  <2>5. Identified(w, ev.id) \in CRs
    BY <2>4, <1>1, CopyType
  <2>6. \A d \in CRs : LET e == [d EXCEPT !.token = step.call] IN
           /\ e \in CRs /\ e.gen = d.gen /\ e.want = d.want
           /\ e.attempt = d.attempt /\ e.ident = d.ident /\ e.token = step.call
    BY <2>4 DEF CRs
  <2>7. /\ c \in CRs /\ c.gen = w.gen /\ c.want = w.want /\ c.attempt = w.attempt
        /\ c.token = step.call /\ (ev.id # NoId => c.ident = ev.id)
    BY <2>4, <2>5, <2>6, <1>1, IdentifiedFields
  <2> HIDE DEF c
  <2>8. ASSUME api'.gen = 1
        PROVE  View(c) /\ (ev.status \in {"FAILED", "GONE"} => Concluded(c))
    <3>1. api.gen = 1 /\ w.gen = 1 /\ View(w)
      BY <2>3, <2>8, <1>1, <1>3 DEF Fits
    <3>2. step.call.op = "CREATE"
      BY <2>1, <3>1, <1>2 DEF WorkerPart, Calling
    <3>3. step.call = [First(w.attempt) EXCEPT !.gen = w.gen]
      BY <2>1, <3>2, <1>2 DEF WorkerPart, AskedAs
    <3>4. step.call = First(w.attempt)
      BY <3>1, <3>3 DEF First
    <3>5. step.call \in Creates
      BY <2>4, <3>4, FirstFields DEF Creates
    <3>6. View(c)
      BY <2>7, <3>1, <3>4, <3>5 DEF View
    <3>7. QED
      BY <2>7, <3>5, <3>6 DEF Concluded
  <2>9. Fits(c)
    BY <2>3, <2>7, <2>8 DEF Fits
  <2>10. QED
    BY <2>1, <2>2, <2>8, <2>9, WorkerSaves
<1>22. CASE DeleteTrack
  <2> DEFINE c == [w EXCEPT !.token = step.call]
  <2>1. UNCHANGED aws /\ step.at = "delTrack"
    BY <1>22 DEF DeleteTrack, aws
  <2>2. PICK ok \in {"release", "idle"} : Save(c, ok, "idle")
    BY <1>22 DEF DeleteTrack
  <2>3. step.call \in Tokens
    BY <2>1 DEF TypeOK, Tracked, AwsOK
  <2>4. c \in CRs /\ c.gen = w.gen
    BY <2>3, <1>1 DEF CRs
  <2> HIDE DEF c
  <2>5. Fits(c)
    BY <2>1, <2>4, <1>5, <1>6, <1>8 DEF RemovingLabels
  <2>6. QED
    BY <2>1, <2>2, <2>5, WorkerSaves
<1>23. CASE PlanCreate
  <2> DEFINE c == [w EXCEPT !.ident = NoId]
             t == ClientToken(w, "CREATE", {})
  <2>1. UNCHANGED aws /\ step.at = "get" /\ Call("issue", c, t)
    BY <1>23 DEF PlanCreate, aws
  <2>2. Fits(w) /\ View(w)
    BY <2>1, <1>2, <1>5 DEF WorkerPart, WorkerView
  <2>3. /\ c \in CRs /\ c.gen = w.gen /\ c.want = w.want /\ c.attempt = w.attempt
        /\ c.ident = NoId /\ c.token = w.token
    BY <1>1 DEF CRs, NoId
  <2>4. t.op = "CREATE" /\ t = [First(w.attempt) EXCEPT !.gen = w.gen]
    BY DEF ClientToken, First
  <2>5. w.ident \notin DOMAIN live
    BY <1>23 DEF PlanCreate, Steady, Identifier
  <2> HIDE DEF c, t
  <2>6. View(c)
    BY <2>2, <2>3, <2>5 DEF View, Alive
  <2>7. ViewNext(c)
    BY <2>1, <2>6, SameView
  <2>8. "issue" \in Calling
    BY DEF Calling
  <2>9. QED
    BY <2>1, <2>2, <2>3, <2>4, <2>7, <2>8, WorkerCalls DEF Fits
<1>24. CASE PlanUpdate
  <2> DEFINE c == [w EXCEPT !.ident = Identifier(w)]
             t == ClientToken(w, "UPDATE", Difference)
  <2>1. UNCHANGED aws /\ step.at = "get" /\ Call("issue", c, t)
    BY <1>24 DEF PlanUpdate, aws
  <2>2. Fits(w) /\ View(w)
    BY <2>1, <1>2, <1>5 DEF WorkerPart, WorkerView
  <2>3. Identifier(w) = w.ident
    BY DEF Steady, Identifier
  <2>4. c \in CRs /\ Sees(c, w)
    BY <2>3, <1>1 DEF CRs, Sees
  <2>5. t.op = "UPDATE"
    BY DEF ClientToken
  <2>6. api'.gen # 1
    <3>1. SUFFICES ASSUME api'.gen = 1 PROVE Difference = {}
      BY <1>24 DEF PlanUpdate
    <3>2. Identifier(w) \in DOMAIN live
      BY <1>24 DEF PlanUpdate
    <3>3. live[Identifier(w)].props = w.want
      BY <2>1, <3>1, <3>2, <1>2, <1>3 DEF AwsPart, WorkerPart
    <3>4. QED
      BY <3>3 DEF Difference, BuildPatch
  <2> HIDE DEF c, t
  <2>7. View(c)
    BY <2>2, <2>4 DEF Sees, View
  <2>8. ViewNext(c) /\ "issue" \in Calling /\ "CREATE" # "UPDATE"
    BY <2>1, <2>7, SameView DEF Calling
  <2>9. c.gen = w.gen
    BY <2>4 DEF Sees
  <2>10. QED
    BY <2>1, <2>2, <2>4, <2>5, <2>6, <2>8, <2>9, WorkerCalls DEF Fits
<1>25. CASE Issue
  <2>1. step.at = "issue" /\ step.at \in Calling /\ step.at # "idle"
        /\ Call("track", w, step.call)
    BY <1>25 DEF Issue, Request, Calling
  <2>2. Fits(w) /\ View(w)
    BY <2>1, <1>2, <1>5 DEF WorkerPart, WorkerView
  <2>3. ViewNext(w)
    BY <2>2, <1>1, KeptView
  <2>4. api'.gen = 1 => step.call.op = "CREATE"
    BY <2>1, <1>2, <1>3 DEF WorkerPart
  <2>5. step.call.op = "CREATE" =>
           step.call = [First(w.attempt) EXCEPT !.gen = w.gen] /\ w.ident = NoId
    BY <2>1, <1>2 DEF WorkerPart, AskedAs
  <2>6. "track" \in Calling
    BY DEF Calling
  <2>7. QED
    BY <2>1, <2>2, <2>3, <2>4, <2>5, <2>6, <1>1, WorkerCalls DEF Fits
<1>26. CASE PlanDelete \/ DeleteIssue
  <2>1. PICK label, t : /\ label \in {"delIssue", "delTrack"} /\ Call(label, w, t)
                        /\ step.at \in RemovingLabels /\ step.at # "idle"
    BY <1>26 DEF PlanDelete, DeleteIssue, Request, RemovingLabels
  <2>2. Fits(w) /\ api'.gen # 1
    BY <2>1, <1>5, <1>6
  <2>3. label \in Calling /\ label \notin {"issue", "track"}
    BY <2>1 DEF Calling
  <2>4. QED
    BY <2>1, <2>2, <2>3, <1>1, WorkerCalls DEF Fits
<1>27. QED
  BY <1>9, <1>10, <1>12, <1>13, <1>14, <1>15, <1>16, <1>17, <1>18, <1>20, <1>21,
     <1>22, <1>23, <1>24, <1>25, <1>26 DEF Next, Work

LEMMA StoredPartStep ==
    ASSUME TypeOK, CallTokens, CreatesInv, Steady, Next
    PROVE  StoredPart'
<1>1. /\ api \in CRs /\ cache \in CRs /\ w \in CRs
      /\ api.gen \in Nat /\ cache.gen \in Nat /\ w.gen \in Nat
  BY DEF TypeOK, K8sOK, WorkerOK, CRs
<1>2. StoredPart /\ WorkerPart
  BY CreatesParts
<1>3. /\ api'.gen \in Nat /\ api.gen <= api'.gen
      /\ api'.gen = api.gen =>
            api'.want = api.want /\ (api'.deleting <=> api.deleting)
  BY GenerationStep
<1>4. ASSUME NEW cr \in CRs, View(cr) PROVE ViewNext(cr)
  BY <1>4, KeptView
<1>5. View(api)'
  <2>1. CASE api'.gen # 1
    BY <2>1 DEF View
  <2>2. CASE api'.gen = 1
    <3>1. api.gen = 1
      BY <2>2, <1>1, <1>2, <1>3 DEF StoredPart
    <3>2. PICK cr \in CRs :
             /\ View(cr) /\ cr.gen = 1 /\ api'.token = cr.token
             /\ api'.ident = cr.ident /\ api'.attempt = cr.attempt
      <4>1. CASE Persist
        <5>1. /\ api'.token = w.token /\ api'.ident = w.ident
              /\ api'.attempt = w.attempt
          BY <4>1, <1>1 DEF Persist, CRs
        <5>2. step.at # "idle"
          BY <4>1 DEF Persist
        <5>3. View(w) /\ w.gen = 1
          BY <5>2, <3>1, <1>1, <1>2 DEF WorkerPart, WorkerView
        <5>4. QED
          BY <5>1, <5>3, <1>1
      <4>2. CASE ~Persist
        BY <4>2, <3>1, <1>1, <1>2, GenerationStep DEF StoredPart
      <4>3. QED
        BY <4>1, <4>2
    <3>3. ViewNext(cr)
      BY <3>2, <1>4
    <3>4. QED
      BY <2>2, <3>2, <3>3 DEF View, ViewNext, Alive, AliveNext
  <2>3. QED
    BY <2>1, <2>2
<1>6. cache' = cache \/ (cache' = api /\ api' = api)
  BY NextCases, LocalStep
  DEF k8s, AddFinalizer, RemoveFinalizer, Persist, CacheSync,
      UserEdit, UserAbandon, UserDelete, UserWrite
<1>7. PICK cr \in CRs :
         /\ cache' = cr /\ View(cr) /\ 1 <= cr.gen /\ cr.gen <= api'.gen
         /\ api'.gen = 1 => cr.want = api'.want
  BY <1>1, <1>2, <1>3, <1>6 DEF StoredPart
<1>8. ViewNext(cr)
  BY <1>4, <1>7
<1>9. View(cache)'
  BY <1>7, <1>8 DEF View, ViewNext, Alive, AliveNext
<1>10. api'.deleting => 1 < api'.gen
  BY <1>1, <1>2, <1>3, <1>7 DEF StoredPart
<1>11. QED
  BY <1>5, <1>7, <1>9, <1>10 DEF StoredPart

LEMMA InitCreates == Init /\ Steady => CreatesInv
<1> SUFFICES ASSUME Init, Steady PROVE CreatesInv
  OBVIOUS
<1>1. PICK want \in Wants :
         api = [BlankCR EXCEPT !.exists = TRUE, !.gen = 1, !.want = want]
  BY DEF Init
<1>2. /\ api.gen = 1 /\ api.want = want /\ api.token = NoToken /\ api.attempt = 0
      /\ ~api.deleting
  BY <1>1 DEF BlankCR
<1>3. /\ step.at = "idle" /\ step.ok = "" /\ step.err = "" /\ cache = api
      /\ DOMAIN reqs = {}
  BY AtMarks DEF Init
<1>11. w.gen = 0
  BY DEF Init, BlankCR
<1>4. DOMAIN live = {}
  BY DEF Init, Steady
<1>5. Before(0) = {}
  BY BeforeFields DEF Before
<1>6. Creates = {}
  BY <1>3 DEF Creates
<1>7. View(api) /\ View(cache) /\ View(w)
  <2>1. View(api)
    BY <1>2, <1>5, <1>6 DEF View
  <2>2. View(w)
    BY <1>11 DEF View
  <2>3. QED
    BY <2>1, <2>2, <1>3
<1>8. Generations /\ Accounted /\ Unedited /\ Ordered
  <2>1. Generations
    <3>1. api.gen = 1 /\ cache.gen = 1 /\ w.gen = 0
      BY <1>2, <1>3, <1>11
    <3>2. step.at = "idle" /\ ~api.deleting
      BY <1>2, <1>3
    <3>3. QED
      BY <3>1, <3>2 DEF Generations
  <2>2. Accounted /\ Ordered
    BY <1>3, <1>4, <1>6 DEF Accounted, Ordered
  <2>3. Unedited
    BY <1>3, <1>4 DEF Unedited, Calling
  <2>4. QED
    BY <2>1, <2>2, <2>3
<1>9. WorkerView /\ AskedAs /\ Grows
  BY <1>3, <1>7 DEF WorkerView, AskedAs, Grows
<1>10. QED
  BY <1>7, <1>8, <1>9 DEF CreatesInv

LEMMA CreatesStep ==
    ASSUME TypeOK, DeletionSeen, CallTokens, CreatesInv, Steady, [Next]_vars
    PROVE  CreatesInv'
<1>1. CASE Next
  <2>1. StoredPart' /\ WorkerPart'
    BY <1>1, StoredPartStep, WorkerPartStep
  <2>2. api.gen \in Nat /\ 1 <= api.gen
    <3>1. api.gen \in Nat /\ cache.gen \in Nat
      BY DEF TypeOK, K8sOK, CRs
    <3>2. QED
      BY <3>1 DEF CreatesInv, Generations
  <2>3. AwsPart'
    BY <1>1, <2>2, GenerationStep, AwsPartStep
  <2>4. QED
    BY <2>1, <2>3
    DEF CreatesInv, Generations, Unedited, StoredPart, WorkerPart, AwsPart
<1>2. CASE UNCHANGED vars
  <2>1. UNCHANGED <<api, cache, w, step, reqs, live, made>>
    BY <1>2 DEF vars
  <2>2. Creates' = Creates
    BY <2>1 DEF Creates
  <2>3. Generations' /\ Accounted' /\ Unedited'
    BY <2>1, <2>2 DEF CreatesInv, Generations, Accounted, Unedited
  <2>4. Ordered'
    BY <2>1, <2>2 DEF CreatesInv, Ordered, Alive
  <2>5. (View(w) => View(w)') /\ View(api)' /\ View(cache)'
    BY <2>1, <2>2 DEF CreatesInv, View, Alive
  <2>6. WorkerView' /\ AskedAs' /\ Grows'
    BY <2>1, <2>2, <2>5 DEF CreatesInv, WorkerView, AskedAs, Grows, Concluded
  <2>7. QED
    BY <2>3, <2>4, <2>5, <2>6 DEF CreatesInv
<1>3. QED
  BY <1>1, <1>2

LEMMA InitCallTokens == Init => CallTokens
BY AtMarks DEF Init, CallTokens

\* As long as nobody but the engine touches the resource, other than to delete
\* it, and AWS remembers the creates it ran, whatever is retried, lost, read
\* stale or crashes, one resource is all that a CR owns of its first generation.
THEOREM OneResource ==
    ASSUME Steady
    PROVE  Spec => []OneResourceUntilEdited
<1>1. Init => DeletionSeen /\ CallTokens /\ CreatesInv
  BY InitDeletion, InitCallTokens, InitCreates
<1>2. TypeOK /\ DeletionSeen /\ [Next]_vars => DeletionSeen'
  BY DeletionStep
<1>3. TypeOK /\ CallTokens /\ [Next]_vars => CallTokens'
  BY CallTokensStep
<1>4. TypeOK /\ DeletionSeen /\ CallTokens /\ CreatesInv /\ [Next]_vars => CreatesInv'
  BY CreatesStep
<1>5. ASSUME TypeOK, CreatesInv,
             NEW i \in DOMAIN live, NEW j \in DOMAIN live,
             live[i].gen = 1, live[j].gen = 1
      PROVE  i = j
  <2>1. Accounted /\ Ordered
    BY <1>5 DEF CreatesInv
  <2>2. PICK t \in Creates : reqs[t].id = i
    BY <1>5, <2>1 DEF Accounted
  <2>3. PICK u \in Creates : reqs[u].id = j
    BY <1>5, <2>1 DEF Accounted
  <2>4. Alive(t) /\ Alive(u)
    BY <1>5, <2>2, <2>3 DEF Alive
  <2>5. /\ t.attempt \in Nat /\ t = First(t.attempt)
        /\ u.attempt \in Nat /\ u = First(u.attempt)
    BY <1>5, <2>1, CreateIsFirst
  <2>6. ~(t.attempt < u.attempt) /\ ~(u.attempt < t.attempt)
    BY <2>1, <2>4, <2>5, BeforeFields DEF Ordered
  <2>7. t = u
    BY <2>5, <2>6
  <2>8. QED
    BY <2>2, <2>3, <2>7
<1>6. TypeOK /\ CreatesInv => OneResourceUntilEdited
  BY <1>5 DEF OneResourceUntilEdited
<1>7. QED
  BY <1>1, <1>2, <1>3, <1>4, <1>6, TypeCorrect, PTL DEF Spec

-----------------------------------------------------------------------------
(* An adopted resource is not created anew.                                 *)

\* As long as the adopted resource exists, nothing else is ever identified, no
\* request names anything else, and none is about to create.
AdoptionInv ==
    /\ SpecIdentifier <= made
    /\ SpecIdentifier \in DOMAIN live =>
          /\ {api.ident, cache.ident, w.ident} \subseteq {NoId, SpecIdentifier}
          /\ \A t \in DOMAIN reqs :
                t.op # "CREATE" /\ reqs[t].id \in {NoId, SpecIdentifier}
          /\ step.at \in Calling => step.call.op # "CREATE"

\* The identifiers that the worker's copy may take.
LEMMA IdentStep ==
    ASSUME TypeOK, [Next]_vars
    PROVE  \/ w'.ident \in {NoId, w.ident, cache.ident, Identifier(w)}
           \/ \E t \in DOMAIN reqs : w'.ident = reqs[t].id
<1>1. api \in CRs /\ cache \in CRs /\ w \in CRs
  BY DEF TypeOK, K8sOK, WorkerOK
<1>2. \A t \in DOMAIN reqs : reqs[t].id \in Nat
  BY DEF TypeOK, AwsOK, Requests
<1>3. Return => w'.ident = NoId
  BY BlankFields DEF Return, NoId
<1>4. ASSUME NEW exit \in Exits \union Plain, NEW copy \in CRs, NEW fresh,
             Continue(exit, copy, fresh)
      PROVE  w'.ident \in {NoId, copy.ident}
  BY <1>3, <1>4, ContinueCarries DEF Continue, Carries
<1>5. CASE ReconcileAbandoned \/ ReconcileDeleted \/ ReconcileNew \/ ReconcileExisting
  <2>1. PICK exit \in {"release", "delPoll", "check", "addFinalizer", "get", "poll"} :
           Continue(exit, cache, cfresh)
    BY <1>5 DEF ReconcileAbandoned, ReconcileDeleted,
                ReconcileNew, ReconcileExisting, Start
  <2>2. exit \in Exits \union Plain
    BY DEF Plain
  <2>3. QED
    BY <2>1, <2>2, <1>1, <1>4
<1>6. CASE AddFinalizer \/ RemoveFinalizer \/ Crash
  BY <1>6, <1>3 DEF AddFinalizer, RemoveFinalizer, Crash
<1>7. step.at = "save" => step.ok \in Exits /\ step.err \in Exits
  BY DEF TypeOK, WorkerOK, Steps, Plain, Calling
<1>8. CASE Persist
  <2>1. Continue(step.ok, api', TRUE) /\ step.ok \in Exits
    BY <1>7, <1>8 DEF Persist
  <2>2. api' \in CRs
    BY WorkType, <1>8 DEF Work, TypeOK, K8sOK
  <2>3. api'.ident = w.ident
    BY <1>1, <1>8 DEF Persist, CRs
  <2>4. QED
    BY <2>1, <2>2, <2>3, <1>4
<1>9. CASE \/ PersistConflict \/ PersistError \/ PollError
           \/ TokenConflict \/ CallError \/ DeleteDone
  <2>1. \/ Return
        \/ \E exit \in Exits \union Plain :
              Continue(exit, w, wfresh) \/ Continue(exit, Cleared(w), wfresh)
        \/ \E c \in CRs : Continue("fail", c, wfresh) /\ c.ident = Identifier(w)
    <3>1. CASE CallError
      BY <3>1, FailedCall DEF Exits
    <3>2. CASE \/ PersistConflict \/ PersistError \/ PollError
               \/ TokenConflict \/ DeleteDone
      BY <1>7, <3>2 DEF PersistConflict, PersistError, PollError, TokenConflict,
                        DeleteDone, Exits
    <3>3. QED
      BY <1>9, <3>1, <3>2
  <2>2. Cleared(w) \in CRs /\ Cleared(w).ident = w.ident
    BY <1>1, CopyType, CarriesCopy DEF Carries
  <2>3. "fail" \in Exits \union Plain
    BY DEF Exits
  <2>4. QED
    BY <2>1, <2>2, <2>3, <1>1, <1>3, <1>4
<1>10. CASE Poll \/ DeletePoll
  <2> DEFINE copy == Identified(w, reqs[w.token].id)
  <2>1. \E ok, err :
           \/ Save(Cleared(w), ok, err)
           \/ /\ w.token \in DOMAIN reqs
              /\ \/ Save(Cleared(copy), ok, err) \/ Save(Failed(copy), ok, err)
                 \/ Save(copy, ok, err)
    BY <1>10 DEF Poll, DeletePoll, PollRequest
  <2>2. Cleared(w).ident = w.ident
    BY <1>1, CarriesCopy DEF Carries
  <2>3. ASSUME w.token \in DOMAIN reqs
        PROVE  copy \in CRs /\ copy.ident \in {w.ident, reqs[w.token].id}
    BY <2>3, <1>1, <1>2, IdentifiedCopy
  <2> HIDE DEF copy
  <2>4. ASSUME w.token \in DOMAIN reqs
        PROVE  Cleared(copy).ident = copy.ident /\ Failed(copy).ident = copy.ident
    BY <2>3, <2>4, CarriesCopy DEF Carries
  <2>5. QED
    BY <2>1, <2>2, <2>3, <2>4 DEF Save, Write
<1>11. CASE InSync \/ PlanUpdate \/ PlanCreate
  BY <1>11, <1>1 DEF InSync, PlanUpdate, PlanCreate, Save, Write, Call, CRs
<1>12. CASE UpdateRefused
  BY <1>12, <1>1, CarriesCopy DEF UpdateRefused, Save, Write, Carries
<1>13. CASE TrackOperation
  <2> DEFINE copy == Identified(w, reqs[step.call].id)
  <2>1. step.call \in DOMAIN reqs /\ step.call \in Tokens
    BY <1>13 DEF TrackOperation, TypeOK, Tracked, AwsOK
  <2>2. copy \in CRs /\ copy.ident \in {w.ident, reqs[step.call].id}
    BY <2>1, <1>1, <1>2, IdentifiedCopy
  <2> HIDE DEF copy
  <2>3. w' = [copy EXCEPT !.token = step.call]
    BY <1>13 DEF TrackOperation, Save, Write, copy
  <2>4. w'.ident = copy.ident
    BY <2>2, <2>3 DEF CRs
  <2>5. QED
    BY <2>1, <2>2, <2>4
<1>14. CASE Issue \/ DeleteIssue \/ PlanDelete \/ DeleteTrack
  BY <1>14, <1>1 DEF Issue, DeleteIssue, Request, PlanDelete, DeleteTrack,
                     Call, Save, Write, CRs
<1>15. CASE \/ CacheSync \/ UserEdit \/ UserAbandon \/ UserDelete \/ Handlers
            \/ AwsFailed \/ AwsExpire \/ AwsExpireUnseen \/ Drift \/ ExternalDelete
            \/ UNCHANGED vars
  BY <1>15
  DEF vars, CacheSync, UserEdit, UserAbandon, UserDelete, UserWrite, Handlers,
      AwsMaterialise, AwsCreated, AwsUpdated, AwsDeleted, AwsGone, AwsFailed,
      AwsExpire, AwsExpireUnseen, Forget, Drift, ExternalDelete, worker
<1>16. QED
  BY <1>5, <1>6, <1>8, <1>9, <1>10, <1>11, <1>12, <1>13, <1>14, <1>15 DEF Next, Work

LEMMA AdoptionStep ==
    ASSUME TypeOK, AdoptionInv, [Next]_vars
    PROVE  AdoptionInv'
<1>1. made \in Nat /\ made' \in Nat /\ made <= made' /\ SpecIdentifier \in Nat
  BY LiveStep, CloudControlAssumption DEF TypeOK, AwsOK, NoId
<1>2. SpecIdentifier <= made'
  BY <1>1 DEF AdoptionInv
<1> SUFFICES ASSUME SpecIdentifier \in DOMAIN live'
             PROVE  /\ {api.ident, cache.ident, w.ident}' \subseteq {NoId, SpecIdentifier}
                    /\ \A t \in DOMAIN reqs' :
                          t.op # "CREATE" /\ reqs'[t].id \in {NoId, SpecIdentifier}
                    /\ step'.at \in Calling => step'.call.op # "CREATE"
  BY <1>2 DEF AdoptionInv
<1>3. SpecIdentifier \in DOMAIN live
  BY <1>1, LiveStep DEF AdoptionInv
<1> DEFINE Mine == {NoId, SpecIdentifier}
<1>4. /\ api.ident \in Mine /\ cache.ident \in Mine /\ w.ident \in Mine
      /\ \A t \in DOMAIN reqs : t.op # "CREATE" /\ reqs[t].id \in Mine
      /\ step.at \in Calling => step.call.op # "CREATE"
  BY <1>3 DEF AdoptionInv
<1>5. api \in CRs /\ cache \in CRs /\ w \in CRs
  BY DEF TypeOK, K8sOK, WorkerOK
<1>6. Identifier(w) \in DOMAIN live /\ Identifier(w) \in Mine
  BY <1>3, <1>4 DEF Identifier
<1>7. ~PlanCreate
  BY <1>6 DEF PlanCreate
<1>8. api'.ident \in Mine /\ cache'.ident \in Mine
  <2>1. api'.ident \in {api.ident, w.ident}
    <3>1. Persist => api'.ident = w.ident
      BY <1>5 DEF Persist, CRs
    <3>2. QED
      BY <3>1, GenerationStep DEF vars
  <2>2. cache' \in {cache, api}
    BY NextCases, LocalStep
    DEF vars, k8s, AddFinalizer, RemoveFinalizer, Persist, CacheSync,
        UserEdit, UserAbandon, UserDelete, UserWrite
  <2>3. QED
    BY <2>1, <2>2, <1>4
<1>9. w'.ident \in Mine
  BY <1>4, <1>6, IdentStep
<1>10. ASSUME NEW t \in DOMAIN reqs' PROVE t.op # "CREATE" /\ reqs'[t].id \in Mine
  <2>1. CASE t \in DOMAIN reqs
    BY <2>1, <1>4, RequestStep
  <2>2. CASE t \notin DOMAIN reqs
    <3>1. t = step.call /\ (Issue \/ DeleteIssue)
      BY <2>2, NewRequests
    <3>2. step.at \in Calling /\ reqs'[t].id = Target
      BY <2>2, <3>1 DEF Issue, DeleteIssue, Request, Extend, Calling
    <3>3. QED
      BY <3>1, <3>2, <1>4 DEF Target
  <2>3. QED
    BY <2>1, <2>2
<1>11. step'.at \in Calling => step'.call.op # "CREATE"
  <2>1. {"issue", "delIssue"} \subseteq Calling
    BY DEF Calling
  <2>2. QED
    BY <2>1, <1>4, <1>7, CallStep
<1>12. QED
  BY <1>8, <1>9, <1>10, <1>11

\* Whatever status is lost, no create is asked for while the resource that the
\* spec adopts exists.
THEOREM AdoptedIsKept == Spec => []AdoptedNotRecreated
<1>1. Init => AdoptionInv
  <2>1. SUFFICES ASSUME Init PROVE AdoptionInv
    OBVIOUS
  <2>2. made = SpecIdentifier /\ SpecIdentifier \in Nat /\ DOMAIN reqs = {}
    BY <2>1, CloudControlAssumption DEF Init, NoId
  <2>3. api.ident = NoId /\ cache = api /\ w.ident = NoId /\ step.at = "idle"
    BY <2>1, BlankFields, AtLabel DEF Init, BlankCR, NoId
  <2>4. QED
    BY <2>2, <2>3 DEF AdoptionInv, Calling
<1>2. TypeOK /\ AdoptionInv /\ [Next]_vars => AdoptionInv'
  BY AdoptionStep
<1>3. AdoptionInv => AdoptedNotRecreated
  BY DEF AdoptionInv, AdoptedNotRecreated
<1>4. QED
  BY <1>1, <1>2, <1>3, TypeCorrect, PTL DEF Spec

-----------------------------------------------------------------------------
(* The engine implements ManagedResource, for any properties, specs, bounds, *)
(* users and faults, as long as AWS forgets no deletion.                    *)

\* The inductive invariant that the runs check holds for every instance.
THEOREM InductiveInvariant ==
    ASSUME "DELETE" \notin Expiring
    PROVE  Spec => []IInv
<1> DEFINE Once == Steady => CreatesInv
<1>1. Init => FinalizerHeld /\ DeletionSeen /\ ReleaseInv /\ Once
  BY InitFinalizer, InitDeletion, InitRelease, InitCreates
<1>2. TypeOK /\ FinalizerHeld /\ [Next]_vars => FinalizerHeld'
  BY FinalizerStep
<1>3. TypeOK /\ DeletionSeen /\ [Next]_vars => DeletionSeen'
  BY DeletionStep
<1>4. TypeOK /\ ReleaseInv /\ [Next]_vars => ReleaseInv'
  BY ReleaseStep
<1>5. TypeOK /\ DeletionSeen /\ ReleaseInv /\ Once /\ [Next]_vars => Once'
  BY CreatesStep DEF ReleaseInv, Steady
<1>6. TypeOK /\ FinalizerHeld /\ DeletionSeen /\ ReleaseInv /\ Once => IInv
  BY DEF IInv
<1> HIDE DEF Once
<1>7. QED
  BY <1>1, <1>2, <1>3, <1>4, <1>5, <1>6, TypeCorrect, PTL DEF Spec

-----------------------------------------------------------------------------
(* A CR without the finalizer is not under deletion and identifies nothing. *)

Unidentified == ~api.finalizer => api.ident = NoId /\ ~api.deleting

LEMMA InitUnidentified == Init => Unidentified
BY BlankFields DEF Init, Unidentified, BlankCR, NoId

LEMMA UnidentifiedStep ==
    ASSUME TypeOK, FinalizerHeld, Unidentified, [Next]_vars
    PROVE  Unidentified'
<1>1. CASE UNCHANGED api
  BY <1>1 DEF Unidentified
<1>2. CASE AddFinalizer
  BY <1>2 DEF AddFinalizer, Unidentified, TypeOK, K8sOK, CRs
<1>3. CASE RemoveFinalizer
  BY <1>3 DEF RemoveFinalizer, Unidentified, TypeOK, K8sOK, CRs
<1>4. CASE Persist
  <2>1. api.finalizer
    BY <1>4 DEF Persist, FinalizerHeld
  <2>2. api'.finalizer
    BY <1>4, <2>1, ApiStep, NextCases
  <2>3. QED
    BY <2>2 DEF Unidentified
<1>5. CASE UserEdit \/ UserAbandon \/ UserDelete
  BY <1>5 DEF UserEdit, UserAbandon, UserDelete, UserWrite, Unidentified,
              TypeOK, K8sOK, CRs
<1>6. QED
  BY <1>1, <1>2, <1>3, <1>4, <1>5, NextCases, LocalStep DEF vars, k8s, CacheSync

-----------------------------------------------------------------------------
(* Every step of the engine is a step of ManagedResource or a stutter.      *)

Owned == api.ident \in DOMAIN live
Inv == IInv /\ Unidentified

\* What ManagedResource sees, in the state before and after a step.
LEMMA MappedType ==
    ASSUME TypeOK, TypeOK'
    PROVE  /\ Changes \subseteq Tokens /\ Changes' \subseteq Tokens
           /\ Owned \in BOOLEAN /\ Owned' \in BOOLEAN
BY DEF TypeOK, AwsOK, Changes, Owned

\* Without a finalizer AWS has nothing of the CR.
LEMMA NewHasNothing ==
    ASSUME Inv, ~api.finalizer, api.exists
    PROVE  Changes = {} /\ ~Owned
<1>1. DOMAIN reqs = {} /\ api.ident = NoId
  BY DEF Inv, IInv, FinalizerHeld, Unidentified
<1>2. NoId \notin DOMAIN live
  BY CloudControlAssumption DEF Inv, IInv, TypeOK, AwsOK, NoId, Ids
<1>3. QED
  BY <1>1, <1>2 DEF Changes, Owned

\* Once the CR is gone, what AWS remembers and what exists only shrinks.
LEMMA GoneShrinks ==
    ASSUME Inv, [Next]_vars, ~api.exists, UNCHANGED api
    PROVE  Changes' \subseteq Changes /\ (Owned' => Owned)
<1>1. ASSUME NEW t \in DOMAIN reqs' \ DOMAIN reqs PROVE t.op = "DELETE"
  <2>1. t = step.call /\ (Issue \/ DeleteIssue)
    BY <1>1, NewRequests
  <2>2. CASE Issue
    <3>1. step.at = "issue"
      BY <2>2 DEF Issue, Request
    <3>2. api.finalizer /\ Creating
      BY <3>1 DEF Inv, IInv, FinalizerHeld, Creating, Leads
    <3>3. QED
      BY <3>2 DEF Inv, IInv, DeletionSeen
  <2>3. CASE DeleteIssue
    BY <2>1, <2>3 DEF Inv, IInv, ReleaseInv, CallTokens, DeleteIssue, Request
  <2>4. QED
    BY <2>1, <2>2, <2>3
<1>2. api.ident \in Nat /\ api.ident <= made /\ made \in Nat
  BY CloudControlAssumption
  DEF Inv, IInv, TypeOK, K8sOK, AwsOK, CRs, ReleaseInv, IdsKnown
<1>3. Owned' => Owned
  BY <1>2, LiveStep DEF Inv, IInv, Owned
<1>4. QED
  BY <1>1, <1>3 DEF Changes

LEMMA ReleaseStepIsRelease ==
    ASSUME Inv, RemoveFinalizer, api.exists, ~api'.exists
    PROVE  Phase = "removing" /\ (api.abandon \/ ~Owned)
<1>1. step.at = "release" /\ wfresh
  BY DEF RemoveFinalizer
<1>2. Removing
  BY <1>1 DEF Removing, Leads
<1>3. api.finalizer /\ api.deleting
  BY <1>1, <1>2 DEF Inv, IInv, FinalizerHeld, DeletionSeen
<1>4. w.ident = api.ident /\ (w.abandon => api.abandon)
  BY <1>1, <1>2 DEF Inv, IInv, ReleaseInv, CopyIsCurrent
<1>5. QED
  BY <1>1, <1>3, <1>4 DEF Phase, Owned, Inv, IInv, ReleaseInv, ReleaseEarned

\* The steps that leave the stored CR alone.
LEMMA QuietStep ==
    ASSUME Inv, Inv', [Next]_vars, UNCHANGED api
    PROVE  Managed!Manage \/ Managed!Vanish
<1>1. UNCHANGED <<Phase, api.abandon>>
  BY DEF Phase
<1>2. /\ Changes \subseteq Tokens /\ Changes' \subseteq Tokens
      /\ Owned \in BOOLEAN /\ Owned' \in BOOLEAN
  BY MappedType DEF Inv, IInv
<1>3. CASE ~api.exists
  BY <1>1, <1>2, <1>3, GoneShrinks DEF Managed!Vanish, Owned
<1>4. CASE api.exists /\ ~api.finalizer
  <2>1. Changes = {} /\ ~Owned /\ Changes' = {} /\ ~Owned'
    <3>1. Changes = {} /\ ~Owned
      BY <1>4, NewHasNothing
    <3>2. DOMAIN reqs' = {} /\ api'.ident = NoId
      BY <1>4 DEF Inv, IInv, FinalizerHeld, Unidentified
    <3>3. NoId \notin DOMAIN live'
      BY CloudControlAssumption DEF Inv, IInv, TypeOK, AwsOK, NoId, Ids
    <3>4. QED
      BY <3>1, <3>2, <3>3 DEF Changes, Owned
  <2>2. QED
    BY <1>1, <2>1 DEF Managed!Vanish, Owned
<1>5. CASE api.exists /\ api.finalizer
  <2>1. Phase \in {"held", "removing"}
    BY <1>5 DEF Phase
  <2>2. QED
    BY <1>1, <1>2, <2>1 DEF Managed!Manage, Owned
<1>6. QED
  BY <1>3, <1>4, <1>5

LEMMA EngineStep ==
    ASSUME Inv, Inv', [Next]_vars
    PROVE  [Managed!Next]_(Managed!vars)
<1> USE DEF Managed!Next
<1>1. CASE UNCHANGED api
  BY <1>1, QuietStep
<1>2. CASE AddFinalizer /\ api' # api
  <2>1. api.exists /\ api' = [api EXCEPT !.finalizer = TRUE]
        /\ UNCHANGED <<reqs, live>>
    BY <1>2 DEF AddFinalizer, aws
  <2>2. ~api.finalizer /\ ~api.deleting
    BY <1>2, <2>1 DEF Inv, IInv, TypeOK, K8sOK, CRs, Unidentified
  <2>3. Phase = "new" /\ Phase' = "held"
    BY <2>1, <2>2 DEF Phase, Inv, IInv, TypeOK, K8sOK, CRs
  <2>4. UNCHANGED <<api.abandon, Changes, Owned>>
    BY <2>1 DEF Changes, Owned, Inv, IInv, TypeOK, K8sOK, CRs
  <2>5. QED
    BY <2>3, <2>4 DEF Managed!Hold, Owned
<1>3. CASE RemoveFinalizer /\ api' # api
  <2>1. api.exists /\ api' = [api EXCEPT !.exists = FALSE]
        /\ UNCHANGED <<reqs, live>>
    BY <1>3 DEF RemoveFinalizer, aws
  <2>2. ~api'.exists
    BY <2>1 DEF Inv, IInv, TypeOK, K8sOK, CRs
  <2>3. Phase = "removing" /\ (api.abandon \/ ~Owned) /\ Phase' = "gone"
    BY <1>3, <2>1, <2>2, ReleaseStepIsRelease DEF Phase
  <2>4. UNCHANGED <<api.abandon, Changes, Owned>>
    BY <2>1 DEF Changes, Owned, Inv, IInv, TypeOK, K8sOK, CRs
  <2>5. QED
    BY <2>3, <2>4 DEF Managed!Release, Owned
<1>4. CASE Persist
  <2>1. api.exists /\ api.finalizer
    BY <1>4 DEF Persist, Inv, IInv, FinalizerHeld
  <2>2. Phase \in {"held", "removing"} /\ UNCHANGED <<Phase, api.abandon>>
    BY <1>4, <2>1 DEF Persist, Phase, Inv, IInv, TypeOK, K8sOK, CRs
  <2>3. Changes' \subseteq Tokens /\ Owned' \in BOOLEAN
    BY MappedType DEF Inv, IInv
  <2>4. QED
    BY <2>2, <2>3 DEF Managed!Manage, Owned
<1>5. CASE UserEdit
  <2>1. UNCHANGED <<Phase, api.abandon, Changes, Owned>>
    BY <1>5 DEF UserEdit, UserWrite, aws, Phase, Changes, Owned, Inv, IInv,
                TypeOK, K8sOK, CRs
  <2>2. QED
    BY <2>1 DEF Managed!vars, Owned
<1>6. CASE UserAbandon
  <2>1. api.exists /\ api'.abandon = TRUE /\ UNCHANGED <<Phase, Changes, Owned>>
    BY <1>6 DEF UserAbandon, UserWrite, aws, Phase, Changes, Owned, Inv, IInv,
                TypeOK, K8sOK, CRs
  <2>2. Phase # "gone"
    BY <2>1 DEF Phase
  <2>3. QED
    BY <2>1, <2>2 DEF Managed!Abandon, Owned
<1>7. CASE UserDelete
  <2>1. api.exists /\ ~api.deleting /\ UNCHANGED <<api.abandon, Changes, Owned>>
    BY <1>7 DEF UserDelete, UserWrite, aws, Changes, Owned, Inv, IInv,
                TypeOK, K8sOK, CRs
  <2>2. CASE api.finalizer
    <3>1. Phase = "held" /\ Phase' = "removing"
      BY <1>7, <2>1, <2>2 DEF UserDelete, UserWrite, Phase, Inv, IInv, TypeOK,
                              K8sOK, CRs
    <3>2. QED
      BY <2>1, <3>1 DEF Managed!Delete, Owned
  <2>3. CASE ~api.finalizer
    <3>1. Phase = "new" /\ Phase' = "gone"
      BY <1>7, <2>1, <2>3 DEF UserDelete, UserWrite, Phase, Inv, IInv, TypeOK,
                              K8sOK, CRs
    <3>2. QED
      BY <2>1, <3>1 DEF Managed!Delete, Owned
  <2>4. QED
    BY <2>2, <2>3
<1>8. QED
  BY <1>1, <1>2, <1>3, <1>4, <1>5, <1>6, <1>7, NextCases, LocalStep
  DEF vars, k8s, CacheSync

LEMMA EngineInit == Init => Managed!Init
<1> SUFFICES ASSUME Init PROVE Managed!Init
  OBVIOUS
<1>1. PICK want \in Wants :
         api = [BlankCR EXCEPT !.exists = TRUE, !.gen = 1, !.want = want]
  BY DEF Init
<1>2. /\ api.exists /\ ~api.finalizer /\ api.ident = NoId
      /\ api.abandon = FALSE
  BY <1>1 DEF BlankCR
<1>3. Phase = "new" /\ Changes = {}
  BY <1>2 DEF Phase, Changes, Init
<1>4. NoId \notin DOMAIN live
  BY DEF Init
<1>5. QED
  BY <1>2, <1>3, <1>4 DEF Managed!Init

\* The engine implements ManagedResource: whatever crashes, errors, edits,
\* stale reads and failed requests happen, it holds the finalizer before its
\* first request, gives it up only when the resource is gone or abandoned, and
\* is quiet afterwards.
THEOREM EngineImplementsManaged ==
    ASSUME "DELETE" \notin Expiring
    PROVE  Spec => ImplementsManaged
<1>1. Init => Managed!Init
  BY EngineInit
<1>2. Init => Unidentified
  BY InitUnidentified
<1>3. IInv /\ Unidentified /\ [Next]_vars => Unidentified'
  BY UnidentifiedStep DEF IInv
<1>4. IInv /\ Unidentified /\ IInv' /\ Unidentified' /\ [Next]_vars
        => [Managed!Next]_(Managed!vars)
  BY EngineStep DEF Inv
<1>5. QED
  BY <1>1, <1>2, <1>3, <1>4, InductiveInvariant, PTL
  DEF Spec, ImplementsManaged, Managed!Spec

-----------------------------------------------------------------------------
(* What follows from the promise of ManagedResource.                        *)

LEMMA NothingInit == Managed!Init => Managed!NothingLeftBehind
BY DEF Managed!Init, Managed!NothingLeftBehind

LEMMA NothingStep ==
    ASSUME Managed!NothingLeftBehind, [Managed!Next]_(Managed!vars)
    PROVE  Managed!NothingLeftBehind'
BY DEF Managed!NothingLeftBehind, Managed!Next, Managed!vars, Managed!Hold,
       Managed!Abandon, Managed!Delete, Managed!Manage, Managed!Vanish,
       Managed!Release

\* Whatever happens, nothing was asked of AWS for a CR without a finalizer, and
\* a CR that is gone and was not abandoned leaves no resource that its status
\* identified.
THEOREM EngineLeavesNothing ==
    ASSUME "DELETE" \notin Expiring
    PROVE  Spec => []Managed!NothingLeftBehind
<1>1. Managed!Spec => []Managed!NothingLeftBehind
  BY NothingInit, NothingStep, PTL DEF Managed!Spec
<1>2. QED
  BY <1>1, EngineImplementsManaged, PTL DEF ImplementsManaged

=============================================================================
