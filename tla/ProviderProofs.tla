--------------------------- MODULE ProviderProofs ---------------------------
(***************************************************************************)
(* Proofs about AWSProviders: that a reconcile runs in the role it resolved *)
(* (ProviderResolver), and what becomes of a provider and its users         *)
(* (ProviderLifecycle, as L).                                               *)
(***************************************************************************)
EXTENDS ProviderResolver, ProviderLifecycleNamed, TLAPS,
        WellFoundedInduction

\* Every nonempty set of naturals has a lowest member.
LEMMA Lowest ==
    ASSUME NEW S, S \subseteq Nat, S # {}
    PROVE  \E n \in S : \A m \in S : n <= m
  <1> DEFINE R == {ss \in Nat \X Nat : ss[1] < ss[2]}
  <1>1. IsWellFoundedOn(R, Nat)
    BY NatLessThanWellFounded DEF OpToRel
  <1>2. PICK n \in S : \A m \in S : ~ (<<m, n>> \in R)
    <2> HIDE DEF R
    <2> QED BY <1>1, WFMin
  <1>3. ASSUME NEW m \in S PROVE n <= m
    <2>1. m \in Nat /\ n \in Nat /\ ~ (<<m, n>> \in R)
      BY <1>2
    <2>2. m < n => <<m, n>> \in R
      BY <2>1
    <2> QED BY <2>1, <2>2
  <1> QED BY <1>3

-----------------------------------------------------------------------------
(* Types.                                                                   *)

\* The part of TypeOK about the workers.
WorkersOK ==
    /\ pc \in [Procs -> {"idle", "enter", "build", "done"}]
    /\ top \in [Procs -> 0 .. MaxStack]
    /\ stack \in [Procs -> [1 .. MaxStack -> Frames \union {NoFrame}]]
    /\ ret \in [Procs -> Credentials]
    /\ \A p \in Procs : \A i \in 1 .. MaxStack :
          i <= top[p] => stack[p][i] \in Frames
    /\ \A p \in Procs : IF pc[p] = "idle" THEN top[p] = 0
                       ELSE top[p] >= 1 \/ (pc[p] = "done" /\ p \in Workers)

\* The part about everything else.
ClusterOK ==
    /\ prov \in [Names -> Providers] /\ seen \in [Names -> Providers]
    /\ ann \in [Namespaces -> Names \union {None}]
CacheOK ==
    /\ DOMAIN cache \subseteq Names
    /\ \A n \in DOMAIN cache : cache[n] \in Entries
RestOK == scenario \in Scenarios /\ faults \in 0 .. scenario.errors

LEMMA TypeParts == TypeOK <=> WorkersOK /\ ClusterOK /\ CacheOK /\ RestOK
  BY DEF TypeOK, WorkersOK, ClusterOK, CacheOK, RestOK

LEMMA Bounds == 1 \in 1 .. MaxStack /\ MaxStack \in Nat
  BY ResolverAssumption

LEMMA OwnType == Own \in Credentials
  BY DEF Own, Credentials

LEMMA AssumeType ==
    ASSUME NEW c \in Credentials, NEW role \in Roles
    PROVE  Assume(c, role) \in Credentials
  <1>1. c.role \in Roles \union {NoRole} /\ c.path \in Seq(Roles)
    BY DEF Credentials
  <1>2. c.role # NoRole => Append(c.path, c.role) \in Seq(Roles)
    BY <1>1
  <1> QED BY <1>1, <1>2 DEF Assume, Credentials

LEMMA FrameType ==
    ASSUME ClusterOK, NEW n \in Names
    PROVE  FrameOf(n) \in Frames
  BY DEF ClusterOK, Providers, FrameOf, Frames

LEMMA TopType ==
    ASSUME WorkersOK, NEW p \in Procs, top[p] >= 1
    PROVE  Top(p) \in Frames /\ top[p] \in 1 .. MaxStack
  BY Bounds DEF WorkersOK, Top

LEMMA EnterType ==
    ASSUME WorkersOK, ClusterOK, NEW p \in Procs, NEW n \in Names, Enter(p, n)
    PROVE  WorkersOK'
  <1>1. FrameOf(n) \in Frames
    BY FrameType
  <1>2. /\ stack' \in [Procs -> [1 .. MaxStack -> Frames \union {NoFrame}]]
        /\ stack'[p][1] \in Frames
        /\ \A q \in Procs \ {p} : stack'[q] = stack[q]
    BY <1>1, Bounds DEF WorkersOK, Enter
  <1> QED BY <1>2, Bounds DEF WorkersOK, Enter

LEMMA AbortType ==
    ASSUME WorkersOK, NEW p \in Procs, Abort(p)
    PROVE  WorkersOK'
  <1>1. EmptyStack \in [1 .. MaxStack -> Frames \union {NoFrame}]
    BY DEF EmptyStack
  <1> QED BY <1>1, OwnType, Bounds DEF WorkersOK, Abort

LEMMA OwnEnterType ==
    ASSUME WorkersOK, NEW p \in Workers, EnterOwn(p)
    PROVE  WorkersOK'
  BY OwnType, Bounds DEF WorkersOK, EnterOwn, Procs

LEMMA ReturnedType ==
    ASSUME WorkersOK, NEW p \in Procs, NEW c \in Credentials, Returned(p, c),
           top[p] >= 1
    PROVE  WorkersOK'
  <1>1. CASE top[p] = 1
    BY <1>1, Bounds DEF WorkersOK, Returned
  <1>2. CASE top[p] # 1
    <2>1. top[p] \in 1 .. MaxStack /\ top[p] - 1 \in 1 .. MaxStack
      BY <1>2, Bounds DEF WorkersOK
    <2>2. stack' = [stack EXCEPT ![p][top[p]] = NoFrame]
      BY <1>2 DEF Returned
    <2>3. stack' \in [Procs -> [1 .. MaxStack -> Frames \union {NoFrame}]]
      BY <2>1, <2>2 DEF WorkersOK
    <2>4. \A i \in 1 .. MaxStack : i # top[p] => stack'[p][i] = stack[p][i]
      BY <2>1, <2>2 DEF WorkersOK
    <2>5. \A q \in Procs \ {p} : stack'[q] = stack[q]
      BY <2>2 DEF WorkersOK
    <2>6. top' = [top EXCEPT ![p] = top[p] - 1] /\ pc' = [pc EXCEPT ![p] = "build"]
      BY <1>2 DEF Returned
    <2>7. ret' \in [Procs -> Credentials]
      BY DEF WorkersOK, Returned
    <2>8. /\ pc' \in [Procs -> {"idle", "enter", "build", "done"}]
          /\ top' \in [Procs -> 0 .. MaxStack]
          /\ \A q \in Procs : IF pc'[q] = "idle" THEN top'[q] = 0
                              ELSE top'[q] >= 1 \/ (pc'[q] = "done" /\ q \in Workers)
      BY <2>1, <2>6, Bounds DEF WorkersOK
    <2>9. \A q \in Procs : \A i \in 1 .. MaxStack :
              i <= top'[q] => stack'[q][i] \in Frames
      <3>1. top'[p] = top[p] - 1 /\ \A q \in Procs \ {p} : top'[q] = top[q]
        BY <2>6 DEF WorkersOK
      <3>2. \A i \in 1 .. MaxStack : i <= top[p] - 1 => i # top[p] /\ i <= top[p]
        BY <2>1
      <3> QED BY <2>4, <2>5, <3>1, <3>2 DEF WorkersOK
    <2> QED BY <2>3, <2>7, <2>8, <2>9 DEF WorkersOK
  <1> QED BY <1>1, <1>2

\* A provider that is marked default is chosen where nothing names another.
LEMMA DefaultType ==
    ASSUME ClusterOK, Defaults # {}
    PROVE  DefaultProvider \in Names
  <1>1. Defaults \subseteq Names /\ Defaults \subseteq Nat
    BY ResolverAssumption DEF Defaults
  <1>2. \E n \in Defaults : \A m \in Defaults : n <= m
    BY <1>1, Lowest
  <1>3. DefaultProvider \in Defaults
    BY <1>2 DEF DefaultProvider
  <1> QED BY <1>1, <1>3

LEMMA UnnamedType ==
    ASSUME WorkersOK, ClusterOK, NEW p \in Workers, Unnamed(p)
    PROVE  WorkersOK'
  BY DefaultType, EnterType, OwnEnterType DEF Unnamed, Procs

LEMMA ScenarioType ==
    ASSUME scenario \in Scenarios
    PROVE  /\ scenario.workers \subseteq Workers /\ scenario.errors \in Nat
           /\ scenario.gens \in Nat
           /\ \A o \in scenario.objects :
                 o.ref \in Names \union {None} /\ o.ns \in Namespaces
           /\ \A n \in Names : \A s \in scenario.choices[n] : s \in Specs
  BY ResolverAssumption DEF AllScenarios

LEMMA FaultType ==
    ASSUME RestOK, Fault \/ NoFault
    PROVE  RestOK' /\ scenario' = scenario
  BY ScenarioType DEF RestOK, Fault, NoFault

\* The choice of a provider: a worker enters it, or the operator's own account.
LEMMA NamedStep ==
    ASSUME WorkersOK, ClusterOK, NEW p \in Procs, NEW o \in scenario.objects,
           scenario \in Scenarios,
           ForObject(p, o)
    PROVE  (\E n \in Names : Enter(p, n)) \/ EnterOwn(p)
  <1>1. o.ref \in Names \union {None} /\ ann[o.ns] \in Names \union {None}
    BY ScenarioType DEF ClusterOK
  <1>2. ASSUME NEW n \in Names \union {None}, Named(p, n, o)
        PROVE  \E m \in Names : Enter(p, m)
    BY <1>2 DEF Named
  <1>3. CASE Unnamed(p)
    BY <1>3, DefaultType DEF Unnamed
  <1> QED BY <1>1, <1>2, <1>3 DEF ForObject


LEMMA InitType == Init => TypeOK
  <1> SUFFICES ASSUME Init PROVE TypeOK
    OBVIOUS
  <1>1. RestOK
    BY ScenarioType DEF Init, RestOK
  <1>2. PICK spec \in [Names -> UNION {Written(n) : n \in Names}] :
            /\ \A n \in Names : spec[n] \in Written(n)
            /\ prov = [n \in Names |-> [exists |-> scenario.choices[n] # {},
                                        deleting |-> FALSE, uid |-> 1,
                                        gen |-> 1, obs |-> 0,
                                        spec |-> spec[n]]]
    BY DEF Init
  <1>3. \A n \in Names : spec[n] \in Specs
    <2>1. NoSpec \in Specs
      BY DEF NoSpec, Specs
    <2>2. \A n \in Names : \A s \in scenario.choices[n] : s \in Specs
      BY ScenarioType DEF Init
    <2> QED BY <1>2, <2>1, <2>2 DEF Written
  <1>4. ClusterOK
    BY <1>2, <1>3 DEF Init, ClusterOK, Providers
  <1>5. CacheOK
    BY DEF Init, CacheOK
  <1>6. EmptyStack \in [1 .. MaxStack -> Frames \union {NoFrame}]
    BY DEF EmptyStack
  <1>7. WorkersOK
    BY <1>6, OwnType, Bounds DEF Init, WorkersOK
  <1> QED BY <1>1, <1>4, <1>5, <1>7, TypeParts

LEMMA DropType ==
    ASSUME CacheOK, NEW n, Drop(n)
    PROVE  CacheOK'
  BY DEF CacheOK, Drop

\* The worker at p stands on a provider.
LEMMA OnTop ==
    ASSUME WorkersOK, NEW p \in Procs, pc[p] \in {"enter", "build"}
    PROVE  /\ top[p] >= 1 /\ top[p] \in 1 .. MaxStack
           /\ Top(p) \in Frames /\ Top(p) = stack[p][top[p]]
  BY TopType, Bounds DEF WorkersOK, Top

LEMMA SourceType ==
    ASSUME WorkersOK, ClusterOK, NEW p \in Procs, Source(p)
    PROVE  WorkersOK'
  <1>1. /\ pc[p] = "enter" /\ top[p] < MaxStack
        /\ Top(p).spec.src # None
        /\ top' = [top EXCEPT ![p] = top[p] + 1]
        /\ stack' = [stack EXCEPT ![p][top[p] + 1] = FrameOf(Top(p).spec.src)]
        /\ UNCHANGED <<pc, ret>>
    BY DEF Source, Uncached
  <1>2. Top(p) \in Frames /\ top[p] \in 1 .. MaxStack
    BY <1>1, OnTop
  <1>3. Top(p).spec.src \in Names
    BY <1>1, <1>2 DEF Frames, Specs
  <1>4. FrameOf(Top(p).spec.src) \in Frames
    BY <1>3, FrameType
  <1>5. top[p] + 1 \in 1 .. MaxStack
    BY <1>1, <1>2, Bounds
  <1> DEFINE f == FrameOf(Top(p).spec.src)
             k == top[p] + 1
  <1> HIDE DEF f
  <1>6. stack' = [stack EXCEPT ![p][k] = f] /\ f \in Frames /\ k \in 1 .. MaxStack
    BY <1>1, <1>4, <1>5 DEF f
  <1>7. top' = [top EXCEPT ![p] = k]
    BY <1>1
  <1> HIDE DEF k
  <1>8. stack' \in [Procs -> [1 .. MaxStack -> Frames \union {NoFrame}]]
    BY <1>6 DEF WorkersOK
  <1>9. /\ \A i \in 1 .. MaxStack : i # k => stack'[p][i] = stack[p][i]
        /\ stack'[p][k] = f
        /\ \A q \in Procs \ {p} : stack'[q] = stack[q]
    BY <1>6 DEF WorkersOK
  <1>10. top' \in [Procs -> 0 .. MaxStack] /\ top'[p] = k
         /\ \A q \in Procs \ {p} : top'[q] = top[q]
    BY <1>6, <1>7, Bounds DEF WorkersOK
  <1>11. \A q \in Procs : IF pc'[q] = "idle" THEN top'[q] = 0
                          ELSE top'[q] >= 1 \/ (pc'[q] = "done" /\ q \in Workers)
    BY <1>1, <1>6, <1>10 DEF WorkersOK
  <1>12. \A q \in Procs : \A i \in 1 .. MaxStack :
              i <= top'[q] => stack'[q][i] \in Frames
    <2> SUFFICES ASSUME NEW q \in Procs, NEW i \in 1 .. MaxStack, i <= top'[q]
                 PROVE  stack'[q][i] \in Frames
      OBVIOUS
    <2>1. CASE q # p
      BY <2>1, <1>9, <1>10 DEF WorkersOK
    <2>2. CASE q = p /\ i = k
      BY <2>2, <1>6, <1>9
    <2>3. CASE q = p /\ i # k
      <3>1. i <= top[p]
        BY <2>3, <1>2, <1>10 DEF k
      <3> QED BY <2>3, <3>1, <1>9 DEF WorkersOK
    <2> QED BY <2>1, <2>2, <2>3
  <1> QED BY <1>1, <1>8, <1>10, <1>11, <1>12 DEF WorkersOK

LEMMA ForProviderType ==
    ASSUME WorkersOK, ClusterOK, CacheOK, NEW p \in Procs, ForProvider(p)
    PROVE  WorkersOK' /\ CacheOK' /\ UNCHANGED cluster /\ NoFault
  <1>1. CASE CacheHit(p)
    <2> DEFINE c == [role |-> cache[Top(p).name].role,
                     path |-> cache[Top(p).name].path]
    <2>1. c \in Credentials
      BY <1>1 DEF CacheHit, Cached, CacheOK, Entries, Credentials
    <2>2. Returned(p, c) /\ top[p] >= 1
      BY <1>1, OnTop DEF CacheHit
    <2> HIDE DEF c
    <2>3. WorkersOK'
      BY <2>1, <2>2, ReturnedType
    <2> QED BY <1>1, <2>3 DEF CacheHit, CacheOK
  <1>2. CASE NoSource(p)
    <2>1. WorkersOK'
      BY <1>2, OwnType DEF NoSource, Uncached, WorkersOK
    <2> QED BY <1>2, <2>1 DEF NoSource, CacheOK
  <1>3. CASE Source(p)
    BY <1>3, SourceType DEF Source, CacheOK
  <1>4. CASE SourceMissing(p)
    BY <1>4, AbortType DEF SourceMissing, CacheOK
  <1>5. CASE PassThrough(p)
    <2>1. Returned(p, ret[p]) /\ top[p] >= 1 /\ ret[p] \in Credentials
      BY <1>5, OnTop DEF PassThrough, WorkersOK
    <2>2. WorkersOK'
      BY <2>1, ReturnedType
    <2> QED BY <1>5, <2>2 DEF PassThrough, CacheOK
  <1>6. CASE Store(p)
    <2> DEFINE c == Assume(ret[p], Top(p).spec.role)
    <2>1. Top(p) \in Frames /\ top[p] >= 1
      BY <1>6, OnTop DEF Store
    <2>2. Top(p).spec.role \in Roles /\ Top(p).name \in Names /\ Top(p).gen \in Nat
      BY <1>6, <2>1 DEF Store, Frames, Specs
    <2>3. c \in Credentials /\ c.role = Top(p).spec.role
      BY <2>2, AssumeType DEF WorkersOK, Assume
    <2>4. /\ cache' = [m \in DOMAIN cache \union {Top(p).name} |->
                        IF m = Top(p).name
                        THEN [gen |-> Top(p).gen, role |-> c.role, path |-> c.path]
                        ELSE cache[m]]
          /\ Returned(p, c) /\ UNCHANGED cluster /\ NoFault
      BY <1>6 DEF Store, EntryGeneration
    <2> HIDE DEF c
    <2>5. WorkersOK'
      BY <2>1, <2>3, <2>4, ReturnedType
    <2>6. [gen |-> Top(p).gen, role |-> c.role, path |-> c.path] \in Entries
      BY <2>2, <2>3 DEF Credentials, Entries
    <2>7. CacheOK'
      BY <2>2, <2>4, <2>6 DEF CacheOK
    <2> QED BY <2>4, <2>5, <2>7
  <1> QED BY <1>1, <1>2, <1>3, <1>4, <1>5, <1>6 DEF ForProvider

\* An edit, a deletion and a removal of a well-formed provider.
LEMMA ChangedType ==
    ASSUME NEW p \in Providers, NEW s \in Specs
    PROVE  /\ [p EXCEPT !.gen = @ + 1, !.spec = s] \in Providers
           /\ [p EXCEPT !.deleting = TRUE, !.gen = @ + 1] \in Providers
           /\ [p EXCEPT !.exists = FALSE] \in Providers
  <1>1. p.gen \in Nat
    BY DEF Providers
  <1>2. \A g \in Nat : [p EXCEPT !.gen = g, !.spec = s] \in Providers
    BY DEF Providers
  <1>3. \A g \in Nat : [p EXCEPT !.deleting = TRUE, !.gen = g] \in Providers
    BY DEF Providers
  <1>4. [p EXCEPT !.exists = FALSE] \in Providers
    BY DEF Providers
  <1>5. p.gen + 1 \in Nat
    BY <1>1
  <1> QED BY <1>2, <1>3, <1>4, <1>5

\* Users and the watch leave what is stored well formed.
LEMMA UserType ==
    ASSUME ClusterOK, scenario \in Scenarios, NEW n \in Names,
           Edit(n) \/ Delete(n) \/ Remove(n) \/ Recreate(n) \/ Watch(n)
    PROVE  ClusterOK' /\ UNCHANGED <<cache, pc, stack, top, ret>> /\ NoFault
  <1>0. \A s \in scenario.choices[n] : s \in Specs
    BY ScenarioType
  <1>1. CASE Edit(n)
    <2>1. PICK s \in scenario.choices[n] :
              UserChange(n, [prov[n] EXCEPT !.gen = @ + 1, !.spec = s])
      BY <1>1 DEF Edit
    <2>2. [prov[n] EXCEPT !.gen = @ + 1, !.spec = s] \in Providers
      BY <1>0, ChangedType DEF ClusterOK
    <2> QED BY <1>1, <2>1, <2>2 DEF Edit, UserChange, ClusterOK, local
  <1>2. CASE Delete(n) \/ Remove(n)
    <2>1. prov[n] \in Providers /\ prov[n].spec \in Specs
      BY DEF ClusterOK, Providers
    <2>2. /\ [prov[n] EXCEPT !.deleting = TRUE, !.gen = @ + 1] \in Providers
          /\ [prov[n] EXCEPT !.exists = FALSE] \in Providers
      BY <2>1, ChangedType
    <2> QED BY <1>2, <2>2 DEF Delete, Remove, UserChange, ClusterOK, local
  <1>3. CASE Recreate(n)
    <2>1. PICK s \in scenario.choices[n] :
              UserChange(n, [exists |-> TRUE, deleting |-> FALSE, uid |-> 2,
                             gen |-> 1, spec |-> s, obs |-> 0])
      BY <1>3 DEF Recreate
    <2>2. [exists |-> TRUE, deleting |-> FALSE, uid |-> 2, gen |-> 1,
           spec |-> s, obs |-> 0] \in Providers
      BY <1>0 DEF Providers
    <2> QED BY <1>3, <2>1, <2>2 DEF Recreate, UserChange, ClusterOK, local
  <1>4. CASE Watch(n)
    BY <1>4 DEF Watch, ClusterOK, local
  <1> QED BY <1>1, <1>2, <1>3, <1>4

LEMMA TypeStep ==
    ASSUME TypeOK, [Next]_vars
    PROVE  TypeOK'
  <1>0. WorkersOK /\ ClusterOK /\ CacheOK /\ RestOK /\ scenario \in Scenarios
    BY TypeParts DEF RestOK
  <1> SUFFICES WorkersOK' /\ ClusterOK' /\ CacheOK' /\ RestOK'
    BY DEF TypeOK, WorkersOK, ClusterOK, CacheOK, RestOK
  <1>1. ASSUME NEW p \in scenario.workers, NEW o \in scenario.objects,
               ForObject(p, o)
        PROVE  WorkersOK' /\ ClusterOK' /\ CacheOK' /\ RestOK'
    <2>1. p \in Workers /\ p \in Procs
      BY <1>0, ScenarioType DEF Procs
    <2>2. WorkersOK'
      BY <1>0, <1>1, <2>1, NamedStep, EnterType, OwnEnterType
    <2> QED BY <1>0, <1>1, <2>2, FaultType DEF ForObject, cluster, ClusterOK,
               CacheOK
  <1>2. ASSUME NEW p \in scenario.workers, NEW o \in scenario.objects,
               ForObjectUnread(p, o)
        PROVE  WorkersOK' /\ ClusterOK' /\ CacheOK' /\ RestOK'
    <2>1. p \in Workers /\ p \in Procs
      BY <1>0, ScenarioType DEF Procs
    <2>2. WorkersOK'
      BY <1>0, <1>2, <2>1, UnnamedType DEF ForObjectUnread
    <2> QED BY <1>0, <1>2, <2>2, FaultType DEF ForObjectUnread, cluster,
               ClusterOK, CacheOK
  <1>3. ASSUME NEW p \in Procs, ForProvider(p)
        PROVE  WorkersOK' /\ ClusterOK' /\ CacheOK' /\ RestOK'
    BY <1>0, <1>3, ForProviderType, FaultType DEF cluster, ClusterOK
  <1>4. ASSUME NEW p \in Procs, Finish(p)
        PROVE  WorkersOK' /\ ClusterOK' /\ CacheOK' /\ RestOK'
    <2>1. WorkersOK'
      BY <1>0, <1>4, AbortType DEF Finish
    <2> QED BY <1>0, <1>4, <2>1, FaultType DEF Finish, cluster, ClusterOK, CacheOK
  <1>5. ASSUME NEW n \in Names, Verify(n)
        PROVE  WorkersOK' /\ ClusterOK' /\ CacheOK' /\ RestOK'
    <2>1. WorkersOK'
      BY <1>0, <1>5, EnterType DEF Verify, Procs
    <2>2. CacheOK'
      BY <1>0, <1>5, DropType DEF Verify, CacheOK
    <2> QED BY <1>0, <1>5, <2>1, <2>2, FaultType DEF Verify, cluster, ClusterOK
  <1>6. ASSUME NEW n \in Names, Invalidate(n)
        PROVE  WorkersOK' /\ ClusterOK' /\ CacheOK' /\ RestOK'
    <2>1. CacheOK'
      BY <1>0, <1>6, DropType DEF Invalidate
    <2> QED BY <1>0, <1>6, <2>1, FaultType DEF Invalidate, cluster, local,
               ClusterOK, WorkersOK
  <1>7. CASE Verified
    <2>1. WorkersOK'
      BY <1>0, <1>7, AbortType DEF Verified, Procs
    <2>2. stack[Verifier][1] \in Frames
      <3>1. Verifier \in Procs /\ Verifier \notin Workers
        BY ResolverAssumption DEF Procs
      <3>2. top[Verifier] >= 1
        BY <1>0, <1>7, <3>1 DEF WorkersOK, Verified
      <3> QED BY <1>0, <3>1, <3>2, Bounds DEF WorkersOK
    <2>3. ClusterOK'
      <3> DEFINE f == stack[Verifier][1]
      <3>1. f.name \in Names /\ f.gen \in Nat
        BY <2>2 DEF Frames
      <3>2. prov \in [Names -> Providers] /\ prov[f.name] \in Providers
        BY <1>0, <3>1 DEF ClusterOK
      <3>3. [prov[f.name] EXCEPT !.obs = f.gen] \in Providers
        BY <3>1, <3>2 DEF Providers
      <3>4. [prov EXCEPT ![f.name].obs = f.gen] \in [Names -> Providers]
        BY <3>1, <3>2, <3>3
      <3>5. prov' = prov \/ prov' = [prov EXCEPT ![f.name].obs = f.gen]
        BY <1>7 DEF Verified
      <3>6. UNCHANGED <<seen, ann>>
        BY <1>7 DEF Verified
      <3> QED BY <1>0, <3>2, <3>4, <3>5, <3>6 DEF ClusterOK
    <2> QED BY <1>0, <1>7, <2>1, <2>3, FaultType DEF Verified, CacheOK
  <1>8. CASE VerifyFailed
    <2>1. WorkersOK'
      BY <1>0, <1>8, AbortType DEF VerifyFailed, Procs
    <2> QED BY <1>0, <1>8, <2>1, FaultType DEF VerifyFailed, cluster, ClusterOK,
               CacheOK
  <1>9. ASSUME NEW n \in Names, Edit(n) \/ Delete(n) \/ Remove(n) \/ Recreate(n) \/ Watch(n)
        PROVE  WorkersOK' /\ ClusterOK' /\ CacheOK' /\ RestOK'
    BY <1>0, <1>9, UserType, FaultType DEF WorkersOK, CacheOK
  <1>10. ASSUME NEW ns \in Namespaces, Annotate(ns)
         PROVE  WorkersOK' /\ ClusterOK' /\ CacheOK' /\ RestOK'
    BY <1>0, <1>10, FaultType DEF Annotate, local, ClusterOK, WorkersOK, CacheOK
  <1>11. CASE UNCHANGED vars
    BY <1>0, <1>11 DEF vars, WorkersOK, ClusterOK, CacheOK, RestOK
  <1> QED
    BY <1>1, <1>2, <1>3, <1>4, <1>5, <1>6, <1>7, <1>8, <1>9, <1>10, <1>11
    DEF Next, Resolve, Work, Controller


-----------------------------------------------------------------------------
(* What is said of a provider.                                              *)

\* Three places say that a generation of a provider has a role: the cluster and
\* the informer, the stacks of the workers, and the cache.
ClusterSays(n, gen, role) ==
    \E v \in Versions(n) : v.gen = gen /\ v.spec.role = role
WorkersSay(n, gen, role) ==
    \E p \in Procs : \E i \in Held(p, n) :
        stack[p][i].gen = gen /\ stack[p][i].spec.role = role
CacheSays(n, gen, role) ==
    n \in DOMAIN cache /\ cache[n].gen = gen /\ cache[n].role = role
Said(n, gen, role) ==
    ClusterSays(n, gen, role) \/ WorkersSay(n, gen, role) \/ CacheSays(n, gen,
    role)

\* No two of them contradict each other, and none speaks of the future.
Consistent(n) ==
    First(n) =>
        \A gen, role : Said(n, gen, role) =>
            /\ gen <= prov[n].gen
            /\ \A other : Said(n, gen, other) => other = role

LEMMA ConsistentParts ==
    TypeOK => (GenerationsAgree /\ EntriesAgree <=> \A n \in Names : Consistent(n))
  <1> SUFFICES ASSUME TypeOK
               PROVE  GenerationsAgree /\ EntriesAgree <=> \A n \in Names : Consistent(n)
    OBVIOUS
  <1>1. ASSUME GenerationsAgree, EntriesAgree, NEW n \in Names, First(n),
               NEW gen, NEW role, Said(n, gen, role)
        PROVE  gen <= prov[n].gen /\ Agrees(gen, role, n)
    BY <1>1 DEF GenerationsAgree, EntriesAgree, Said, ClusterSays, WorkersSay,
       CacheSays
  <1>2. ASSUME GenerationsAgree, EntriesAgree, NEW n \in Names, First(n),
               NEW gen, NEW role, NEW other, Said(n, gen, role), Said(n, gen,
               other)
        PROVE  other = role
    <2>1. Agrees(gen, role, n) /\ Agrees(gen, other, n)
      BY <1>1, <1>2
    <2>2. CASE ~CacheSays(n, gen, other)
      BY <1>2, <2>1, <2>2 DEF Said, ClusterSays, WorkersSay, Agrees
    <2>3. CASE ~CacheSays(n, gen, role)
      BY <1>2, <2>1, <2>3 DEF Said, ClusterSays, WorkersSay, Agrees
    <2>4. CASE CacheSays(n, gen, role) /\ CacheSays(n, gen, other)
      BY <2>4 DEF CacheSays
    <2> QED BY <2>2, <2>3, <2>4
  <1>3. ASSUME NEW n \in Names, Consistent(n), First(n), NEW gen, NEW role,
               Said(n, gen, role)
        PROVE  gen <= prov[n].gen /\ Agrees(gen, role, n)
    <2>1. gen <= prov[n].gen /\ \A other : Said(n, gen, other) => other = role
      BY <1>3 DEF Consistent
    <2> QED BY <2>1 DEF Agrees, Said, ClusterSays, WorkersSay
  <1>4. ASSUME \A n \in Names : Consistent(n)
        PROVE  GenerationsAgree /\ EntriesAgree
    <2>1. GenerationsAgree
      BY <1>3, <1>4 DEF GenerationsAgree, Said, ClusterSays, WorkersSay
    <2>2. EntriesAgree
      BY <1>3, <1>4 DEF EntriesAgree, Said, CacheSays, TypeOK
    <2> QED BY <2>1, <2>2
  <1> QED BY <1>1, <1>2, <1>4 DEF Consistent

\* Nothing new is said.
LEMMA ConsistentKept ==
    ASSUME NEW n \in Names, Consistent(n), First(n)' => First(n),
           prov'[n].gen = prov[n].gen,
           \A gen, role : Said(n, gen, role)' => Said(n, gen, role)
    PROVE  Consistent(n)'
  BY DEF Consistent


\* Where the workers have come from: each place a worker stands on is one it
\* stood on, or a provider as the informer shows it.
LEMMA EnterSays ==
    ASSUME WorkersOK, NEW q \in Procs, NEW m \in Names, Enter(q, m),
           UNCHANGED <<prov, seen>>,
           NEW n, NEW gen, NEW role, WorkersSay(n, gen, role)'
    PROVE  WorkersSay(n, gen, role) \/ ClusterSays(n, gen, role)
  <1>1. PICK p \in Procs : \E i \in Held(p, n)' :
            stack'[p][i].gen = gen /\ stack'[p][i].spec.role = role
    BY DEF WorkersSay
  <1>2. PICK i \in Held(p, n)' : stack'[p][i].gen = gen /\ stack'[p][i].spec.role = role
    BY <1>1
  <1>3. i \in 1 .. MaxStack /\ i <= top'[p] /\ stack'[p][i].name = n
    BY <1>2 DEF Held
  <1>4. CASE p # q
    <2>1. top'[p] = top[p] /\ stack'[p] = stack[p]
      BY <1>4 DEF Enter, WorkersOK
    <2> QED BY <1>2, <1>3, <2>1 DEF WorkersSay, Held
  <1>5. CASE p = q
    <2>1. i = 1
      BY <1>3, <1>5, Bounds DEF Enter, WorkersOK
    <2>2. stack'[p][i] = FrameOf(m)
      BY <1>5, <2>1, Bounds DEF Enter, WorkersOK
    <2> QED BY <1>2, <1>3, <2>2 DEF FrameOf, ClusterSays, Versions
  <1> QED BY <1>4, <1>5

\* Workers that leave places, and keep the others.
LEMMA LeaveSays ==
    ASSUME NEW q \in Procs,
           \A p \in Procs \ {q} : top'[p] = top[p] /\ stack'[p] = stack[p],
           \A i \in 1 .. MaxStack : i <= top'[q] =>
              i <= top[q] /\ stack'[q][i] = stack[q][i],
           NEW n, NEW gen, NEW role, WorkersSay(n, gen, role)'
    PROVE  WorkersSay(n, gen, role)
  BY DEF WorkersSay, Held

LEMMA AbortSays ==
    ASSUME WorkersOK, NEW q \in Procs, Abort(q),
           NEW n, NEW gen, NEW role, WorkersSay(n, gen, role)'
    PROVE  WorkersSay(n, gen, role)
  <1>1. \A p \in Procs \ {q} : top'[p] = top[p] /\ stack'[p] = stack[p]
    BY DEF Abort, WorkersOK
  <1>2. top'[q] = 0
    BY DEF Abort, WorkersOK
  <1> QED BY <1>1, <1>2, LeaveSays

LEMMA ReturnedSays ==
    ASSUME WorkersOK, NEW q \in Procs, NEW c, Returned(q, c), top[q] >= 1,
           NEW n, NEW gen, NEW role, WorkersSay(n, gen, role)'
    PROVE  WorkersSay(n, gen, role)
  <1>1. CASE top[q] = 1
    BY <1>1 DEF Returned, WorkersSay, Held
  <1>2. CASE top[q] # 1
    <2>1. top[q] \in 1 .. MaxStack /\ top' = [top EXCEPT ![q] = top[q] - 1]
      BY <1>2, Bounds DEF Returned, WorkersOK
    <2>2. stack' = [stack EXCEPT ![q][top[q]] = NoFrame]
      BY <1>2 DEF Returned
    <2>3. top'[q] = top[q] - 1 /\ \A p \in Procs \ {q} : top'[p] = top[p]
      BY <2>1 DEF WorkersOK
    <2>4. /\ \A p \in Procs \ {q} : stack'[p] = stack[p]
          /\ \A i \in 1 .. MaxStack : i # top[q] => stack'[q][i] = stack[q][i]
      BY <2>1, <2>2 DEF WorkersOK
    <2>5. \A i \in 1 .. MaxStack : i <= top[q] - 1 => i # top[q] /\ i <= top[q]
      BY <2>1
    <2> QED BY <2>3, <2>4, <2>5, LeaveSays
  <1> QED BY <1>1, <1>2

LEMMA SourceSays ==
    ASSUME WorkersOK, ClusterOK, NEW q \in Procs, Source(q),
           NEW n, NEW gen, NEW role, WorkersSay(n, gen, role)'
    PROVE  WorkersSay(n, gen, role) \/ ClusterSays(n, gen, role)
  <1> DEFINE m == Top(q).spec.src
  <1>0. Top(q) \in Frames /\ top[q] \in 1 .. MaxStack /\ m \in Names
    BY OnTop DEF Source, Uncached, Frames, Specs
  <1>1. /\ top[q] < MaxStack /\ top' = [top EXCEPT ![q] = top[q] + 1]
        /\ stack' = [stack EXCEPT ![q][top[q] + 1] = FrameOf(m)]
    BY DEF Source
  <1> HIDE DEF m
  <1>2. /\ \A p \in Procs \ {q} : top'[p] = top[p] /\ stack'[p] = stack[p]
        /\ top'[q] = top[q] + 1
    BY <1>1 DEF WorkersOK
  <1>3. \A i \in 1 .. MaxStack :
            stack'[q][i] = IF i = top[q] + 1 THEN FrameOf(m) ELSE stack[q][i]
    BY <1>1 DEF WorkersOK
  <1>4. PICK p \in Procs : \E i \in Held(p, n)' :
            stack'[p][i].gen = gen /\ stack'[p][i].spec.role = role
    BY DEF WorkersSay
  <1>5. PICK i \in Held(p, n)' : stack'[p][i].gen = gen /\ stack'[p][i].spec.role = role
    BY <1>4
  <1>6. i \in 1 .. MaxStack /\ i <= top'[p] /\ stack'[p][i].name = n
    BY <1>5 DEF Held
  <1>7. CASE p # q
    BY <1>2, <1>5, <1>6, <1>7 DEF WorkersSay, Held
  <1>8. CASE p = q /\ i = top[q] + 1
    BY <1>3, <1>5, <1>6, <1>8 DEF FrameOf, ClusterSays, Versions
  <1>9. CASE p = q /\ i # top[q] + 1
    <2>1. i <= top[q] /\ stack'[q][i] = stack[q][i]
      BY <1>0, <1>2, <1>3, <1>6, <1>9
    <2> QED BY <1>5, <1>6, <1>9, <2>1 DEF WorkersSay, Held
  <1> QED BY <1>7, <1>8, <1>9

\* What a worker stores was said by the place it stands on.
LEMMA StoreSays ==
    ASSUME WorkersOK, NEW p \in Procs, Store(p),
           NEW n, NEW gen, NEW role, CacheSays(n, gen, role)'
    PROVE  CacheSays(n, gen, role) \/ WorkersSay(n, gen, role)
  <1>1. Top(p) \in Frames /\ top[p] \in 1 .. MaxStack /\ Top(p) = stack[p][top[p]]
    BY OnTop DEF Store
  <1>2. PICK path :
            cache' = [m \in DOMAIN cache \union {Top(p).name} |->
                        IF m = Top(p).name
                        THEN [gen |-> Top(p).gen, role |-> Top(p).spec.role, path |-> path]
                        ELSE cache[m]]
    BY DEF Store, EntryGeneration, Assume
  <1>3. CASE n = Top(p).name
    <2>1. gen = Top(p).gen /\ role = Top(p).spec.role
      BY <1>2, <1>3 DEF CacheSays
    <2>2. top[p] \in Held(p, n)
      BY <1>1, <1>3 DEF Held
    <2> QED BY <1>1, <2>1, <2>2 DEF WorkersSay
  <1>4. CASE n # Top(p).name
    BY <1>2, <1>4 DEF CacheSays
  <1> QED BY <1>3, <1>4

LEMMA DropSays ==
    ASSUME NEW m, Drop(m), NEW n, NEW gen, NEW role, CacheSays(n, gen, role)'
    PROVE  CacheSays(n, gen, role)
  BY DEF Drop, CacheSays


-----------------------------------------------------------------------------
(* The invariant.                                                           *)

\* No two versions of a provider that users write are of one generation.
LEMMA UserSays ==
    ASSUME TypeOK, TypeOK', NEW m \in Names,
           Edit(m) \/ Delete(m) \/ Remove(m) \/ Recreate(m) \/ Watch(m),
           NEW n \in Names, Consistent(n)
    PROVE  Consistent(n)'
  <1>0. WorkersOK /\ ClusterOK /\ scenario \in Scenarios
    BY TypeParts DEF RestOK
  <1>1. UNCHANGED <<cache, stack, top>>
    BY <1>0, UserType
  <1>2. \A gen, role : /\ WorkersSay(n, gen, role)' <=> WorkersSay(n, gen, role)
                       /\ CacheSays(n, gen, role)' <=> CacheSays(n, gen, role)
    BY <1>1 DEF WorkersSay, Held, CacheSays
  <1>3. ASSUME prov'[n] = prov[n], seen'[n] \in {seen[n], prov[n]}
        PROVE  Consistent(n)'
    <2>1. \A gen, role : ClusterSays(n, gen, role)' => ClusterSays(n, gen, role)
      BY <1>3 DEF ClusterSays, Versions
    <2> QED BY <1>2, <1>3, <2>1, ConsistentKept DEF Said, First
  <1>4. CASE m # n
    <2>1. prov'[n] = prov[n] /\ seen'[n] = seen[n]
      BY <1>0, <1>4 DEF Edit, Delete, Remove, Recreate, Watch, UserChange, ClusterOK
    <2> QED BY <1>3, <2>1
  <1>5. CASE m = n /\ Watch(m)
    <2>1. prov'[n] = prov[n] /\ seen'[n] = prov[n]
      BY <1>0, <1>5 DEF Watch, ClusterOK
    <2> QED BY <1>3, <2>1
  <1>6. CASE m = n /\ Remove(m)
    <2>1. /\ prov'[n].uid = prov[n].uid /\ prov'[n].gen = prov[n].gen
          /\ prov'[n].spec = prov[n].spec /\ seen' = seen
      BY <1>0, <1>6 DEF Remove, UserChange, ClusterOK, Providers
    <2>2. \A gen, role : ClusterSays(n, gen, role)' => ClusterSays(n, gen, role)
      BY <2>1 DEF ClusterSays, Versions
    <2> QED BY <1>2, <2>1, <2>2, ConsistentKept DEF Said, First
  <1>7. CASE m = n /\ Recreate(m)
    <2>1. prov'[n].uid = 2
      BY <1>0, <1>7 DEF Recreate, UserChange, ClusterOK
    <2> QED BY <2>1 DEF Consistent, First
  <1>8. CASE m = n /\ (Edit(m) \/ Delete(m))
    <2>1. PICK s : \/ UserChange(n, [prov[n] EXCEPT !.gen = @ + 1, !.spec = s])
                   \/ /\ s = prov[n].spec
                      /\ UserChange(n, [prov[n] EXCEPT !.deleting = TRUE,
                                                       !.gen = @ + 1])
      BY <1>8 DEF Edit, Delete
    <2>2. /\ prov'[n].uid = prov[n].uid /\ prov'[n].gen = prov[n].gen + 1
          /\ prov'[n].spec = s /\ seen' = seen
      BY <1>0, <2>1 DEF UserChange, ClusterOK, Providers
    <2>3. prov[n].gen \in Nat
      BY <1>0 DEF ClusterOK, Providers
    <2>4. ASSUME NEW gen, NEW role, Said(n, gen, role)'
          PROVE  Said(n, gen, role) \/ (gen = prov[n].gen + 1 /\ role = s.role)
      BY <1>2, <2>2, <2>4 DEF Said, ClusterSays, Versions
    <2>5. ASSUME NEW gen, Consistent(n), First(n), NEW role, Said(n, gen, role)
          PROVE  gen <= prov[n].gen /\ gen # prov[n].gen + 1 /\ gen \in Nat
      <3>1. gen <= prov[n].gen
        BY <2>5 DEF Consistent
      <3>2. gen \in Nat
        BY <1>0, <2>5, TypeParts DEF Said, ClusterSays, WorkersSay, CacheSays,
           Versions, Held, ClusterOK, Providers, WorkersOK, CacheOK, Entries,
           Frames
      <3> QED BY <2>3, <3>1, <3>2
    <2> SUFFICES ASSUME First(n)', NEW gen, NEW role, Said(n, gen, role)'
                 PROVE  /\ gen <= prov'[n].gen
                        /\ \A other : Said(n, gen, other)' => other = role
      BY DEF Consistent
    <2>6. First(n)
      BY <2>2 DEF First
    <2>7. gen <= prov'[n].gen
      <3>1. CASE Said(n, gen, role)
        <4>1. gen \in Nat /\ gen <= prov[n].gen
          BY <2>5, <2>6, <3>1
        <4> QED BY <2>2, <2>3, <4>1
      <3>2. CASE gen = prov[n].gen + 1
        BY <2>2, <2>3, <3>2
      <3> QED BY <2>4, <3>1, <3>2
    <2>8. ASSUME NEW other, Said(n, gen, other)' PROVE other = role
      BY <2>4, <2>5, <2>6, <2>8 DEF Consistent
    <2> QED BY <2>7, <2>8
  <1> QED BY <1>4, <1>5, <1>6, <1>7, <1>8

\* While users and the watch rest, nobody says anything new.
LEMMA RestingSays ==
    ASSUME UNCHANGED seen, NEW n \in Names, Consistent(n),
           prov'[n].uid = prov[n].uid, prov'[n].gen = prov[n].gen,
           prov'[n].spec = prov[n].spec,
           \A gen, role : WorkersSay(n, gen, role)' =>
              WorkersSay(n, gen, role) \/ ClusterSays(n, gen, role),
           \A gen, role : CacheSays(n, gen, role)' =>
              CacheSays(n, gen, role) \/ WorkersSay(n, gen, role)
    PROVE  Consistent(n)'
  <1>1. \A gen, role : ClusterSays(n, gen, role)' => ClusterSays(n, gen, role)
    BY DEF ClusterSays, Versions
  <1> QED BY <1>1, ConsistentKept DEF Said, First

LEMMA SaidStep ==
    ASSUME TypeOK, TypeOK', [Next]_vars, NEW n \in Names, Consistent(n)
    PROVE  Consistent(n)'
  <1>0. WorkersOK /\ ClusterOK /\ CacheOK /\ scenario \in Scenarios
    BY TypeParts DEF RestOK
  <1>1. ASSUME UNCHANGED <<prov, seen, stack, top>>,
               \A gen, role : CacheSays(n, gen, role)' =>
                  CacheSays(n, gen, role) \/ WorkersSay(n, gen, role)
        PROVE  Consistent(n)'
    BY <1>1, RestingSays DEF WorkersSay, Held
  <1>2. ASSUME UNCHANGED <<prov, seen, cache>>,
               \A gen, role : WorkersSay(n, gen, role)' =>
                  WorkersSay(n, gen, role) \/ ClusterSays(n, gen, role)
        PROVE  Consistent(n)'
    BY <1>2, RestingSays DEF CacheSays
  <1>3. ASSUME NEW p \in Procs, UNCHANGED <<cluster, cache>>,
               (\E m \in Names : Enter(p, m)) \/ EnterOwn(p)
        PROVE  Consistent(n)'
    <2>1. ASSUME NEW m \in Names, Enter(p, m) PROVE Consistent(n)'
      BY <1>0, <1>2, <1>3, <2>1, EnterSays DEF cluster
    <2>2. CASE EnterOwn(p)
      BY <1>1, <1>3, <2>2 DEF EnterOwn, cluster, CacheSays
    <2> QED BY <1>3, <2>1, <2>2
  <1>4. ASSUME NEW p \in Procs, UNCHANGED <<cluster, cache>>, Abort(p)
        PROVE  Consistent(n)'
    BY <1>0, <1>2, <1>4, AbortSays DEF cluster
  <1>5. ASSUME NEW p \in scenario.workers, NEW o \in scenario.objects,
               ForObject(p, o) \/ ForObjectUnread(p, o)
        PROVE  Consistent(n)'
    <2>1. p \in Procs
      BY <1>0, ScenarioType DEF Procs
    <2>2. (\E m \in Names : Enter(p, m)) \/ EnterOwn(p)
      BY <1>0, <1>5, <2>1, NamedStep, DefaultType DEF ForObjectUnread, Unnamed
    <2> QED BY <1>3, <1>5, <2>1, <2>2 DEF ForObject, ForObjectUnread
  <1>6. ASSUME NEW p \in Procs, ForProvider(p) PROVE Consistent(n)'
    <2>1. UNCHANGED <<prov, seen>>
      BY <1>0, <1>6, ForProviderType DEF cluster
    <2>2. ASSUME NEW c, Returned(p, c), top[p] >= 1,
                 \A gen, role : CacheSays(n, gen, role)' =>
                    CacheSays(n, gen, role) \/ WorkersSay(n, gen, role)
          PROVE  Consistent(n)'
      <3>1. \A gen, role : WorkersSay(n, gen, role)' => WorkersSay(n, gen, role)
        BY <1>0, <2>2, ReturnedSays
      <3> QED BY <2>1, <2>2, <3>1, RestingSays
    <2>3. CASE CacheHit(p)
      BY <1>0, <2>2, <2>3, OnTop DEF CacheHit, CacheSays
    <2>4. CASE NoSource(p)
      BY <1>1, <2>1, <2>4 DEF NoSource, CacheSays
    <2>5. CASE Source(p)
      <3>1. \A gen, role : WorkersSay(n, gen, role)' =>
                  WorkersSay(n, gen, role) \/ ClusterSays(n, gen, role)
        BY <1>0, <2>5, SourceSays
      <3>2. UNCHANGED cache
        BY <2>5 DEF Source
      <3> QED BY <1>2, <2>1, <3>1, <3>2
    <2>6. CASE SourceMissing(p)
      BY <1>4, <2>6 DEF SourceMissing
    <2>7. CASE PassThrough(p)
      BY <1>0, <2>2, <2>7, OnTop DEF PassThrough, CacheSays
    <2>8. CASE Store(p)
      <3>1. \A gen, role : CacheSays(n, gen, role)' =>
                CacheSays(n, gen, role) \/ WorkersSay(n, gen, role)
        BY <1>0, <2>8, StoreSays
      <3>2. PICK c : Returned(p, c)
        BY <2>8 DEF Store
      <3>3. top[p] >= 1
        BY <1>0, <2>8, OnTop DEF Store
      <3> QED BY <2>2, <3>1, <3>2, <3>3
    <2> QED BY <1>6, <2>3, <2>4, <2>5, <2>6, <2>7, <2>8 DEF ForProvider
  <1>7. ASSUME NEW p \in Procs, Finish(p) PROVE Consistent(n)'
    BY <1>4, <1>7 DEF Finish
  <1>8. ASSUME NEW m \in Names, Verify(m) PROVE Consistent(n)'
    <2>1. UNCHANGED <<prov, seen>> /\ Enter(Verifier, m) /\ Verifier \in Procs
      BY <1>8 DEF Verify, cluster, Procs
    <2>2. \A gen, role : CacheSays(n, gen, role)' => CacheSays(n, gen, role)
      BY <1>8, DropSays DEF Verify, CacheSays
    <2>3. \A gen, role : WorkersSay(n, gen, role)' =>
              WorkersSay(n, gen, role) \/ ClusterSays(n, gen, role)
      BY <1>0, <2>1, EnterSays
    <2> QED BY <2>1, <2>2, <2>3, RestingSays
  <1>9. ASSUME NEW m \in Names, Invalidate(m) PROVE Consistent(n)'
    <2>1. \A gen, role : CacheSays(n, gen, role)' => CacheSays(n, gen, role)
      BY <1>9, DropSays DEF Invalidate
    <2> QED BY <1>1, <1>9, <2>1 DEF Invalidate, cluster, local
  <1>10. CASE Verified
    <2>1. /\ prov'[n].uid = prov[n].uid /\ prov'[n].gen = prov[n].gen
          /\ prov'[n].spec = prov[n].spec
      BY <1>0, <1>10 DEF Verified, ClusterOK, Providers
    <2>2. \A gen, role : WorkersSay(n, gen, role)' => WorkersSay(n, gen, role)
      BY <1>0, <1>10, AbortSays DEF Verified, Procs
    <2>3. UNCHANGED <<seen, cache>>
      BY <1>10 DEF Verified
    <2> QED BY <2>1, <2>2, <2>3, RestingSays DEF CacheSays
  <1>11. CASE VerifyFailed
    BY <1>4, <1>11 DEF VerifyFailed, Procs
  <1>12. ASSUME NEW m \in Names, Edit(m) \/ Delete(m) \/ Remove(m) \/ Recreate(m) \/ Watch(m)
         PROVE  Consistent(n)'
    BY <1>12, UserSays
  <1>13. ASSUME NEW ns \in Namespaces, Annotate(ns) PROVE Consistent(n)'
    BY <1>1, <1>13 DEF Annotate, local, CacheSays
  <1>14. CASE UNCHANGED vars
    BY <1>1, <1>14 DEF vars, CacheSays
  <1> QED
    BY <1>5, <1>6, <1>7, <1>8, <1>9, <1>10, <1>11, <1>12, <1>13, <1>14
    DEF Next, Resolve, Work, Controller


\* The first object of a name does not come back.
LEMMA FirstStep ==
    ASSUME TypeOK, [Next]_vars, NEW n \in Names, First(n)'
    PROVE  First(n)
  <1>0. WorkersOK /\ ClusterOK /\ CacheOK
    BY TypeParts
  <1>1. ASSUME NEW m \in Names, Edit(m) \/ Delete(m) \/ Remove(m) \/ Recreate(m) \/ Watch(m)
        PROVE  First(n)
    <2>1. prov[m] \in Providers
      BY <1>0 DEF ClusterOK
    <2>2. CASE Recreate(m)
      BY <1>0, <2>2 DEF Recreate, UserChange, ClusterOK, First
    <2>3. CASE Watch(m)
      BY <2>3 DEF Watch, First
    <2>4. ASSUME NEW p, UserChange(m, p), p.uid = prov[m].uid
          PROVE  First(n)
      BY <1>0, <2>4 DEF UserChange, ClusterOK, First
    <2>5. CASE Edit(m)
      BY <2>1, <2>4, <2>5 DEF Edit, Providers
    <2>6. CASE Delete(m) \/ Remove(m)
      BY <2>1, <2>4, <2>6 DEF Delete, Remove, Providers
    <2> QED BY <1>1, <2>2, <2>3, <2>5, <2>6
  <1>2. CASE Verified
    BY <1>0, <1>2 DEF Verified, ClusterOK, Providers, First
  <1>3. ASSUME NEW p \in Procs, ForProvider(p) PROVE First(n)
    BY <1>0, <1>3, ForProviderType DEF cluster, First
  <1>4. CASE prov' = prov
    BY <1>4 DEF First
  <1> QED
    BY <1>1, <1>2, <1>3, <1>4 DEF Next, Resolve, Work, Controller, ForObject,
       ForObjectUnread, Finish, Verify, VerifyFailed, Invalidate, Annotate,
       cluster, vars

\* What a worker has returned was right when it returned it.
RightAt(p) ==
    Busy(p) /\ Scoped(p).spec.role # NoRole /\ First(Scoped(p).name)
        => ret[p].role = Scoped(p).spec.role

SameWorker(p) ==
    pc'[p] = pc[p] /\ top'[p] = top[p] /\ stack'[p] = stack[p] /\ ret'[p] = ret[p]

LEMMA RestingRight ==
    ASSUME TypeOK, [Next]_vars, NEW p \in Procs, RightAt(p), SameWorker(p)
    PROVE  RightAt(p)'
  <1> SUFFICES ASSUME Busy(p)', Scoped(p)'.spec.role # NoRole,
                      First(Scoped(p).name)'
               PROVE  ret'[p].role = Scoped(p)'.spec.role
    BY DEF RightAt
  <1>1. Busy(p) /\ Scoped(p)' = Scoped(p)
    BY DEF SameWorker, Busy, Scoped
  <1>2. Scoped(p) \in Frames
    BY <1>1, Bounds DEF TypeOK, Busy, Scoped
  <1>3. First(Scoped(p).name)
    BY <1>1, <1>2, FirstStep DEF Frames
  <1> QED BY <1>1, <1>3 DEF RightAt, SameWorker

LEMMA EnterRight ==
    ASSUME WorkersOK, NEW q \in Procs, NEW n, Enter(q, n), NEW p \in Procs
    PROVE  RightAt(p)' \/ SameWorker(p)
  BY DEF WorkersOK, Enter, RightAt, Busy, SameWorker

LEMMA OwnRight ==
    ASSUME WorkersOK, NEW q \in Procs, EnterOwn(q), pc[q] = "idle",
           NEW p \in Procs
    PROVE  RightAt(p)' \/ SameWorker(p)
  BY DEF WorkersOK, EnterOwn, RightAt, Busy, SameWorker

LEMMA AbortRight ==
    ASSUME WorkersOK, NEW q \in Procs, Abort(q), NEW p \in Procs
    PROVE  RightAt(p)' \/ SameWorker(p)
  BY DEF WorkersOK, Abort, RightAt, Busy, SameWorker

LEMMA ReturnedRight ==
    ASSUME WorkersOK, NEW q \in Procs, NEW c, Returned(q, c), top[q] >= 1,
           UNCHANGED prov,
           First(Top(q).name) /\ Top(q).spec.role # NoRole => c.role = Top(q).spec.role,
           NEW p \in Procs
    PROVE  RightAt(p)' \/ SameWorker(p)
  <1>1. CASE p # q
    BY <1>1 DEF WorkersOK, Returned, SameWorker
  <1>2. CASE p = q /\ top[q] # 1
    BY <1>2 DEF WorkersOK, Returned, RightAt, Busy
  <1>3. CASE p = q /\ top[q] = 1
    <2>1. Scoped(p)' = Top(q) /\ ret'[p] = c
      BY <1>3 DEF WorkersOK, Returned, Scoped, Top
    <2> QED BY <2>1 DEF RightAt, First
  <1> QED BY <1>1, <1>2, <1>3

LEMMA ForProviderRight ==
    ASSUME TypeOK, TypeOK', \A n \in Names : Consistent(n), NEW q \in Procs,
           ForProvider(q),
           NEW p \in Procs
    PROVE  RightAt(p)' \/ SameWorker(p)
  <1>0. WorkersOK /\ ClusterOK /\ CacheOK /\ prov' = prov
    BY TypeParts, ForProviderType DEF cluster
  <1>1. pc[q] \in {"enter", "build"}
    BY DEF ForProvider, CacheHit, NoSource, Source, SourceMissing, PassThrough,
       Store, Uncached
  <1>2. Top(q) \in Frames /\ top[q] \in 1 .. MaxStack /\ Top(q) = stack[q][top[q]] /\ top[q] >= 1
    BY <1>0, <1>1, OnTop
  <1>3. WorkersSay(Top(q).name, Top(q).gen, Top(q).spec.role)
    BY <1>2 DEF WorkersSay, Held
  <1>4. CASE CacheHit(q)
    <2> DEFINE c == [role |-> cache[Top(q).name].role,
                     path |-> cache[Top(q).name].path]
    <2>1. CacheSays(Top(q).name, Top(q).gen, c.role)
      BY <1>4 DEF CacheHit, Cached, CacheSays
    <2>2. First(Top(q).name) => c.role = Top(q).spec.role
      BY <1>2, <1>3, <2>1 DEF Consistent, Said, Frames
    <2>3. Returned(q, c)
      BY <1>4 DEF CacheHit
    <2> HIDE DEF c
    <2> QED BY <1>0, <1>2, <2>2, <2>3, ReturnedRight
  <1>5. CASE NoSource(q) \/ Source(q)
    BY <1>0, <1>5 DEF NoSource, Source, Uncached, WorkersOK, RightAt, Busy,
       SameWorker
  <1>6. CASE SourceMissing(q)
    BY <1>0, <1>6, AbortRight DEF SourceMissing
  <1>7. CASE PassThrough(q)
    BY <1>0, <1>2, <1>7, ReturnedRight DEF PassThrough
  <1>8. CASE Store(q)
    <2> DEFINE c == Assume(ret[q], Top(q).spec.role)
    <2>1. Returned(q, c)
      BY <1>8 DEF Store
    <2>2. c.role = Top(q).spec.role
      BY DEF Assume
    <2> HIDE DEF c
    <2> QED BY <1>0, <1>2, <2>1, <2>2, ReturnedRight
  <1> QED BY <1>4, <1>5, <1>6, <1>7, <1>8 DEF ForProvider

LEMMA RightStep ==
    ASSUME TypeOK, TypeOK', \A n \in Names : Consistent(n), RightRole, [Next]_vars
    PROVE  RightRole'
  <1>0. WorkersOK /\ ClusterOK /\ scenario \in Scenarios
    BY TypeParts DEF RestOK
  <1> SUFFICES ASSUME NEW p \in Procs PROVE RightAt(p)'
    BY DEF RightRole, RightAt
  <1>1. RightAt(p)
    BY DEF RightRole, RightAt
  <1> SUFFICES RightAt(p)' \/ SameWorker(p)
    BY <1>1, RestingRight
  <1>2. ASSUME NEW q \in scenario.workers, NEW o \in scenario.objects,
               ForObject(q, o) \/ ForObjectUnread(q, o)
        PROVE  RightAt(p)' \/ SameWorker(p)
    <2>1. q \in Procs /\ pc[q] = "idle"
      BY <1>0, <1>2, ScenarioType DEF Procs, ForObject, ForObjectUnread
    <2>2. (\E m \in Names : Enter(q, m)) \/ EnterOwn(q)
      BY <1>0, <1>2, <2>1, NamedStep, DefaultType DEF ForObjectUnread, Unnamed
    <2> QED BY <1>0, <2>1, <2>2, EnterRight, OwnRight
  <1>3. ASSUME NEW q \in Procs, ForProvider(q) PROVE RightAt(p)' \/ SameWorker(p)
    BY <1>3, ForProviderRight
  <1>4. ASSUME NEW q \in Procs, Abort(q) PROVE RightAt(p)' \/ SameWorker(p)
    BY <1>0, <1>4, AbortRight
  <1>5. ASSUME NEW n \in Names, Verify(n) PROVE RightAt(p)' \/ SameWorker(p)
    BY <1>0, <1>5, EnterRight DEF Verify, Procs
  <1>6. ASSUME UNCHANGED <<pc, stack, top, ret>> PROVE SameWorker(p)
    BY <1>6 DEF SameWorker
  <1>7. ASSUME NEW m \in Names, Edit(m) \/ Delete(m) \/ Remove(m) \/ Recreate(m) \/ Watch(m)
        PROVE  SameWorker(p)
    BY <1>6, <1>7 DEF Edit, Delete, Remove, Recreate, Watch, UserChange, local
  <1>8. ASSUME NEW m \in Names, Invalidate(m) PROVE SameWorker(p)
    BY <1>6, <1>8 DEF Invalidate, local
  <1>9. CASE Verified \/ VerifyFailed
    BY <1>4, <1>9 DEF Verified, VerifyFailed, Procs
  <1>10. ASSUME NEW ns \in Namespaces, Annotate(ns) PROVE SameWorker(p)
    BY <1>6, <1>10 DEF Annotate, local
  <1>11. CASE UNCHANGED vars
    BY <1>6, <1>11 DEF vars
  <1> QED
    BY <1>2, <1>3, <1>4, <1>5, <1>7, <1>8, <1>9, <1>10, <1>11
    DEF Next, Resolve, Work, Controller, Finish

\* The parts of TypeOK, and of the agreement, hold from the start and always.
LEMMA InitInv == Init => IInv
  <1> SUFFICES ASSUME Init PROVE IInv
    OBVIOUS
  <1>1. TypeOK
    BY InitType
  <1>2. \A n \in Names : Consistent(n)
    <2> SUFFICES ASSUME NEW n \in Names, NEW gen, NEW role, Said(n, gen, role)
                 PROVE  /\ gen <= prov[n].gen
                        /\ \A other : Said(n, gen, other) => other = role
      BY DEF Consistent
    <2>1. \A g, ro : Said(n, g, ro) => g = prov[n].gen /\ ro = prov[n].spec.role
      BY DEF Init, Said, ClusterSays, WorkersSay, CacheSays, Versions, Held
    <2>2. prov[n].gen \in Nat
      BY <1>1 DEF TypeOK, Providers
    <2> QED BY <2>1, <2>2
  <1>3. GenerationsAgree /\ EntriesAgree
    BY <1>1, <1>2, ConsistentParts
  <1>4. RightRole
    BY DEF Init, RightRole, Busy
  <1> QED BY <1>1, <1>3, <1>4 DEF IInv

LEMMA InvStep == IInv /\ [Next]_vars => IInv'
  <1> SUFFICES ASSUME IInv, [Next]_vars PROVE IInv'
    OBVIOUS
  <1>1. TypeOK /\ RightRole /\ \A n \in Names : Consistent(n)
    BY ConsistentParts DEF IInv
  <1>2. TypeOK'
    BY <1>1, TypeStep
  <1>3. \A n \in Names : Consistent(n)'
    BY <1>1, <1>2, SaidStep
  <1>4. RightRole'
    BY <1>1, <1>2, RightStep
  <1>5. GenerationsAgree' /\ EntriesAgree'
    <2>1. (\A n \in Names : Consistent(n))'
      BY <1>3
    <2>2. (TypeOK => (GenerationsAgree /\ EntriesAgree <=> \A n \in Names : Consistent(n)))'
      BY ConsistentParts, PTL
    <2> QED BY <1>2, <2>1, <2>2
  <1> QED BY <1>2, <1>4, <1>5 DEF IInv

\* Whatever the other workers, the controller, users and the informer do, a
\* reconcile runs in the role its provider names in the generation it read:
\* ForObject, ForProvider and Invalidate of resolver.go.
THEOREM ResolverInvariant == Spec => []IInv
  BY InitInv, InvStep, PTL DEF Spec

-----------------------------------------------------------------------------
(* The life of providers and of the resources that use them.                *)

\* A resource resolves to a provider or to the operator's own account.
LEMMA LifeChosenType ==
    ASSUME L!Parameters, L!TypeOK, NEW r \in Resources
    PROVE  L!Chosen(r) \in ProviderNames \union {L!Own}
  <1>1. cref[r] \in ProviderNames \union {L!None}
    BY DEF L!TypeOK
  <1>2. aseen \in ProviderNames \union {L!None}
    BY DEF L!TypeOK
  <1>3. L!Defaults # {} => L!LowestDefault \in ProviderNames
    <2>1. L!Defaults \subseteq ProviderNames /\ L!Defaults \subseteq Nat
      BY DEF L!TypeOK, L!Parameters, L!AllScenarios, L!Defaults
    <2>2. L!Defaults # {} => \E n \in L!Defaults : \A m \in L!Defaults : n <= m
      BY <2>1, Lowest
    <2>3. L!Defaults # {} => L!LowestDefault \in L!Defaults
      BY <2>2 DEF L!LowestDefault
    <2> QED BY <2>1, <2>3
  <1> QED BY <1>1, <1>2, <1>3 DEF L!Chosen, L!None, L!Own

LEMMA LifeAccountType ==
    ASSUME L!Parameters, L!TypeOK, NEW r \in Resources
    PROVE  L!AccountOf(r) \in L!Accounts
  BY LifeChosenType DEF L!TypeOK, L!AccountOf, L!Accounts, L!Providers, L!Own

LEMMA LifeScenarioType ==
    ASSUME L!Parameters, L!TypeOK
    PROVE  /\ \A r \in Resources : ref[r] \in ProviderNames \union {L!None}
           /\ life.present \subseteq ProviderNames
           /\ life.most \in Nat
  BY DEF L!TypeOK, L!Parameters, L!AllScenarios

LEMMA LifeFaultType ==
    ASSUME L!Parameters, L!TypeOK, NEW k, L!Fault(k) \/ L!NoFault
    PROVE  /\ life' \in Lives /\ lfaults' \in 0 .. life'.most
           /\ life' = life
  BY LifeScenarioType DEF L!TypeOK, L!Fault, L!NoFault

LEMMA LifeInitInv == L!Parameters /\ L!Init => L!LifecycleInv
  <1> SUFFICES ASSUME L!Parameters, L!Init PROVE L!LifecycleInv
    OBVIOUS
  <1>1. L!TypeOK
    BY DEF L!Init, L!TypeOK, L!Parameters, L!AllScenarios, L!Providers, L!Ctls,
       L!Idle, L!None, L!Own, L!Accounts, L!NoProvider
  <1>2. L!NoOrphan /\ L!OneAccount
    BY DEF L!Init, L!NoOrphan, L!OneAccount, L!Parameters, L!AllScenarios, L!None
  <1>3. L!Scanned
    BY DEF L!Init, L!Scanned, L!Idle
  <1>4. L!NoDangling
    BY DEF L!Init, L!NoDangling, L!Scannable
  <1>5. L!OrderlyScan
    BY DEF L!Init, L!OrderlyScan, L!Orderly, L!Known, L!Lagging
  <1> QED BY <1>1, <1>2, <1>3, <1>4, <1>5 DEF L!LifecycleInv

LEMMA MarkedType ==
    ASSUME NEW f \in [ProviderNames -> L!Providers], NEW n \in ProviderNames
    PROVE  [f EXCEPT ![n].deleting = f[n].finalizer, ![n].exists = f[n].finalizer]
              \in [ProviderNames -> L!Providers]
  <1> DEFINE p == f[n]
  <1>1. p \in L!Providers /\ p.finalizer \in BOOLEAN
    BY DEF L!Providers
  <1>2. [p EXCEPT !.deleting = p.finalizer, !.exists = p.finalizer] \in L!Providers
    BY <1>1 DEF L!Providers
  <1>3. [f EXCEPT ![n].deleting = p.finalizer, ![n].exists = p.finalizer]
            = [f EXCEPT ![n] = [p EXCEPT !.deleting = p.finalizer,
                                         !.exists = p.finalizer]]
    OBVIOUS
  <1> HIDE DEF p
  <1> QED BY <1>2, <1>3 DEF p

LEMMA LifeTypeStep ==
    ASSUME L!Parameters, L!TypeOK, [L!Next]_L!vars
    PROVE  L!TypeOK'
  <1> USE DEF L!TypeOK
  <1>1. ASSUME NEW r \in Resources, L!CreateResource(r) PROVE L!TypeOK'
    BY <1>1 DEF L!CreateResource, L!cluster, L!refs, L!NoFault, L!MayUse, L!Late
  <1>2. ASSUME NEW r \in Resources, L!DeleteResource(r) PROVE L!TypeOK'
    BY <1>2 DEF L!DeleteResource, L!cluster, L!refs, L!NoFault
  <1>3. ASSUME NEW r \in Resources, L!ReconcileResource(r) PROVE L!TypeOK'
    <2>1. L!AccountOf(r) \in L!Accounts
      BY LifeAccountType
    <2> QED BY <1>3, <2>1 DEF L!ReconcileResource, L!cluster, L!refs, L!NoFault
  <1>4. ASSUME NEW r \in Resources, L!FinalizeResource(r) PROVE L!TypeOK'
    BY <1>4 DEF L!FinalizeResource, L!cluster, L!refs, L!NoFault
  <1>5. ASSUME NEW n \in ProviderNames, L!AddFinalizer(n) PROVE L!TypeOK'
    BY <1>5 DEF L!AddFinalizer, L!refs, L!NoFault, L!Providers
  <1>6. ASSUME NEW n \in ProviderNames, L!StartScan(n) PROVE L!TypeOK'
    BY <1>6 DEF L!StartScan, L!cluster, L!refs, L!NoFault, L!Ctls, L!Idle,
       L!Scannable
  <1>7. ASSUME NEW n \in ProviderNames, L!DeleteProvider(n) PROVE L!TypeOK'
    <2>1. lprov \in [ProviderNames -> L!Providers]
      OBVIOUS
    <2>2. [lprov EXCEPT ![n].deleting = lprov[n].finalizer,
                        ![n].exists = lprov[n].finalizer]
             \in [ProviderNames -> L!Providers]
      BY <2>1, MarkedType
    <2>3. lprov' \in [ProviderNames -> L!Providers]
      BY <1>7, <2>2 DEF L!DeleteProvider
    <2> QED BY <1>7, <2>3 DEF L!DeleteProvider, L!refs, L!NoFault
  <1>8. ASSUME NEW n \in ProviderNames, L!WatchProvider(n) PROVE L!TypeOK'
    BY <1>8 DEF L!WatchProvider, L!refs, L!NoFault
  <1>9. CASE L!ListNamespaces
    <2>1. ctl' \in L!Ctls /\ ctl'.at = "kinds" /\ ctl'.name = ctl.name
      BY <1>9 DEF L!ListNamespaces, L!Ctls, L!MayUse
    <2>2. late' \subseteq L!MayUse
      BY <1>9 DEF L!ListNamespaces, L!MayUse
    <2>3. life' \in Lives /\ lfaults' \in 0 .. life'.most
      BY <1>9, LifeFaultType DEF L!ListNamespaces
    <2>4. ctl.at = "scan" /\ UNCHANGED <<L!cluster, res, L!refs, inAws>>
      BY <1>9 DEF L!ListNamespaces
    <2> QED BY <2>1, <2>2, <2>3, <2>4 DEF L!cluster, L!refs
  <1>10. ASSUME NEW r \in Resources, L!ListKind(r) PROVE L!TypeOK'
    BY <1>10 DEF L!ListKind, L!cluster, L!refs, L!NoFault, L!Ctls, L!MayUse
  <1>11. ASSUME NEW r \in Resources, L!SkipKind(r) PROVE L!TypeOK'
    <2>1. life' \in Lives /\ lfaults' \in 0 .. life'.most
      BY <1>11, LifeFaultType DEF L!SkipKind
    <2> QED BY <1>11, <2>1 DEF L!SkipKind, L!cluster, L!refs, L!Ctls, L!MayUse
  <1>12. CASE L!Decide
    BY <1>12 DEF L!Decide, L!cluster, L!refs, L!NoFault, L!Ctls, L!Idle, L!NoProvider,
       L!Providers, L!Accounts
  <1>13. CASE L!RemoveFinalizer
    BY <1>13 DEF L!RemoveFinalizer, L!refs, L!NoFault, L!Ctls, L!Idle, L!NoProvider,
       L!Providers, L!Accounts
  <1>14. CASE L!Crash
    <2>1. life' \in Lives /\ lfaults' \in 0 .. life'.most
      BY <1>14, LifeFaultType DEF L!Crash
    <2> QED BY <1>14, <2>1 DEF L!Crash, L!cluster, L!refs, L!Ctls, L!Idle, L!NoProvider,
          L!Providers, L!Accounts
  <1>15. CASE L!Annotate
    BY <1>15 DEF L!Annotate, L!refs, L!NoFault
  <1>16. CASE L!WatchNamespace
    BY <1>16 DEF L!WatchNamespace, L!refs, L!NoFault, L!MayUse
  <1>17. ASSUME NEW r \in Resources, NEW n \in ProviderNames \union {L!None},
                L!MoveResource(r, n)
         PROVE  L!TypeOK'
    BY <1>17 DEF L!MoveResource, L!cluster, L!NoFault, L!MayUse, L!Late
  <1>18. ASSUME NEW r \in Resources, L!WatchResource(r) PROVE L!TypeOK'
    BY <1>18 DEF L!WatchResource, L!cluster, L!NoFault
  <1>19. ASSUME NEW n \in ProviderNames, L!EditRole(n) PROVE L!TypeOK'
    BY <1>19 DEF L!EditRole, L!NoFault, L!Providers
  <1>20. CASE UNCHANGED L!vars
    BY <1>20 DEF L!vars
  <1> QED
    BY <1>1, <1>2, <1>3, <1>4, <1>5, <1>6, <1>7, <1>8, <1>9, <1>10, <1>11, <1>12,
       <1>13, <1>14, <1>15, <1>16, <1>17, <1>18, <1>19, <1>20 DEF L!Next

\* What an edit does to a resource is remembered, and no other step touches the
\* references of a resource or the role of its provider.
LEMMA SteadyStep ==
    ASSUME L!Parameters, L!TypeOK, L!TypeOK', L!OneAccount, [L!Next]_L!vars,
           NEW r \in Resources, r \notin moved', ref'[r] # L!None
    PROVE  /\ r \notin moved /\ ref'[r] = ref[r] /\ ref[r] \in ProviderNames
           /\ cref'[r] = ref'[r]
           /\ lprov'[ref'[r]].account = ref'[r] /\ lseen'[ref'[r]].account = ref'[r]
  <1>1. r \notin moved /\ ref'[r] = ref[r] /\ ref[r] \in ProviderNames
    <2>1. moved \subseteq moved'
      BY DEF L!Next, L!vars, L!cluster, L!refs, L!CreateResource, L!DeleteResource,
         L!MoveResource, L!ReconcileResource, L!FinalizeResource, L!AddFinalizer,
         L!StartScan, L!DeleteProvider, L!WatchProvider, L!EditRole, L!ListNamespaces,
         L!ListKind, L!SkipKind, L!Decide, L!RemoveFinalizer, L!Crash, L!Annotate,
         L!WatchResource, L!WatchNamespace
    <2>2. ASSUME NEW s \in Resources, NEW n \in ProviderNames \union {L!None},
                 L!MoveResource(s, n)
          PROVE  ref'[r] = ref[r]
      BY <2>2 DEF L!MoveResource, L!TypeOK
    <2>3. ref' = ref => ref'[r] = ref[r]
      OBVIOUS
    <2>4. ref'[r] = ref[r]
      BY <2>2, <2>3 DEF L!Next, L!vars, L!refs, L!CreateResource, L!DeleteResource,
         L!ReconcileResource, L!FinalizeResource, L!AddFinalizer, L!StartScan,
         L!DeleteProvider, L!WatchProvider, L!EditRole, L!ListNamespaces, L!ListKind,
         L!SkipKind, L!Decide, L!RemoveFinalizer, L!Crash, L!Annotate,
         L!WatchResource, L!WatchNamespace
    <2> QED BY <2>1, <2>4 DEF L!TypeOK
  <1> DEFINE n == ref[r]
  <1>2. /\ n \in ProviderNames /\ cref[r] = n
        /\ lprov[n].account = n /\ lseen[n].account = n
    BY <1>1 DEF L!OneAccount
  <1> HIDE DEF n
  <1>3. cref'[r] = n
    <2>1. ASSUME NEW s \in Resources, L!WatchResource(s) PROVE cref'[r] = n
      BY <1>2, <2>1 DEF L!WatchResource, L!TypeOK, n
    <2>2. CASE cref' = cref
      BY <1>2, <2>2
    <2> QED
      BY <2>1, <2>2 DEF L!Next, L!vars, L!refs, L!CreateResource, L!DeleteResource,
         L!MoveResource, L!ReconcileResource, L!FinalizeResource, L!AddFinalizer,
         L!StartScan, L!DeleteProvider, L!WatchProvider, L!EditRole, L!ListNamespaces,
         L!ListKind, L!SkipKind, L!Decide, L!RemoveFinalizer, L!Crash, L!Annotate,
         L!WatchNamespace
  <1>4. lprov'[n].account = n /\ lseen'[n].account = n
    <2>1. ASSUME NEW m \in ProviderNames, L!EditRole(m)
          PROVE  lprov'[n].account = n /\ lseen'[n].account = n
      <3>1. m # n
        BY <2>1 DEF L!EditRole, n
      <3> QED BY <1>2, <2>1, <3>1 DEF L!EditRole, L!TypeOK
    <2>2. ASSUME NEW m \in ProviderNames,
                 L!AddFinalizer(m) \/ L!DeleteProvider(m) \/ L!WatchProvider(m)
          PROVE  lprov'[n].account = n /\ lseen'[n].account = n
      BY <1>2, <2>2 DEF L!AddFinalizer, L!DeleteProvider, L!WatchProvider, L!TypeOK,
         L!Providers
    <2>3. CASE L!RemoveFinalizer
      BY <1>2, <2>3 DEF L!RemoveFinalizer, L!TypeOK, L!Providers
    <2>4. CASE UNCHANGED <<lprov, lseen>>
      BY <1>2, <2>4
    <2> QED
      BY <2>1, <2>2, <2>3, <2>4 DEF L!Next, L!vars, L!cluster, L!CreateResource,
         L!DeleteResource, L!MoveResource, L!ReconcileResource, L!FinalizeResource,
         L!StartScan, L!ListNamespaces, L!ListKind, L!SkipKind, L!Decide, L!Crash,
         L!Annotate, L!WatchResource, L!WatchNamespace
  <1> QED BY <1>1, <1>3, <1>4 DEF n

LEMMA AccountStep ==
    ASSUME L!Parameters, L!TypeOK, L!TypeOK', L!OneAccount, [L!Next]_L!vars
    PROVE  L!OneAccount'
  <1>1. life' = life
    BY LifeFaultType DEF L!Next, L!vars, L!CreateResource, L!DeleteResource,
       L!MoveResource, L!ReconcileResource,
       L!FinalizeResource, L!AddFinalizer, L!StartScan, L!DeleteProvider,
       L!WatchProvider, L!EditRole, L!WatchResource,
       L!ListNamespaces, L!ListKind, L!SkipKind, L!Decide, L!RemoveFinalizer,
       L!Crash,
       L!Annotate, L!WatchNamespace, L!Fault, L!NoFault
  <1> SUFFICES ASSUME NEW r \in Resources, r \notin moved', ref'[r] # L!None,
                      NEW a \in L!Accounts, <<r, a>> \in inAws'
               PROVE  a = ref[r] /\ res'[r] \in {"managed", "deleting"}
    BY SteadyStep DEF L!OneAccount
  <1>2. /\ r \notin moved /\ ref[r] # L!None /\ ref[r] \in ProviderNames
        /\ cref[r] = ref[r] /\ lseen[ref[r]].account = ref[r]
    BY SteadyStep DEF L!OneAccount
  <1>3. <<r, a>> \in inAws => a = ref[r] /\ res[r] \in {"managed", "deleting"}
    BY <1>2 DEF L!OneAccount
  <1>4. L!AccountOf(r) = ref[r]
    BY <1>2 DEF L!AccountOf, L!Chosen, L!None, L!Own
  <1>5. ASSUME NEW s \in Resources, L!ReconcileResource(s)
        PROVE  a = ref[r] /\ res'[r] \in {"managed", "deleting"}
    BY <1>3, <1>4, <1>5 DEF L!ReconcileResource, L!TypeOK
  <1>6. ASSUME NEW s \in Resources, L!FinalizeResource(s)
        PROVE  a = ref[r] /\ res'[r] \in {"managed", "deleting"}
    BY <1>3, <1>4, <1>6 DEF L!FinalizeResource, L!TypeOK
  <1>7. ASSUME NEW s \in Resources, L!CreateResource(s) \/ L!DeleteResource(s)
        PROVE a = ref[r] /\ res'[r] \in {"managed", "deleting"}
    BY <1>3, <1>7 DEF L!CreateResource, L!DeleteResource, L!TypeOK
  <1>8. CASE UNCHANGED <<res, inAws>>
    BY <1>3, <1>8
  <1> QED
    BY <1>5, <1>6, <1>7, <1>8 DEF L!Next, L!vars, L!MoveResource,
       L!AddFinalizer, L!StartScan, L!DeleteProvider, L!WatchProvider, L!EditRole,
       L!ListNamespaces, L!ListKind, L!SkipKind, L!Decide, L!RemoveFinalizer,
       L!Crash, L!WatchResource,
       L!Annotate, L!WatchNamespace

\* The scenario of a behaviour never changes.
LEMMA SameScenario == [L!Next]_L!vars => life' = life
  BY DEF L!Next, L!vars, L!CreateResource, L!DeleteResource, L!ReconcileResource,
     L!MoveResource, L!EditRole, L!WatchResource,
     L!FinalizeResource, L!AddFinalizer, L!StartScan, L!DeleteProvider,
     L!WatchProvider,
     L!ListNamespaces, L!ListKind, L!SkipKind, L!Decide, L!RemoveFinalizer,
     L!Crash,
     L!Annotate, L!WatchNamespace, L!Fault, L!NoFault

\* While no scan moves, what it knows stays true: users only go, or come late.
LEMMA ScannedKept ==
    ASSUME L!Scanned, ctl' = ctl, life' = life,
           ctl.at \in {"kinds", "release"} =>
              L!Users(ctl.name)' \subseteq L!Users(ctl.name) \union ctl.todo \union late',
           ctl.at \in {"kinds", "release"} =>
              L!Selected(ctl.name)' \subseteq L!Selected(ctl.name) \union late',
           late \subseteq late'
    PROVE  L!Scanned'
  BY DEF L!Scanned, L!Scannable

LEMMA ScannedStep ==
    ASSUME L!Parameters, L!TypeOK, L!TypeOK', L!Scanned, [L!Next]_L!vars
    PROVE  L!Scanned'
  <1>0. life' = life
    BY SameScenario
  <1>1. ASSUME NEW r \in Resources, L!CreateResource(r) PROVE L!Scanned'
    <2>1. \A s \in Resources \ {r} : res'[s] = res[s]
      BY <1>1 DEF L!CreateResource, L!TypeOK
    <2>2. ctl' = ctl /\ aseen' = aseen /\ late \subseteq late'
      BY <1>1 DEF L!CreateResource, L!cluster
    <2>3. ctl.at \in {"kinds", "release"} => r \in ctl.todo \union late'
      BY <1>1 DEF L!CreateResource, L!Late
    <2>4. ctl.at \in {"kinds", "release"} =>
              L!Users(ctl.name)' \subseteq L!Users(ctl.name) \union ctl.todo \union late'
      BY <1>1, <1>0, <2>1, <2>2, <2>3 DEF L!Users, L!CreateResource, L!refs
    <2>5. L!Selected(ctl.name)' = L!Selected(ctl.name)
      BY <2>2 DEF L!Selected
    <2> QED BY <1>0, <2>2, <2>4, <2>5, ScannedKept
  <1>2. ASSUME UNCHANGED <<aseen, ctl, late, ref>>,
               \A s \in Resources : res'[s] # "absent" => res[s] # "absent"
        PROVE  L!Scanned'
    <2>1. L!Users(ctl.name)' \subseteq L!Users(ctl.name)
      BY <1>0, <1>2 DEF L!Users
    <2>2. L!Selected(ctl.name)' = L!Selected(ctl.name)
      BY <1>2 DEF L!Selected
    <2> QED BY <1>0, <1>2, <2>1, <2>2, ScannedKept
  <1>3. ASSUME NEW r \in Resources,
               L!DeleteResource(r) \/ L!ReconcileResource(r) \/ L!FinalizeResource(r)
        PROVE  L!Scanned'
    <2>1. UNCHANGED <<aseen, ctl, late, ref>>
      BY <1>3 DEF L!DeleteResource, L!ReconcileResource, L!FinalizeResource,
         L!cluster, L!refs
    <2>2. \A s \in Resources : res'[s] # "absent" => res[s] # "absent"
      BY <1>3 DEF L!DeleteResource, L!ReconcileResource, L!FinalizeResource,
         L!TypeOK
    <2> QED BY <1>2, <2>1, <2>2
  <1>4. ASSUME NEW n \in ProviderNames,
               \/ L!AddFinalizer(n) \/ L!DeleteProvider(n) \/ L!WatchProvider(n)
               \/ L!EditRole(n)
        PROVE  L!Scanned'
    BY <1>2, <1>4 DEF L!AddFinalizer, L!DeleteProvider, L!WatchProvider, L!EditRole,
       L!refs
  <1>5. ASSUME NEW n \in ProviderNames, L!StartScan(n) PROVE L!Scanned'
    BY <1>5, <1>0 DEF L!StartScan, L!Scanned, L!Scannable
  <1>6. CASE L!ListNamespaces
    <2>1. ctl.at = "scan" /\ ctl'.at = "kinds" /\ ctl'.todo = ctl.todo /\ ctl'.name = ctl.name
      BY <1>6 DEF L!ListNamespaces, L!TypeOK, L!Ctls
    <2>2. L!Users(ctl.name)' \subseteq ctl'.todo \union life'.hidden
      BY <1>0, <2>1 DEF L!Scanned, L!Users, L!Scannable
    <2>3. L!Selected(ctl.name)' \subseteq ctl'.users \union late'
      BY <1>6, <2>1 DEF L!ListNamespaces, L!Selected, L!TypeOK, L!Ctls, L!cluster
    <2> QED BY <2>1, <2>2, <2>3 DEF L!Scanned
  <1>7. ASSUME NEW r \in Resources, L!ListKind(r) \/ L!SkipKind(r)
        PROVE  L!Scanned'
    <2>1. /\ ctl.at = "kinds" /\ ctl'.at = "kinds" /\ ctl'.name = ctl.name
          /\ ctl'.todo = ctl.todo \ {r}
          /\ ctl.users \subseteq ctl'.users /\ late \subseteq late'
          /\ UNCHANGED <<aseen, res, ref>>
      <3>1. CASE L!ListKind(r)
        BY <3>1 DEF L!ListKind, L!TypeOK, L!Ctls, L!cluster, L!refs
      <3>2. CASE L!SkipKind(r)
        BY <3>2 DEF L!SkipKind, L!TypeOK, L!Ctls, L!cluster, L!refs
      <3> QED BY <1>7, <3>1, <3>2
    <2>2. r \in L!Users(ctl.name) => r \in ctl'.users \union late'
      <3>1. CASE L!ListKind(r)
        BY <3>1 DEF L!ListKind, L!TypeOK, L!Ctls, L!Users
      <3>2. CASE L!SkipKind(r)
        BY <3>2 DEF L!SkipKind
      <3> QED BY <1>7, <3>1, <3>2
    <2>3. L!Users(ctl.name)' = L!Users(ctl.name) /\ L!Selected(ctl.name)' = L!Selected(ctl.name)
      BY <1>0, <2>1 DEF L!Users, L!Selected
    <2> QED BY <1>0, <2>1, <2>2, <2>3 DEF L!Scanned
  <1>8. CASE L!Decide
    <2>1. /\ ctl.at = "kinds" /\ ctl.todo = {}
          /\ UNCHANGED <<aseen, res, ref, late>>
      BY <1>8 DEF L!Decide, L!cluster, L!refs
    <2>2. CASE ctl.users = {}
      <3>1. ctl'.at = "release" /\ ctl'.name = ctl.name /\ ctl'.todo = {} /\ ctl'.users = {}
        BY <1>8, <2>1, <2>2 DEF L!Decide, L!TypeOK, L!Ctls
      <3>2. L!Users(ctl.name)' = L!Users(ctl.name) /\ L!Selected(ctl.name)' = L!Selected(ctl.name)
        BY <1>0, <2>1, <3>1 DEF L!Users, L!Selected
      <3> QED BY <1>0, <2>1, <2>2, <3>1, <3>2 DEF L!Scanned
    <2>3. CASE ctl.users # {}
      BY <1>8, <2>3 DEF L!Decide, L!Scanned, L!Idle
    <2> QED BY <2>2, <2>3
  <1>9. CASE L!RemoveFinalizer \/ L!Crash
    BY <1>9 DEF L!RemoveFinalizer, L!Crash, L!Scanned, L!Idle
  <1>10. CASE L!Annotate
    BY <1>2, <1>10 DEF L!Annotate, L!refs
  <1>11. CASE L!WatchNamespace
    <2>1. ctl' = ctl /\ res' = res /\ ref' = ref /\ late \subseteq late'
      BY <1>11 DEF L!WatchNamespace, L!refs
    <2>2. L!Users(ctl.name)' = L!Users(ctl.name)
      BY <1>0, <2>1 DEF L!Users
    <2>3. ctl.at \in {"kinds", "release"} =>
              L!Selected(ctl.name)' \subseteq L!Selected(ctl.name) \union late'
      BY <1>11 DEF L!WatchNamespace, L!Selected
    <2> QED BY <1>0, <2>1, <2>2, <2>3, ScannedKept
  <1>12. ASSUME NEW r \in Resources, NEW n \in ProviderNames \union {L!None},
                L!MoveResource(r, n)
         PROVE  L!Scanned'
    <2>1. \A s \in Resources \ {r} : ref'[s] = ref[s]
      BY <1>12 DEF L!MoveResource, L!TypeOK
    <2>2. ctl' = ctl /\ aseen' = aseen /\ res' = res /\ late \subseteq late'
      BY <1>12 DEF L!MoveResource, L!cluster
    <2>3. ctl.at \in {"kinds", "release"} => r \in ctl.todo \union late'
      BY <1>12 DEF L!MoveResource, L!Late
    <2>4. ctl.at \in {"kinds", "release"} =>
              L!Users(ctl.name)' \subseteq L!Users(ctl.name) \union ctl.todo \union late'
      BY <1>0, <2>1, <2>2, <2>3 DEF L!Users
    <2>5. L!Selected(ctl.name)' = L!Selected(ctl.name)
      BY <2>2 DEF L!Selected
    <2> QED BY <1>0, <2>2, <2>4, <2>5, ScannedKept
  <1>13. ASSUME NEW r \in Resources, L!WatchResource(r) PROVE L!Scanned'
    BY <1>2, <1>13 DEF L!WatchResource, L!cluster
  <1>14. CASE UNCHANGED L!vars
    BY <1>2, <1>14 DEF L!vars
  <1> QED
    BY <1>1, <1>3, <1>4, <1>5, <1>6, <1>7, <1>8, <1>9, <1>10, <1>11, <1>12, <1>13,
       <1>14 DEF L!Next

\* Only the controller takes a provider with a finalizer away, at the end of a
\* scan that goes on to release it.
LEMMA GoneByController ==
    ASSUME L!Parameters, L!TypeOK, [L!Next]_L!vars, NEW n \in ProviderNames,
           lprov[n].exists, lprov[n].finalizer, ~lprov'[n].exists
    PROVE  L!RemoveFinalizer /\ n = ctl.name
  <1>1. CASE L!RemoveFinalizer
    BY <1>1 DEF L!RemoveFinalizer, L!TypeOK, L!Providers
  <1>2. ASSUME NEW m \in ProviderNames,
               L!AddFinalizer(m) \/ L!DeleteProvider(m)
        PROVE  FALSE
    BY <1>2 DEF L!AddFinalizer, L!DeleteProvider, L!TypeOK, L!Providers
  <1>3. ASSUME NEW m \in ProviderNames, L!EditRole(m) PROVE FALSE
    <2>1. PICK a \in L!Accounts : lprov' = [lprov EXCEPT ![m].account = a]
      BY <1>3 DEF L!EditRole
    <2>2. lprov'[n].exists = lprov[n].exists
      BY <2>1 DEF L!TypeOK, L!Providers
    <2> QED BY <2>2
  <1>4. CASE lprov' = lprov
    BY <1>4
  <1> QED
    BY <1>1, <1>2, <1>3, <1>4 DEF L!Next, L!vars, L!cluster, L!CreateResource,
       L!DeleteResource, L!MoveResource, L!WatchResource,
       L!ReconcileResource, L!FinalizeResource, L!StartScan, L!WatchProvider,
       L!ListNamespaces, L!ListKind, L!SkipKind, L!Decide, L!Crash, L!Annotate,
       L!WatchNamespace

LEMMA ReleaseStep ==
    ASSUME L!Parameters, L!TypeOK, L!Scanned, [L!Next]_L!vars, NEW n \in ProviderNames,
           lprov[n].exists, lprov[n].finalizer, ~lprov'[n].exists
    PROVE  L!Users(n) \union L!Selected(n) \subseteq late \union life.hidden
  BY GoneByController DEF L!RemoveFinalizer, L!Scanned



\* What the informer shows lags behind, and no deletion is taken back.
LEMMA LaggingStep ==
    ASSUME L!Parameters, L!TypeOK, [L!Next]_L!vars, NEW n \in ProviderNames, L!Lagging(n),
           ctl # L!Idle => lprov[ctl.name].deleting
    PROVE  L!Lagging(n)' /\ (lprov[n].deleting => lprov'[n].deleting)
  <1>1. ASSUME NEW m \in ProviderNames,
               \/ L!AddFinalizer(m) \/ L!DeleteProvider(m) \/ L!WatchProvider(m)
               \/ L!EditRole(m)
        PROVE  L!Lagging(n)' /\ (lprov[n].deleting => lprov'[n].deleting)
    <2>0. lprov \in [ProviderNames -> L!Providers] /\ lseen \in [ProviderNames -> L!Providers]
      BY DEF L!TypeOK
    <2>1. CASE L!AddFinalizer(m)
      BY <2>0, <2>1 DEF L!AddFinalizer, L!Lagging, L!Providers
    <2>2. CASE L!DeleteProvider(m)
      BY <2>0, <2>2 DEF L!DeleteProvider, L!Lagging, L!Providers
    <2>3. CASE L!WatchProvider(m)
      BY <2>0, <2>3 DEF L!WatchProvider, L!Lagging, L!Providers
    <2>4. CASE L!EditRole(m)
      BY <2>0, <2>4 DEF L!EditRole, L!Lagging, L!Providers
    <2> QED BY <1>1, <2>1, <2>2, <2>3, <2>4
  <1>2. CASE L!RemoveFinalizer
    <2>1. ctl # L!Idle /\ ctl.name \in ProviderNames
      BY <1>2 DEF L!RemoveFinalizer, L!Idle, L!TypeOK
    <2> QED BY <1>2, <2>1 DEF L!RemoveFinalizer, L!Lagging, L!TypeOK, L!Providers
  <1>3. CASE UNCHANGED <<lprov, lseen>>
    BY <1>3 DEF L!Lagging
  <1> QED
    BY <1>1, <1>2, <1>3 DEF L!Next, L!vars, L!cluster, L!CreateResource,
       L!DeleteResource, L!MoveResource, L!WatchResource,
       L!ReconcileResource, L!FinalizeResource, L!StartScan,
       L!ListNamespaces, L!ListKind, L!SkipKind, L!Decide, L!Crash, L!Annotate,
       L!WatchNamespace

\* In an orderly cluster users name only a provider that is there and not under
\* deletion.
LEMMA NamedOrderly ==
    ASSUME L!Parameters, L!TypeOK, L!Orderly, NEW n \in ProviderNames,
           L!Admitted(n), L!Timely(n), L!Lagging(n)
    PROVE  lprov[n].exists /\ ~lprov[n].deleting
  <1>1. n # L!None
    BY DEF L!Parameters
  <1>2. lseen[n].exists
    BY <1>1 DEF L!Admitted, L!Found, L!Orderly
  <1>3. ~lprov[n].deleting
    BY <1>1 DEF L!Orderly, L!Terminating, L!Timely
  <1> QED BY <1>2, <1>3 DEF L!Lagging

\* The users of a provider scanned for are in what is to be listed or was.
LEMMA KnownStep ==
    ASSUME L!Parameters, L!TypeOK, L!TypeOK', L!Scanned, L!Orderly, L!Known,
           [L!Next]_L!vars,
           \A n \in ProviderNames : L!Lagging(n)
    PROVE  L!Known'
  <1>0. life' = life
    BY SameScenario
  <1>1. \A n \in ProviderNames : lprov[n].deleting => lprov'[n].deleting
    BY LaggingStep DEF L!Known
  <1>2. ctl # L!Idle => ctl.name \in ProviderNames
    BY DEF L!TypeOK
  <1>3. ASSUME ctl' = ctl, ctl # L!Idle => L!Users(ctl.name)' \subseteq L!Users(ctl.name)
        PROVE  L!Known'
    BY <1>0, <1>1, <1>2, <1>3 DEF L!Known
  <1>4. ASSUME UNCHANGED <<ctl, ref>>, \A s \in Resources : res'[s] # "absent" => res[s] # "absent"
        PROVE  L!Known'
    BY <1>0, <1>3, <1>4 DEF L!Users
  <1>5. ASSUME NEW r \in Resources, NEW n \in ProviderNames \union {L!None},
               L!Admitted(n), L!Timely(n), ref'[r] = n, ctl' = ctl,
               \A s \in Resources \ {r} : res'[s] = res[s] /\ ref'[s] = ref[s]
        PROVE  L!Known'
    <2>1. ctl # L!Idle => n # ctl.name
      <3> SUFFICES ASSUME ctl # L!Idle, n = ctl.name PROVE FALSE
        OBVIOUS
      <3>1. ~lprov[ctl.name].deleting
        BY <1>2, <1>5, NamedOrderly
      <3> QED BY <3>1 DEF L!Known
    <2>2. ctl # L!Idle => L!Users(ctl.name)' \subseteq L!Users(ctl.name)
      BY <1>5, <2>1 DEF L!Users
    <2> QED BY <1>3, <1>5, <2>2
  <1>6. ASSUME NEW r \in Resources,
               L!DeleteResource(r) \/ L!ReconcileResource(r) \/ L!FinalizeResource(r)
        PROVE  L!Known'
    <2>1. UNCHANGED <<ctl, ref>>
      BY <1>6 DEF L!DeleteResource, L!ReconcileResource, L!FinalizeResource, L!refs
    <2>2. \A s \in Resources : res'[s] # "absent" => res[s] # "absent"
      BY <1>6 DEF L!DeleteResource, L!ReconcileResource, L!FinalizeResource,
         L!TypeOK
    <2> QED BY <1>4, <2>1, <2>2
  <1>7. ASSUME NEW n \in ProviderNames, L!StartScan(n) PROVE L!Known'
    <2>1. /\ ctl'.name = n /\ ctl'.todo = Resources \ life.hidden
          /\ lprov' = lprov /\ lprov[n].deleting
      BY <1>7 DEF L!StartScan, L!cluster, L!Lagging, L!Scannable
    <2>2. L!Users(ctl.name)' \subseteq Resources
      BY DEF L!Users
    <2> QED BY <1>0, <2>1, <2>2 DEF L!Known
  <1>8. CASE L!ListNamespaces
    <2>1. ctl # L!Idle /\ ctl'.name = ctl.name /\ ctl'.todo = Resources \ life.hidden
      <3>1. ctl.at = "scan" /\ ctl'.name = ctl.name /\ ctl'.todo = ctl.todo
        BY <1>8 DEF L!ListNamespaces, L!TypeOK, L!Ctls
      <3> QED BY <3>1 DEF L!Scanned, L!Idle, L!Scannable
    <2>2. L!Users(ctl.name)' \subseteq Resources
      BY DEF L!Users
    <2> QED BY <1>0, <1>1, <1>2, <2>1, <2>2 DEF L!Known
  <1>9. ASSUME NEW r \in Resources, L!ListKind(r) \/ L!SkipKind(r) PROVE L!Known'
    <2>1. L!ListKind(r)
      BY <1>9 DEF L!SkipKind, L!Fault, L!Orderly
    <2>2. /\ ctl # L!Idle /\ ctl'.name = ctl.name /\ ctl'.todo = ctl.todo \ {r}
          /\ ctl.users \subseteq ctl'.users
          /\ res' = res /\ ref' = ref
      BY <2>1 DEF L!ListKind, L!TypeOK, L!Ctls, L!Idle, L!refs
    <2>3. r \in L!Users(ctl.name) => r \in ctl'.users
      BY <2>1 DEF L!ListKind, L!TypeOK, L!Ctls, L!Users
    <2>4. L!Users(ctl.name)' = L!Users(ctl.name)
      BY <1>0, <2>2 DEF L!Users
    <2> QED BY <1>0, <1>1, <1>2, <2>2, <2>3, <2>4 DEF L!Known
  <1>10. CASE L!Decide
    <2>1. CASE ctl.users = {}
      <3>1. /\ ctl # L!Idle /\ ctl'.name = ctl.name /\ ctl'.todo = ctl.todo
            /\ ctl'.users = ctl.users /\ res' = res /\ ref' = ref
        BY <1>10, <2>1 DEF L!Decide, L!TypeOK, L!Ctls, L!Idle, L!refs
      <3>2. L!Users(ctl.name)' = L!Users(ctl.name)
        BY <1>0, <3>1 DEF L!Users
      <3> QED BY <1>0, <1>1, <1>2, <3>1, <3>2 DEF L!Known
    <2>2. CASE ctl.users # {}
      BY <1>10, <2>2 DEF L!Decide, L!Known
    <2> QED BY <2>1, <2>2
  <1>11. CASE L!RemoveFinalizer \/ L!Crash
    BY <1>11 DEF L!RemoveFinalizer, L!Crash, L!Known
  <1>12. ASSUME NEW n \in ProviderNames,
                \/ L!AddFinalizer(n) \/ L!DeleteProvider(n) \/ L!WatchProvider(n)
                \/ L!EditRole(n)
         PROVE  L!Known'
    BY <1>4, <1>12 DEF L!AddFinalizer, L!DeleteProvider, L!WatchProvider, L!EditRole,
       L!refs
  <1>13. CASE L!Annotate \/ L!WatchNamespace \/ UNCHANGED L!vars
    BY <1>4, <1>13 DEF L!Annotate, L!WatchNamespace, L!vars, L!refs
  <1>14. ASSUME NEW r \in Resources, L!WatchResource(r) PROVE L!Known'
    BY <1>4, <1>14 DEF L!WatchResource
  <1>15. ASSUME NEW r \in Resources, L!CreateResource(r) PROVE L!Known'
    BY <1>5, <1>15, LifeScenarioType DEF L!CreateResource, L!refs, L!TypeOK
  <1>16. ASSUME NEW r \in Resources, NEW n \in ProviderNames \union {L!None},
                L!MoveResource(r, n)
         PROVE  L!Known'
    BY <1>5, <1>16 DEF L!MoveResource, L!TypeOK
  <1> QED
    BY <1>6, <1>7, <1>8, <1>9, <1>10, <1>11, <1>12, <1>13, <1>14, <1>15, <1>16
       DEF L!Next

LEMMA DanglingStep ==
    ASSUME L!Parameters, L!TypeOK, L!TypeOK', L!Scanned, L!Orderly, L!Known,
           L!NoDangling,
           [L!Next]_L!vars,
           \A n \in ProviderNames : L!Lagging(n)
    PROVE  L!NoDangling'
  <1>0. life' = life
    BY SameScenario
  <1> SUFFICES ASSUME NEW r \in L!Scannable, res'[r] # "absent", ref'[r] # L!None
               PROVE  lprov'[ref'[r]].exists
    BY <1>0 DEF L!NoDangling, L!Scannable
  <1> DEFINE n == ref'[r]
  <1>1. n \in ProviderNames /\ r \in Resources
    BY DEF L!TypeOK, L!Scannable
  <1>2. /\ lprov[n].exists
        /\ L!RemoveFinalizer => res[r] # "absent" /\ ref[r] = n
    <2>1. CASE L!CreateResource(r)
      <3>1. ref' = ref /\ L!Admitted(n) /\ L!Timely(n) /\ ctl' = ctl /\ lprov' = lprov
        BY <2>1 DEF L!CreateResource, L!refs, L!cluster
      <3>2. lprov[n].exists
        BY <1>1, <3>1, NamedOrderly
      <3>3. ~L!RemoveFinalizer
        BY <3>1 DEF L!RemoveFinalizer, L!Idle
      <3> QED BY <3>2, <3>3
    <2>2. CASE L!MoveResource(r, n)
      <3>1. L!Admitted(n) /\ L!Timely(n) /\ ctl' = ctl
        BY <2>2 DEF L!MoveResource
      <3>2. lprov[n].exists
        BY <1>1, <3>1, NamedOrderly
      <3>3. ~L!RemoveFinalizer
        BY <3>1 DEF L!RemoveFinalizer, L!Idle
      <3> QED BY <3>2, <3>3
    <2>3. ~L!CreateResource(r) /\ ~L!MoveResource(r, n) => res[r] # "absent" /\ ref[r] = n
      <3>1. ASSUME NEW s \in Resources, L!CreateResource(s) \/ L!DeleteResource(s)
                      \/ L!ReconcileResource(s) \/ L!FinalizeResource(s),
                   ~L!CreateResource(r)
            PROVE  res[r] # "absent" /\ ref[r] = n
        BY <1>1, <3>1 DEF L!CreateResource, L!DeleteResource, L!ReconcileResource,
           L!FinalizeResource, L!TypeOK, L!refs
      <3>2. ASSUME NEW s \in Resources, NEW m \in ProviderNames \union {L!None},
                   L!MoveResource(s, m), ~L!MoveResource(r, n)
            PROVE  res[r] # "absent" /\ ref[r] = n
        BY <1>1, <3>2 DEF L!MoveResource, L!TypeOK
      <3>3. CASE UNCHANGED <<res, ref>>
        BY <3>3
      <3> QED
        BY <3>1, <3>2, <3>3 DEF L!Next, L!vars, L!refs, L!AddFinalizer, L!StartScan,
           L!DeleteProvider, L!WatchProvider, L!EditRole, L!ListNamespaces, L!ListKind,
           L!SkipKind, L!Decide, L!RemoveFinalizer, L!Crash, L!Annotate,
           L!WatchResource, L!WatchNamespace
    <2>4. res[r] # "absent" /\ ref[r] = n => lprov[n].exists
      BY DEF L!NoDangling
    <2> QED BY <2>1, <2>2, <2>3, <2>4
  <1> SUFFICES ASSUME ~lprov'[n].exists PROVE FALSE
    OBVIOUS
  <1>3. lprov[n].finalizer
    BY <1>1, <1>2 DEF L!Lagging
  <1>4. L!RemoveFinalizer /\ n = ctl.name
    BY <1>1, <1>2, <1>3, GoneByController
  <1>5. ctl # L!Idle /\ ctl.todo = {} /\ ctl.users = {}
    BY <1>4 DEF L!RemoveFinalizer, L!Idle, L!Scanned
  <1>6. r \in L!Users(ctl.name) /\ r \notin life.hidden
    BY <1>1, <1>2, <1>4 DEF L!Users, L!Scannable
  <1> QED BY <1>5, <1>6 DEF L!Known

LEMMA OrderlyStep ==
    ASSUME L!Parameters, L!TypeOK, L!TypeOK', L!Scanned, L!OrderlyScan,
           L!NoDangling, [L!Next]_L!vars
    PROVE  L!OrderlyScan' /\ L!NoDangling'
  <1>1. L!Orderly' = L!Orderly
    BY SameScenario DEF L!Orderly, L!SourceOf
  <1>2. CASE L!Orderly
    <2>1. L!Known /\ \A n \in ProviderNames : L!Lagging(n)
      BY <1>2 DEF L!OrderlyScan
    <2>2. ctl # L!Idle => lprov[ctl.name].deleting
      BY <2>1 DEF L!Known
    <2>3. \A n \in ProviderNames : L!Lagging(n)'
      BY <2>1, <2>2, LaggingStep
    <2>4. L!Known'
      BY <1>2, <2>1, KnownStep
    <2>5. L!NoDangling'
      BY <1>2, <2>1, DanglingStep
    <2>6. L!OrderlyScan'
      BY <2>3, <2>4 DEF L!OrderlyScan
    <2> QED BY <2>5, <2>6
  <1>3. CASE ~L!Orderly
    BY <1>1, <1>3 DEF L!OrderlyScan, L!NoDangling
  <1> QED BY <1>2, <1>3

LEMMA LifeInvStep == L!Parameters /\ L!LifecycleInv /\ [L!Next]_L!vars => L!LifecycleInv'
  <1> SUFFICES ASSUME L!Parameters, L!LifecycleInv, [L!Next]_L!vars PROVE L!LifecycleInv'
    OBVIOUS
  <1>1. L!TypeOK /\ L!OneAccount /\ L!Scanned /\ L!OrderlyScan /\ L!NoDangling
    BY DEF L!LifecycleInv
  <1>2. L!TypeOK'
    BY <1>1, LifeTypeStep
  <1>3. L!OneAccount'
    BY <1>1, <1>2, AccountStep
  <1>4. L!NoOrphan'
    BY <1>3 DEF L!OneAccount, L!NoOrphan
  <1>5. L!Scanned'
    BY <1>1, <1>2, ScannedStep
  <1>6. L!OrderlyScan' /\ L!NoDangling'
    BY <1>1, <1>2, OrderlyStep
  <1> QED BY <1>2, <1>3, <1>4, <1>5, <1>6 DEF L!LifecycleInv

\* In every behaviour of the cluster nothing is left in an account once its
\* resource is gone, and in an orderly one no provider goes that a resource
\* names, however scans, users, crashes and the informer interleave.
THEOREM LifecycleInvariant == LifecycleSpec => []LifecycleInv
  <1>1. L!Init => L!LifecycleInv
    BY LifecycleAssumption, LifeInitInv
  <1>2. L!LifecycleInv /\ [L!Next]_L!vars => L!LifecycleInv'
    BY LifecycleAssumption, LifeInvStep
  <1> QED BY <1>1, <1>2, PTL DEF LifecycleSpec, LifecycleInv, L!Spec

\* The AWSProvider controller gives up a finalizer only when every user of the
\* provider came behind the back of its scan: Reconcile and
\* referencingResources, awsprovider_controller.go.
THEOREM ReleasedOnlyUnused == LifecycleSpec => ReleasedUnused
  <1> DEFINE Releases ==
        \A n \in ProviderNames : lprov[n].exists /\ lprov[n].finalizer /\ ~lprov[n]'.exists
            => L!Users(n) \union L!Selected(n) \subseteq late \union life.hidden
  <1>1. L!LifecycleInv /\ [L!Next]_L!vars => [Releases]_L!vars
    BY LifecycleAssumption, ReleaseStep DEF L!LifecycleInv
  <1>2. L!Spec => []L!LifecycleInv
    BY LifecycleInvariant DEF LifecycleSpec, LifecycleInv
  <1> QED BY <1>1, <1>2, PTL DEF LifecycleSpec, ReleasedUnused, L!Spec, L!ReleasedUnused

=============================================================================
