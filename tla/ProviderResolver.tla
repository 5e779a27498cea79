-------------------------- MODULE ProviderResolver --------------------------
(***************************************************************************)
(* Which account a reconcile runs in: internal/aws/provider/resolver.go,   *)
(* used by the workers of all kinds at once, and by the AWSProvider        *)
(* controller, which verifies a provider and invalidates its cache entry.  *)
(*                                                                         *)
(* Workers share one cache of assumed-role credentials behind a mutex that *)
(* is not held between the lookup and the store.  A provider may assume    *)
(* its role with the credentials of another one, so a worker keeps a stack *)
(* of the providers it is resolving, as the code's recursion does.         *)
(***************************************************************************)
EXTENDS Naturals, Sequences, FiniteSets

CONSTANTS
    Names,        \* names of AWSProviders, numbers in alphabetical order
    Namespaces,
    Roles,        \* role ARNs
    Workers,      \* reconcilers of other kinds
    Verifier,     \* the worker of the AWSProvider controller
    MaxStack,     \* bound on the recursion
    Scenarios     \* what may happen; one holds for a behaviour

None   == 0
NoRole == ""
Specs  == [role : Roles \union {NoRole}, src : Names \union {None},
           default : BOOLEAN, allowed : SUBSET Namespaces]
NoSpec == [role |-> NoRole, src |-> None, default |-> FALSE, allowed |-> {}]
AllUsers == {"edit", "remove", "recreate", "annotate"}

\* choices: the specs users may write for each name; a name without any has no
\* provider.  objects: the resources reconciled, by workers.  users: what users
\* do.  gens and errors: bounds on the generations of a provider and on how
\* many reads and calls fail.
AllScenarios == [choices : [Names -> SUBSET Specs], workers : SUBSET Workers,
                 objects : SUBSET [ref : Names \union {None}, ns : Namespaces],
                 users : SUBSET AllUsers, gens : Nat, errors : Nat]

ASSUME ResolverAssumption ==
    /\ Names \subseteq Nat \ {None}
    /\ NoRole \notin Roles
    /\ Verifier \notin Workers
    /\ MaxStack \in Nat \ {0}
    /\ Scenarios \subseteq AllScenarios

VARIABLES
    prov,    \* name -> the AWSProvider as the API server holds it
    seen,    \* name -> the AWSProvider in the informer cache
    ann,     \* namespace -> the provider its annotation names
    cache,   \* Resolver.cache: name -> entry
    pc,      \* worker -> where it is
    stack,   \* worker -> the providers it is resolving, outermost first
    top,     \* worker -> how many of them
    ret,     \* worker -> the credentials last returned
    faults,  \* how many reads and calls have failed
    scenario \* the scenario of this behaviour

cluster == <<prov, seen, ann>>
local   == <<pc, stack, top, ret>>
vars    == <<prov, seen, ann, cache, pc, stack, top, ret, faults, scenario>>

Procs == Workers \union {Verifier}

-----------------------------------------------------------------------------
\* Credentials: a role, assumed along a path of roles from the operator's own.
Credentials == [role : Roles \union {NoRole}, path : Seq(Roles)]
Own == [role |-> NoRole, path |-> <<>>]
Assume(source, role) ==
    [role |-> role,
     path |-> IF source.role = NoRole THEN source.path
              ELSE Append(source.path, source.role)]

Providers == [exists : BOOLEAN, deleting : BOOLEAN, uid : Nat, gen : Nat,
              spec : Specs, obs : Nat]
Entries   == [gen : Nat, role : Roles, path : Seq(Roles)]
Frames    == [name : Names, uid : Nat, gen : Nat, spec : Specs]
NoFrame   == [name |-> None]

FrameOf(n) == [name |-> n, uid |-> seen[n].uid, gen |-> seen[n].gen,
               spec |-> seen[n].spec]
Top(p) == stack[p][top[p]]
EmptyStack == [i \in 1 .. MaxStack |-> NoFrame]

\* An empty list allows every namespace.
NamespaceAllowed(spec, ns) == spec.allowed = {} \/ ns \in spec.allowed

\* The lowest name wins when several providers are marked default.
Defaults == {n \in Names : seen[n].exists /\ seen[n].spec.default}
DefaultProvider == CHOOSE n \in Defaults : \A m \in Defaults : n <= m

Fault ==
    faults < scenario.errors /\ faults' = faults + 1 /\ UNCHANGED scenario
NoFault == UNCHANGED <<faults, scenario>>

Drop(n) == cache' = [m \in DOMAIN cache \ {n} |-> cache[m]]

-----------------------------------------------------------------------------
(* ForObject: a worker chooses the provider of the resource it reconciles.  *)

Enter(p, n) ==
    /\ pc' = [pc EXCEPT ![p] = "enter"]
    /\ stack' = [stack EXCEPT ![p][1] = FrameOf(n)]
    /\ top' = [top EXCEPT ![p] = 1]
    /\ UNCHANGED ret

\* No provider applies: the operator's own credentials.
EnterOwn(p) ==
    /\ pc' = [pc EXCEPT ![p] = "done"]
    /\ ret' = [ret EXCEPT ![p] = Own]
    /\ UNCHANGED <<stack, top>>

\* A missing provider or one that excludes the namespace is an error.
Named(p, n, o) ==
    /\ n # None /\ seen[n].exists /\ NamespaceAllowed(seen[n].spec, o.ns)
    /\ Enter(p, n)

\* The namespaces a default provider allows are not looked at.
Unnamed(p) ==
    IF Defaults = {} THEN EnterOwn(p) ELSE Enter(p, DefaultProvider)

ForObject(p, o) ==
    /\ p \in Workers /\ pc[p] = "idle"
    /\ \/ Named(p, o.ref, o)
       \/ o.ref = None /\ Named(p, ann[o.ns], o)
       \/ o.ref = None /\ ann[o.ns] = None /\ Unnamed(p)
    /\ UNCHANGED <<cluster, cache>> /\ NoFault

\* A failed read of the namespace counts as no annotation.
ForObjectUnread(p, o) ==
    /\ p \in Workers /\ pc[p] = "idle"
    /\ o.ref = None /\ Unnamed(p)
    /\ Fault
    /\ UNCHANGED <<cluster, cache>>

-----------------------------------------------------------------------------
(* ForProvider, on the provider at the top of the worker's stack.           *)

\* Return credentials to the caller: to the next frame, or to the reconcile.
Returned(p, creds) ==
    /\ ret' = [ret EXCEPT ![p] = creds]
    /\ IF top[p] = 1
       THEN pc' = [pc EXCEPT ![p] = "done"] /\ UNCHANGED <<stack, top>>
       ELSE /\ pc' = [pc EXCEPT ![p] = "build"]
            /\ top' = [top EXCEPT ![p] = @ - 1]
            /\ stack' = [stack EXCEPT ![p][top[p]] = NoFrame]

\* Mutated form: an entry is used whatever generation it was made for.
CachedName(p) == Top(p).name \in DOMAIN cache

\* Under the mutex: an entry made for this generation is used.
Cached(p) ==
    /\ Top(p).name \in DOMAIN cache
    /\ cache[Top(p).name].gen = Top(p).gen

CacheHit(p) ==
    /\ pc[p] = "enter" /\ Top(p).spec.role # NoRole /\ Cached(p)
    /\ Returned(p, [role |-> cache[Top(p).name].role,
                    path |-> cache[Top(p).name].path])
    /\ UNCHANGED <<cluster, cache>> /\ NoFault

Uncached(p) ==
    pc[p] = "enter" /\ (Top(p).spec.role = NoRole \/ ~Cached(p))

NoSource(p) ==
    /\ Uncached(p) /\ Top(p).spec.src = None
    /\ pc' = [pc EXCEPT ![p] = "build"]
    /\ ret' = [ret EXCEPT ![p] = Own]
    /\ UNCHANGED <<cluster, cache, stack, top>> /\ NoFault

\* ForName on the source starts ForProvider at depth 0 again.
Source(p) ==
    /\ Uncached(p) /\ Top(p).spec.src # None
    /\ seen[Top(p).spec.src].exists /\ top[p] < MaxStack
    /\ top' = [top EXCEPT ![p] = @ + 1]
    /\ stack' = [stack EXCEPT ![p][top[p] + 1] = FrameOf(Top(p).spec.src)]
    /\ UNCHANGED <<cluster, cache, pc, ret>> /\ NoFault

Abort(p) ==
    /\ pc' = [pc EXCEPT ![p] = "idle"]
    /\ stack' = [stack EXCEPT ![p] = EmptyStack]
    /\ top' = [top EXCEPT ![p] = 0]
    /\ ret' = [ret EXCEPT ![p] = Own]

SourceMissing(p) ==
    /\ Uncached(p) /\ Top(p).spec.src # None
    /\ ~seen[Top(p).spec.src].exists
    /\ Abort(p)
    /\ UNCHANGED <<cluster, cache>> /\ NoFault

\* Without a role a provider is a region for its source's credentials.
PassThrough(p) ==
    /\ pc[p] = "build" /\ Top(p).spec.role = NoRole
    /\ Returned(p, ret[p])
    /\ UNCHANGED <<cluster, cache>> /\ NoFault

\* Mutated form: the entry is filed under the generation seen by now.
EntryGenerationNow(p) == seen[Top(p).name].gen

EntryGeneration(p) == Top(p).gen

\* Under the mutex again: store what was built for the provider as read.
Store(p) ==
    /\ pc[p] = "build" /\ Top(p).spec.role # NoRole
    /\ LET creds == Assume(ret[p], Top(p).spec.role)
       IN /\ cache' = [m \in DOMAIN cache \union {Top(p).name} |->
                        IF m = Top(p).name
                        THEN [gen |-> EntryGeneration(p),
                              role |-> creds.role, path |-> creds.path]
                        ELSE cache[m]]
          /\ Returned(p, creds)
    /\ UNCHANGED cluster /\ NoFault

\* The reconcile that ran under the scope ends.
Finish(p) ==
    /\ p \in Workers /\ pc[p] = "done"
    /\ Abort(p)
    /\ UNCHANGED <<cluster, cache>> /\ NoFault

-----------------------------------------------------------------------------
(* The AWSProvider controller, as far as the resolver is concerned.         *)

Verify(n) ==
    /\ pc[Verifier] = "idle" /\ seen[n].exists /\ ~seen[n].deleting
    /\ IF seen[n].gen # seen[n].obs THEN Drop(n) ELSE UNCHANGED cache
    /\ Enter(Verifier, n)
    /\ UNCHANGED cluster /\ NoFault

\* Mutated form: the status is written back without the new generation.
VerifiedUnchanged ==
    /\ pc[Verifier] = "done"
    /\ Abort(Verifier)
    /\ UNCHANGED <<cluster, cache>> /\ NoFault

\* GetCallerIdentity answered; the status write finds the same object or fails.
Verified ==
    /\ pc[Verifier] = "done"
    /\ LET f == stack[Verifier][1]
       IN prov' = IF prov[f.name].exists /\ prov[f.name].uid = f.uid
                  THEN [prov EXCEPT ![f.name].obs = f.gen] ELSE prov
    /\ Abort(Verifier)
    /\ UNCHANGED <<seen, ann, cache>> /\ NoFault

\* GetCallerIdentity or the status write failed.
VerifyFailed ==
    /\ pc[Verifier] = "done"
    /\ Abort(Verifier)
    /\ Fault
    /\ UNCHANGED <<cluster, cache>>

\* The provider is not found, or under deletion: it still resolves then, and
\* is not verified any more.
Invalidate(n) ==
    /\ pc[Verifier] = "idle" /\ (seen[n].exists => seen[n].deleting)
    /\ n \in DOMAIN cache
    /\ Drop(n)
    /\ UNCHANGED <<cluster, local>> /\ NoFault

-----------------------------------------------------------------------------
(* Users and the watch.                                                     *)

UserChange(n, p) ==
    /\ prov' = [prov EXCEPT ![n] = p]
    /\ UNCHANGED <<seen, ann, cache, local>> /\ NoFault

Edit(n) ==
    /\ "edit" \in scenario.users /\ prov[n].exists /\ prov[n].gen < scenario.gens
    /\ \E s \in scenario.choices[n] \ {prov[n].spec} :
          UserChange(n, [prov[n] EXCEPT !.gen = @ + 1, !.spec = s])

\* kubectl delete; the API server counts it as a generation.
Delete(n) ==
    /\ "remove" \in scenario.users /\ prov[n].exists /\ ~prov[n].deleting
    /\ UserChange(n, [prov[n] EXCEPT !.deleting = TRUE, !.gen = @ + 1])

\* Its finalizer goes, at some time: ProviderLifecycle says when.
Remove(n) ==
    /\ prov[n].exists /\ prov[n].deleting
    /\ UserChange(n, [prov[n] EXCEPT !.exists = FALSE])

\* Another object under the same name: its generations start at 1 again.
Recreate(n) ==
    /\ "recreate" \in scenario.users /\ ~prov[n].exists /\ prov[n].uid = 1
    /\ \E s \in scenario.choices[n] :
          UserChange(n, [exists |-> TRUE, deleting |-> FALSE, uid |-> 2,
                         gen |-> 1, spec |-> s, obs |-> 0])

Annotate(ns) ==
    /\ "annotate" \in scenario.users
    /\ \E n \in (Names \union {None}) \ {ann[ns]} :
          ann' = [ann EXCEPT ![ns] = n]
    /\ UNCHANGED <<prov, seen, cache, local>> /\ NoFault

Watch(n) ==
    /\ seen[n] # prov[n]
    /\ seen' = [seen EXCEPT ![n] = prov[n]]
    /\ UNCHANGED <<prov, ann, cache, local>> /\ NoFault

-----------------------------------------------------------------------------
Written(n) ==
    IF scenario.choices[n] = {} THEN {NoSpec} ELSE scenario.choices[n]

Init ==
    /\ scenario \in Scenarios /\ faults = 0
    /\ \E spec \in [Names -> UNION {Written(n) : n \in Names}] :
        /\ \A n \in Names : spec[n] \in Written(n)
        /\ prov = [n \in Names |-> [exists |-> scenario.choices[n] # {},
                                    deleting |-> FALSE, uid |-> 1, gen |-> 1, obs |-> 0,
                                    spec |-> spec[n]]]
    /\ seen = prov
    /\ ann = [ns \in Namespaces |-> None]
    /\ cache = [n \in {} |-> n]
    /\ pc = [p \in Procs |-> "idle"]
    /\ stack = [p \in Procs |-> EmptyStack]
    /\ top = [p \in Procs |-> 0]
    /\ ret = [p \in Procs |-> Own]

ForProvider(p) == CacheHit(p) \/ NoSource(p) \/ Source(p) \/ SourceMissing(p)
                  \/ PassThrough(p) \/ Store(p)
Work(p) == ForProvider(p) \/ Finish(p)
Controller == Verified \/ \E n \in Names : Verify(n) \/ Invalidate(n)
Resolve == \E p \in scenario.workers, o \in scenario.objects : ForObject(p, o)

Next ==
    \/ Resolve
    \/ \E p \in scenario.workers, o \in scenario.objects : ForObjectUnread(p, o)
    \/ \E p \in Procs : Work(p)
    \/ Controller \/ VerifyFailed
    \/ \E n \in Names : \/ Edit(n) \/ Delete(n) \/ Remove(n) \/ Recreate(n)
                       \/ Watch(n)
    \/ \E ns \in Namespaces : Annotate(ns)

Spec == Init /\ [][Next]_vars

(* Goroutines run, reconciles come again, the watch delivers, and the       *)
(* controller takes up every provider time and again (5 minute resync).     *)
FairSpec ==
    /\ Spec
    /\ \A p \in Procs : WF_vars(Work(p))
    /\ WF_vars(Resolve) /\ WF_vars(Verified)
    /\ \A n \in Names :
        SF_vars(Verify(n)) /\ SF_vars(Invalidate(n)) /\ WF_vars(Watch(n))

-----------------------------------------------------------------------------
(* Properties.                                                              *)

TypeOK ==
    /\ prov \in [Names -> Providers] /\ seen \in [Names -> Providers]
    /\ ann \in [Namespaces -> Names \union {None}]
    /\ DOMAIN cache \subseteq Names
    /\ \A n \in DOMAIN cache : cache[n] \in Entries
    /\ pc \in [Procs -> {"idle", "enter", "build", "done"}]
    /\ top \in [Procs -> 0 .. MaxStack]
    /\ stack \in [Procs -> [1 .. MaxStack -> Frames \union {NoFrame}]]
    /\ ret \in [Procs -> Credentials]
    /\ scenario \in Scenarios /\ faults \in 0 .. scenario.errors
    /\ \A p \in Procs : \A i \in 1 .. MaxStack :
          i <= top[p] => stack[p][i] \in Frames
    /\ \A p \in Procs : IF pc[p] = "idle" THEN top[p] = 0
                       ELSE top[p] >= 1 \/ (pc[p] = "done" /\ p \in Workers)

First(n) == prov[n].uid = 1

Busy(p) == pc[p] = "done" /\ top[p] = 1
Scoped(p) == stack[p][1]

\* The calls of a reconcile are made in the role that the provider it resolved
\* names in the very generation that was read, whoever stored, dropped or
\* overwrote the cache entry meanwhile.  A provider that was removed and made
\* again starts its generations over, and can meet an entry of the old one.
RightRole ==
    \A p \in Procs :
        Busy(p) /\ Scoped(p).spec.role # NoRole /\ First(Scoped(p).name)
            => ret[p].role = Scoped(p).spec.role

\* The providers a cache entry can be matched with: what is stored, what the
\* informer shows, what workers hold.
Versions(n) == {prov[n], seen[n]}
Held(p, n) == {i \in 1 .. MaxStack : i <= top[p] /\ stack[p][i].name = n}

\* A generation of a name means one role: in the cluster, in the informer, on
\* the stacks of all workers and in the cache.
Agrees(gen, role, n) ==
    /\ \A v \in Versions(n) : v.gen = gen => v.spec.role = role
    /\ \A p \in Procs : \A i \in Held(p, n) :
          stack[p][i].gen = gen => stack[p][i].spec.role = role

GenerationsAgree ==
    \A n \in Names : First(n) =>
        /\ \A v \in Versions(n) :
              v.gen <= prov[n].gen /\ Agrees(v.gen, v.spec.role, n)
        /\ \A p \in Procs : \A i \in Held(p, n) :
              /\ stack[p][i].gen <= prov[n].gen
              /\ Agrees(stack[p][i].gen, stack[p][i].spec.role, n)

EntriesAgree ==
    \A n \in DOMAIN cache : First(n) =>
        cache[n].gen <= prov[n].gen /\ Agrees(cache[n].gen, cache[n].role, n)

\* The inductive invariant behind RightRole.
IInv == TypeOK /\ GenerationsAgree /\ EntriesAgree /\ RightRole

\* What resolution without a cache gives for the stored providers.
Uncached0 == [n \in Names |-> Own]
RefCreds ==
    LET C[d \in 0 .. Cardinality(Names)] ==
        IF d = 0 THEN Uncached0
        ELSE [n \in Names |->
                LET s == prov[n].spec
                    source == IF s.src = None THEN Own ELSE C[d - 1][s.src]
                IN IF s.role = NoRole THEN source ELSE Assume(source, s.role)]
    IN C[Cardinality(Names)]

\* After the last change of providers, every reconcile under a provider
\* without a source runs with the credentials that resolution without a cache
\* would give.  Behind a source it need not: an entry is keyed by the
\* generation of its own provider alone.
ScopesCurrent ==
    <>[](\A p \in Procs :
            Busy(p) /\ Scoped(p).spec.src = None /\ First(Scoped(p).name)
                => ret[p] = RefCreds[Scoped(p).name])

\* No provider names a source that is missing.
Linked ==
    \A n \in Names : prov[n].exists /\ prov[n].spec.src # None
                        => prov[prov[n].spec.src].exists

\* Every existing provider is verified in its current generation in the end,
\* unless it is being deleted or the chain it belongs to is broken.
VerifiedInTheEnd ==
    <>[](Linked => \A n \in Names :
            prov[n].exists /\ ~prov[n].deleting => prov[n].obs = prov[n].gen)

=============================================================================
