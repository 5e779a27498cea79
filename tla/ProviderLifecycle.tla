-------------------------- MODULE ProviderLifecycle --------------------------
(***************************************************************************)
(* The life of AWSProviders and of the resources that use them: the        *)
(* AWSProvider controller's finalizer and its scan for users               *)
(* (awsprovider_controller.go), the admission webhook                      *)
(* (webhook/providerref.go), and resources whose every reconcile, the      *)
(* deletion included, first resolves a provider (withProviderScope).       *)
(*                                                                         *)
(* A resource is reconciled in the account it resolves to at that moment.  *)
(* The role of provider n is in account n until a user edits it; the       *)
(* operator's own account is Own.  The resolution is the uncached one;     *)
(* ProviderResolver models the cache.                                      *)
(***************************************************************************)
EXTENDS Naturals

CONSTANTS
    Names,       \* AWSProviders, numbers in alphabetical order
    Resources,   \* custom resources, each of a kind of its own
    Scenarios    \* what may happen; one holds for a behaviour

None == 0
Own  == 0
AllUsers  == {"late", "move", "delete", "deleteProvider", "editRole", "annotate"}
AllFaults == {"crash", "listError"}

\* present: the providers there are.  source: spec.sourceProviderRef of each, or
\* None.  default: those with spec.default.  established: those whose finalizer
\* is stored from the start.  created: the resources users create.  ref: the
\* spec.providerRef a resource is created with, or None.  second: the provider of
\* its other side (spec.vpcProviderRef), or None.  hidden: the resources of kinds
\* whose own name ends in "List" (ManagedPrefixList is one).  webhook: the
\* admission webhook is enabled.  users: what users do; "late" are those who
\* name providers under deletion.  faults and most: which faults happen, and a
\* bound on how many.
AllScenarios ==
    [present : SUBSET Names,
     source : [Names -> Names \union {None}], default : SUBSET Names,
     established : SUBSET Names, created : SUBSET Resources,
     ref : [Resources -> Names \union {None}],
     second : [Resources -> Names \union {None}], hidden : SUBSET Resources,
     webhook : BOOLEAN, users : SUBSET AllUsers, faults : SUBSET AllFaults,
     most : Nat]

Parameters ==
    /\ Names \subseteq Nat \ {None}
    /\ Scenarios \subseteq AllScenarios

VARIABLES
    prov,    \* name -> the AWSProvider as the API server holds it
    seen,    \* name -> the AWSProvider in the informer cache
    ann,     \* the provider annotation of the resources' namespace
    aseen,   \* the annotation in the informer cache
    res,     \* resource -> "absent", "new", "managed" or "deleting"
    ref,     \* resource -> its spec.providerRef, or None
    cref,    \* resource -> its spec.providerRef in the informer cache
    inAws,   \* AWS: <<resource, account>> of everything that exists
    ctl,     \* the AWSProvider controller's worker
    late,    \* users the running scan missed: created, moved or annotated behind
             \* its back, or of a kind it could not list
    moved,   \* history: the resources whose providerRef, or whose provider's
             \* role, was edited
    faults,  \* how many faults have happened
    scenario \* the scenario of this behaviour

cluster == <<prov, seen, ann, aseen>>
refs == <<ref, cref, moved>>
vars == <<prov, seen, ann, aseen, res, ref, cref, inAws, ctl, late, moved, faults,
          scenario>>

Accounts  == Names \union {Own}
Providers == [exists : BOOLEAN, deleting : BOOLEAN, finalizer : BOOLEAN,
              account : Accounts]
NoProvider == [exists |-> FALSE, deleting |-> FALSE, finalizer |-> FALSE,
               account |-> Own]
SourceOf(n) == scenario.source[n]
SecondOf(r) == scenario.second[r]
MayUse == Resources \union {"namespace"}

\* read: the AWSProvider as the worker read it.
Idle  == [at |-> "idle", name |-> None, read |-> NoProvider, todo |-> {},
          users |-> {}]
Ctls  == [at : {"idle", "scan", "kinds", "release"}, name : Names \union {None},
          read : Providers, todo : SUBSET Resources, users : SUBSET MayUse]

Fault(kind) ==
    /\ kind \in scenario.faults /\ faults < scenario.most
    /\ faults' = faults + 1 /\ UNCHANGED scenario
NoFault == UNCHANGED <<faults, scenario>>

-----------------------------------------------------------------------------
(* Resolution, as a reconcile sees it.                                      *)

Found(n)  == seen[n].exists
Usable(n) == Found(n) /\ (SourceOf(n) # None => Found(SourceOf(n)))

Defaults == {n \in scenario.default : Found(n)}
LowestDefault == CHOOSE n \in Defaults : \A m \in Defaults : n <= m

\* providerRef, then the annotation, then the default, then the operator's own.
Chosen(r) ==
    IF cref[r] # None THEN cref[r]
    ELSE IF aseen # None THEN aseen
    ELSE IF Defaults # {} THEN LowestDefault ELSE Own

AccountOf(r) == IF Chosen(r) = Own THEN Own ELSE seen[Chosen(r)].account

\* A resource with two sides needs the provider of the other one as well.
Resolves(r) ==
    /\ Chosen(r) # Own => Usable(Chosen(r))
    /\ SecondOf(r) # None => Usable(SecondOf(r))

-----------------------------------------------------------------------------
(* Resources.                                                               *)

\* The webhook asks only that the provider is found.
Admitted(n) == scenario.webhook /\ n # None => Found(n)

Terminating(n) == n # None /\ prov[n].deleting
Timely(n) == "late" \in scenario.users \/ ~Terminating(n)

\* A resource comes late to the running scan when its kind was listed before.
Late(r) == IF ctl.at \in {"kinds", "release"} /\ r \notin ctl.todo THEN {r} ELSE {}

CreateResource(r) ==
    /\ r \in scenario.created /\ res[r] = "absent"
    /\ Admitted(ref[r]) /\ Timely(ref[r])
    /\ res' = [res EXCEPT ![r] = "new"]
    /\ late' = late \union Late(r)
    /\ UNCHANGED <<cluster, refs, inAws, ctl>> /\ NoFault

DeleteResource(r) ==
    /\ "delete" \in scenario.users
    /\ \/ res[r] = "new" /\ res' = [res EXCEPT ![r] = "absent"]
       \/ res[r] = "managed" /\ res' = [res EXCEPT ![r] = "deleting"]
    /\ UNCHANGED <<cluster, refs, inAws, ctl, late>> /\ NoFault

\* A user has the resource managed in another account from now on.
MoveResource(r, n) ==
    /\ "move" \in scenario.users
    /\ res[r] # "absent" /\ n # ref[r]
    /\ Admitted(n) /\ Timely(n)
    /\ ref' = [ref EXCEPT ![r] = n]
    /\ moved' = moved \union {r} /\ late' = late \union Late(r)
    /\ UNCHANGED <<cluster, res, cref, inAws, ctl>> /\ NoFault

\* Create what the account lacks, under the finalizer.  The write of the
\* finalizer fails on a stale copy of the resource.
ReconcileResource(r) ==
    /\ \/ res[r] = "managed"
       \/ res[r] = "new" /\ cref[r] = ref[r]
    /\ Resolves(r)
    /\ res' = [res EXCEPT ![r] = "managed"]
    /\ inAws' = inAws \union {<<r, AccountOf(r)>>}
    /\ UNCHANGED <<cluster, refs, ctl, late>> /\ NoFault

\* Mutated form: a provider that does not resolve ends the deletion.
FinalizeUnresolved(r) ==
    /\ res[r] = "deleting"
    /\ res' = IF cref[r] = ref[r] THEN [res EXCEPT ![r] = "absent"] ELSE res
    /\ inAws' = IF Resolves(r) THEN inAws \ {<<r, AccountOf(r)>>} ELSE inAws
    /\ UNCHANGED <<cluster, refs, ctl, late>> /\ NoFault

\* An error of the resolver comes before anything else, deletion included; the
\* write that gives up the finalizer fails on a stale copy of the resource.
FinalizeResource(r) ==
    /\ res[r] = "deleting" /\ Resolves(r)
    /\ res' = IF cref[r] = ref[r] THEN [res EXCEPT ![r] = "absent"] ELSE res
    /\ inAws' = inAws \ {<<r, AccountOf(r)>>}
    /\ UNCHANGED <<cluster, refs, ctl, late>> /\ NoFault

-----------------------------------------------------------------------------
(* The AWSProvider controller.                                              *)

AddFinalizer(n) ==
    /\ ctl = Idle
    /\ prov[n].exists /\ ~prov[n].deleting /\ ~prov[n].finalizer
    /\ seen[n] = prov[n]
    /\ prov' = [prov EXCEPT ![n].finalizer = TRUE]
    /\ UNCHANGED <<seen, ann, aseen, res, refs, inAws, ctl, late>> /\ NoFault

\* A kind whose own name ends in "List" is taken for the list of a kind.
Scannable == Resources \ scenario.hidden

StartScan(n) ==
    /\ ctl = Idle
    /\ seen[n].exists /\ seen[n].deleting
    /\ ctl' = [at |-> "scan", name |-> n, read |-> seen[n], todo |-> Scannable,
               users |-> {}]
    /\ late' = {}
    /\ UNCHANGED <<cluster, res, refs, inAws>> /\ NoFault

\* From the informer; an error counts as no namespaces.
ListNamespaces ==
    /\ ctl.at = "scan"
    /\ \/ /\ NoFault
          /\ ctl' = [ctl EXCEPT !.at = "kinds",
                                !.users = IF aseen = ctl.name
                                          THEN {"namespace"} ELSE {}]
          /\ UNCHANGED late
       \/ /\ Fault("listError")
          /\ ctl' = [ctl EXCEPT !.at = "kinds"]
          /\ late' = late \union {"namespace"}
    /\ UNCHANGED <<cluster, res, refs, inAws>>

\* Mutated form: a resource under deletion is no user any more.
ListLiving(r) ==
    /\ ctl.at = "kinds" /\ r \in ctl.todo
    /\ ctl' = [ctl EXCEPT
                !.todo = @ \ {r},
                !.users = IF res[r] \in {"new", "managed"}
                             /\ ref[r] = ctl.name
                          THEN @ \union {r} ELSE @]
    /\ UNCHANGED <<cluster, res, refs, inAws, late>> /\ NoFault

\* Straight from the API server, kind by kind in no particular order.
ListKind(r) ==
    /\ ctl.at = "kinds" /\ r \in ctl.todo
    /\ ctl' = [ctl EXCEPT
                !.todo = @ \ {r},
                !.users = IF res[r] # "absent" /\ ref[r] = ctl.name
                          THEN @ \union {r} ELSE @]
    /\ UNCHANGED <<cluster, res, refs, inAws, late>> /\ NoFault

\* Any error of a list counts as a kind that is not installed.
SkipKind(r) ==
    /\ ctl.at = "kinds" /\ r \in ctl.todo
    /\ ctl' = [ctl EXCEPT !.todo = @ \ {r}]
    /\ late' = late \union {r}
    /\ Fault("listError")
    /\ UNCHANGED <<cluster, res, refs, inAws>>

\* Mutated form: what reports a provider in use does not come back to it.
DecideOnce ==
    /\ ctl.at = "kinds" /\ ctl.todo = {} /\ ctl.users = {}
    /\ ctl' = [ctl EXCEPT !.at = "release"]
    /\ UNCHANGED <<cluster, res, refs, inAws, late>> /\ NoFault

\* In use: report it, and scan again in 30 seconds.
Decide ==
    /\ ctl.at = "kinds" /\ ctl.todo = {}
    /\ ctl' = IF ctl.users = {} THEN [ctl EXCEPT !.at = "release"] ELSE Idle
    /\ UNCHANGED <<cluster, res, refs, inAws, late>> /\ NoFault

\* The write fails on a stale copy of the provider, and the scan is repeated.
RemoveFinalizer ==
    /\ ctl.at = "release"
    /\ prov' = IF prov[ctl.name] = ctl.read
               THEN [prov EXCEPT ![ctl.name].exists = FALSE] ELSE prov
    /\ ctl' = Idle
    /\ UNCHANGED <<seen, ann, aseen, res, refs, inAws, late>> /\ NoFault

Crash ==
    /\ ctl # Idle /\ ctl' = Idle
    /\ Fault("crash")
    /\ UNCHANGED <<cluster, res, refs, inAws, late>>

-----------------------------------------------------------------------------
(* Users and the watch.                                                     *)

DeleteProvider(n) ==
    /\ "deleteProvider" \in scenario.users
    /\ prov[n].exists /\ ~prov[n].deleting
    /\ prov' = [prov EXCEPT ![n].deleting = prov[n].finalizer,
                            ![n].exists = prov[n].finalizer]
    /\ UNCHANGED <<seen, ann, aseen, res, refs, inAws, ctl, late>> /\ NoFault

\* Bound: a provider's role is edited once, to one in another account.
EditRole(n) ==
    /\ "editRole" \in scenario.users
    /\ prov[n].exists /\ prov[n].account = n
    /\ \E a \in Accounts \ {n} : prov' = [prov EXCEPT ![n].account = a]
    /\ moved' = moved \union {r \in Resources : ref[r] = n}
    /\ UNCHANGED <<seen, ann, aseen, res, ref, cref, inAws, ctl, late>> /\ NoFault

Annotate ==
    /\ "annotate" \in scenario.users
    /\ \E n \in (Names \union {None}) \ {ann} : ann' = n
    /\ UNCHANGED <<prov, seen, aseen, res, refs, inAws, ctl, late>> /\ NoFault

WatchProvider(n) ==
    /\ seen[n] # prov[n] /\ seen' = [seen EXCEPT ![n] = prov[n]]
    /\ UNCHANGED <<prov, ann, aseen, res, refs, inAws, ctl, late>> /\ NoFault

WatchResource(r) ==
    /\ cref[r] # ref[r] /\ cref' = [cref EXCEPT ![r] = ref[r]]
    /\ UNCHANGED <<cluster, res, ref, inAws, ctl, late, moved>> /\ NoFault

WatchNamespace ==
    /\ aseen # ann /\ aseen' = ann
    /\ late' = IF ctl.at \in {"kinds", "release"}
               THEN late \union {"namespace"} ELSE late
    /\ UNCHANGED <<prov, seen, ann, res, refs, inAws, ctl>> /\ NoFault

-----------------------------------------------------------------------------
Init ==
    /\ scenario \in Scenarios
    /\ prov = [n \in Names |-> [exists |-> n \in scenario.present, deleting |-> FALSE,
                                finalizer |-> n \in scenario.established,
                                account |-> n]]
    /\ seen = prov
    /\ ann = None /\ aseen = None
    /\ res = [r \in Resources |-> "absent"]
    /\ ref = scenario.ref /\ cref = ref
    /\ inAws = {} /\ ctl = Idle /\ late = {} /\ moved = {} /\ faults = 0

ReconcileAny(r) == ReconcileResource(r) \/ FinalizeResource(r)
Scan ==
    \/ ListNamespaces \/ (\E r \in Resources : ListKind(r))
    \/ Decide \/ RemoveFinalizer

Next ==
    \/ \E r \in Resources : \/ CreateResource(r) \/ DeleteResource(r)
                            \/ ReconcileResource(r) \/ FinalizeResource(r)
                            \/ WatchResource(r)
    \/ \E r \in Resources, n \in Names \union {None} : MoveResource(r, n)
    \/ \E n \in Names : \/ AddFinalizer(n) \/ StartScan(n)
                        \/ DeleteProvider(n) \/ WatchProvider(n) \/ EditRole(n)
    \/ ListNamespaces \/ Decide \/ RemoveFinalizer
    \/ \E r \in Resources : ListKind(r) \/ SkipKind(r)
    \/ Crash \/ Annotate \/ WatchNamespace

Spec == Init /\ [][Next]_vars

(* Every resource and every provider is reconciled time and again, a scan   *)
(* goes on once begun, and the watch delivers.                              *)
FairSpec ==
    /\ Spec
    /\ \A r \in Resources : SF_vars(ReconcileAny(r)) /\ WF_vars(WatchResource(r))
    /\ \A n \in Names : SF_vars(StartScan(n)) /\ WF_vars(WatchProvider(n))
    /\ WF_vars(Scan) /\ WF_vars(WatchNamespace)

-----------------------------------------------------------------------------
(* Properties.                                                              *)

TypeOK ==
    /\ prov \in [Names -> Providers] /\ seen \in [Names -> Providers]
    /\ ann \in Names \union {None} /\ aseen \in Names \union {None}
    /\ res \in [Resources -> {"absent", "new", "managed", "deleting"}]
    /\ ref \in [Resources -> Names \union {None}]
    /\ cref \in [Resources -> Names \union {None}]
    /\ inAws \subseteq Resources \X Accounts
    /\ ctl \in Ctls /\ (IF ctl.at = "idle" THEN ctl = Idle ELSE ctl.name \in Names)
    /\ late \subseteq MayUse /\ moved \subseteq Resources
    /\ scenario \in Scenarios /\ faults \in 0 .. scenario.most

Users(n) == {r \in Resources : res[r] # "absent" /\ ref[r] = n}
Selected(n) == IF aseen = n THEN {"namespace"} ELSE {}

\* The controller gives up a provider's finalizer only when every user of it,
\* the namespace's annotation included, came behind the back of the scan, is of
\* a kind the scan could not list, or is of a kind whose name ends in "List":
\* nothing that a list showed is overlooked, whatever it was doing.
ReleasedUnused ==
    [][\A n \in Names :
        prov[n].exists /\ prov[n].finalizer /\ ~prov[n]'.exists
            => Users(n) \union Selected(n) \subseteq late \union scenario.hidden]_vars

\* A resource with a providerRef that is never edited, of a provider whose role
\* is never edited, lives in one account: when the CR is gone, nothing of it is
\* left in any account, whatever happened to providers, to other resources and
\* to the annotation.  An edit of either abandons what the old account holds.
NoOrphan ==
    \A r \in Resources \ moved : res[r] = "absent" /\ ref[r] # None =>
        \A a \in Accounts : <<r, a>> \notin inAws

\* Behind NoOrphan: such a resource is only ever created in the account its
\* providerRef names, by a reconcile, which leaves the finalizer on it.
OneAccount ==
    \A r \in Resources \ moved : ref[r] # None =>
        /\ cref[r] = ref[r]
        /\ prov[ref[r]].account = ref[r] /\ seen[ref[r]].account = ref[r]
        /\ \A a \in Accounts : <<r, a>> \in inAws =>
              a = ref[r] /\ res[r] \in {"managed", "deleting"}

\* Behind ReleasedUnused: a user of the provider scanned for is in a kind still
\* to be listed, was listed, is late, or is of a kind that is never listed; the
\* annotation likewise, once the namespaces are listed.  A scan that goes on to
\* release has found nothing.
Scanned ==
    /\ ctl.at = "scan" => ctl.todo = Scannable
    /\ ctl.at \in {"kinds", "release"} =>
          /\ Users(ctl.name) \subseteq
                ctl.todo \union ctl.users \union late \union scenario.hidden
          /\ Selected(ctl.name) \subseteq ctl.users \union late
    /\ ctl.at = "release" => ctl.todo = {} /\ ctl.users = {}

\* The webhook is on, every provider has had its finalizer from the start, no
\* resource is created for or moved to a provider under deletion, every list is
\* answered, and no provider is the source of another.
Orderly ==
    /\ scenario.webhook /\ scenario.present \subseteq scenario.established
    /\ "late" \notin scenario.users /\ "listError" \notin scenario.faults
    /\ \A n \in Names : SourceOf(n) = None

\* "An AWSProvider cannot be deleted while any resource [...] references it"
\* (multi-account): in an orderly cluster the provider a resource names is
\* there as long as the resource is.  It holds of the kinds the controller
\* scans, those whose name does not end in "List".
NoDangling ==
    Orderly => \A r \in Scannable :
        res[r] # "absent" /\ ref[r] # None => prov[ref[r]].exists

\* Behind NoDangling: in an orderly cluster providers go by the controller's
\* hand alone, after their deletion was asked for; what the informer shows lags
\* behind, but never ahead; and no user of a provider scanned for is late.
Lagging(n) ==
    /\ prov[n].exists => prov[n].finalizer
    /\ seen[n].exists => prov[n].exists \/ prov[n].deleting
    /\ seen[n].deleting => prov[n].deleting
Known == ctl # Idle =>
    /\ prov[ctl.name].deleting
    /\ Users(ctl.name) \subseteq ctl.todo \union ctl.users \union scenario.hidden
OrderlyScan == Orderly => Known /\ \A n \in Names : Lagging(n)

\* The state is well formed, nothing is left in an account, nothing dangles,
\* with what makes the three inductive.
LifecycleInv ==
    /\ TypeOK
    /\ NoOrphan /\ OneAccount
    /\ Scanned
    /\ NoDangling /\ OrderlyScan

\* In an orderly cluster a resource under deletion, of a kind that is scanned
\* and with one side only, is eventually gone: users cannot take away the
\* provider it needs for that, and moving it to another does not hold it up.
ResourcesGo ==
    \A r \in Resources :
        /\ Orderly /\ r \in Scannable /\ SecondOf(r) = None
        /\ ref[r] # None /\ res[r] = "deleting"
        ~> res[r] = "absent" \/ ref[r] = None

\* A provider under deletion goes, unless resources or the namespace use it.
ProvidersGo ==
    \A n \in Names :
        prov[n].deleting ~> ~prov[n].exists \/ Users(n) # {} \/ ann = n

=============================================================================
