# Verification of konfig-konector

konfig-konector is a Kubernetes operator that manages AWS resources. For every
custom resource (CR) a reconciler compares the spec with AWS, calls AWS, and
records what it learnt in the CR's status. This directory holds TLA+ models of
that work, the TLC configurations that check them, and theorems about them that
TLAPS proves.

Contents: [inventory](#inventory) · [plan](#plan) · [modules](#modules) ·
[properties](#properties) · [runs and bounds](#runs-and-bounds) ·
[fairness](#fairness) · [proofs](#proofs) ·
[disagreement](#a-disagreement-with-the-documentation) ·
[known limits](#known-limits-of-the-code) · [not modelled](#not-modelled) ·
[running the checks](#running-the-checks)

## Inventory

| Part | Code | State it keeps | Model |
|---|---|---|---|
| Cloud Control engine | `internal/controller/cc_engine.go`, `cloudcontrolresource_controller.go`, `internal/aws/cloudcontrol/helpers.go` | `status.identifier`, `requestToken`, `operationType`, `retryAttempt`, `observedGeneration`, conditions, the finalizer | `CloudControl` |
| Shared helpers | `internal/controller/helpers.go` and the outer `Reconcile` that every native kind repeats | none; the write loop `persistStatus` | `Reconciler`, `CloudControl` |
| Native reconcilers | about 240 `internal/controller/*_controller.go` | AWS identifiers and conditions in each status, the finalizer | `NatGateway`, `DBInstance`, `SecurityGroup`, `VPC`, `Subnet`, `Network` |
| Cross-account handshakes | VPC peering, hosted zone association, transit gateway attachment, RAM invitation, endpoint service | the identifier of a connection and its last seen state | `Peering`, `ZoneAssociation` |
| S3 bucket settings | `s3bucket_controller.go` and the single-setting kinds | `status.managedSettings` | `BucketSettings` |
| Provider resolution | `internal/aws/provider/resolver.go`, `scope.go` | a cache behind a mutex: provider name to (generation, credentials) | `ProviderResolver` |
| AWSProvider controller | `awsprovider_controller.go` | `status.observedGeneration`, conditions, the finalizer | `ProviderLifecycle`, `ProviderResolver` |
| Admission webhook | `internal/webhook/providerref.go` | none | `ProviderLifecycle` |
| Spec conversion | `internal/cfn/cfn.go` | none (pure) | – |
| Exporter, generators, charts, API types, SDK wrappers, entry point | `internal/export`, `hack`, `helm`, `api`, `internal/aws`, `main.go` | none at run time | – |

**Interactions.** controller-runtime runs one worker per kind; different kinds
run concurrently. A worker reads from an informer cache that lags the API
server, writes the finalizer with a whole-object `Update` that fails on a stale
`resourceVersion`, and writes status through `persistStatus`, which retries a
conflict with the cache's `resourceVersion` and its own status. Kinds depend on
each other only through stored CRs (a Subnet waits until the VPC's status has an
identifier). Every AWS call of a reconcile runs under the scope that the provider
resolver put in its context. Users, other controllers and AWS itself act in
between.

**What is hard**, and what makes each part correct:

* *Cloud Control engine.* Requests are asynchronous and AWS deduplicates them by
  client token. The process may die, or its status write be lost, after AWS
  accepted a request; the cache may show a state before the last status write;
  the CR may be edited, abandoned or deleted at any point; AWS may fail the
  request, forget it, or lose the resource. Correct: no second resource for one
  generation; the finalizer before the first call and until the resource is
  gone; no activity for a CR that is gone; deletion and convergence in the end;
  an adopted resource is not replaced.
* *Native reconcilers.* Create calls are mostly not idempotent; the identifier is
  known only to the worker until the status write. Correct: nothing in AWS
  outlives its CR, auxiliary resources (an Elastic IP, rules, IPv6 blocks)
  included; Ready means that AWS has what this generation says; two kinds that
  refer to each other agree.
* *Handshakes.* Two accounts, states that end (rejected, expired, failed), and
  a poll every 30 seconds. Correct: Ready only for what both sides agreed to;
  nothing between the accounts is left behind.
* *S3 settings.* Two kinds may manage the same setting of one bucket. Correct: a
  setting that one CR stopped managing is cleared, and not the other's.
* *Provider resolution.* Credentials cached by name and generation, chained
  providers, concurrent resolution and invalidation, three sources of a name
  (`providerRef`, namespace annotation, default). Correct: calls run in the role
  of the provider that was read; edits take effect in the end.
* *AWSProvider controller and webhook.* Correct: a provider outlives the
  resources that use it, and neither waits for the other for ever.

The hazards, each with its line and the properties that cover it, are in
`PROJECT.json`.

## Plan

| # | Modules | Abstract specification | Theorems | Status |
|---|---|---|---|---|
| 1 | `CloudControl` | `ManagedResource` | type, finalizer, quiet, release, one resource, adoption, inductive invariant, refinement | done |
| 2 | `ManagedResource` | – | nothing is left behind, stated of each kind that implements it | done |
| 3 | `Reconciler` | – | what every kind's proof uses: types, finalizer protocol, phases | done |
| 4 | `NatGateway`, `Peering`, `ZoneAssociation` | `ManagedResource` | inductive invariant, refinement, and what follows from them | done |
| 5 | `DBInstance`, `BucketSettings`, `SecurityGroup` | – | inductive invariant and what follows from it | done |
| 6 | `VPC`, `Subnet`, composed in `Network` | – | inductive invariant of the two together and what follows from it | done |
| 7 | `ProviderResolver`, `ProviderLifecycle` | – | inductive invariant of each, `ReleasedUnused` | done |

`StatusWrite` of the first plan became part of `Reconciler` and `CloudControl`
(`Persist`, `PersistConflict`, `PersistError`): its writers are the users and
workers of those modules. `JsonPatch`, `NamespaceMatch` and `CfnConvert` are
dropped: `BuildPatch` is an operator of `CloudControl`, `NamespaceAllowed` of
`ProviderResolver`, and the conversion is reflective Go without state.

## Modules

| Module | Role |
|---|---|
| `ManagedResource` | what every managed CR promises, whatever its kind |
| `CloudControl` | the Cloud Control engine |
| `Reconciler` | the outer `Reconcile`, status writes, cache and users of one native CR |
| `NatGateway`, `Peering`, `ZoneAssociation`, `DBInstance`, `BucketSettings`, `SecurityGroup` | one native kind each; EXTENDS `Reconciler` |
| `VPC`, `Subnet` | two native kinds, composed by `Network`, which INSTANCEs both |
| `ProviderResolver`, `ProviderLifecycle` | the multi-account part |
| `SecurityGroupNamed`, `NetworkNamed`, `ProviderLifecycleNamed` | the same specifications with a prefix to their names, so that the proofs about two modules can stand in one |
| `MC*` | instances for TLC |
| `ReconcilerProofs` | lemmas about the actions of `Reconciler`, for the proofs of every kind |
| `CloudControlProofs`, `PeeringProofs`, `ZoneAssociationProofs`, `BucketSettingsProofs`, `ProviderProofs` | theorems about the module or modules of that name |
| `Ec2Proofs` | theorems about `NatGateway` and `Network` |
| `StatusProofs` | theorems about what a status claims: `DBInstance` and `SecurityGroup` |

Definitions with the comment *Mutated form* are not part of a specification.
Each is a plausible mistake in the code that a property must catch
(`PROJECT.json`, `mutants`).

### ManagedResource

The abstract life of a CR: `new`, `held` (finalizer stored), `removing`, `gone`;
whether the user asked to keep the resource; the calls AWS remembers; and whether
the resource that the stored status identifies exists. `Manage` may do anything
while the finalizer is held, `Vanish` may only take away, and `Release` needs the
resource gone or abandoned. `CloudControl`, `NatGateway`, `Peering` and
`ZoneAssociation` each define a mapping (`Managed`) and check `ImplementsManaged`.

### CloudControl

Models `CloudControlKindReconciler` (147 generated kinds) and its twin for the
`CloudControlResource` kind. They take the same steps; the twin may adopt
`spec.identifier`, which is the constant `SpecIdentifier` (`NoId` for a generated
kind).

| Variable | Stands for |
|---|---|
| `api` | the stored CR: spec (`want`), `gen`, `deleting`, `finalizer`, `abandon`, and the status fields `token`, `ident`, `attempt`, `obsGen`, `ready` |
| `cache`, `cfresh` | the informer's copy of it, and whether its `resourceVersion` is current |
| `w`, `wfresh` | the worker's copy, and whether its `resourceVersion` is current |
| `step` | where the worker is: the next AWS call or API write, with the client token it will use, or where a status write leads (`ok`, `err`) |
| `reqs` | AWS: every client token it remembers and that request's progress |
| `live`, `made` | AWS: the resources that exist, and how many identifiers were given out |
| `faults` | how much of the fault budget is used |

| Code | Actions |
|---|---|
| `Reconcile`: read the CR, choose a path | `ReconcileAbandoned`, `ReconcileDeleted`, `ReconcileNew`, `ReconcileExisting` |
| `Update` of the finalizer | `AddFinalizer`, `RemoveFinalizer` |
| `persistStatus` | `Persist`, `PersistConflict`, `PersistError` |
| `pollRequest` from `reconcile` and from `deleteResource` | `Poll`, `DeletePoll`, `PollError` |
| `reconcile`: `GetResource`, `BuildPatch` | `InSync`, `PlanUpdate`, `PlanCreate` |
| `CreateResource`, `UpdateResource`, `trackOperation` | `Issue`, `UpdateRefused`, `TokenConflict`, `TrackOperation`, `CallError` |
| `deleteResource` | `DeleteDone`, `PlanDelete`, `DeleteIssue`, `DeleteTrack` |
| process dies; informer; users | `Crash`; `CacheSync`; `UserEdit`, `UserAbandon`, `UserDelete` |
| AWS | `AwsMaterialise`, `AwsCreated`, `AwsUpdated`, `AwsDeleted`, `AwsGone`, `AwsFailed`, `AwsExpire`, `AwsExpireUnseen` |
| others in AWS | `Drift`, `ExternalDelete` |

A reconcile is cut at every call that leaves the process. A client token and the
request token it returns are one value: the code derives the first from
(operation, generation, attempt, patch) and AWS maps it to one request.
`status.requestToken` and `operationType` are written and cleared together, so
`token` holds both. `resourceVersion` is not a number: the API server only asks
whether the writer's is current, so every write to the CR clears `wfresh` and
`cfresh`, and a write restores the writer's own. A lost answer of AWS is
`CallError` at `track`: the request was accepted and the worker does not know.

### Reconciler

The same CR, cache, copy and step, for the native kinds; `step.local` is the one
local variable a handler keeps besides its copy (an address, a VPC, a plan of
ranges). A kind says what happens from the labels `read` (`reconcile<Kind>`) and
`delete` on, and gives its status fields (`Statuses`). `Report` is the Ready=False
write after an error, whose own failure the code ignores.

The rigid variable `scenario` is chosen in `Init` and never changes. It says which
specs and user actions there are, how far edits go, which kinds of fault happen
and how many. `Fault(kind)` guards every fault; `FreeOf(kinds)` lets a property
say under which faults it is claimed. The fault kinds are

| Kind | What happens |
|---|---|
| `crash` | the process dies between two steps and starts again |
| `error` | an API write or an AWS call fails without effect |
| `lost` | an AWS call takes effect and its answer is lost |
| `lag` | a reconcile starts from a cache that is behind the last write, or a status write finds the cache behind in all its retries |
| `dependency` | a CR that the spec refers to does not resolve, or comes to name another resource |
| `refused`, `failure`, `externalDelete`, `drift` | AWS or other people: a create is refused or a peer rejects, a resource fails, is deleted, or is changed |

### Native kinds

* `NatGateway`: `AllocateAddress` then `CreateNatGateway`, with `UndoAllocate`
  when the creation fails; `Available` (which sets the tags), `StillPending`,
  `NoGateway` are what `DescribeNatGateways` leads to. A spec names a Subnet CR,
  whose identifier is in `refs` and may change (`SubnetChanges`); the worker's
  `target` is what it resolved to. Without one, `Unresolved` waits or reports.
  Deletion looks a lost gateway up by subnet and tags (`Adopt`), and does without
  it where the subnet does not resolve; it deletes the gateway, waits
  (`AwaitDeleted`) and releases the address. AWS keeps `gws` and `eips`.
* `Peering`: `Create`, `Accept`, `Describe` and `DescribeAgain` of the operator;
  `PeerAccepts` and `PeerRejects` of the other account; AWS moves a connection
  through initiating, pending, provisioning, active and forgets it (`AwsForget`).
  A spec is `auto` (the operator accepts in the peer's account) or `manual`.
* `ZoneAssociation`: `Resolve` stores the VPC, then `GetHostedZone`, `Authorize`
  (zone's account), `Associate` (VPC's account), `Cleanup`; `Disassociate` on
  deletion. `Unresolved` is a zone or VPC that the code cannot resolve; its report
  is written from the copy as it was read.
* `DBInstance`: the spec names the instance, so RDS has at most one (`state`,
  `has`); the status knows only whether the ARN was seen. `Otherwise` is the
  fall-through of every other status to the create path. A spec's `Settings` are
  grouped by what `updateDBInstance` does with them (`Modified`): always sent, sent
  when set, only ever added, never sent. RDS refuses to delete a protected
  instance, and one whose final snapshot's name is taken (`Refuses`).
* `BucketSettings`: `S3Bucket` walks through its settings (`PutSetting`,
  `ClearSetting`, `SkipSetting`) and keeps `managedSettings`; the dedicated kinds
  (`Apply`, `AddObject`, `RemoveObject`) act on the same `conf`. A setting in
  `PutOnly` is cleared by a put, so it has no "not found" to tolerate.
* `SecurityGroup`: rules are replaced in four calls, incoming first, only when
  the generation changed or this reconcile created the group; deletion looks up a
  lost group by name, within the VPC as long as that resolves.
* `VPC`, `Subnet`, `Network`: two CRs, each with its own worker, cache and users.
  `Network` binds what the two share: the subnet's worker reads the VPC's CR from
  the cache (`Resolved`), EC2 keeps a VPC that has subnets (`Occupied`), and a
  crash takes both workers (`Crash`, `Panic`). Both lookups of a deletion filter by
  the tags of the spec, which a reconcile sets in two calls (`SetTags`,
  `SyncFails`). `NetworkNamed` gives the variables
  of the subnet the names of `Reconciler`, of which its worker is one.

### ProviderResolver and ProviderLifecycle

`ProviderResolver` has one process per worker (`pc`, `stack`, `top`, `ret`): the
recursion of `ForProvider` through `sourceProviderRef` is a bounded stack of the
providers as they were read. `Cached` and `Store` are the two critical sections;
everything may happen between them. `Verify`, `Verified`, `VerifyFailed` and
`Invalidate` are the AWSProvider controller. A provider under deletion (`Delete`)
still resolves; it is invalidated at every look and verified no more, until it is
gone (`Remove`, when `ProviderLifecycle` allows).

`ProviderLifecycle` has resources that are created, reconciled and deleted in
the account they resolve to at that moment. Users may move a resource to another
provider (`MoveResource`) and a provider to another role (`EditRole`); `moved` is the
history of the resources concerned. The controller's scan lists namespaces, then
kind by kind (`Scannable`: kinds whose own name ends in "List" are taken for the
lists of kinds and skipped, here the scenario's `hidden`), decides, and removes the
finalizer. `late` records the users that a running scan cannot have seen. A
resource may need a second provider (`SecondOf`), which no scan looks for.

## Properties

| Property | Module | Kind | Says |
|---|---|---|---|
| `IInv` | `CloudControl` | invariant | types; the finalizer before any request; the release is earned by what the copy, the token and AWS agree on; the creates of one generation follow each other (`CreatesInv`). Implies `AskedUnderFinalizer` |
| `OneResourceUntilEdited` | `CloudControl` | invariant | until the spec is edited a CR owns at most one resource, whatever is retried, unless it drifts |
| `AdoptedNotRecreated` | `CloudControl` | invariant | an adopted resource that exists is never replaced |
| `ReleasedWhenGone`, `QuietAfterGone` | `CloudControl` | action | the finalizer goes only after the resource; after that nothing but a delete is asked |
| `ImplementsManaged` | `CloudControl`, `NatGateway`, `Peering`, `ZoneAssociation` | refinement | every step is a step of `ManagedResource` |
| `GatewayInv` | `NatGateway` | invariant | types; after one bad call every gateway and address is in the status or in the worker's hands (`Accounted`); made inductive |
| `SoleGatewayRemoved`, `ReleasedClean` | `NatGateway` | invariant, action | the only gateway is found again on deletion, though its identifier was lost, if the last spec's subnet and tags describe it and Subnet CRs keep their identifiers; after one bad call nothing is left at the release |
| `PeeringInv` | `Peering` | invariant | types; Ready names a connection both sides agreed to, unless others delete connections (`ReadyOnlyAgreed`); made inductive |
| `ReleasedClean` | `Peering` | action | no connection is left at the release, however many were asked for, after at most one fault that loses neither an answer nor the process (`Careful`) |
| `AssociationInv`, `AuthorizationTransient` | `ZoneAssociation` | invariants | types; while the spec stays and no old copy is reported over the identifiers (`Steady`), no association outlives its CR (made inductive); no authorization outlives its reconcile |
| `InstanceInv`, `ObservedMeansApplied` | `DBInstance` | invariants | types; no instance outlives its CR (made inductive); a Ready generation is in the instance, as far as `updateDBInstance` sends it |
| `BucketInv`, `OthersLeftAlone` | `BucketSettings` | invariant, action | types; no bucket outlives its CR; after one failed call or write, what was written is remembered (made inductive); a dedicated object's setting is not touched by a bucket that never had it |
| `GroupInv`, `ReadyMeansApplied` | `SecurityGroup` | invariants | types; no group outlives its CR; what a status has observed is true (made inductive); Ready in this generation means its rules are in EC2 |
| `NetworkInv`, `NoOrphanSubnet` | `Network` | invariants | types; subnet and VPC of the two statuses fit together (`SubnetInVpc`); made inductive; no subnet with the tags of the last spec outlives its CR, and none at all without edits |
| `IInv` | `ProviderResolver` | invariant | types; a generation of a name means one role everywhere; calls run in the role that was read (`RightRole`); made inductive |
| `ScopesCurrent`, `VerifiedInTheEnd` | `ProviderResolver` | liveness | resolution ends up where it would be without a cache; every provider that is not under deletion is verified in its last generation |
| `LifecycleInv`, `ReleasedUnused` | `ProviderLifecycle` | invariant, action | types; nothing left in any account of a resource that was not moved (`NoOrphan`); in an orderly cluster (`Orderly`) no reference of a scanned kind dangles; made inductive; a scan overlooks only what came behind its back, could not be listed, or is never scanned |
| `ResourcesGo`, `ProvidersGo` | `ProviderLifecycle` | liveness | resources and providers under deletion do not block each other |
| `Converges`, `GroupConverges`, `NetworkConverges`, `BothGo`, `Settled` | all kinds | liveness | a CR under deletion goes (unless RDS refuses to delete its instance, `Stuck`); any other ends up matching AWS, with its generation observed |

A property conditioned by `FreeOf` or by the scenario says so in its comment; what
fails outside the condition is listed under [known limits](#known-limits-of-the-code).

## Runs and bounds

| Run | Distinct states | Shows |
|---|---|---|
| `CC_faults` | 2.23 M | safety and refinement of the engine under edits and deletion at any point and one fault of any kind but drift |
| `CC_live` | 966 k | adoption, refused updates, abandonment, deletion and convergence under a crash, a failed request or drift |
| `CC_orphan` | – | the [disagreement](#a-disagreement-with-the-documentation) |
| `MCNatGateway` | 142 k | gateway and address, edits of subnet and tags, Subnet CRs that change: safety, refinement, liveness |
| `MCPeering` | 645 k | the handshake: safety, refinement, liveness |
| `MCZoneAssociation` | 239 k | two accounts, a zone or VPC that does not resolve: safety, refinement, liveness |
| `MCDBInstance` | 1.14 M | a database that is busy as long as it likes, protected or with a snapshot taken, and fields that are never sent |
| `MCBucketSettings` | 190 k | two settings, one of them cleared by a put, two owners |
| `MCSecurityGroup` | 201 k | rules in four calls, a VPC that goes first |
| `MCNetwork` | 486 k | VPC and Subnet composed, with tags |
| `MCProviderResolver` | 414 k | providers edited, deleted and made again; two workers and the controller on one cache |
| `MCProviderLifecycle` | 207 k | scans against users who create, delete and move resources and edit roles, with kinds that are not scanned |

There is one run per module. What would otherwise be several configurations are
the scenarios of its MC module, and TLC explores all of them in one run: one with
every user action and a single fault, one with two or three faults and fewer
users, one for what only long sequences reach. Two faults are a fault and a second
one during the recovery; longer sequences start again from states already seen,
because `faults` is the only memory of a fault besides identifiers and generations.

Bounds: `MaxIds`, `MaxVpcs`, `MaxSubnets` are one or two more than the scenarios
can justify, so an erroneous further creation has room; `gens` 2 or 3 is one or two
edits (three generations are needed where the property is about the generation
observed while another is written); two specs that differ in what the property
tells apart (for `NatGateway` two Subnet CRs and one tag, for `Network` one tag: a tag is
there or not, and the specs list it or not; for `DBInstance` one field of each group);
two settings, because the order of two is what can go wrong; a role that is edited
once; two names of providers (a source and its user; a default and a named one), two workers
(two stores in either order) and a third process, the controller. `MaxStack` 3 is
more than the chain of two can fill. Engine runs use one property with two values
(a patch can already be an add, a replace or empty), symmetric in the safety run,
and two properties in `CC_live`, where one cannot be updated. Users edit and delete
in the first and abandon and delete in the second: all three at once more than
double the states of a run, and the proofs of the safety properties below cover
them. Bounded users and
faults let a system stop, so deadlock is not checked; that work does not stop too
early is what the liveness properties say.

## Fairness

`FairSpec` of each module assumes, and the code and its surroundings justify:

* weak fairness of `Work`: every return of `Reconcile` queues the CR again
  (`requeueResult` 5 minutes, `requeuePending` 30 seconds, an error with backoff),
  so a worker that can go on does. One fairness for a whole worker suffices: it
  takes one path, and its steps are never enabled two at a time except by outcome.
* weak fairness of the watch, and strong fairness of the watch while the worker
  is idle: it delivers in the end, and time and again before the next reconcile
  starts; a requeue interval is long against the watch's lag. Without the second
  a worker could for ever start from a cache that lags its own last write.
* weak fairness of `Handlers`: AWS ends what it accepted (creations, deletions,
  modifications) and forgets what it says it forgets. `SF_vars(AwsExpire)` in the
  engine: a finished request is forgotten in the end, since a repeated drift is not
  corrected before.
* strong fairness of `Apply(s)`: a dedicated S3 object is reconciled time and
  again, also while the bucket comes and goes.
* in the provider modules: every worker and the controller go on; verification,
  invalidation and scans of each provider come round again (strong, since one
  worker serves all names); each informer delivers.

Nothing is assumed of users, the peer's account, faults, crashes, or of which way
a request ends. Faults are bounded, so liveness is claimed for the time after the
last of them.

## Proofs

Every theorem is for all values of the constants (any keys, values, specs,
names, identifiers, generations, scenarios, any number of faults of any kind) and
assumes no more than their types (the ASSUME of each module) unless it says so.

### The engine

`CloudControlProofs`:

* `TypeCorrect`: `Spec => []TypeOK`. One lemma per operator that builds a status
  (`CopyType`, `PatchType`, `ApplyType`), one per way the worker goes on
  (`ContinueType`, `SaveType`, `CallType`), then one step per action.
* `FinalizerFirst`: `Spec => []AskedUnderFinalizer`. Alone it is not inductive: a
  worker that is past the finalizer check would break it. `FinalizerHeld` adds
  that a worker anywhere but at the start, and a cache that shows the finalizer,
  imply that it is stored.
* `GoneStaysQuiet`: `Spec => QuietAfterGone`. The cache may lag for ever, so the
  reason is not that the worker sees the CR gone, but that a CR with a finalizer
  is removed only by a worker whose cache already shows the deletion, and the
  cache never goes back (`DeletionSeen`). From then on every reconcile takes the
  delete path (`PathStep`).
* `ReleaseAfterDelete`: if AWS does not forget deletes (`"DELETE" \notin Expiring`)
  then `Spec => ReleasedWhenGone`. `ReleaseInv` is needed because the worker
  decides from a copy: on its way to the release a copy is stale (and then
  `Update` refuses) or identifies the stored resource (`CopyIsCurrent`); a delete
  token in it names a request for that resource (`TokensKept`); a delete that
  ended well stays well because identifiers are never given out twice
  (`DeletedIsGone`, `IdsKnown`); so at `release` the resource is gone
  (`ReleaseEarned`). Three lemmas (`Continued`, `Saved`, `Called`) say what each
  way of going on needs, and `WorkerInvStep` supplies it action by action. The
  assumption is needed: `deleteResource` takes a forgotten delete request for a
  finished one, so one that failed while the operator was down releases a live
  resource.

* `OneResource`: `Steady => (Spec => []OneResourceUntilEdited)`. `Steady` says that no
  resource is adopted or drifts and AWS does not forget a create. The creates of
  the first generation form a sequence, by attempt. `Ordered`: when there is one,
  all before it are known to AWS and dead, that is ended without a resource or
  with one that is gone. `View`, of the stored CR, the cache and the worker's copy
  alike, is why nobody starts a new one too early: what may still be alive under
  a copy whose own attempt is new is the resource that the copy identifies. The
  attempt grows only after a request that ended and left what the copy identifies
  (`Concluded`). With drift this fails, see [known
  limits](#known-limits-of-the-code); `CC_faults`, which checks it, has none.
* `AdoptedIsKept`: `Spec => []AdoptedNotRecreated`, from `AdoptionInv`: until the
  identifier is stored, a copy without it comes from the path that adopts.
* `InductiveInvariant`: `Spec => []IInv`, if AWS does not forget deletes.
* `EngineImplementsManaged`: `Spec => ImplementsManaged` under the same assumption,
  the refinement that `CC_faults` checks on one instance. Initial states map to
  initial states (`EngineInit`) and every step to a step or a stutter
  (`EngineStep`). Besides `IInv` the mapping needs `Unidentified`: a CR without the
  finalizer identifies nothing and is not under deletion, else `Hold` would not
  find `owned` unchanged. `GoneShrinks` says what AWS and a worker may still change
  for a CR that is gone: it maps to `Vanish`. `ReleaseStepIsRelease` takes the
  guard of `Release` from `ReleaseAfterDelete`'s invariant.

`EngineLeavesNothing`, and the like theorems `PeeringLeavesNothing`,
`AssociationLeavesNothing` and `GatewayLeavesNothing`, follow from the refinement and
from an invariant of the abstract specification: without a finalizer nothing is
in AWS, and a CR that is gone and was not abandoned left nothing that its status
identified.

### The native kinds

The native kinds share their proofs as they share their code. `ReconcilerProofs`
says once, for any kind's status fields and labels (`KindOK`), what each action of
`Reconciler` does (`StartEffect`, `PersistEffect`, `UserEffect` ...), that it keeps
the types and the protocol (`SharedKept`): `FinalizerHeld` and `DeletionSeen` are
as in the engine, `CopyIsCurrent` says that a copy is current or will be refused;
and which phase of `ManagedResource` it leads to (`SharedPhases`). A kind's module
adds its own invariant: one lemma carries it over `Reconciler`'s actions
(`SharedFacts`), and every step of its handler is shown to be of one of a few
shapes (`Asking`, `Deleting`, `Elsewhere` ...), for each of which one lemma carries
the invariant.

* `ZoneAssociationProofs`, `AssociationInvariant`: `Spec => []AssociationInv`, in
  one account or two. The release is decided from what is stored
  (`ReleaseEarned`), the status names the VPC before AWS is asked (`Recorded`), and
  as long as the spec stays no other VPC is ever associated (`OneVpc`). A report
  from a copy without the identifiers would undo `Recorded`; it takes an old cache
  and a reference that does not resolve, one of which `Steady` excludes.
  `AuthorizationGivenBack`: `Spec => []AuthorizationTransient`, from `Handshake`: when
  nothing fails, only a worker between the authorization and the clean-up leaves
  one, and it is that of its copy.
  `AssociationImplementsManaged`: `Spec => ImplementsManaged`, step by step from
  that invariant (`NextIsAbstract`).
* `PeeringProofs`, `PeeringInvariant`: `Spec => []PeeringInv`. Ready is written
  long after AWS was asked, from a local copy of its answer, so `GivenOut` follows
  an active connection from AWS to that answer, and `Agreement` says that an agreed
  connection stays active until the operator deletes, so that no worker replaces
  it under a status that is Ready. `Attentive` is what a careful scenario adds: the
  only live connection is the one of the worker's copy, and a status write that
  would lose it is one that no fault is left for.
  `PeeringReleasedClean`: `Spec => ReleasedClean`, from `Attentive` and
  `ReleaseEarned` at the one step that can remove the CR (`LastStep`).
  `PeeringImplementsManaged`: `Spec => ImplementsManaged`, without that condition:
  the mapping looks at the connection that the status names.
* `Ec2Proofs`, about `NatGateway`: `GatewayInvariant`: `Spec => []GatewayInv`. That the address
  and the gateway are accounted for after one bad call (`Accounted`) needs to know
  where the one bad call was: `Attentive` says that before it the copy says what is
  stored, that a status write which could lose something is one that no fault is
  left for, and that nothing is taken away before the deletion.
  `GatewayReleasedClean`: `Spec => ReleasedClean` from it. `GatewaySoleRemoved`:
  `Spec => []SoleGatewayRemoved`, with any number of faults: the identifier may be
  lost, but identifiers are given out once (`GivenOut`) and, while Subnet CRs keep
  their identifiers, the lookup of the deletion finds a gateway that is the only one
  and that the copy's subnet and tags describe (`SoleFound`); without edits they
  describe every gateway (`Described`, `Unedited`).
  `GatewayImplementsManaged`: `Spec => ImplementsManaged`.
* `StatusProofs`, about `DBInstance`: `InstanceInvariant`, `Spec => []InstanceInv`, and
  `ReadyMeansGiven`, `Spec => []ObservedMeansApplied`. An instance is modified
  without comparing, so what was applied is known only from generations: a copy is
  never newer than the cache and the cache never newer than the API server
  (`Generations`), no status observes a generation its worker has not seen
  (`Seen`), and of a copy that observes its own generation everything that is sent
  at all is in the instance (`Given`, `Carries`). Nothing is claimed of fields that
  `updateDBInstance` never sends.
* `StatusProofs`, about `SecurityGroup` (the instance `G` of
  `SecurityGroupNamed`; the lemmas of `ReconcilerProofs` are carried to it by `SameSteps` and
  its like): `GroupInvariant`, `GroupSpec => []GroupInv`. Unless others delete groups
  there is one group ever, and every identifier means it (`SoleGroup`); it goes
  before the release, by identifier or by the lookup, also when the VPC goes first,
  since a VPC that has the group stays. `RulesAreApplied`, `GroupSpec =>
  []ReadyMeansApplied`: a copy that observes its own generation speaks the truth
  about the rules (`Truthful`), and they change only while nobody claims that
  (`RulesFollow`).
* `Ec2Proofs`, about `Network` (the instance `N` of `NetworkNamed`): `NetworkInvariant`,
  `NetworkSpec => []NetworkInv`. That the subnet of the one status lies in the VPC
  of the other (`SubnetInVpc`) is not inductive: a worker may be about to write
  another identifier, and the VPC may be created again. `OneVpc` says why neither
  does harm unless a reconcile starts from an old cache: every subnet lies in the
  VPC that the stored CR names, every copy that names a VPC that exists names this
  one, and the stored CR comes to name another only when this one is gone, which
  EC2 refuses while it has subnets. `SoleSubnet` is what follows when nobody else
  deletes: the VPC stays until its CR is deleted (`VpcStays`), so a subnet whose
  identifier was lost is found again in it and no second one is made
  (`SubnetFound`). Two workers act on one EC2, so every part is shown of each
  worker's steps while the other waits; a step of the one changes for the other
  only what it shares: `Resolved`, `Occupied`, and the identifiers that exist. The
  subnet's worker has the lemmas of `ReconcilerProofs`; for the VPC's, whose
  variables have other names, they are stated again.
  `NetworkLeavesNoSubnet`: `NetworkSpec => []NoOrphanSubnet`, from `SubnetFound`: the
  lookup finds the one subnet there is if it has the tags of the copy's spec, and
  without edits it has (`Labelled`).
* `BucketSettingsProofs`, `BucketInvariant`: `Spec => []BucketInv`. `Tracked` needs
  the order of the code: the setting is put, then listed in the copy, then stored
  (`Attentive`). `SettingsOfOthersLeftAlone`: `Spec => OthersLeftAlone`, from
  `Remembered`: what any copy wants or lists was once in a spec.

### The provider modules

`ProviderProofs` EXTENDS `ProviderResolver` and `ProviderLifecycleNamed`, whose
instance `L` is `ProviderLifecycle`:

* `ResolverInvariant`: `Spec => []IInv`, for any number of workers and any depth of
  chains. A generation of a name is said to have a role in four places: the
  cluster, the informer, the stacks of the workers and the cache (`Said`). They
  agree (`Consistent`) since every step only repeats what one of them said before
  (`SaidStep`), but for an edit, whose generation is new. So the entry that a worker
  takes for its generation has the role that the worker read (`RightStep`).
* `LifecycleInvariant`: `LifecycleSpec => []LifecycleInv`. A resource with a providerRef that,
  like its provider's role, is never edited is only ever created in the account it
  names, by a reconcile that leaves the finalizer (`OneAccount`). In an orderly
  cluster no reference of a scanned kind dangles, because a provider goes only by
  the controller's hand, after its deletion was asked for, when no new user can come
  (`Lagging`, `Known`).
* `ReleasedOnlyUnused`: `LifecycleSpec => ReleasedUnused`, from `Scanned`: a
  user is in a kind still to be listed, or was listed, or is late, or is of a kind
  that is never scanned.

### Only model-checked

Every safety property of a passing run is proved. The liveness properties (`Converges`,
`GroupConverges`, `NetworkConverges`, `BothGo`, `Settled`, `ScopesCurrent`,
`VerifiedInTheEnd`, `ResourcesGo`, `ProvidersGo`) need fairness and ENABLED, which are
beyond the prover; TLC checks them on the instances of the runs.

## A disagreement with the documentation

`CC_orphan`: "By default, deleting a CR deletes the underlying AWS resource"
(`README.md:595`). A CR deleted while its create runs has no identifier yet;
`deleteResource` reports done and the resource stays.

## Known limits of the code

The conditions of the properties are drawn where the code's promises end. Outside
them the models show, among other things:

* *Engine.* Two resources of one generation need several faults, none of them an
  edit: a create that fails and leaves its resource, a drift, an update that fails
  and so raises the attempt past one that no create used, a deletion outside, and
  two reconciles from old copies that create with those two attempts. A status
  write may come from a read before the worker's own previous
  write; last-write-wins then takes the attempt counter back, and one generation may
  create twice. An edit between a create whose answer was lost
  and its retry gives a new token and a second resource. A forgotten delete counts
  as done. A drift that repeats an earlier one gets the earlier request's success
  as its answer until AWS forgets it.
* *NAT gateway.* A gateway that failed or was deleted outside is replaced and its
  Elastic IP's allocation ID dropped from the status; the address stays allocated.
  A crash between the create and the status write makes the retry create another
  gateway, and deletion finds none of two. An edit of subnet or kind is recorded as
  observed by an existing gateway, of which only the tags are changed. A deletion
  that has to look the gateway up finds none when subnet or tags of the spec were
  edited since, and does not look at all when the subnet reference does not resolve
  (`natgateway_controller.go:238-242`, "nothing to find"); the finalizer goes either
  way.
* *Peering.* After an outside deletion the request is repeated under a status that
  still says Ready. A connection whose identifier was lost is never looked up: a
  crash, a lost answer, or two failed status writes after the create leave it
  behind when the CR goes.
* *Zone association.* An edit of the VPC overwrites the only record of the old
  association. A zone or VPC that is missing is reported by a status write from the
  copy as it was read; when the cache was behind, the write takes out the stored
  identifiers (`hostedzonevpcassociation_controller.go:107`, `helpers.go:82-95`), and a
  deletion right then leaves the association. A crash or failure between authorization and clean-up leaves the
  authorization until the next full pass for that VPC, which an existing
  association skips.
* *Database.* If the answer to the create, or the status write after it, is lost,
  every retry is answered AlreadyExists and the CR never becomes Ready.
  `updateDBInstance` (281-339) never sends engine version, storage type, public
  access, port, storage encryption and its key, tags, password, parameter group;
  log exports are only added, and an option that is unset stays as it was. The edit's
  generation is recorded as observed and Ready all the same. A protected instance
  keeps its CR terminating (`README.md:603`), also when the protection is switched
  off in the spec just before the deletion or after it, because a CR under deletion
  is not updated any more. The final snapshot is always `<identifier>-final`; a
  second database of that name cannot be deleted with one (`EarlierSnapshots`).
* *Bucket settings.* A crash between the put of a setting and the status write
  makes the bucket forget that it set it, and it is not cleared later.
* *Security group.* Drift of rules is not repaired within a generation, though
  `README.md:614-615` lists SecurityGroup under "full drift correction"; the
  properties exclude it. A create
  whose answer was lost is refused as a duplicate for ever. A status that names a
  replaced group, or a lookup after the VPC is gone, may miss the group or find
  another VPC's.
* *Network.* A deletion that has to look a VPC or subnet up finds none whose tags
  lack one that the spec was edited to list (`subnet_controller.go:225-227`); the
  subnet that is left keeps EC2 from deleting its VPC, whose CR stays terminating
  (`LeftBehind`). A reconcile that starts from a cache before its own status write
  creates a second VPC; a subnet whose create answer was lost is then created again
  in that one, and the first is forgotten (`NoOrphanSubnet` is stated without old
  caches). An IPv6 block may be asked for twice, or not at all after
  the VPC was created again. A VPC deleted outside during a reconcile is
  dereferenced as nil and takes the process down (`NilVpc`, `Panic`).
* *Resolver.* A cache entry of a chained provider does not notice a change of its
  source. `ForName` starts at depth 0 again, so the depth guard never sees a cycle.
  A default provider's `allowedNamespaces` are not looked at. A namespace that
  cannot be read counts as one without annotation. A provider that was removed and
  made again starts its generations over and may meet the old one's entry.
* *Provider lifecycle.* "An `AWSProvider` cannot be deleted while any resource or
  namespace annotation references it" (`docs/multi-account.md:247`) is not so for the
  kinds whose name ends in "List", which `awsprovider_controller.go:150` takes for
  the lists of kinds: ManagedPrefixList, CloudFrontAnycastIpList, MacieAllowList,
  Route53ResolverFirewallDomainList, SESContactList and SESMailManagerAddressList.
  Nor are `accepterProviderRef` and `vpcProviderRef` looked at, though a deletion may
  need them (`hostedzonevpcassociation_controller.go:219`). Scenario `Overlooked` has
  both; such a resource, under deletion, waits until the provider is made again.
  A resource created after its kind was listed does not hold
  a provider back, nor does one whose list failed, nor a provider that names it as
  source, nor a resource that chose it by default. A provider deleted before the
  controller has put its finalizer on goes at once, its users dangling; without the
  webhook a resource may name a provider that is not there. An edited providerRef, an
  edited roleArn or a moved annotation sends resources to another account and leaves
  what they had.

## Not modelled

Inside the modelled parts: the rendering of a spec to JSON and of AWS properties to
status (a spec is a function from keys to values), conditions other than Ready,
messages, the truncation of client tokens to 64 characters (one CR is modelled, so
tokens of two CRs never meet), regions and session names. Read errors of the CR are
a reconcile that did not start. The two `ModifyVpcAttribute` calls are one call that
may fail; `ModifySubnetAttribute` and the tag calls after it are one step with the
partial outcomes of the tags. Tags that others change in AWS, an edit of a subnet's
`vpcRef`, Route 53's refusal to remove the last VPC of a zone, and S3's refusal to
delete a bucket with objects in it (a call that fails, as often as `most` allows) are
left out.

Outside: of the repository's implementation lines, 177,917 are generated deep
copies and most of the rest are generated API types and forwarding SDK wrappers,
which have no behaviour of their own to check. Of about 240 handwritten
reconcilers eight are modelled, those with a protocol of their own; most of the
others are `Reconciler` with one describe, one create, one update and one delete.
Some with more to them are left out and could follow the same pattern: the managed
prefix list (versions), the transit gateway attachment (accepted like a peering),
the RAM invitation (accepted once, nothing to delete), the endpoint service (no
second side of its own). The exporter, the generators, the charts and the entry
point keep no state at run time.

## Running the checks

    tlc -workers 2 -config CC_faults.cfg MCCloudControl
    tlc -workers 2 -config MCPeering.cfg MCPeering
    tlapm CloudControlProofs.tla

Every `CC_*.cfg` runs with `MCCloudControl`; every other `.cfg` is named after its
module. `CC_orphan` ends with the counterexample described above. The engine's
longest runs, `MCNetwork` and `MCProviderLifecycle` take two to three minutes, the
others up to a minute and a half; the proofs take about twenty minutes.
