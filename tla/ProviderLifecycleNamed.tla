----------------------- MODULE ProviderLifecycleNamed -----------------------
(***************************************************************************)
(* ProviderLifecycle under names of its own, for a module that EXTENDS     *)
(* ProviderResolver besides.                                               *)
(***************************************************************************)
EXTENDS Naturals

CONSTANTS ProviderNames, Resources, Lives
VARIABLES lprov, lseen, lann, aseen, res, ref, cref, inAws, ctl, late, moved, lfaults,
          life

L == INSTANCE ProviderLifecycle WITH
        Names <- ProviderNames, Scenarios <- Lives, prov <- lprov, seen <- lseen,
        ann <- lann, faults <- lfaults, scenario <- life

ASSUME LifecycleAssumption == L!Parameters

LifecycleSpec     == L!Spec
LifecycleFairSpec == L!FairSpec

\* Nothing is left in any account by a resource that is gone, and in an orderly
\* cluster no reference dangles, with what makes this inductive.
LifecycleInv == L!LifecycleInv

\* The controller gives up a provider's finalizer only when every user left came
\* behind the back of its scan or could not be listed.
ReleasedUnused == L!ReleasedUnused

\* In an orderly cluster a resource under deletion is gone in the end.
ResourcesGo == L!ResourcesGo

\* A provider under deletion goes, unless resources or the namespace use it.
ProvidersGo == L!ProvidersGo

=============================================================================
