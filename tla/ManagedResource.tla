--------------------------- MODULE ManagedResource ---------------------------
(***************************************************************************)
(* What every managed custom resource promises, whatever its kind: nothing *)
(* is asked of AWS before the finalizer is stored, and the finalizer is    *)
(* not given up while the resource that the status identifies exists,      *)
(* unless the user asked to keep it.  CloudControl, NatGateway, Peering    *)
(* and ZoneAssociation implement this specification.                       *)
(***************************************************************************)
CONSTANT Calls   \* everything a kind may ask of AWS, deletions aside

VARIABLES
    phase,   \* "new", "held" (finalizer stored), "removing" or "gone"
    keep,    \* deletion policy: leave the resource in AWS
    calls,   \* the calls AWS remembers
    owned    \* the resource that the stored status identifies exists

vars == <<phase, keep, calls, owned>>

TypeOK ==
    /\ phase \in {"new", "held", "removing", "gone"}
    /\ keep \in BOOLEAN /\ owned \in BOOLEAN
    /\ calls \subseteq Calls

Init == phase = "new" /\ keep = FALSE /\ calls = {} /\ owned = FALSE

Hold ==
    /\ phase = "new" /\ phase' = "held"
    /\ UNCHANGED <<keep, calls, owned>>

Abandon ==
    /\ phase # "gone" /\ keep' = TRUE
    /\ UNCHANGED <<phase, calls, owned>>

\* A user deletes the CR.  Without a finalizer it is gone at once.
Delete ==
    /\ \/ phase = "new" /\ phase' = "gone"
       \/ phase = "held" /\ phase' = "removing"
    /\ UNCHANGED <<keep, calls, owned>>

\* A worker asks AWS for something, or records what it owns, or AWS works.
Manage ==
    /\ phase \in {"held", "removing"}
    /\ calls' \subseteq Calls /\ owned' \in BOOLEAN
    /\ UNCHANGED <<phase, keep>>

\* AWS forgets, and others delete, at any time.
Vanish ==
    /\ calls' \subseteq calls /\ (owned' => owned)
    /\ owned' \in BOOLEAN
    /\ UNCHANGED <<phase, keep>>

Release ==
    /\ phase = "removing" /\ (keep \/ ~owned)
    /\ phase' = "gone"
    /\ UNCHANGED <<keep, calls, owned>>

Next == Hold \/ Abandon \/ Delete \/ Manage \/ Vanish \/ Release

Spec == Init /\ [][Next]_vars

-----------------------------------------------------------------------------
\* A CR without a finalizer has nothing in AWS, and one that is gone and was
\* not abandoned leaves nothing behind that its status identified.
NothingLeftBehind ==
    /\ phase = "new" => calls = {} /\ ~owned
    /\ phase = "gone" => keep \/ ~owned

=============================================================================
