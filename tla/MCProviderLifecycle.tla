------------------------ MODULE MCProviderLifecycle ------------------------
(* Instances of ProviderLifecycle for TLC.                                  *)
EXTENDS ProviderLifecycleNamed, TLC

CONSTANTS r1, r2

None        == 0
MCNames     == {1, 2}
MCResources == {r1, r2}
MCFaults    == {"crash", "listError"}

\* Two providers with a resource each, and users who wait for each other.
Careful == [present |-> MCNames, source |-> <<None, None>>, default |-> {},
            established |-> MCNames, created |-> MCResources,
            ref |-> r1 :> 1 @@ r2 :> 2, second |-> r1 :> None @@ r2 :> None,
            hidden |-> {}, webhook |-> TRUE,
            users |-> {"delete", "deleteProvider"},
            faults |-> {"crash"}, most |-> 1]
\* A resource that moves between two providers, each of which may go.
Moving == [Careful EXCEPT !.created = {r1}, !.most = 0,
                          !.users = {"delete", "deleteProvider", "move"}]
\* Two resources of one provider, and everything else users and faults do.
Anything == [Careful EXCEPT !.present = {1}, !.established = {},
                            !.ref = r1 :> 1 @@ r2 :> 1, !.webhook = FALSE,
                            !.users = {"late", "delete", "deleteProvider", "annotate"},
                            !.faults = MCFaults, !.most = 2]
\* The default provider, which the resource does not name.
Unnamed == [Anything EXCEPT !.default = {1}, !.established = {1}, !.created = {r1},
                            !.ref = r1 :> None @@ r2 :> 1, !.most = 1]
\* The second provider needs the first.
Chained == [Careful EXCEPT !.source = <<None, 1>>, !.ref = r1 :> 2 @@ r2 :> 2]
\* One resource is of a kind that is never scanned, the other has two sides.
Overlooked == [Careful EXCEPT !.hidden = {r1}, !.ref = r1 :> 1 @@ r2 :> 1,
                              !.second = r1 :> None @@ r2 :> 2, !.most = 0]
\* Providers whose roles are edited.
Edited == [Careful EXCEPT !.created = {r1}, !.ref = r1 :> 1 @@ r2 :> 1, !.most = 0,
                          !.users = {"delete", "deleteProvider", "editRole"}]
\* One resource that is moved in time and late, to providers that do not exist.
Restless == [Anything EXCEPT !.created = {r1}, !.faults = {"listError"}, !.most = 1,
                             !.users = {"late", "move", "delete", "deleteProvider"}]

MCScenarios ==
    {Careful, Moving, Anything, Unnamed, Chained, Overlooked, Edited, Restless}
=============================================================================
