------------------------- MODULE MCProviderResolver -------------------------
(* Instances of ProviderResolver for TLC.                                   *)
EXTENDS ProviderResolver, TLC

CONSTANTS w1, w2, ctl

S(role, src, default, allowed) ==
    [role |-> role, src |-> src, default |-> default, allowed |-> allowed]

MCNames      == {1, 2}
MCNamespaces == {"a", "b"}
MCRoles      == {"r1", "r2", "r3"}
MCWorkers    == {w1, w2}

Plain(r) == S(r, None, FALSE, {})
ByName   == {[ref |-> 1, ns |-> "a"]}

\* Two workers resolve one provider while its role changes.
Racing == [choices |-> <<{Plain("r1"), Plain("r2")}, {}>>,
           workers |-> MCWorkers, objects |-> ByName,
           users |-> {"edit", "remove"}, gens |-> 2, errors |-> 0]
\* The second provider is assumed with the credentials of the first.
Chained == [choices |-> <<{Plain("r1"), Plain("r2")},
                          {S("r3", 1, FALSE, {}), S("r3", None, FALSE, {})}>>,
            workers |-> {w1}, objects |-> {[ref |-> 2, ns |-> "a"]},
            users |-> {"edit"}, gens |-> 2, errors |-> 0]
\* Its source goes.
Broken == [Chained EXCEPT !.choices = <<{Plain("r1")}, {S("r3", 1, FALSE, {})}>>,
                          !.users = {"remove"}]
\* A provider for namespace "a" and one that may become the default.
Defaulted == [choices |-> <<{Plain("r1"), S("r2", None, TRUE, {"a"})},
                            {S(NoRole, None, TRUE, {})}>>,
              workers |-> {w1},
              objects |-> {[ref |-> 1, ns |-> "a"], [ref |-> None, ns |-> "b"]},
              users |-> {"edit"}, gens |-> 2, errors |-> 1]
\* One provider, removed and made again.
Renewed == [choices |-> <<{Plain("r1"), S("r2", None, TRUE, {"a"})}, {}>>,
            workers |-> {w1},
            objects |-> {[ref |-> 1, ns |-> "a"], [ref |-> None, ns |-> "b"]},
            users |-> {"edit", "remove", "recreate"}, gens |-> 2, errors |-> 0]
\* One provider, chosen by the annotations of namespaces or as the default.
Annotated == [Renewed EXCEPT
                !.objects = {[ref |-> None, ns |-> "a"], [ref |-> None, ns |-> "b"]},
                !.users = {"edit", "remove", "annotate"}]

MCScenarios == {Racing, Chained, Broken, Defaulted, Renewed, Annotated}
=============================================================================
