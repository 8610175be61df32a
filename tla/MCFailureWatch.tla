------------------------ MODULE MCFailureWatch ------------------------
\* Two groups, of which a build runs one, both, or none.
EXTENDS FailureWatch, TLC

MCGroups == {"a", "b"}
One(g, r) == g :> r
Both(r, q) == ("a" :> r) @@ ("b" :> q)
NotRun == [g \in {} |-> "pass"]
MCOutcomes ==
    << {One("a", "soft"), One("a", "hard")},
       {One("a", "soft"), One("b", "soft"), One("a", "pass")},
       {NotRun, One("a", "soft"), Both("pass", "hard")} >>
=============================================================================
