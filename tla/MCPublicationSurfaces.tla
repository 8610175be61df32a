----------------------- MODULE MCPublicationSurfaces -----------------------
EXTENDS PublicationSurfaces

Finding(code, level, early, cand, rest, surfaces) ==
    [code |-> code, level |-> level, early |-> early,
     cand |-> cand, rest |-> rest, surfaces |-> surfaces]

\* One of each kind: a broken collected file, a bad collected value, published data that
\* fails by itself, restored data that disagrees with collected data (twice), a degradation,
\* an error over the budget, an error that names no surface, a build that fails on
\* collected and on restored data.
MCFindings ==
    { Finding(1, "error", "preflight", {"dns"}, {}, {"dns"}),
      Finding(2, "error", "retry", {"core"}, {}, {"core"}),
      Finding(3, "error", "no", {}, {"dns"}, {"dns"}),
      Finding(4, "error", "no", {"core"}, {"dns"}, {"dns", "core"}),
      Finding(5, "degradation", "no", {"analytics"}, {}, {"analytics"}),
      Finding(6, "budget", "no", {}, {"core"}, {"core"}),
      Finding(7, "error", "no", {"core"}, {}, {}),
      Finding(8, "build", "no", {"dns"}, {}, {"dns"}),
      Finding(9, "build", "no", {}, {"core"}, {"core"}),
      Finding(10, "error", "no", {}, {"core"}, {"core"}),
      Finding(11, "error", "retry", {"analytics"}, {"core"}, {"core", "analytics"}) }

=============================================================================
