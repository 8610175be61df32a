--------------------------- MODULE FailureWatch ---------------------------
(***************************************************************************)
(* Failures of the test groups on main: the watcher of the full collection *)
(* (amd_main_failure_watcher.py, run by ci_main_failure_watcher.py) and the *)
(* main pulse between two collections (main_pulse.py) advance the same      *)
(* incidents by the same transitions (ci/incident_transitions.py).  The     *)
(* collection keeps its state with the published dashboard; the pulse keeps *)
(* what is newer than that on a branch of its own, and the collection takes *)
(* it from there (ci/main_pulse_overlay.py).                                *)
(*                                                                         *)
(* Builds are numbered in the order of their creation, which is the order   *)
(* of the source; they finish in any order.  A group is a test step on a    *)
(* queue and keeps its name whatever its jobs are called                    *)
(* (reliability_history.py: group_id_for), so a step never runs under       *)
(* another group and _retire_renamed finds no incident to retire.           *)
(***************************************************************************)
EXTENDS Naturals, Sequences, FiniteSets, FiniteSetsExt, SequencesExt

CONSTANTS
    N,            \* bound: how many builds there are
    Groups,       \* the test groups
    Outcomes,     \* what each build may show: functions of groups to results
    Gaps          \* whether the pulse may miss builds (outages, full pages)

ASSUME WatchAssumption ==
    /\ N \in Nat \ {0}
    /\ \A n \in 1..N : \A o \in Outcomes[n] :
          DOMAIN o \subseteq Groups /\ o \in [DOMAIN o -> {"pass", "soft", "hard"}]
    /\ Gaps \in BOOLEAN

VARIABLES
    finished,     \* the builds that have finished, in that order
    runs,         \* what each of them showed
    authority,    \* the watcher state that is published
    overlay,      \* the branch of the pulse
    pulse,        \* the published state a running pulse has read
    collect       \* the running collection

vars == <<finished, runs, authority, overlay, pulse, collect>>

Builds == 1..N

NoFence == [build |-> 0, result |-> "none"]
Clear == [status |-> "clear", start |-> 0, last |-> 0]
AllClear == [g \in Groups |-> Clear]
NoFences == [g \in Groups |-> NoFence]

\* The state of a watcher: its incidents, the newest result each group was
\* advanced by, the builds it has processed and the newest of them.
Initial == [inc |-> AllClear, fence |-> NoFences, done |-> {}, through |-> 0]
NoOverlay == [inc |-> AllClear, fence |-> NoFences, done |-> {}, cursor |-> 0]

----------------------------------------------------------------------------
\* advance_incident: a hard failure confirms, a soft one after two builds, and
\* only a pass resolves.

Confirmed(e, n) ==
    [e EXCEPT !.status = "confirmed", !.last = n, !.start = IF @ = 0 THEN n ELSE @]

\* Mutant: the first soft failure confirms.
AdvanceOnce(e, result, n) == IF result = "pass" THEN Clear ELSE Confirmed(e, n)

\* Mutant: a soft failure puts a confirmed incident back to pending.
AdvanceForgets(e, result, n) ==
    IF result = "pass" THEN Clear
    ELSE IF result = "hard" THEN Confirmed(e, n)
    ELSE IF e.status = "pending" THEN IF e.last = n THEN e ELSE Confirmed(e, n)
    ELSE [e EXCEPT !.status = "pending", !.start = n, !.last = n]

Advance(e, result, n) ==
    IF result = "pass" THEN Clear
    ELSE IF result = "hard" THEN Confirmed(e, n)
    ELSE CASE e.status = "confirmed" -> [e EXCEPT !.last = n]
           [] e.status = "pending" -> IF e.last = n THEN e ELSE Confirmed(e, n)
           [] OTHER -> [e EXCEPT !.status = "pending", !.start = n, !.last = n]

Held(s, g) == s.inc[g].status # "clear"

----------------------------------------------------------------------------
\* advance_incidents.

Fenced(s, g, n) == s.fence[g].build >= n

\* Mutant: a result advances a group whatever the last one was.
ObserveAll(s, n) ==
    [s EXCEPT
      !.inc = [g \in Groups |->
                  IF g \in DOMAIN runs[n] THEN Advance(@[g], runs[n][g], n) ELSE @[g]],
      !.fence = [g \in Groups |->
                  IF g \in DOMAIN runs[n] THEN [build |-> n, result |-> runs[n][g]] ELSE @[g]]]

\* A result advances a group only when it is newer than the one before.
Observe(s, n) ==
    LET new == {g \in DOMAIN runs[n] : ~Fenced(s, g, n)}
    IN  [s EXCEPT
          !.inc = [g \in Groups |->
                      IF g \in new THEN Advance(@[g], runs[n][g], n) ELSE @[g]],
          !.fence = [g \in Groups |->
                      IF g \in new THEN [build |-> n, result |-> runs[n][g]] ELSE @[g]]]

\* The builds that are new, in the order of the source; one that is older than
\* the newest processed build is history and changes no incident.
Replay(s, builds) ==
    LET todo == {n \in builds \ s.done : n > s.through}
        after[n \in 0..N] == IF n = 0 THEN s
                             ELSE IF n \in todo THEN Observe(after[n - 1], n)
                             ELSE after[n - 1]
    IN  after[N]

\* A fence older than the builds of the cohort guards nothing that can still be
\* observed, and stays only with an incident.
Pruned(s, cohort) ==
    [s EXCEPT !.fence = [g \in Groups |->
        IF Held(s, g) \/ @[g].build >= Min(cohort) THEN @[g] ELSE NoFence]]

\* Mutant: the newest processed build is moved before the builds are looked at.
WatchedLate(s, cohort) ==
    LET seen == [s EXCEPT !.through = Max(cohort \cup {@})]
    IN  [Pruned(Replay(seen, cohort), cohort) EXCEPT !.done = cohort]

Watched(s, cohort) ==
    [Pruned(Replay(s, cohort), cohort) EXCEPT
        !.done = cohort,
        !.through = Max(cohort \cup {@})]

----------------------------------------------------------------------------
\* merge_overlay and overlay_groups: a group is taken from the overlay while its
\* fence is newer.

Newer(f, g) == f.build > g.build

\* Mutant: an incident that the overlay has resolved is left as it was.
MergeHeld(s, o) ==
    LET newer == {g \in Groups : Newer(o.fence[g], s.fence[g])}
    IN  [s EXCEPT
          !.inc = [g \in Groups |-> IF g \in newer /\ Held(o, g) THEN o.inc[g] ELSE @[g]],
          !.fence = [g \in Groups |-> IF g \in newer THEN o.fence[g] ELSE @[g]]]

Merge(s, o) ==
    LET newer == {g \in Groups : Newer(o.fence[g], s.fence[g])}
    IN  [s EXCEPT
          !.inc = [g \in Groups |-> IF g \in newer THEN o.inc[g] ELSE @[g]],
          !.fence = [g \in Groups |-> IF g \in newer THEN o.fence[g] ELSE @[g]]]

Overlay(base, s, done, cursor) ==
    LET newer == {g \in Groups : Newer(s.fence[g], base.fence[g])}
    IN  [inc |-> [g \in Groups |-> IF g \in newer THEN s.inc[g] ELSE Clear],
         fence |-> [g \in Groups |-> IF g \in newer THEN s.fence[g] ELSE NoFence],
         done |-> done \ base.done,
         cursor |-> cursor]

\* What a reader of the published state and of the branch sees.
View == Merge(authority, overlay)

----------------------------------------------------------------------------
Init ==
    /\ finished = <<>>
    /\ runs = [n \in {} |-> {}]
    /\ authority = Initial /\ overlay = NoOverlay
    /\ pulse = [reads |-> FALSE, state |-> Initial]
    /\ collect = [stage |-> "idle", cohort |-> {}, state |-> Initial]

Finish ==
    /\ \E n \in Builds \ ToSet(finished) : \E o \in Outcomes[n] :
         /\ finished' = Append(finished, n)
         /\ runs' = [m \in DOMAIN runs \cup {n} |-> IF m = n THEN o ELSE runs[m]]
    /\ UNCHANGED <<authority, overlay, pulse, collect>>

\* The pulse reads the published state first ...
PulseRead ==
    /\ ~pulse.reads
    /\ pulse' = [reads |-> TRUE, state |-> authority]
    /\ UNCHANGED <<finished, runs, authority, overlay, collect>>

\* ... and then its branch and the builds finished since its cursor.  The look
\* back is bounded, so the window may begin after the cursor; a full page holds
\* the newest builds only and keeps the cursor.
Fetch(since, from, cursor) ==
    /\ since \in overlay.cursor..Len(finished) /\ (~Gaps => since = overlay.cursor)
    /\ \/ from = since /\ cursor = Len(finished)
       \/ Gaps /\ from \in since + 1..Len(finished) /\ cursor = since

PulsePublish ==
    /\ pulse.reads
    /\ \E since, from, cursor \in 0..N :
         /\ Fetch(since, from, cursor)
         /\ LET slice == ToSet(SubSeq(finished, from + 1, Len(finished)))
                merged == Merge(pulse.state, overlay)
                base == [merged EXCEPT !.done = @ \cup overlay.done]
            IN  overlay' = Overlay(pulse.state, Replay(base, slice), overlay.done \cup slice, cursor)
    /\ pulse' = [reads |-> FALSE, state |-> Initial]
    /\ UNCHANGED <<finished, runs, authority, collect>>

\* A pulse that fails, or loses its lease, leaves no trace.
PulseFail ==
    /\ pulse.reads
    /\ pulse' = [reads |-> FALSE, state |-> Initial]
    /\ UNCHANGED <<finished, runs, authority, overlay, collect>>

\* A collection lists the builds,
CollectList ==
    /\ collect.stage = "idle" /\ finished # <<>>
    /\ collect' = [collect EXCEPT !.stage = "listed", !.cohort = ToSet(finished)]
    /\ UNCHANGED <<finished, runs, authority, overlay, pulse>>

\* runs its watcher on them and on the overlay, if that can be read,
CollectWatch ==
    /\ collect.stage = "listed"
    /\ \E export \in {overlay, NoOverlay} :
         collect' = [collect EXCEPT !.stage = "watched",
                                    !.state = Watched(Merge(authority, export), collect.cohort)]
    /\ UNCHANGED <<finished, runs, authority, overlay, pulse>>

\* and publishes the state, or fails before that.
CollectEnd ==
    /\ collect' = [stage |-> "idle", cohort |-> {}, state |-> Initial]
    /\ UNCHANGED <<finished, runs, overlay, pulse>>

CollectPublish ==
    /\ collect.stage = "watched"
    /\ authority' = collect.state
    /\ CollectEnd

CollectFail ==
    /\ collect.stage # "idle"
    /\ UNCHANGED authority
    /\ CollectEnd

Next ==
    \/ Finish
    \/ PulseRead \/ PulsePublish \/ PulseFail
    \/ CollectList \/ CollectWatch \/ CollectPublish \/ CollectFail

\* Builds finish, and collections are dispatched again until one is published.  The
\* last conjunct is strong fairness of CollectWatch: it is enabled exactly when a
\* collection has listed its builds, and is the only step to the next stage.
Fairness ==
    /\ WF_vars(Finish)
    /\ WF_vars(CollectList) /\ SF_vars(CollectPublish)
    /\ []<>(collect.stage = "listed") => []<>(collect.stage = "watched")

Spec == Init /\ [][Next]_vars /\ Fairness

----------------------------------------------------------------------------
TypeOK ==
    /\ ToSet(finished) = DOMAIN runs /\ DOMAIN runs \subseteq Builds
    /\ \A g \in Groups, s \in {authority, overlay, pulse.state, collect.state} :
         /\ s.inc[g].status \in {"clear", "pending", "confirmed"}
         /\ s.fence[g].build \in 0..N
         /\ s.done \subseteq Builds
    /\ collect.stage \in {"idle", "listed", "watched"}

\* The incident of a group and the newest result it was advanced by say the same,
\* in the published state and in what the overlay adds to it: a pass leaves none, a
\* hard failure a confirmed one, a soft failure one at least.
Truthful(s) ==
    \A g \in Groups :
        CASE s.fence[g].result = "pass" -> ~Held(s, g)
          [] s.fence[g].result = "hard" -> s.inc[g].status = "confirmed"
          [] s.fence[g].result = "soft" -> Held(s, g)
          [] OTHER -> ~Held(s, g)

FenceTruth == Truthful(authority) /\ Truthful(View)

\* A confirmed incident has a hard failure of its group between its first and its
\* last build, or soft failures of two builds.
Sound(s) ==
    \A g \in Groups :
        s.inc[g].status = "confirmed" =>
        LET with(r) == {n \in DOMAIN runs : /\ n >= s.inc[g].start /\ n <= s.inc[g].last
                                            /\ g \in DOMAIN runs[n] /\ runs[n][g] = r}
        IN  with("hard") # {} \/ Cardinality(with("soft")) >= 2

SoftTwice == Sound(authority) /\ Sound(View)

\* What is shown never goes back to an older result, whoever publishes.
NoRegress ==
    [][\A g \in Groups : View'.fence[g].build >= View.fence[g].build]_vars

\* The watcher of a collection ends an incident that is confirmed in the published
\* state and with the overlay only for a pass of the group in a newer build.
IncidentKept ==
    [][\A g \in Groups :
         (/\ collect.stage = "listed" /\ collect'.stage = "watched"
          /\ authority.inc[g].status = "confirmed" /\ View.inc[g].status = "confirmed"
          /\ collect'.state.inc[g].status # "confirmed") =>
         \E n \in DOMAIN runs :
            n > authority.fence[g].build /\ g \in DOMAIN runs[n] /\ runs[n][g] = "pass"]_vars

\* The results of the newest build are published in the end, and stay.
NewestShown ==
    <>[](/\ N \in DOMAIN runs
         /\ \A g \in DOMAIN runs[N] :
               authority.fence[g] = [build |-> N, result |-> runs[N][g]])

\* main_pulse_overlay.py: "a later collection that saw the same builds always
\* wins": when the cohort holds every build the overlay has results of, the watcher
\* finds what it would find without the overlay.
CollectionWins ==
    [][(collect.stage = "listed" /\ collect'.stage = "watched"
        /\ {overlay.fence[g].build : g \in Groups} \ {0} \subseteq collect.cohort)
       => \A g \in Groups :
            collect'.state.inc[g].status = Watched(authority, collect.cohort).inc[g].status]_vars
=============================================================================
