# Verification of the vLLM CI dashboard's durable-state protocols

The repository collects CI data of vLLM on AMD GPUs (Buildkite, GitHub),
validates it, keeps it on git refs, and publishes a site on GitHub Pages. Most
of its code extracts and checks data. Its hard part is small: workflow runs
that may overlap, be cancelled at any point, and lose the answers of their
pushes share a few git refs, which hold request budgets and the durable state.
This directory models that part in TLA+, checks it with TLC, and proves its
main properties with TLAPS.

## 1. Inventory

Paths are below `src/scripts/vllm` unless they start with `.github`.

| Component | State it keeps | Operations | Interacts with | What makes it correct |
|---|---|---|---|---|
| Attempt ledger, `request_bearing_attempt_budget.py` | one JSON ledger per producer on a git ref: attempts of the last 25 h, how each ended | `initialize`, `reserve`, `mark_success`, `mark_superseded`, `_request_mode` | pushes through `push_refs`; called by the collection workflows | never more than the cap in any window; spaced retries; a run that collects was charged; a retry still due is not forgotten; the reported opening time is honest |
| Push protocol, `github_write.py` | none | `push_refs`: push with lease, resend on transient errors, read the refs back | every writer of a ref | success is reported only for a commit that landed; a refused lease is not retried |
| Durable slots, `dashboard_state.py` | `dashboard-state` and `dashboard-state-previous`, each a parentless commit with a manifest | `prepare`, `validate_state_ref`, `repair_state_slots`, `rotate_state_refs`, `materialize_generated_roots` | restored and rotated by the workflows | no lost update; the last valid state is never destroyed; a good state is not dropped |
| Collection workflow, `.github/workflows/hourly-master.yml` | the job's pinned code, restored pair, reservation | restore, reserve, collect, publish, deploy, mark, re-dispatch | all of the above; the lock `gh-pages-deploy` | a supersession moved nothing; its replacement is dispatched |
| Deployment workflow, `.github/workflows/deploy-pages.yml` | the restored pair | restore, rebuild, promote the rollback slot, deploy | slots, gh-pages | promotes only what can be rebuilt |
| Request guard, `buildkite_request_guard.py` | counter file under `flock` | `initialize`, `consume`, `read_count` | collectors of one job; window set at the reservation | requests started ≤ allowance, all inside the window |
| Queue and DNS budgets, `queue_request_budget.py`, `dns_request_budget.py` | rolling ledgers of weighted reservations on git refs | `initialize_budget`, `reserve_budget` | their monitors | weighted bound in every window; lanes keep their cadence; the reported opening time is honest |
| Publication watchdog, `plan_publication_watchdog.py`, `observe_watchdog_collection_admission.py` | none: a plan from the public state and a listing of runs | `watchdog_decision`, the wait for the gate, the dispatch | dispatches the workflows | a stale publication is recovered again and again until it is not stale; recoveries do not pile up |
| Run janitor, `plan_stuck_run_cancellation.py` | none | `select_stuck_runs` | cancels what suppresses the watchdog | nothing that hangs holds up a group for ever |
| Incident issue, `hourly_incident_recovery.js`, the failure writer in `hourly-master.yml` | a GitHub issue with markers in its body | `findCanonicalIncident`, `advanceRecoveryStreak`, `resetRecoveryStreak`, `closeHourlyIncident` | hourly run, Site Health, people | one incident at a time; closes after the required healthy distinct states; a lasting failure shows; what people close stays closed |
| Failure watcher and pulse, `amd_main_failure_watcher.py`, `ci/incident_transitions.py`, `ci/main_pulse_overlay.py`, `main_pulse.py` | per-group automata with fences in the durable state; an overlay on a branch of its own | `advance_incidents`, `pulse_step`, `merge_overlay` | collections and the queue monitor, side by side | an incident says what the newest result says; a soft failure needs two builds; nothing shown goes back |
| Publication surfaces, `select_publication_surfaces.py`, `publication_surfaces.py` | the selection that is published with the data: lanes, clocks, declarations | `select_publication` | audits, collectors, the next selection | old data is never shown as new, nor for ever; one bad surface does not stop the others |
| Recovery tick, `external_recovery_tick.py` | `last-dispatch.json` under `flock` | `tick`, `run_actions_loop` | dispatches workflows | one dispatch per interval |
| Site deployment, `hourly-master.yml`, `public_projection.py` | branch `gh-pages` | replace the branch, prove it, replace it once more | state ref | the site ends at the published state |
| Caches, collectors, audits, parsers, frontend | data | sequential data processing | the above | data properties; not protocols |

Behaviours that are hard, and where they bite, are listed line by line under
`hazards` in `PROJECT.json`: overlapping runs that read the same ledger, pushes
that land after their run has ended, answers lost after a push landed, marks
run twice, a job that pinned code older than the state it finds, a slot
damaged from outside, and rows that leave their window.

## 2. Modules

| Module | Models | Kind |
|---|---|---|
| `RollingBudget` | what a request ledger promises, stated over all charges ever made | abstract specification |
| `AttemptLedger` | the attempt ledger, its gate, the push protocol on one ref, and the part of a collection run that uses them | detailed specification; implements `RollingBudget` |
| `RequestGuard` | the counter that every collector process charges before a request, with `RollingBudget` as the ledger it stands on | composition |
| `StateSlots` | the two slots, restore/repair/rotate/promote, the push protocol on two atomic refs, and the jobs that use them | detailed specification |
| `WeightedBudget` | what a ledger of weighted reservations promises, seeds included | abstract specification |
| `RequestLedgers` | the queue and DNS ledgers, their lanes, gates and pushes on one ref | detailed specification; implements `WeightedBudget` |
| `Watchdog` | the watchdog's pass, the janitor, and the workflow runs they look at | detailed specification with fairness |
| `IncidentIssue` | the incident issue and the jobs and people that write it | detailed specification with fairness |
| `FailureWatch` | a test group's incidents, advanced by collections and shown by pulses | detailed specification with fairness |
| `PublicationSurfaces` | the selection of what a collection publishes, and what is handed to the next one | detailed specification with fairness |
| `AttemptLedgerProofs`, `RequestGuardProofs` (with the rolling budget), `StateSlotsProofs`, `RequestLedgersProofs` (with the weighted budget), `WatchdogProofs`, `IncidentIssueProofs`, `FailureWatchProofs`, `PublicationSurfacesProofs` | theorems about the module they are named after | proofs |
| `MC*` | constants for TLC | model checking |

`PROJECT.json` maps each definition to the lines it stands for.

### AttemptLedger

`ledger` is the content of the ref. A ledger commit is a function of its content
(fixed author and time), so equal contents are equal commits and the ref can be
modelled by its content. `wire` holds pushes sent and not yet decided, each with
the content it is leased on; `run` the progress of each workflow run; `charges`
is a history variable. A command takes its decision time *before* it reads the
ref (`now`), refuses a ledger from its future, and sends one push. `Apply`
succeeds if the lease holds, at any later moment, whether or not the run still
exists; `Lose` drops a push; `Resend`, `Confirm` and `CommandFails` are the three ways
through the loop of `push_refs`. A run may be killed (`Abort`) in every stage.

The gate (`RequestMode`) is translated in full: legacy rows and their two overlap
caps, the cadence with its exponential backoff over a failure streak, the bypass
for a code change, and superseded rows, which neither gate nor extend a streak.
The retry evidence (`CarriesRetry`) is sought among *all* rows of the ref that was
read, expired ones included, as the code does.

Abstracted: hashes, provenance strings, the file format and its validation, and
initialisation (`Init` is any seed `initialize` can write).

### RequestGuard

What the budget is for: Buildkite requests. The ledger charges *attempts* at the time
of their reservation; the requests of an attempt are sent later, by several
processes, and only the guard's counter and its transport window tie the two. The
module extends `RollingBudget` (which `AttemptLedger` implements) with one counter per
run and the processes that use it. A run notes its anchor before it reserves;
`Lock`, `Consume` and `Send` are the steps of `consume` and of the send it guards, and a
process may die, or its run end, between any two of them. The documented ceiling
(16 attempts of 800 requests in any rolling 24 hours) is `RollingCeiling`.

The arithmetic is that of the code's documentation: 24 hours, plus 50 minutes of
window, leave 10 minutes to the 25 hours of the ledger. These 10 minutes bound the
time from charging the counter to sending the request (`Lag`), an assumption about the
scheduler that the code makes too: it checks the window when it charges.

### StateSlots

A state has an identity, the identity of the state it was built on, the code that
made it, and a grade: what part of the validation it passes (nothing, metadata,
full content, rebuild of the site). The grade stands for the verdict of the
validators, which are not modelled. Jobs are collections or deployments. A job
pins the code of the default branch when it starts, probes the two refs one after
the other, repairs the pair if it cannot prove both slots, validates the current
slot in full, promotes the rollback slot if needed, and then either builds and
rotates in a candidate, or rebuilds the site and possibly promotes the rollback
slot. `Proven` includes the ancestor check of `add_slot_proof`: a state is proven
only if the code that made it is in the history of the code the job pinned.

Outside actions: `Damage` deletes or overwrites one slot (a bounded number of
times), `Merge` puts newer code on the default branch, with or without changes of
workflow files, which is what makes a rotation "superseded".

`Exclusive` is the workflows' concurrency group `gh-pages-deploy`. It exists as a
constant because what the lock contributes is worth knowing: the leases alone
prevent lost updates (`BuildsOnReplaced`), with any number of jobs side by side, but
`GoodCurrentKept` and `LastValidKept` need the lock. Without it, a job that pinned older
code meets a state that newer code published, cannot prove it, and repairs it
away. The lock makes this impossible since a job pins its code after it has the
lock.

### RequestLedgers

One module for both ledgers: their commands are the same (observe, decide, one leased
push, sent again or confirmed) and their rows differ in weight and kind. A batch is what
one push reserves: metrics and details together, or a scan. `WeightedBudget` is the
promise: over the whole history no window that contains a reservation holds more than
`Cap` starts, seeds included. The retry time of a failed scan comes from a listing of
workflow runs that `Observe` reads as one choice. `available_at` of the queue ledger is
for the amount asked for then, so `GateHonest` speaks of the same batch. The concurrency
groups admit one run at a time; `MaxConcurrent = 2` shows that the lease suffices. That
the intervals of the lanes are at most the window is an assumption: `load_policy` does
not check it, the shipped policy satisfies it (10 and 60 minutes against 25 hours).

### Watchdog

`site` is what the public state says, `runs` the run records a listing returns, `pass` the
progress of the one pass its concurrency group admits. A pass routes the state to one
workflow (`HealthPass`, `ClockPass`), waits for a near collector gate (`Admit`), lists the
runs of the workflow and decides (`Plan`, one action), dispatches later, when the listing
is old (`Dispatch`, up to `Sends` tries, each of which may have been accepted although its
answer is lost), plans Docker builds, and cancels what is stuck (`Janitor`). Runs are
started one per concurrency group, replaced while they wait, fail, hang, or end.

Time is kept as ages. An age stops counting where nothing tells later values apart, an
ended record that can no longer cool anything down is dropped, and a failed run keeps
only whether it is newer than the code (`fresh`). `Tick` waits for what is due, so the
time between two passes is at most `Period`, which is what the cron schedule is for. One
label stands for the two routes to the collector that differ in wording only. A pass is
aborted only where its commands can fail, at a dispatch or at the Docker plan. The bound
of 20 cancellations per pass is not reached. The slack between the janitor's limit (8
hours) and the age of an orphaned record (72 hours) is the assumption
`JanitorLimit + Period + MaxWait < GhostAge`; with it the liveness properties hold.

### IncidentIssue

The body of an issue is its record here: signal, mark, streak with the identities of
the credited states, recovered or not. A job looks up the incident, computes the new
bodies, and makes its requests one after the other: `todo` is the set of those left and
`Due` those that may be next, since the issues to supersede come in the order in which
GitHub lists them. Each request may be applied, refused, or applied with its answer lost. All jobs
hold the group `gh-pages-deploy`, so they do not interleave; people close and reopen
issues between any two requests. Streaks count to 2, the numbers of states are used
again once nothing remembers them, and one signal (`queue`) stands for those about one
targeted surface, which need one healthy state instead of two. The owner label is left
out: a job labels its incident before it marks it. A lookup is one atomic read, and
people may act between it and every request of the job: an issue that is closed in
between is written as the job intended and stays closed for the signal written on it.

### FailureWatch

`runs` holds what each finished build showed: the results of the groups it ran, of which
a group is a test step on one queue. Builds finish in any order. `authority` is the watcher's
state that the collections publish, `overlay` the pulse's. A pulse reads the published
state, advances it over the finished builds it can see (`Gaps`: it may miss some), and
publishes an overlay; a collection merges the overlay first, lists the builds, advances,
and publishes or fails. `Advance` is `advance_incident`, `Observe` the part of
`advance_incidents` that compares the fence of a group, `Pruned` its last loop, which drops old
fences of groups without an incident, `Merge` is `merge_overlay`. Pulses do not overlap
(their ledger admits one in ten minutes and the publication is leased); collections are
serialised by the Pages lock.

Groups do not change their names here. `advance_incidents` still retires the incidents of
groups whose step was renamed (`_retire_renamed`), from the time when a group was keyed by
its label. Since `GROUP_IDENTITY_VERSION` 2 a group is keyed by step, hardware and queue
(`group_id_for` in `ci/reliability_history.py`) and one key has one group, so the function finds
nothing to retire; it is kept for states of the old format, which are not modelled.
Severity, commit ranges, the timeline and the retention of old builds are left out, and
builds that are known from history only change no incident.

`IncidentKept` speaks of incidents that are confirmed in the published state and with
the overlay, and says that only a pass in a newer build ends them: a build the pulse
missed, or one that finished late, lets the overlay downgrade a confirmed incident. Its
cause is the finding of run `pulse_overlay`.

### PublicationSurfaces

`pub` is the published selection: for each surface whether it is restored, and for how
long, which surfaces are degraded but fresh, and which are declared unavailable, for
which codes. `sel` is the selection at work. A collection meets *troubles*: collectors
that failed, published files that are kept, findings, and a published build under retry. A finding is present while
certain surfaces show collected data (`cand`) and others published data (`rest`), so
restoring one surface can remove a finding and bring up another, which is what the
loop of `select_publication` exists for. `Preflight`, `CandidateAudit` and `FinalPass` are its
three parts, with every exit. `Restore` writes the declarations the next audit accepts
(`Accepted`); a passing audit narrows them to what it relied on (`Needed`). The selector
takes the time once, the audit again: `Tick` in between makes a fallback `Overdue`.

A full collection (`Collect`) starts its fallback lane from the failed collectors and the
retried build alone (`select_publication_surfaces.py:2703-2709`). A reconciliation
(`Refresh`) collects one surface and carries the lanes, clocks and declarations of the
others.

Not every surface is collected anew, and not always is that recorded. When the sync of
DNS health or Docker builds fails, or its branch is incomplete or older, the step warns
and keeps the files of the published state (`hourly-master.yml:1316-1390`); GitHub home is
not collected while `prs.json` is under an hour old (2030-2098). None of the three is
reported as a failed collector. These surfaces are `Retainable`, and `t.kept` are those a
collection kept. The DNS reconciliation has the same step, so it may keep its one surface
too, if that is no older than the generation it was asked for. The consequence is the
code's: a surface that was published as restored, and is then kept by a collection and
not failed by its audits, is published as current and loses the clock of its fallback,
and a declaration with it. The audits of DNS and Docker data have age limits of their own
(12 and 6 hours), but past them the data is reported as degraded and not restored.
`ClockKept` excepts exactly these surfaces. It is stated here and is no finding, since what
the selector says of data past its age bound ("never as current", 2758) is said of the
surfaces of the fallback lane, which a kept one has left. The age of `prs.json` and of the
branches is not modelled: any retainable surface may be kept at any time.

What the audits look for is not modelled, only where a finding lies and where it is routed to. Left out as well: the clocks of degradations and
declarations, incident policies and their streaks, old formats of the state, corrupt
clocks, baselines with missing files (each ends the selection), and the request of a full
collection by a reconciliation. Fallback dependencies are empty in the code.

## 3. Runs

| Run | Instance | Shows |
|---|---|---|
| `attempt_ledger` | 3 runs, 2 at once, window 3, cap 2, clock ≤ 3, no resends | `ImplementsBudget`, `RetrySpacing`, `GateOpens`, `RetryIntentSurvives` |
| `attempt_answers` | 2 runs, 1 resend, mark command run twice | `TypeOK`, `PermitCharged`, `NeverSilenced`, `OutcomeFinal` |
| `request_guard` | 2 runs of 2 processes, allowance 2, cap 1, window 5, times 0..6 | `GuardTypeOK`, `RollingCeiling`, `CountCovers`, and `WindowBound` of the budget |
| `state_slots` | 3 jobs under the lock, 1 damage, 1 merge, no bootstrap | `LastValidKept`, `GoodCurrentKept` |
| `state_leases` | 2 jobs side by side, bootstrap, 1 resend, 1 damage, 1 merge | `TypeOK`, `SupersededMovedNothing`, `BuildsOnReplaced` |
| `request_ledgers` | 3 runs, 2 at once, a seed, weights 1, 2 and 3, window 4, cap 4, times 0..5, 1 resend | `LedgerOK`, `WeightedBound`, `CadenceKept`, `GateHonest`, `ImplementsBudget` |
| `watchdog` | one of four workflows at a time, 2 run records, 2 tries, ages up to 5 | `NoPileUp`, `NeverSilenced`, `QueueMoves` |
| `incident_issue` | 2 issues, 2 signals, 1 act of people at a time, incidents of people and duplicates to begin with | `OneSlot`, `RecoveryEarned`, `SuppressionRespected`, `Closes`, `Alerts` |
| `incident_slots` | the same, begun with a closed incident and a late unlabelled one | violation of `OneSlot`: a finding |
| `failure_watch` | 3 builds that run one, both or none of 2 groups, hard, soft and passed, in any order, with gaps | `FenceTruth`, `SoftTwice`, `NoRegress`, `IncidentKept`, `NewestShown` |
| `pulse_overlay` | 2 builds, no gaps | violation of `CollectionWins`: a finding |
| `publication_surfaces` | 3 surfaces, one of them refreshable and retainable, 11 findings, up to 2 troubles in a collection, age bound 1 | `SelectedSound`, `BlocksForCause`, `ClockKept`, `Settles`, `Heals` |

Why these bounds are enough to be interesting. A window of 3 with a clock up to
3 and seeds at times before 0 lets rows expire, including the newest evidence;
cap 2 with 3 runs and seeded rows reaches both caps. Two concurrent runs produce
every race of two commands on one lease; the third run meets their remains.
Concurrency and resends are split over two runs because their product is too
large, and they interact only through the set `wire`, which allows a late push in
all of them. The runs have the collection producer (`Collection = TRUE`); the theorems cover both
producers. For the guard, the times allow both runs to be charged, one window apart, and
a request of the first to come too close to the second if its window is not
checked; two processes race for each count. For the slots, three jobs in sequence suffice for a late push of the
first to meet the third; one damage is what the code claims to survive. Job
identities are symmetric and no property depends on their order.

In `request_ledgers` the weights 1, 2, 3 against a cap of 4 make some batches fit where
others do not, and the seed weighs up to more than the cap. The watchdog is run on one
workflow at a time because workflows meet only in the pass, which routes to one; two
records hold the one that works and the one that waits, all a concurrency group has. In
`incident_issue` two issues are the least for a duplicate; a person acts again once the
jobs have settled. In `failure_watch` a group may pass, fail, be soft or not run in a build, and
three builds are the least for a soft failure, a gap and a later result; two groups are
what the merge and the pruning of fences tell apart. In `publication_surfaces` two troubles suffice to chain: a restored surface
brings up a second finding, which restores or declares another; `dns` is the surface that is
reconciled and may be kept, as in the code, `core` and `analytics` show one build. There is one finding of each kind, and two about data that
disagrees.

Every property has a mutant of the code's definitions that breaks it (`mutants` in
`PROJECT.json`).

Times are hours in spirit. `RunLimit` (75 minutes in the code) is 1 and the window
(25 hours) is 3: the assumption `2 * RunLimit < Window` is what the code's constants
satisfy, and what the proof of `PermitsAreCharged` uses.

The configurations of the ledgers, of the slots and of the watchdog say
`CHECK_DEADLOCK FALSE`: runs and jobs are each started once and the clock is bounded, and
a site that needs nothing has nothing to do.

### Fairness

* *Watchdog.* Time passes; GitHub starts what is queued when its group is free; a run that
  does not hang ends; the clock workflow wakes the watchdog again and again (strong,
  since passes of other triggers come in between); a pass works on; a dispatch that is due
  infinitely often is accepted once (strong, since each may fail). Nothing is assumed of
  how runs end, of the other triggers, or of what else republishes.
* *IncidentIssue.* There is a run every hour that gets to read the incident, and a healthy
  one has a new state; of infinitely many requests of a kind, one succeeds.
* *FailureWatch.* Builds finish; collections are dispatched again, some get through the
  watcher, and some are published. Nothing is assumed of the pulse.
* *PublicationSurfaces.* A selection at work goes on (the job has no other steps). If
  jobs end again and again, full collections are dispatched and get through their audit
  again and again, and not every selected one is dropped before it is published. The
  condition matters: a loop that never ends keeps its job running, nothing is dispatched
  then, and nothing but the first assumption holds. So `Settles` is checked of
  reconciliations and of full collections under the progress of their own passes alone;
  `Heals` uses the rest. Where an action is costly for TLC inside a fairness operator,
  its fairness is stated by the states it leaves and reaches; the comments say which.
  `odd` tells the passes of the loop apart for that purpose.

### Findings

* `incident_slots`: an open unlabelled issue that precedes a stale closed owner slot is
  labelled and marked, and the closed one is never superseded; when it recovers there are
  two current incidents, and every later run stops at the ambiguity.
* `pulse_overlay`: the module comment of `main_pulse_overlay.py` says a later collection that
  saw the same builds always wins; the merged fence hides the older build from it.

## 4. Theorems

For every value of the constants that satisfies the named assumptions.

The invariants of the ledgers and of the slots rest on one idea. *A push that may still land is legal for the
ledger or the pair it is leased on.* A lease lets it land only there, so the fact, true
when the push was computed, cannot go stale, whoever moves the ref in between and
whether or not the run that sent it still exists.

* **Rolling budget** (in `RequestGuardProofs`). `BudgetTypeCorrect`, `BudgetBound`
  (`WindowBound`): a charge needs a free slot in the window ending at it, and is no older
  than any other, so a window that is full of charges up to time t has its newest charge
  admitted last, when there was room. The invariant is the bound itself and finiteness.
* **Attempt ledger: charges.** `TypeCorrect`, `LedgerInvariant`, `PermitsAreCharged`
  (`PermitCharged`), `LedgerImplementsBudget` (`ImplementsBudget`), `LedgerWindowBound`.
  `LedgerInv` says that pushes are legal (`LegalPush`: a push keeps the rows that still
  count, adds at most its own row, and only where a guarded slot was free), and that *the
  ref holds every charge that is still in its window* (`HistoryAgrees`), so the count the
  gate makes on the ref is the count of the history. Then each `Apply` is a `Charge` of the
  abstract budget or changes no charge. `LedgerWindowBound` is the bound of the abstract
  budget for the ledger: its steps are steps of the budget, and each keeps the bound.
* **Attempt ledger: answers.** `AnswersInvariant`, `NothingIsSilenced` (`NeverSilenced`),
  `ReservationsAreSpaced` (`RetrySpacing`), `OutcomesAreFinal` (`OutcomeFinal`), `RetryIsRemembered`
  (`RetryIntentSurvives`), `GateIsHonest` (`GateOpens`). `AnswerInv` adds to the legality of a push
  that it rewrites the row of its own run only, and that only while it is open; that the
  rows it leaves are spaced; and that an unresolved retry is handed on to the row it adds.
  Of a run it says that the ref knows its reservation under the time the run noted, and
  that no push in its name says more than `open` before it sent a mark. So a mark command
  that finds its row already marked finds its own mark, which is what `NeverSilenced`
  needs. That the row is still on the ref then, rests on `2 * RunLimit < Window`. The spacing
  needs the backoff to be at least `RetryInterval`: `Backoff` is a recursive function,
  unfolded by a least counterexample over its finite domain. `RetryInterval =<
  SuccessInterval =< Window` and `Cap =< OverlapCap` are assumptions the proofs brought up;
  every policy in `config/` satisfies them.
* **Request guard.** `GuardInvariant`, `GuardTypeCorrect`, `CountCoversRequests` (`CountCovers`),
  `CeilingHolds` (`RollingCeiling`). `GuardInv` says that one process holds the lock, that no
  count is handed out twice, and that every request has a charge of its run at most
  `Duration + Lag` older. So the requests of the day that ends at t map one to one to
  pairs of a charge in the accounting window that ends at t and a count up to the
  allowance; `BudgetBound` bounds the charges, since the module's steps are steps of the
  budget.
* **State slots.** `SlotsTypeCorrect`, `LeaseInvariant`, `UpdatesBuildOnReplaced`
  (`BuildsOnReplaced`), `CandidateInvariant`, `SupersededIsSafe` (`SupersededMovedNothing`),
  `LockInvariant`, `LastValidIsKept`, `GoodCurrentIsKept`. `LeaseInv` says that pushes are legal
  for the pair they are leased on; it needs no lock. `CandidateInv` follows one candidate:
  it is in no pair and on no wire before its job sends it, since every other push
  carries on what its lease held, and a refusal that makes the job superseded leaves no
  copy under way. `LockInv` adds, under `Exclusive`, that one job runs, that no state on a
  ref, on the wire or in the running job was made by code newer than that job's, and
  that every push that may still land (`SafePush`) keeps a valid state if there was one
  and a deployable current state. Pushes of ended jobs are covered by the same conjunct,
  which is why the invariant speaks of the wire and not of the jobs.
* **Weighted budget and the queue and DNS ledgers.** `WeightedTypeCorrect`, `WeightedBudgetBound`
  (`WeightedBound`), `LedgersInvariant`, `LedgersAreOK` (`LedgerOK`), `LedgersImplementBudget`
  (`ImplementsBudget`), `LedgersWeightedBound`, `LanesKeepCadence` (`CadenceKept`), `GateIsHonest`
  (`GateHonest`). The weight of a set of rows is the cardinality of the permits they stand
  for, so the bound is one of cardinalities and needs no recursion. `LedgerInv` holds that a
  push adds one batch that fits, to lanes that are due on the ledger it is leased on, and
  that the rows of the ref are the history's rows in its window; what a window no longer
  shows is at least an interval away, so a lane that is due on the ref is due in the history.
* **Watchdog.** `PileInvariant`, `RecoveriesDoNotPileUp` (`NoPileUp`). The property speaks of two
  recoveries of one incident; the invariant of all live recoveries of a workflow, since an
  incident may change its key while an older recovery is alive: they were sent in
  different tries, and those that a pass finds while it dispatches are its own earlier
  tries. It holds because the dispatch comes after a listing that shows no live recovery,
  and no other pass dispatches in between.
* **Incident issue.** `IssueInvariant`, `OneIncident` (`OneSlot`), `RecoveriesAreEarned`
  (`RecoveryEarned`), `SuppressionIsRespected` (`SuppressionRespected`), under `"late" \notin Worlds`:
  the world where an older workflow left an open unmarked issue beside a closed incident
  violates `OneSlot`, as run `incident_slots` shows. In the others an unmarked open issue has
  an open incident beside it, and goes on having one until it is superseded: a healthy job
  closes the incident last (`Book`). People do not act in that world: who closes the incident
  by hand beside such an issue makes the excluded world of it. So the candidates are the
  one current issue. It is the target of the job at work, the states it has credits of are healthy states since the last failure on record (two if its
  streak is 2), and if people closed the incident on a signal, it still carries that
  signal (`MutedOn`). Then each write of a job is what the history allows (`Goes`), also when
  its answer is lost, or when people closed or reopened the issue after the job looked.
* **Failure watcher.** `WatchInvariant`, `TypeCorrect`, `FencesTellTheTruth` (`FenceTruth`),
  `IncidentsAreSound` (`SoftTwice`), `NothingGoesBack` (`NoRegress`), `IncidentsAreKept` (`IncidentKept`).
  `WatchInv` says of each copy of the state (published, overlay, read by the pulse, held by the
  collection) that an incident rests on results of its group between its first and last
  build, and agrees with the group's fence; a copy is taken over group by group with
  incident and fence together, so merging keeps both. The copies are ordered by their
  fences: what the pulse has read is older than what is published, what the collection
  will publish is newer, and a running collection has listed every build the published
  fences rest on. `Replay` is a recursive function over the builds; the theorems about it
  are by a least counterexample.
* **Publication surfaces.** `SurfacesInvariant`, `SelectionsAreSound` (`SelectedSound`),
  `BlocksAreCaused` (`BlocksForCause`), `ClocksAreKept` (`ClockKept`, which excepts the surfaces
  whose published files a collection keeps unrecorded). `SurfacesInv` follows the fallback
  lane through the audits: it holds what was carried over, what a collector failed to
  bring and whatever has a declaration, and an audit only adds to it; what is restored
  is the lane as it was at the last restore. The published clocks move with the clock of
  the selection at work. Findings, surfaces and codes are arbitrary here, of which TLC
  meets one of each kind.

### What the proofs changed

Proof attempts that failed for a good reason changed the models:

* The body transition of `FailureWatch` had two cases that overlap; the choice between them
  was made by `CASE` and not by the code. It follows the code's `if` order now.
* `FenceTruth` failed on paper for a group that is renamed back after its fence was
  pruned, beyond the bounds of the run. Looking for that case in the code showed that
  groups are keyed by step since `GROUP_IDENTITY_VERSION` 2, so renames do not happen. The
  model has groups instead of labels now.
* `IncidentIssue` made its requests in the order of the issue numbers, which nothing in
  the code promises: the order is that of GitHub's listing. `todo` is a set now, and the
  properties hold for every order.
* The assumptions on intervals and caps named above, and that an issue number 1 exists.

### Only model-checked

The liveness properties: `NeverSilenced` and `QueueMoves` of `Watchdog`, `Closes` and `Alerts`,
`NewestShown`, `Settles` and `Heals`. Liveness under fairness and `ENABLED` are out of reach of
the installed provers. Every other property of a passing run is a theorem.

Induction over data is out of reach where it takes an operator as a parameter (the
library's induction theorems); a least counterexample by `WFMin` of the library does
the same for one definition at a time, which is how `Backoff` and `Replay` are treated.
The provers know neither `^` nor the operators `:>` and `@@`, nor that a literal is a string;
the modules that are proved about write functions and finite sets instead. What the
violation runs show (`CollectionWins`, and `OneSlot` in the late world) is false and no theorem.

## 5. Plan

All the modules above are written, checked and proved, liveness excepted. What is left, in this
order:

1. The refinement of `WeightedBudget` into `RollingBudget` for weights of 1, and the two
   budgets' common lemmas stated once.
2. `RequestGuard` without a transport window, as the DNS and queue monitors use it
   under their job timeouts, on the weighted budget, with its ceiling proved.
3. The swap of the generated roots and its rollback, and the deployment to gh-pages
   composed with `StateSlots`, with the proof that the site ends at the published state.
4. The external recovery tick with its record, and what a crash between the dispatch and
   the record does.

## 6. Not modelled, and why

Collectors, parsers, reports, audits and the frontend transform data one step after
the other and keep no shared state; their verdicts enter the models as choices
(the grade of a state, the evidence of a publication, the findings of an audit, the
outcomes of builds). They are most of the repository's lines: what could be checked about
them is the correctness of data conversions, which their unit tests reach. Encryption,
transport and file formats are pure input and output. The external recovery tick is one
process with one record, and the duration and surge watchers are rules over series of
measurements that one collection owns. The swap of generated roots works on one file
system under one process; the replacement of gh-pages happens under the lock that
`StateSlots` models. Their hazards are listed without a property.
