--------------------------- MODULE IncidentIssue ---------------------------
(***************************************************************************)
(* The incident of the hourly publication lives in a GitHub issue: its     *)
(* body is the durable store of the failing signal and of the recovery     *)
(* (hourly_incident_recovery.js; the failure writer is inline in           *)
(* hourly-master.yml).  Every job that writes it holds the gh-pages-deploy *)
(* concurrency group, so one job runs at a time; but a job makes several   *)
(* requests, any of which may fail or be answered by an error after it was *)
(* applied, and people close and reopen issues in between.                 *)
(*                                                                         *)
(* The owner label is left out: a job labels its incident before it marks  *)
(* it current, so an issue that is closed and current is always found.     *)
(***************************************************************************)
EXTENDS Naturals, FiniteSets, FiniteSetsExt

CONSTANTS
    Issues,       \* the issue numbers that may be used: 1 .. n
    States,       \* the dashboard states a healthy publication may have: 1 .. n
    Codes,        \* the commits a state may be published for
    Signals,      \* the fingerprints of failures
    Targeted,     \* the signals that are about one targeted surface only
    Acts,         \* bound: how often people close or reopen an issue
    Worlds        \* the repositories to begin with: "people", "duplicate", "late"

ASSUME IncidentAssumption ==
    /\ 1 \in Issues /\ Issues \subseteq Nat \ {0} /\ States \subseteq Nat \ {0}
    /\ IsFiniteSet(States) /\ Cardinality(States) >= 2
    /\ Targeted \subseteq Signals
    /\ Signals \cap {"none", "ok", "transient"} = {}
    /\ Acts \in Nat
    /\ Worlds \subseteq {"people", "duplicate", "late"}

None == "none"
NoPub == [state |-> 0, code |-> 0]
Pub == [state : States, code : Codes]

VARIABLES
    issues,       \* the issues
    health,       \* what the next hourly run will find: "ok", "transient" or a signal
    published,    \* the healthy publication that is on the site, or NoPub
    proof,        \* the publication Site Health has probed, or NoPub
    job,          \* the job that holds the lease
    acts,         \* what people may still do
    good,         \* history: healthy states since the last failure on record; all, once two were
    muted         \* history: the signal people closed the incident on, or None

vars == <<issues, health, published, proof, job, acts, good, muted>>

Idle == [kind |-> None, signal |-> None, pub |-> NoPub, source |-> None,
         target |-> 0, seen |-> None, todo |-> {}, tries |-> 0]

NoIssue == [status |-> None, mark |-> "plain", recovered |-> FALSE,
            signal |-> None, streak |-> 0, ids |-> {}]

\* desiredIssueBody: the body of a failing run starts the recovery from nothing.
Fresh(signal, status) ==
    [status |-> status, mark |-> "current", recovered |-> FALSE,
     signal |-> signal, streak |-> 0, ids |-> {}]

----------------------------------------------------------------------------
\* The transitions of a body.

MarkCurrent(b) == [b EXCEPT !.mark = "current"]

Supersede(b) == [NoIssue EXCEPT !.status = "closed", !.mark = "superseded"]

Reset(b) == [b EXCEPT !.recovered = FALSE, !.streak = 0, !.ids = {}]

Credited(b, pub) == \E id \in b.ids : id.state = pub.state

AdvanceLatestOnly(b, pub) == [b EXCEPT !.ids = {pub}, !.streak = 1]

AdvanceEveryRun(b, pub) ==
    [b EXCEPT !.ids = @ \cup {pub}, !.streak = IF @ = 2 THEN @ ELSE @ + 1]

\* More than two healthy states count as two: no threshold is above two.
Advance(b, pub) ==
    [b EXCEPT !.ids = @ \cup {pub},
              !.streak = IF Credited(b, pub) \/ @ = 2 THEN @ ELSE @ + 1]

SuppressedUntouched(b, seen, signal) ==
    seen = "closed" /\ ~b.recovered /\ b.signal = signal /\ b.streak = 0

Suppressed(b, seen, signal) ==
    seen = "closed" /\ ~b.recovered /\ b.signal = signal

ShouldReset(b, seen) == seen = "open" \/ (seen = "closed" /\ b.streak > 0 /\ ~b.recovered)

Required(source) == IF source = "targeted" THEN 1 ELSE 2

AfterFailureSilent(b, seen, signal) ==
    IF Suppressed(b, seen, signal) THEN Reset(MarkCurrent(b)) ELSE Fresh(signal, b.status)

AfterFailure(b, seen, signal) ==
    IF Suppressed(b, seen, signal) THEN Reset(MarkCurrent(b))
    ELSE Fresh(signal, IF seen = "open" THEN b.status ELSE "open")

AfterTransient(b, seen) ==
    IF ShouldReset(b, seen) THEN Reset(MarkCurrent(b)) ELSE MarkCurrent(b)

Recover(b, seen) ==
    [b EXCEPT !.recovered = TRUE, !.status = IF seen = "open" THEN "closed" ELSE @]

AfterHealthy(b, seen, pub, source) ==
    LET next == Advance(MarkCurrent(b), pub)
    IN  IF seen = "closed" /\ b.recovered THEN MarkCurrent(b)
        ELSE IF next.streak < Required(source) THEN next
        ELSE Recover(next, seen)

----------------------------------------------------------------------------
\* findCanonicalIncident: the issue that a job works on.

Open == {i \in Issues : issues[i].status = "open"}

Candidates ==
    LET active == {i \in Open : issues[i].mark # "superseded"}
        current == {i \in active : issues[i].mark = "current"}
        closed == {i \in Issues : issues[i].status = "closed" /\ issues[i].mark = "current"}
    IN  IF current # {} THEN current ELSE IF active # {} THEN active ELSE closed

Ambiguous == Cardinality(Candidates) > 1

Canonical == IF Candidates = {} THEN 0 ELSE CHOOSE i \in Candidates : TRUE

NoOthers == {}

\* ownedIssues that supersedeOtherIssues still has to close.  When the incident
\* is closed the job saw the closed page only.
Others == IF Canonical # 0 /\ issues[Canonical].status = "closed" THEN {}
          ELSE Open \ {Canonical}

IdentityStillCurrent == proof # NoPub /\ proof = published

Admitted(kind, source) ==
    LET b == issues[Canonical]
    IN  CASE kind = "confirm" -> b.status = "open" /\ b.streak >= 1 /\ proof \in b.ids
          [] kind = "heal"    -> source = "targeted" => b.signal \in Targeted
          [] OTHER            -> TRUE

FreeIssue == {i \in Issues : issues[i].status = None}   \* bound: the issues there are

\* A job reads the issues and decides what to write; it ends at once when the
\* incident is ambiguous, when there is nothing to do, or when it dies before.
Find(kind, signal, pub, source) ==
    LET target == IF Canonical = 0 THEN CHOOSE i \in FreeIssue : \A j \in FreeIssue : i <= j
                  ELSE Canonical
        works == /\ ~Ambiguous
                 /\ IF Canonical = 0 THEN kind = "fail" /\ FreeIssue # {}
                    ELSE Admitted(kind, source)
    IN  \/ job' = Idle
        \/ /\ works
           /\ job' = [kind |-> kind, signal |-> signal, pub |-> pub, source |-> source,
                      target |-> target, seen |-> issues[target].status,
                      todo |-> Others \cup {target}, tries |-> 0]

----------------------------------------------------------------------------
\* The jobs.

Used == (IF good = States THEN {} ELSE good)
        \cup UNION {{id.state : id \in issues[i].ids} : i \in Issues}
        \cup {p.state : p \in {published, proof} \ {NoPub}}

\* A run that commits new data has a new state.  Numbers that nothing refers to
\* any more are used again.
NewPub == {p \in Pub : p.code = Min(Codes) /\ p.state = Min(States \ Used)}

\* A finalizer or a repeated deployment publishes a state that is there already,
\* for the same or for another commit.
SamePub == {p \in Pub : published # NoPub /\ p.state = published.state}

\* A healthy run: the publication is on the site before the incident is read.
Heal(pub, source) ==
    /\ job = Idle /\ health = "ok"
    /\ published' = pub
    /\ good' = IF good \subseteq {pub.state} THEN {pub.state} ELSE States
    /\ Find("heal", None, pub, source)
    /\ UNCHANGED <<issues, health, proof, acts, muted>>

\* A failing run, or one whose only trouble is a fallback below its alert
\* threshold.  It may leave the site as it is.
Fail ==
    /\ job = Idle /\ health # "ok"
    /\ published' \in {NoPub, published}
    /\ IF health = "transient" THEN Find("transient", None, NoPub, "full")
       ELSE Find("fail", health, NoPub, "full")
    /\ UNCHANGED <<issues, health, proof, acts, good, muted>>

\* Site Health probes the site without the lease ...
Probe ==
    /\ published # NoPub /\ proof # published
    /\ proof' = published
    /\ UNCHANGED <<issues, health, published, job, acts, good, muted>>

\* ... and confirms the recovery under it.  The proof is used once; one that is
\* too old is dropped (an older proof is a request of the job that fails).
Confirm ==
    /\ job = Idle /\ proof # NoPub
    /\ proof' = NoPub
    /\ IF IdentityStillCurrent THEN Find("confirm", None, proof, "site")
       ELSE job' = Idle
    /\ UNCHANGED <<issues, health, published, acts, good, muted>>

Settled ==
    LET b == issues[job.target]
    IN  CASE job.kind = "fail"      -> AfterFailure(b, job.seen, job.signal)
          [] job.kind = "transient" -> AfterTransient(b, job.seen)
          [] job.kind = "heal"      -> AfterHealthy(b, job.seen, job.pub, job.source)
          [] job.kind = "confirm"   -> Recover(b, job.seen)

\* What the history says after a write was applied to the incident.
OnRecord(b) ==
    /\ good' = IF job.kind \in {"heal", "confirm"} THEN good
               ELSE IF job.kind = "transient" /\ job.seen = "closed" /\ b.recovered THEN good
               ELSE {}
    /\ muted' = IF issues'[job.target].recovered THEN None
                ELSE IF job.kind = "fail" /\ muted # None
                     THEN IF issues'[job.target].status = "open" THEN None ELSE job.signal
                ELSE muted

\* The requests a job may make next: a failing run writes its own issue first, a
\* healthy one last; the others follow in the order in which GitHub lists them.
Due ==
    LET others == job.todo \ {job.target}
    IN  IF others = {} \/ (job.kind \in {"fail", "transient"} /\ job.target \in job.todo)
        THEN {job.target} ELSE others

\* GitHub applies the request that writes an issue.
Apply(i) ==
    IF i = job.target
    THEN /\ issues' = [issues EXCEPT ![i] = Settled]
         /\ OnRecord(issues[i])
    ELSE /\ issues' = [issues EXCEPT ![i] = Supersede(issues[i])]
         /\ UNCHANGED <<good, muted>>

Works == job # Idle /\ UNCHANGED <<health, published, proof, acts>>

Proceed(i) == job' = IF job.todo = {i} THEN Idle
                     ELSE [job EXCEPT !.todo = @ \ {i}]

SupersedeOther == Works /\ \E i \in Due \ {job.target} : Apply(i) /\ Proceed(i)

Settle == Works /\ job.target \in Due /\ Apply(job.target) /\ Proceed(job.target)

\* The request that closes a recovered issue is sent once more.  Any other error
\* ends the job, also one that hides a write which was applied.
Unanswered ==
    /\ Works
    /\ \E i \in Due :
         /\ Apply(i) \/ UNCHANGED <<issues, good, muted>>
         /\ \/ job' = Idle
            \/ /\ i = job.target /\ job.tries = 0 /\ job.seen = "open"
               /\ job.kind \in {"heal", "confirm"}
               /\ Settled.status = "closed" /\ Settled.recovered
               /\ job' = [job EXCEPT !.tries = 1]

----------------------------------------------------------------------------
\* The world around the jobs.

People ==
    /\ acts > 0 /\ acts' = acts - 1
    /\ \E i \in Issues :
         \/ /\ issues[i].status = "open"
            /\ issues' = [issues EXCEPT ![i].status = "closed"]
            /\ muted' = IF issues[i].recovered THEN muted ELSE issues[i].signal
         \/ /\ issues[i].status = "closed"
            /\ issues' = [issues EXCEPT ![i].status = "open"]
            /\ muted' = None
    /\ UNCHANGED <<health, published, proof, job, good>>

Drift ==
    /\ health' \in ({"ok", "transient"} \cup Signals) \ {health}
    /\ UNCHANGED <<issues, published, proof, job, acts, good, muted>>

\* "people": nothing happened yet, and people act.  "duplicate": an older
\* workflow left a second, unmarked issue beside the open incident.  "late": it
\* left one after the incident was closed.
Start(world, signal) ==
    LET old == [Fresh(signal, "open") EXCEPT !.mark = "plain"]
        incident == CASE world = "people"    -> NoIssue
                      [] world = "duplicate" -> Fresh(signal, "open")
                      [] world = "late"      -> Recover(Fresh(signal, "open"), "open")
    IN  [i \in Issues |-> IF i = 1 THEN incident
                          ELSE IF i = 2 /\ world # "people" THEN old
                          ELSE NoIssue]

Init ==
    /\ \E world \in Worlds :
         /\ issues \in {Start(world, s) : s \in Signals}
         /\ acts = IF world = "people" THEN Acts ELSE 0
    /\ health \in {"ok", "transient"} \cup Signals
    /\ published = NoPub /\ proof = NoPub /\ job = Idle
    /\ good = {} /\ muted = None

Jobs ==
    \/ \E pub \in NewPub \cup SamePub, source \in {"full", "targeted"} : Heal(pub, source)
    \/ Fail \/ Confirm
    \/ SupersedeOther \/ Settle \/ Unanswered

Next == Jobs \/ Probe \/ People \/ Drift

\* A run that gets to read the incident: a healthy one has a new state.
Hourly ==
    /\ (\E pub \in NewPub : Heal(pub, "full")) \/ Fail
    /\ job' # Idle

\* There is a run every hour, and GitHub does not fail all of them at one request.
Fairness == SF_vars(Hourly) /\ SF_vars(SupersedeOther) /\ SF_vars(Settle)

Spec == Init /\ [][Next]_vars /\ Fairness

----------------------------------------------------------------------------
TypeOK ==
    /\ \A i \in Issues :
         /\ issues[i].status \in {None, "open", "closed"}
         /\ issues[i].mark \in {"plain", "current", "superseded"}
         /\ issues[i].recovered \in BOOLEAN
         /\ issues[i].signal \in Signals \cup {None}
         /\ issues[i].streak \in 0..2
         /\ issues[i].ids \subseteq Pub
    /\ health \in {"ok", "transient"} \cup Signals
    /\ published \in Pub \cup {NoPub} /\ proof \in Pub \cup {NoPub}
    /\ acts \in 0..Acts
    /\ good \subseteq States /\ muted \in Signals \cup {None}

\* findCanonicalIncident never finds two incidents: it would end every later run
\* before anything is reported or closed, until somebody edits the issues.
OneSlot == ~Ambiguous

\* A job marks an incident as recovered, or closes it, only when since the last
\* failure on record two different states were healthy; or one, for an incident
\* about one targeted surface; or one that is on the site and that Site Health
\* confirmed.
Earned(i) ==
    \/ Cardinality(good) >= 2
    \/ good # {} /\ job.source = "targeted" /\ issues[i].signal \in Targeted
    \/ good # {} /\ job.kind = "confirm" /\ published = job.pub

RecoveryEarned ==
    [][\A i \in Issues :
         (/\ issues'[i].recovered
          /\ ~issues[i].recovered \/ (issues'[i].status # issues[i].status /\ acts' = acts))
         => Earned(i)]_vars

\* An incident that people closed stays closed for its signal until the signal
\* recovers or another one fails.
SuppressionRespected ==
    [][\A i \in Issues :
         (issues[i].status # "open" /\ issues'[i].status = "open" /\ acts' = acts)
         => muted # issues'[i].signal]_vars

\* When the publication stays healthy, no incident stays open.
Closes == <>[](health = "ok") => <>[](Open = {})

\* When a signal keeps failing, an open incident shows it, or people closed the
\* incident it is written on.
Alerts ==
    \A s \in Signals :
        <>[](health = s) =>
        <>[](\E i \in Issues : /\ issues[i].mark = "current" /\ issues[i].signal = s
                               /\ issues[i].status = "open" \/ muted = s)
=============================================================================
