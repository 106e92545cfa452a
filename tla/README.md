# A verification of hermes-railway-watchdog in TLA+

The watchdog is a Python program that a GitHub Actions schedule starts every five
minutes. It probes seven services, restarts what it may restart, mails what a human has
to know, and exits. This directory models what it decides and does, checks the model with
TLC on small instances, and proves the central results with TLAPS for all of them.

Paths below are relative to the repository: `src/watchdog/x.py` is the package's module x.

## 1. Inventory

| Part | State it keeps | Operations | Talks to |
|---|---|---|---|
| `orchestrator.py`, Railway mode | per target: the classification of the first probe, the loop counters, a budget | `run` (thread pool), `_recover_one`, `_recover_gateway_only`, `_recover_container`, `_do_gateway_restart`, `_wait_container_up`, `_probe`, `_health_probe` | Railway client, Hermes client, `classify` |
| `orchestrator.py`, self-hosted mode | the same | `_selfhosted_one`, `_sh_probe`, `_sh_done` | Hermes client, web UI, `classify_selfhosted` |
| `state.py` | none | `classify`, `classify_selfhosted`, `classify_webui` | - |
| `hermes.py` | session cookies of one target | `check_health`, `restart_gateway`, `check_webui` | the dashboard over HTTP |
| `railway.py` | none | `get_service_status` (retried), `restart_current_deployment` (never retried), `_parse_status` | Railway's GraphQL API |
| `http.py` | the end of a budget | `Budget.remaining/expired/clip`, `Timeouts`, `RetryPolicy` | - |
| `notify.py` | incident markers, in a mail inbox: the only state that outlives a run | `process`, `_process_host`, the store's `active_condition`, `mark_active`, `clear` | AgentMail over HTTP |
| `cli.py` | none | `main`: load, select, run, summarise, notify, exit code | all of the above |
| `config.py` | none | `load_config`, `select_target` | environment |
| `errors.py` | none | `failure_reason` | - |
| `redaction.py`, `markdown.py` | none | string substitution | - |
| `.github/workflows` | - | schedule, concurrency group, job timeout | starts and kills runs |

What is hard about it:

- *Stale evidence.* A restart is decided on a probe, and everything may have changed by
  the time it is requested. The code re-probes before each mutation, along two strategies
  that call each other. Correct: no restart without a fresh failing probe, and no second
  restart of the same thing, on any path (`MutationEarned`, `AtMostOnce`, `RestartEarned`).
- *Lost answers.* A request may time out after the service has carried it out. Correct:
  a mutation is not sent again, and a run never claims a recovery it has not seen
  (`AttemptsBounded`, `RestartTruthful`, `OutcomeHonest`, `RestartEarned`).
- *Answers about something else.* Railway's reply names six ids and two deployments, and
  its status outlives the instances. Correct: only one's own service is restarted, and only
  a running instance passes for one (`RestartsOwn`, `RunningIsSeen`, `StatusComparable`).
- *Budgets.* A deadline may pass between any two steps, and must not look like a failure
  of the service (`NoBlindRestart`, `ReasonGiven`), nor be slept past (`BudgetKept`), nor be
  what termination rests on (`Termination`).
- *Exceptions.* Any step may raise, after a mutation too, and one `except` clause builds
  the outcome (`OutcomeHonest` holds; what the outcome names is another matter, see 6).
- *Rejected logins.* Retry loops at three levels each may log in again, and an account may
  be locked for it. A rejection the client is told of is not repeated; one whose answer is
  lost looks like an outage, and is retried (`NoHammering` bounds both).
- *Two calls that should be one.* An email and its marker are separate calls, in a job
  that may be killed between them (`MarkerWasMailed`, `MarkersConverge`).
- *Many runs.* Whether an alert is sent depends on what all earlier runs left in the inbox
  (`NoRepeat`, `RecipientKnows`, `LingeringMarkerCleared`), which is append-only, paged and
  shared with other mail (`ImplementsRegister`, `MarkersAlternate`).
- *A job that is shorter than its work.* Budgets follow each other on a bounded pool, the
  job has a limit, and nothing is mailed before all is done (`RunBounded`,
  `OutageReported`); whatever goes wrong must not look green (`ExitHonest`).
- *One document, two modes.* (`OwnServices`, `ModesSeparate`.)
- *Text transformations that undo each other.* Masking, collapsing and escaping do not
  commute (`NoSecretShown`, `MaskedWhole`, `RendersAsWritten`).

`PROJECT.json` lists each of these hazards at its line, with the properties about it.

## 2. Modules

| Module | Models |
|---|---|
| `HealthAnswer` | `HealthResult` of `hermes.py` |
| `HealthState` | the Railway statuses and `classify` of `state.py` |
| `RailwayReply` | `_parse_status` of `railway.py`: from a reply to a `ServiceStatus` |
| `RailwayClient` | `_post` with its retries, backoff and budget, attempt by attempt |
| `Recovery` | the orchestrator in Railway mode: all targets of one run on a bounded pool |
| `RecoveryContract` | an abstract specification of what a recovery promises |
| `RecoveryInvariant` | the inductive invariant of `Recovery` |
| `RecoveryRefinement` | how `Recovery` implements `RecoveryContract` |
| `HermesClient` | `check_health` and `restart_gateway`, request by request |
| `SelfHosted` | the orchestrator in self-hosted mode, composed with `HermesClient` |
| `SelfHostedInvariant` | the inductive invariant of the two |
| `Notifier` | the notifier and its incident store over any number of runs |
| `NotifierInvariant` | the inductive invariants of `Notifier` |
| `MarkerRegister` | an abstract specification of the store: one register for each key |
| `IncidentStore` | the store over an inbox, shown to implement `MarkerRegister` |
| `Watchdog` | schedule, job, pool, budgets and notifications in time, composed with `Notifier` |
| `WatchdogInvariant` | the inductive invariant of `Watchdog` |
| `Config` | `load_config`, `select_target`, and `main` up to the run |
| `PublicText` | what `render_summary` does with a name: redact, sanitize, redact |
| `CommandLine` | `Config` and `PublicText`: `main` on either side of the recoveries |
| `Recovery_proofs`, `RailwayClient_proofs`, `SelfHosted_proofs`, `Notifier_proofs`, `NotifierConvergence_proofs`, `IncidentStore_proofs`, `Watchdog_proofs`, `CommandLine_proofs` | theorems and their proofs |
| `RailwayReplies` | a vocabulary of raw replies for the instances |
| `MCRecovery`, `MCSelfHosted`, `MCRailwayClient`, `MCNotifier`, `MCIncidentStore`, `MCWatchdog`, `MCCommandLine` | instances for TLC |

How the parts fit together. `Recovery` takes its statuses from the parser: an instance's
replies are `ParseStatus` of raw replies, and each read may also fail, as `RailwayClient`
shows it may. `Recovery` and `SelfHosted` end in outcomes, whose kinds are `Outcomes` of
`Notifier`. `Notifier` reads markers as registers; that the inbox is one is what
`IncidentStore` shows. `Watchdog` runs the steps of `Notifier` inside a job.

How state and actions correspond to the code:

**Recovery.** `run[t]` holds the locals of target t's thread. `pc` is what the thread does
next (`"status"` and `"health"` are the two reads of a probe, `"decide"` acts on them,
`"containerReply"` and `"gatewayReply"` wait for the answer to a mutation); `site` is the
call site of the probe (the first probe, the rechecks of the two strategies, the poll of
`_wait_container_up`, the probe after it, the verification), which together with `pc`
stands for the call stack; a thread that is done has no locals. `outcome[t]` is the `TargetOutcome`; `hist[t]` is a history
variable that no action reads. The two services are free: each read returns any reply of
`StatusReplies` or `HealthReplies`, or fails. A budget is one Boolean, `expired`, which
may become true between any two steps. That is all the code asks of it, but it is more
than time allows: an expiry between two adjacent statements is possible in the model
although it is unlikely in the program. A mutation has two steps, the request and its
answer, so that a lost answer is a mutation that was requested and raised. The wait's
sleeps, the text of errors, failure reasons and elapsed times are left out.

**RailwayReply and RailwayClient.** A raw reply keeps what `_parse_status` looks at: whether
every object is where it should be, which of the six ids differ, the active deployments and
the latest one with the status of each, its instances and its timestamps, which may be
garbled or lack a zone. In the client a step is one attempt, its answer and the backoff that
follows. `left` is `deadline.remaining()`; an attempt takes any part of it, because `wait_for`
cuts it off. `railway` is a history of what Railway saw and did, so that a lost answer and a
`false` can be told apart.

**HermesClient.** A step is one request and its answer. `call` is the operation in
progress: `"login"`, `"get"` and `"post"` are the requests, `again` is the one re-login
after a 401, `posted` separates the poll, whose exceptions are swallowed, from what comes
before it. `session` is the cookie jar, which outlives a call. A POST whose answer is lost
may or may not have been carried out, and a login whose answer is lost may have been rejected:
`server`, a history of what the dashboard did, counts the rejections the client was told of
(`rejected`) and those it never heard of (`unheard`). `"crash"` is an exception outside `HermesError`: the
port of a `Location` header is parsed by `urlsplit`, which raises `ValueError`.

**SelfHosted** adds the thread of one target (targets share nothing in this mode), and
calls the client: `AskHealth` and `Restart` begin a call, `HealthRead`, `HealthFails`,
`Restarted`, ... take its answer. Budget and session are shared with the client.

**Notifier.** `marker[k]` is what `active_condition` would return for key k. `Begin` takes
any result a run can have; `TakeTarget` and `TakeHost` look a key up and decide on the
calls that follow (`todo`); `Call` makes the next of them. Deciding and looking up are one
step because runs do not overlap, so that nobody else writes markers. `Abort` ends a run
at any point, with a failed call or a killed job; `AbortInDoubt` ends it with a call that
was carried out but not confirmed. `told` and `alerted` are histories of what was mailed.

**IncidentStore.** `inbox` is the messages, newest last; nothing is ever deleted from it. A
message contains a key or none and says a fingerprint, RESOLVED (`None`), or something else
(a reply to a marker quotes its key). A lookup reads one page. `answer` is what the caller
acts on; `clear` looks up for itself and then sends, in two steps. A send that is lost is
`Fail`, one that is delivered in doubt is a delivery. `active`, the refinement mapping, takes
the newest of *all* markers of a key.

**Watchdog.** Time is counted in periods of the schedule (5 minutes). `job.age` is what the
workflow's `timeout-minutes` limits; `thread[t].age` is what a target's budget limits.
`Tick` lets a period pass when nobody has to act at once: no worker is free for a queued
target and no recovery is out of budget. A thread that waits for the web UI's answer
(`CheckWebui`) is bounded by phase timeouts only and may be late. What a recovery does is left
to `Recovery` and `SelfHosted`: `Finish` takes any outcome. `main`'s end is `ReportNobody`
(dry run, or no credentials), or `HandOver`, the steps of `Notifier`, and `Return`,
`NotificationFails`, `ListingCrashes` or `CutOff`.

**Config, PublicText, CommandLine.** A document is a record of what `load_config` looks at;
`Documents` are the records with a value in every field, right or wrong, and
`Loaded` is the whole of `load_config`; `Load`, `Select` and `BuildRuntime` are the three places
where `main` may end with 2. A text is a sequence of characters, of which an instance has one
or two of each kind; the steps are the three passes of `render_summary`. `Scanned` reads a text
from the left, as `str.replace`, `str.translate` and a reader of Markdown do. The mask is one
character that no secret contains, so that a secret that overlaps the text `[REDACTED]` is
outside the model; secrets come longest first, as `Redactor` sorts them.

## 3. Runs

| Run | Question | Bounds | States |
|---|---|---|---|
| `recovery` | What may recoveries do, what do they report, do they implement `RecoveryContract`, does every target get its outcome? | 2 targets on 1 worker, 2 health retries (as shipped), 3 polls, 7 kinds of status reply | 306 329 |
| `railway_client` | What may one call do to Railway, and what does a caller hold after it? | 2 retries, 4 units of budget, backoff 1, 2, 4; every mix of the parts of a reply | 5 143 |
| `selfhosted` | What may a self-hosted run do, and what does it report? | 2 retries (as shipped), 2 polls, 1 platform | 118 208 |
| `notify` | Are the emails and markers right, and do markers go away? | self-hosted mode, 2 targets, 2 conditions, 1 run cut short | 650 841 |
| `incident_store` | Does the inbox implement a register for each key? | 2 keys, 3 conditions, pages of 3, 5 messages, 2 of them mentions | 287 238 |
| `watchdog` | Is a run over in time, and is an outage reported? | Railway mode, 3 targets on 2 workers, budget 1, limit 3 | 910 400 |
| `watchdog_host` | Is a green run good news? | self-hosted mode, 2 targets on 1 worker, budget 2, limit 3, 1 notification cut short | 2.9 million |
| `command_line` | What may a run rely on, and what does its summary show? | documents of 2 targets with any defect, names of 5 characters, 3 secrets | 271 074 |
| `named`, `accepted`, `later`, `outage` | the disagreements of section 6 | as `recovery` (1 target), `selfhosted`, `notify` (Railway mode), `watchdog` (budget 2) | - |

Why the bounds are enough. Targets of `Recovery` meet only in the pool, for which two are
enough: one runs or has run while another waits. The seven replies are one for each branch of
`classify` and each way `_parse_status` can fill the id to restart. The loops behave the same at
each turn, so that three polls stand for the shipped twenty (and two for the client's ten).
Two retries have a first, a middle and a last attempt, and backoffs below, at and above what
is left of four units. One platform can be ignored or not, down or not. Two targets are what
`host_down` needs; one cut run leaves a marker that lingers, and the number of runs is not
bounded at all. A page of three is filled by two mentions and a marker, and five messages are
an incident, its change, its end and the mentions in any order. Three targets on two workers
need two rounds of budgets; a limit of three periods lets them end in it, and is exceeded by
two rounds of budget 2 (the shipped proportions: 10-minute budgets, a 15-minute job, seven
targets on three workers). Names of five characters hold the longest secret with anything
around it; of the three secrets one is part of another, and one begins as another ends, so that
there are names in which they nest and names in which they cross. What section 5 lists as proved holds without any of these bounds, in Railway mode
too for `Notifier`.

Where an invariant was strengthened until it is inductive, the run checks the strengthened
one (`IInv`, `ClientInv`, `SInv`, `CInv`, `WInv`), of which `TypeOK` is a part. `RunBounded`
is stated of runs in which no web UI check outlasts its target's budget, which is all of them
where none is configured; the code bounds such a check by phase timeouts only
(`TargetInBudget`, section 6).

`recovery`, `selfhosted` and `command_line` do not check for deadlock because the program
ends; that it does not stop before its end is `Termination` in the first two.

## 4. Fairness

`Recovery!Spec` has weak fairness of each target's steps, `SelfHosted!Spec` of the
thread's, `Notifier!Spec` of a run's: a thread does not stop between two steps, because
every request it waits for has phase timeouts (`http.py`, `Timeouts`), every sleep has a
length, and an operating system schedules runnable threads. Nothing is assumed of `Expire`:
termination does not depend on a budget. Nothing is assumed of `Abort` and `AbortInDoubt`.
That runs keep starting (`Begin` in `Notifier`) is what the schedule does;
`LingeringMarkerCleared` needs it.

`Watchdog!Spec` assumes that the schedule fires (`Tick`), that a pending run is started
(`Launch`), that a job's pool makes steps or the runner kills it (`Pool \/ Kill`: neither alone
is certain), and that `main` goes on once the pool is done. Nothing is assumed of how long a
recovery takes, other than that it ends with its budget unless it waits for a web UI.
`OutageReported` needs all four.

## 5. Proofs

`Recovery_proofs` proves, for every number of targets, workers, retries and polls, every
threshold, and every set of replies: `TypeOK`, `MutationEarned`, `OutcomeHonest`,
`ActionReported`, `AtMostOnce` and `NoBlindRestart`. It uses `RecoveryAssumption` (the
parameters are numbers and the replies are well-typed), `NoneAssumption` and
`ThresholdAssumption`.

None of the properties is inductive: they speak of finished targets, or of the step that
requests a restart, and say nothing of how a thread got there. `IInv` does, for one target
at a time, in four parts. `InPlace` says which stages belong to which call site; `Grounded`
that a thread about to request a restart still holds the replies that justify it, and that
an absent health answer means an expired budget or a full series of retries; `Recorded`
that the counts of restarts and failing probes are those of the place where the thread is;
`Settled` that a finished target has an honest outcome. A step of one target leaves the
other targets' parts alone (`LocalStep`), so that each action is a lemma about one record.
`MutationEarned`, `OutcomeHonest` and `ActionReported` are then parts of `Settled` and
`Recorded`, and the action properties follow because only `IssueContainer` and
`IssueGateway` change the counts (`OnlyIssueRequests`), both from a state that `Recorded`
and `Grounded` describe. TLC checks `IInv` as an invariant of the run `recovery`.

The last part of the module proves that `Recovery` implements `RecoveryContract`. A step of
a target is one of three: it requests a restart (`ContainerRestarts`, `GatewayRestarts`:
`Grounded` says that the look at hand calls for it, `Recorded` that nothing forbids it), it
ends the thread (`Ends`, then `EndsCloses`: the invariant after the step says that the
outcome fits the history), or it goes on (`Quiet`, which the contract sees as another
look). The contract's lines are what a reader would sign; that the two strategies that call
each other, the waits and the exceptions keep to them is the theorem.

`RecoveriesAdvance` is the part of termination that needs no fairness. `StepsLeft` counts the
steps a thread may still make, from its place, its call site and what is left of the caps on
retries and polls; `Advances` says that every step of a thread leaves fewer, and never less than
none. It holds whatever the replies are, because each loop uses up an attempt and each strategy
calls the other once. What `Termination` adds is that a thread that can step does: fairness and
ENABLED. No configuration names `Advances`; as a PROPERTY of `MCRecovery`, and its counterpart
as one of `MCSelfHosted`, TLC finds it true.

`RailwayClient_proofs` proves, for every budget, number of retries, base of the backoff and
set of replies: `TypeOK`, `AttemptsBounded`, `RestartTruthful`, `RestartsOwn`,
`RunningIsSeen`, `BudgetKept` and `StatusComparable`, from `ClientAssumption`. What the bounds
on requests lack to be inductive is how the loop counts: `ClientInv` says that in a call in
progress every attempt but the one to come has been a request, that a restart has its first
attempt, and that the caller holds an acceptable reply or none. `BudgetKept` needs that the
clipped backoff is not more than what is left (`ClippedBackoff`).

`Notifier_proofs` proves, for every number of targets, every set of conditions, both modes
and any number of cut runs: `TypeOK` and `MarkerWasMailed`. It uses `NotifierAssumption`
and `NoneAssumption` (that no result is the absent one). `MarkerWasMailed` is not inductive
because a plan may already hold a marker. `NInv` adds that whatever is left of a plan is one
of the plans the notifier makes (`Planned`), in which a marker comes after its email or its
email is on record, and that the queue only names targets of the run (`Enlisted`). What a
cut run leaves undone is dropped with its plan (`StopKeeps`), and a call in doubt is a call
that was made (`CallKeeps`).

`NotifierConvergence_proofs` proves `MarkersConverge`, `RecipientKnows` and `NoRepeat` from
the same assumptions. They speak of a run at its end; `CInv` says how it gets there.
`Outlook(k)` is the marker a key will have once the calls that are left were made; a call
never changes it (`CallAdvances`), a plan sets it to what the outcome asks for (`MadeFor`),
and `OnCourse` says that every key of the run still waits or has the outlook its outcome asks
for. `InStep` says that a marker and the last email about its key agree, but for the one key
whose email was sent and whose marker was not (`Owed`); from this the recipient knows what
the marker says, and an alert that the marker calls for is news. TLC checks `CInv`, which
contains `NInv`, in the run `notify`. `NoRepeat` forbids to mail a condition that is still the
last one mailed about its key. It does not forbid that a condition which comes back after another
is mailed again with no RESOLVED between: the notifier compares with the newest marker only.

`IncidentStore_proofs` proves, for all sets of keys and conditions, every limit of a page and
every inbox: `TypeOK`, that the store implements `MarkerRegister`, and `MarkersAlternate`,
from `IncidentStoreAssumption`: fewer messages mention a key without being its marker than
fit on a page. That is what makes one page enough (`PageEnough`: the newest marker is buried
under mentions only). The invariant `StoreInv` says that the answer at hand is still what the
register holds, and that a key that is being cleared has an incident.

`SelfHosted_proofs` proves, for every number of polls and retries, every set of platforms,
every set of replies, with and without a web UI: `TypeOK`, `RestartEarned`, `OutcomeHonest`,
`RecoveryOwned`, `NoHammering` and `ReasonGiven`. Its assumptions are `SelfHostedAssumption`
and `HermesAssumption` (the parameters are numbers, there is at least one poll, the replies
are well-typed, and every reply that counts as an answer has the status `check_health`
asks for), and that none of the values is the absent one. Here two program counters are
nested: the thread waits while its client is in a call, and a request may be answered, lost,
redirected, followed by a login or cut off by the budget. `SInv` has a part for each thing
that must survive all of these. `CallInPlace` says which call may be in progress at which
place of the thread, and that a call which returns without an error holds an answer, or has
posted; `ThreadInPlace` says what each place of the thread knows, in particular that a verdict
is `host_unreachable` just if there is a reason for it; `StrikesCounted` that each probe but
the first was earned by the one before, so that two that blamed the gateway alone come before
a restart; `RestartCounted` that nothing is posted twice, and that who polls or verifies comes
after a restart that was carried out or redirected; `LoginsCounted` how many rejected logins
the client was told of: none while the first probes go on, as one ends the run, at most one for
each poll that is over, and for a verification (`Earlier`) one less than there are polls, because
the last one was answered. These parts are `Core`. `RejectedCounted` counts the rejections whose
answer was lost as well. A call of the client leaves at most one rejection behind, because a
rejected login ends it or the poll it was for; so there is one at most for each try of a probe
that failed and for each poll (`AtMost`), and the last try of a probe that did not fail leaves
none. That gives `RejectionsInAll`: `health_retries` + 1 by the end of the
first probe, `health_retries` more by the end of the second, and after a restart
`health_retries` for each of the three probes and `poll_attempts` for the polls and the last try
together. All of these bounds are reached in the run `selfhosted`. The steps of the client and of
the thread are lemmas of their own.

`RecoveryOwned` does not catch a redirect that passes for a restart: it allows one, and
`AcceptedMeans2xx` (section 6) is about it.

`RunsAdvance` is the counterpart of `RecoveriesAdvance` for the thread and its client: a
dashboard that answers 401, redirects or loses answers uses up re-logins, retries and polls, so
that nothing it does keeps a run going.

`Watchdog_proofs` proves, for every number of targets and workers, every budget and time limit,
and both modes: `TypeOK`, `ExitHonest`, `RunBounded`, and `TargetInBudget` where no web UI
is checked. It uses `WatchdogAssumption`, which contains the notifier's assumptions.

- What a run does to the markers is taken from the notifier's proofs: `Watchdog` uses the steps
  of `Notifier` and changes its variables in no other way (`NotifierIsUsed`, a refinement), so
  that `CInv` is an invariant here, too, although jobs are killed, cut off and crash in the
  middle of them. `ReportsFindings` connects the two: what is handed over is what the threads
  have found. `ExitHonest` follows at `Return`, when nothing is left of the notifier's plans.
- `RunBounded` is an argument about rounds. With c workers, target t starts in round
  (t - 1) div c. `StartedInOrder` says that threads start in the order of the targets and none
  is older than its job; `OnTime` that a thread which has not been started is no later than the
  start of its round, and one that is busy no later than that plus its own age. Time only
  passes for a target t that waits if all workers are busy, with c targets before t. The
  smallest of c numbers below t is at least c below it (`Ahead`, with the cardinality theorems
  of `FiniteSetTheorems`), so that one busy target belongs to an earlier round
  (`WaitsForSomebody`, `NextRound`); as it has some of its budget left, t's round has not
  begun, and t is still on time a period later (`BusyTickKeeps`).

`CommandLine_proofs` proves, for every environment, every argument and every number of
targets: `ConfigTypeOK`, `OwnServices` and `ModesSeparate`, from `ConfigAssumption` (a document
has a value, right or wrong, in every field). The invariant `ConfigInv` says that what `main`
holds is `Loaded` of the document and, after `_select`, `Chosen` of it. Then `OwnServices` is
a fact about accepted documents (`AcceptedTargets`: the checks of `load_config` are made on what
was read of the targets, and reading changes neither aliases nor, in Railway mode, ids), and
`ModesSeparate` says that `Loaded` reads nothing the other mode owns (`ForeignIsIgnored`).

The rest of the module is about texts, for every alphabet, every name and every set of secrets
that `PublicTextAssumption` admits. `TextInv` says what the text is at each stage, and the
theorems are facts about the three functions. The provers have no induction over texts, but the
well-founded order of the numbers gives one over sets of positions (`Upward`, `Downward`), and
`ScannedIs` turns a scan into an equation for each position.

- `RendersAsWritten`, for all secrets. What is written for one character is read back as that
  one (`ReadsBack`), because a backslash of the text is itself escaped; by induction from the
  end, a reader sees what was translated (`RenderedTranslated`).
- `NoSecretWritten`, for all secrets: neither what `redact` returns nor the summary contains a
  secret as it is written. The mask is in no secret, so that masking one brings no two ends
  together: what occurs afterwards occurred before (`ReplacedShows`).
- `NoSecretShown`, as a reader sees it too, and `SummaryReads`, that the second redaction changes
  nothing a reader sees, under `PlainSecrets`: no secret contains whitespace, a backslash, an `&`
  or the end of an entity, or is the inside of one. Without it they fail: collapsing may make
  `a b.` of a name that had two spaces in it, and escaping the dot hides it from the second
  redaction but not from a reader; and a secret that is a piece of an escape has the second
  redaction cut it in two. A password, a URL with a query, may be such a secret: what a name
  that contains one becomes is left open.
- `MaskedWhole`, for all secrets, of each name in which no two of their occurrences cross, that
  is, overlap without one being a part of the other. The condition is one on the name because
  only there it matters: most sets of secrets have some that begin as one ends, and few names
  have them overlap. `Hides` relates a text to what was masked of it: where each of its characters
  comes from, in steps that go up the text. One more secret keeps it (`HidesMore`): what occurs in
  the masked text occurred in the name (`ShownBefore`), so that nothing crosses there either
  (`ClearAfter`); what occurred in the name and is not masked is found (`ShownAfter`,
  `NonePassed`); and a secret that overlaps a longer one is covered as a whole (`CoveredWhole`),
  which is where the longest has to be the first. Of two occurrences that cross, the end of one is
  left in sight: of `ababa` with the secret `aba`, `ba` stays, though `redaction.py` says that
  overlapping secrets are masked fully.

The instance of `command_line` satisfies `PlainSecrets`.

Only model-checked: `Termination` of both modes, `LingeringMarkerCleared` and `OutageReported`.
They are liveness under fairness, which is out of TLAPS's reach; `Advances` is the part of the
first that is proved.

## 6. Where code and documents disagree

Each of these is a run that TLC finds violated; `PROJECT.json` quotes the lines.

- `MutationNamed` (`named`): an exception after a restart was requested (its answer was lost,
  a status read of the wait failed) reports the action `none`.
- `AcceptedMeans2xx` (`accepted`): a redirect within the origin passes for an accepted gateway
  restart.
- `LaterOutageAlerts` (`later`): a recovery email whose marker was not cleared suppresses the
  alert of the next outage with the same condition.
- `OutageReported` (`outage`): with two rounds of 10-minute budgets in a 15-minute job, each
  run of an outage is killed before it mails anything, and nobody is told.

The modules also define, marked "NOT guaranteed", what a document or comment says and the
code does not keep. TLC finds each violated when it is named as the INVARIANT of the
configuration given here.

| Definition | Configuration | What the code does |
|---|---|---|
| `RestartsCurrent` | `MCRecovery` | with an active deployment and a failed latest one, restarts the latest, not the current one |
| `WebuiDownAsked` | `MCSelfHosted` | a budget that expires between the health check and the web UI check reports `webui_down` without a request |
| `RecoveryExplained` | `MCSelfHosted` | an accepted restart without effect gives no reason |
| `HostReached` | `MCNotifier` | a `--service` run of one unreachable target mails that the host is reachable again |
| `TargetInBudget` | `MCWatchdogHost` | a web UI that trickles its answer outlasts the budget |
| `NotHalfRestarted` | `MCWatchdogHost` | a job is killed between a restart and its verification |
| `NoTraceback` | `MCWatchdogHost` | a listing of the wrong shape leaves `main` as a `TypeError` |
| `ActiveByCount` | `MCIncidentStore` | the newest marker decides, not the number of each kind, as the class's comment says |
| `AliasOpaque` | `MCCommandLine` | `$` lets an alias end with a newline |

## 7. Not modelled

- The second layer of the redactor (regular expressions for secret-shaped text) is about
  character classes; it only masks more. What becomes of secrets that cross in
  a name, or that contain whitespace or a character of Markdown's own, is said by
  `NoSecretWritten` only (section 5).
- The layout of summaries and emails (`render_summary` beyond a name, `build_email`) chooses
  words. `failure_reason` is modelled as the reason it gives, not as its text.
- JSON and URL parsing is a choice among its results.
- Phase timeouts are not measured: a request takes any part of what is left (`RailwayClient`)
  or may be late (`CheckWebui`).
- The AgentMail service is trusted to list the newest messages first and to show a marker as
  soon as it was sent; no run checks what a stale listing would do, as the store has nothing
  against it.
- A timestamp without a zone makes `classify` raise `TypeError`; `StatusComparable` says so by
  its condition `HasZones`, and `Recovery` has only timestamps with one.
- `keepalive.yml` and `test.yml` do not touch a watchdog run.

## 8. Plan

Done: every component has a module; the two places where one component relies on another's
promise (`RecoveryContract`, `MarkerRegister`) and the use of `Notifier` by `Watchdog` are
refinements with proofs; every safety property a passing run checks is a theorem, one of those
about texts (`NoSecretShown`) under a condition on the secrets. What is left:

1. A theorem that joins `Recovery` and `Watchdog`: which outcomes `Finish` may take.
2. A condition on secrets that is weaker than `PlainSecrets` and still enough.
3. The parts of `notify.py` and `cli.py` that choose words, if a property depends on one.
