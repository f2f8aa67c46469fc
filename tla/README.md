# A verification of splock in TLA+

splock drives a coding plan from recon to tested code with command-line programs
under `src/bin`.  Nothing in it is a server: every command is a short process (the
overnight driver a long one), and all of them meet in the files of a plan
directory, `docs/plans/<slug>/`.  What can go wrong is therefore what goes wrong
between processes and files: a read that is stale when it is used, two files that
have to agree, a file that is created before it is written, a process that dies
between two steps, a guard that undoes more than it should.  The modules here model
those processes one step at a time, TLC checks them on small instances, and TLAPS
proves their safety for every instance.

`PROJECT.json` lists the components, the runs, which lines of the source each
definition stands for, the hazards with the properties that cover them, and the
theorems.

## The system

| component | state | operations | talks to |
|---|---|---|---|
| task-state store, `_update_orchestrator` | `_state.json` (status, iteration history, lifecycle, retry counts), `_orchestrator_log.jsonl`, `_orchestrator.md`, `_orchestrator_closed.lock` | status update, `--from-develop-plan` update, close, resync, retry count up and reset | JSONL log, page renderer; called by the operator, the chain, the picker, the planner, the retry loop |
| picker, `_orchestrator_query` | none | next ready task; closes a plan that is all done | reads the store without its lock |
| JSONL log, `_jsonl_log` | the bytes of `_orchestrator_log.jsonl` | append a row, repair the last line, read | every command that logs |
| log merge driver, `_git_merge_jsonl` | three versions of the log | three-way merge | git |
| divergence check, `_state_divergence` | none | replay the log, compare with the store | log and store |
| overnight driver, `_chain_overnight` | `_chain_running.lock`, `_chain_sessions.json`, `_operator_inject.md`, the chain's rows of the log, a completion summary for each chain | start, resume, drive phases 2 to 5 under a wall-clock cap, finalize, `--release-lock` | planner and retry loop, one call for each phase; intent registry |
| `chain-pause`, `chain-resume` | `_chain_paused.lock`, the manifest's pause, the inject | pause, resume, resume with an inject | the driver, through the files only |
| retry loop, `_retry_loop` | retry counts in `_state.json`, the working tree, a snapshot of it | test-step loop, phase-boundary review, junction, briefing | coder and reviewer sessions, pytest, git, morning review, fleet |
| planner, `_planner` | `<slug>_plan.json`, its page, `<slug>_orchestrator.json`, `<slug>_amend_log.jsonl` | plan, rewrite, surgical amend, implplan | an agent, the plan verifier, the store (resync) |
| plan verifier, `_verify_plan` | none | strict checks of a plan and of an orchestrator | planner, chain |
| intent registry, `_intent` | `intent_local.jsonl`, the `agent_sessions` table | register, update, pivot, complete, doctor; the hooks | intent dispatch, which appends to the morning-review queue |
| morning-review queue, `_morning_review` | one markdown file a day and plan, an archive, `_index.md` | bootstrap, append, list, four gestures, defer, archive, index | retry loop, intent dispatch, divergence check, markers, issue routing, picker |
| markers, `_marker` | `list.md`, detail files, `prefix_registry.md` | create, close, register-prefix, validate | issue routing, the queue's route-marker |
| issue routing, `_route_issue`; lessons | `outstanding_issues.md`, escalations, a counter per session, plan directories, `lessons.md` | fix now, dump, marker, promote, escalate; add a lesson | markers |
| fleet, `_fleet` | per plan a state file, an event log and a ledger of runs; the hub page, the meta file | init, update, hooks, render, seed, spawn, runner, close | retry loop, planner and store, by hooks that never raise |
| evaluation, hooks, guards, lint, renderers | score files; otherwise none | compare, allow or refuse, derive pages | |

### What is hard in it

* **Interleaving.**  `_state.json` is replaced whole by five kinds of writer.  The
  sentinels of the chain are created with `O_EXCL`, empty, and written afterwards;
  every later use is a read followed by a write or an unlink.
* **Atomicity across files.**  A status is written before its log row; the lifecycle
  field before the marker of a close; a log line before its newline.
* **Crashes.**  Any process may be killed between two steps; the kernel drops its
  flock, the files stay as they are.
* **Stale reads.**  The picker, the divergence check, the retry budget and the amend
  policy are read without the lock and used later.
* **Side effects of a guard.**  The retry loop restores a working tree that other
  processes write in at the same time.
* **Merging.**  Two branches append to one log, and git merges it by a driver.
* **Half locked files.**  In the intent JSONL and the daily file some writers hold the
  flock over read and write, some over the write only, some not at all; the fleet's
  files have no lock.
* **Gates in different places.**  What a green `/test` means depends on the strict
  contract of the plan, the collect check, the pre-flight and pytest together; what a
  review means on the schema it was bound to and on the reader of its answer.
* **Liveness.**  Everybody waits on one flock; a driver waits on a pause; a review
  loop has no bound of its own but a counter that `--fresh` sets to zero.

### What makes each component correct

* store: an update loses nobody else's update; log and state agree, and a crash
  costs at most one row; *done* is left only with an override; a close is complete
  once it is announced, and announced once; every command returns.
* log: an acknowledged row is found by every later reader, a crash costs one line,
  nothing vanishes without a trace.
* merge: no event is lost, the order of merging does not matter, a replay of the
  result is as recent as either side.
* chain: one driver per plan; a pause is honoured within one phase; a driver ends
  unless it is paused; manifest, log and summary agree about what it did.
* retry loop: the budget is kept; no forged test or conftest outlives a guarded session
  whose plan was unedited; a pass means that the code works, up to two ways around the
  guard; no gate opens on nothing; an answer that cannot be read opens none; every run
  ends.
* planner and picker: an amend changes what its patch says and nothing that has
  started; what reaches the disk can be executed, and is, to the end.
* intent registry: two sessions claim one place only when a check that was passed over,
  or on SQLite one that could not see the other, explains it; the two stores agree; a pending session reaches the table.
* queue: nothing that is written vanishes, a mirror tells what was done, what is
  archived is closed.
* markers and routing: numbers are given once, a row is never lost, a promotion is
  whole.
* fleet: the state has its event, the meta file tells the archive, every run is told.

## The modules

| module | models | extended by |
|---|---|---|
| `OrchestratorStore` | the store, its five writers, the picker's automatic close, the renderer, the divergence check's replay | `MCOrchestratorStore`, `OrchestratorStore_proofs` |
| `TaskBoard` | abstract: what the store promises, one atomic operation at a time | instantiated by `OrchestratorStore` |
| `JsonlLog` | the bytes of the log, its two locks, the repair of the last line | `MCJsonlLog`, `Logs_proofs` |
| `LogMerge` | the merge algorithm as operators, and two branches that git merges | `MCLogMerge`, `Logs_proofs` |
| `ChainDriver` | drivers, `chain-pause`, `chain-resume`, `--release-lock`, the inject | `MCChainDriver`, `Plan_proofs` |
| `ChainLock` | abstract: a lock with one owner, taken back only from a dead one | instantiated by `ChainDriver` |
| `ChainRecord` | what a chain writes about itself: manifest, log, summary, the pause's phase, the cap | `MCChainRecord`, `Logs_proofs` |
| `RetryLoop` | test-step loop, boundary review, the guard of a coder session, pytest and its trust check | `MCRetryLoop`, `RetryLoop_proofs` |
| `TestGates` | pure: junction, pre-flight, pytest over declared tests | `MCRetryLoop`, and through it `RetryLoop_proofs` |
| `ReviewVerdicts` | pure: from a reviewer's answer to verdict and exit code | `MCRetryLoop`, and through it `RetryLoop_proofs` |
| `PlanPatch` | pure: the patch of a surgical amend | `Planner`, and through it `Plan_proofs` |
| `PlanVerify` | pure: the strict checks | `ReadySet`, `TestGates` |
| `ReadySet` | pure: which tasks may start, in what order, the picker's verdict | `Planner`, and through it `Plan_proofs` |
| `Planner` | the planner's runs on one plan, workers, the operator | `MCPlanner`, `Plan_proofs` |
| `IntentRegistry` | the registry with its two stores, the doctor, the hooks | `MCIntentRegistry`, `IntentRegistry_proofs` |
| `MorningQueue` | the daily files, all their writers, gestures and archive | `MCMorningQueue`, `MorningQueue_proofs` |
| `ScheduledMarkers` | the list of markers, its prefixes | `IssueRouting` |
| `IssueRouting` | triggers, routes, counter, promotion, lessons, beside the markers | `MCIssueRouting`, `IssueRouting_proofs` |
| `Fleet` | states, hub, meta, closes, spawns and their runners | `MCFleet`, `Fleet_proofs` |

`Logs_proofs` has three components in three parts, because they need the same facts about
sequences and numbers; their modules have no definition's name in common, which is why
`LogMerge` and `ChainRecord` say `MergeInit`, `MergeNext`, `RecordTypeOK` and so on.
`Plan_proofs` has two, what makes a plan and what drives its execution, so `Planner` says
`PlannerInit`, `PlannerNext` and `PlannerTypeOK`.

An operator whose comment starts with *(wrong)* is a plausible bug in the definition
that follows it.  The specification does not use it: it is there to show that the
property it is paired with in `PROJECT.json` can tell the difference.

### OrchestratorStore

`file` is `_state.json`, `log` the rows of the log, `md` the statuses on the rendered
page, `marker` the closed marker, `lock` the flock on `_state.json.lock`.  For each
process `pc`, `req` and `copy` are its place in the code, its command and the file as
it read it.  A process starts a command, waits for the flock, reads and decides;
an update then writes the file, renders the page, appends its row and lets go.
The two command lines differ as they do in the code: base mode takes one of seven
statuses, `--from-develop-plan` a native name, a smaller authority and the iteration
history with its cap, sentinel and refusal.  The picker decides on an unlocked read
and closes later.  A crash at any location drops the flock and nothing else.

The bytes of a row are one step here (`JsonlLog` has them), and the picker sees the
files between any two steps of a writer.  Left out: exit codes, the derived log and
status-tree pages, schema validation of rows that cannot fail it, the fleet call of
a finished task, and a native status that the code refuses before it takes the lock.

`TaskBoard` is the promise: a board whose tasks move one at a time, whose log is only
ever told a task's present status, and which closes before it is sealed.
`ImplementsTaskBoard` says that every step of the store on the disk is one step of
the board or none.

### JsonlLog

`lines` and `tail` are the bytes, as lines of pieces and what follows the last
newline.  A row reaches the file in order, so what a crash leaves of it is nothing, a
part that does not parse, the object without its newline, or all.  The next
`append_row` repairs: it cuts a tail that does not parse and records the bytes in an
audit row, and leaves one that parses, which is then glued to the next row.  Rows of
`Compound` are appended with the state flock held.

### LogMerge

`Merge` is the driver's algorithm over sequences of rows: group by second and
transition, keep of each group the fuller row, then ours, then the first met; sort by
second.  `Replay` is the divergence check's fold.  The behaviour records rows on two
branches and lets git merge, fast-forward or pick (whose ancestor is the parent of
the picked commit).  Seconds are free: the clocks of two machines, or of one that is
set back, need not agree.  Rows without a task merge like the others.  Versions that
do not parse are left out: the driver exits 1 and writes nothing.

### ChainDriver

`running` and `pause` are the two sentinels, with who created them, for which chain,
and whether their content has been written.  `manifest` is the chain id and the
pause's stamp, `inject` the file of the operator's text.  A driver takes a pending
inject (with `--from-resume`), creates the sentinel, writes it, stamps the manifest,
then for each phase probes for a pause, checks the sentinel again, takes an inject
and spawns; its finalizer removes any pause and its own sentinel.  A release reads the
sentinel (`seen` is the driver whose pid it has in hand), probes that pid, reads the
sentinel a second time for its chain id, unlinks whatever is there, and then removes any
pause.  A pause and a resume are their check and their writes in order: the
check, which reads the sentinel and probes the pid right after, is one step, because
what it finds may be stale at the next step anyway.  `late` and `raced` are history
variables of the properties.

`raced` notes the one thing the sentinel does not survive: a driver that starts while a
release is between its first read and its unlink, with the chain id the release was
called with, or with any once the release has read a second time.  A single release is
enough.  d1 dies and leaves its sentinel, a release reads it and finds d1 dead, another
release clears it and d2 resumes d1's chain: the first release finds the chain id it
expects and unlinks the sentinel of a driver that lives.  It needs not even a second
release when d1, alive at the read, has ended by the probe.  Two releases with no driver
between them do no harm.

A driver process runs once (no pid is used twice) and a fresh chain id is its
driver's name, so a resume is a driver with another's id.  All processes are on one
host: a release does not probe the pid of another, and takes the sentinel of a driver
there whether it lives or not.  A phase is one step that passes or
halts, and the cost and clock caps are among the reasons to halt.  What `chain-resume`
does after its stamp is never reached (see the disagreements below) and is kept as
one step.  The manifest's list of phases, the log rows and the caps are `ChainRecord`'s.

`ChainLock` has an owner and a set of live processes.  `ImplementsChainLock` says that
the running sentinel is that lock as long as no driver starts under the hands of a
release.

### ChainRecord

The same drivers, with the sentinel taken and released in one step and everything a
chain writes about itself in detail: `manifest` with an entry for each phase, `log`
with the rows of the start, of the phases and of the finish, `summary`, one file for
each chain, and `pause` with the phase it names.  Before each phase a driver probes for
a pause, checks the cap (with the estimate added) and the sentinel, and opens the
phase's entry in the manifest; after it, it closes the entry with the verdict and
appends the row; at the end it flushes its summary.  A write may fail, and what the code does then is what the action does: an exception in
the loop leaves the summary at the values it was initialised with.  A pause reads the
manifest and creates its file later.  `happened`, `since` and `clean` are ghosts of a
driver.  One clock stands for wall time, and a phase may last any time the bound allows.

`AccountsAgree` compares the three records of a chain that met no fault with what
happened: the rows of a driver, and the entries of the manifest that are its own, recount
its phases in their order.  Whose the entries are is the manifest's ghost `of`: a resumed
chain's manifest has entries of two drivers, and a fresh chain replaces those of another,
of which nothing is then claimed; `EntriesAreTrue` and `SuccessIsEarned` hold with faults; `CapIsKept` says by
how much the cap may be overrun; `PauseNamesNoLaterPhase` bounds the phase a pause
promises to stop before.  The cost cap and the SDK's usage block are among the
reasons of `halt`; `verdict_for_verify_plan_exit` has no caller and no action.

### RetryLoop

`used` holds the counters of `_state.json`, `surface` what grades the code and the inject
in the plan directory, `head` what of conftest and ini is committed, `works` whether the
code, with the modules its tests import, does what the tests ask.  Four things grade
it: the tests that `tests_enabled` names, the conftest and ini files that are there, a
conftest or ini file added outside `tests/` and the plan directory, and the plan's list
`tests_enabled` itself.  A run reads its budget once, counts an iteration under the flock before
it begins, takes an inject, runs a coder session and pytest, trusts a green result
only if conftest and ini are committed, and asks the reviewer after a red one.  In
phase 5 and on the command line a session is guarded: the code snapshots the surface
before it and restores it afterwards, also when the session failed.  The guard is partial
(`Protected`): it restores the conftest and ini files that it found and the tests that the plan
named then, and sweeps new files under `tests/` and the plan directory only; an added
conftest at the root stays, and is trusted once it is committed, and an edit of the plan
is reported and read again by pytest.  A test that the edited plan no longer names is not
protected, so a session can forge it and put the plan back.  `SessionLeavesNoForgery` and
`PassIsEarned` say what is left: of a run that starts on a clean surface, and whose
sessions each began with the plan unedited, no test and no existing conftest is forged
after a session, and it passes because the code works, or with the list edited, or
with an added file committed.  A boundary review counts `NEEDS_REVISION` alone.

The coder's session may change anything at any time.  The snapshot and the restoration
are one step each; the operator does not edit tests meanwhile; refusals before the
loop (a missing SDK, no runnable test) are ends like any other; one cap stands for
the caps of 3 and 6; the counter's flock is an atomic step, because
`OrchestratorStore` has its steps.

### TestGates and ReviewVerdicts

Two modules of operators for what `RetryLoop` leaves open: which green is a green, and
which answer is which verdict.

`TestGates` follows an entry of `tests_enabled` from the plan to pytest.  A *world*
gives each path its fate: absent, without the node, without a test, not importable,
red, green.  `JunctionExit` is `bin/verify junction` (resolve what is covered, probe
each entry by `pytest --collect-only`), `Preflight` and `Run` are the selection and the
exit code of `bin/verify test-step` and of the chain.  `GateIsEarned`, `NoVacuousGate` and
`GatesAgree` say what a gate that opens shows about the world, and `OthersDoNotCount`
that tests of other tasks do not change it.

`ReviewVerdicts` reads the last message of a reviewer's session: subtype, error flag,
structured output, or a text of pieces (prose, a stray brace, an object) from which the
first object is extracted.  `IterationVerdict` and `BoundaryVerdict` are its two readers,
then come the exit codes of the command line and of the chain.  `ClearAnswersAreVerdicts`:
an answer that keeps to its schema is read as it was meant.  `NoVerdictNoGate`: without
a rubric no gate opens and no iteration goes on.  `CallersAgree`: the callers
agree on what goes on and what stops.

`MCRetryLoop` states both over all small inputs as the invariant `GatesInv`.

### PlanPatch, PlanVerify, ReadySet and Planner

`PlanPatch` is `patch_apply.py`: the bound on what one amend may touch, the address of an
operation and whether it fits, the integrity of dependencies, the reference whose
identifier is ambiguous.  `PlanVerify` is `bin/verify-plan --strict`; `ReadySet` the picker's
ready set, order and verdict over a state and an orchestrator.

`Planner` puts them to work.  `planJson`, `page`, `orch`, `audit` are files of the plan
directory, `state` the task statuses, `sealed` the closed marker, `run` the planner's
runs.  A run checks its gate, asks the agent, and then judges, reconciles, pre-checks,
captures the old bytes, writes, post-checks, renders, resyncs and records, step by
step, beside workers that start and finish tasks by the picker's verdict, an operator
who defers one, and the picker's close.  A fault kills a run, or fails a write or a
render, which restores the captured bytes.  The agent answers with any of the patches
or emissions given.  The schema check of a whole plan, retries of the agent's schema
and the prompts are left out: an agent answers, is exhausted, or breaks.  The resync
is one step here; `OrchestratorStore` has its steps.  The audit row is written by a call that
swallows an `OSError` (`AuditRow`): an amend ends as it would have and has no row.  The ghost
`recorded` says that no amend landed so since the last whole plan, and `RowsAndPageTellThePlan` asks of the rows
only then that they tell the plan; the page shows it in any case, and the lost row of
an amend that was refused takes nothing away.  A row is there whole or not at all.

`AmendIsSurgical` says `Surgical(p)` of every amend that is written.  `Keeps`: the entries the
patch does not address are all still there, in their order, and nothing else is but what
the patch puts or what it addressed and was there before.  A task that the patch does
not put waits for nothing that is not there (`Loose`), unless it did so before or the patch renamed
what it waits for.  Of the entries at most half are `Fresh`.  And no task it edits ran when it was
judged: `moved` is, for each run, what workers have started or what has come into a
replaced orchestrator since.  Three things one would say first are not so, and the
property says what is: a replacement may give an entry the content of another, so
entries are not told apart by what they are; "remove T2, remove T1, add T2" leaves a new
T2 whose edge to T1 nobody checks, because only removals are; and a `reimplplan` while an
amend waits brings tasks, some in flight, that the amend was never judged against.

### IntentRegistry

`rows` is `intent_local.jsonl` (a session's latest row), `table` the database's, `job` what
a process is in the middle of.  `register` appends under the flock, inserts, and on a
collision marks its row blocked and halts or goes on as the policy says; `update`,
`complete` and `pivot` read the whole file without the lock and replace it under it; the
doctor sweeps, completes the sessions whose trigger is met and brings pending rows to
the table; the two hooks insert and delete an unscoped row.  Either store may be out
of reach (`Unreachable`), and what is then caught and what is raised is the code's
answer for that back end (`Caught`).

A transaction of the database is one step: it is serializable in the code.  Areas are
equal or not and two path globs touch or not (`Touches`), but only those the query has
found are compared.  What it finds (`Finds`) is the back end's: MySQL the rows that share
a path with the claim, SQLite those whose JSON text has one of the claim's paths as a
substring (`Within`).  That is not symmetric: a request for `src/a` finds a row that
claims `src/a/f.py`, a request for `src/a/f.py` does not find one that claims `src/a`.
So on SQLite, the default, who registers first decides whether an overlap is seen, and
`OverlapIsExplained` says how far that goes: two open sessions of which one would find
the other are there because a check was passed over, or, on SQLite, because the one that
would be found came second and its own search cannot see the first.  The ghost `passed`
holds which check let whom in beside whom.  Left out is the column
`claude_session_id`, which `register` fills in the same transaction by a statement that
names MySQL's schema (`_intent/register.py:501-506`), and the third back end, `jsonl`,
with which every connection raises what a busy SQLite raises (`_intent/db.py:328-333`).

The doctor judges triggers by file, date or plan status, which here may become true at
any time.  `GoOn = FALSE` ends a behaviour once a rewrite has undone another's row: what
follows is told below.

### MorningQueue

`daily` is today's file of each plan as a sequence of blocks (entries, halt sections,
reports, notes), `archive` the moved file, `lock` the flock of the daily file.  Every writer
is its reads and writes: bootstrap creates a header unless somebody has; an append and
a mirror hold the flock over read and write; a halt section and the fallback header do
not; the report and the index are one step each.  A gesture looks its entry up, runs
its command, mints, and then writes the mirror; `did` is what was done.  The archive checks
and moves.  `lost`, `unseen` and `reopened` record which writer without the flock did harm:
`OnlyHaltsReopen` lets a closed mirror go back to pending only for an entry that a halt
section has set back.

There is one day: a plan has one open file.  The operator may append a note, with or
without an entry, at any time.  The commands a gesture runs are their outcomes; the
acknowledgement row and the evaluation subcommands are not modelled.

### ScheduledMarkers and IssueRouting

`ScheduledMarkers`: `list` is `list.md`, `details` the detail files, `registry` the prefixes,
`told` the event log, `locks` the flocks of list and registry, `cmd` what `bin/marker` is doing
in each process.  `create` refuses by its table (`Refusal`), checks the prefix, takes the flock,
mints the next number, writes detail, row and log row; `close` and `register-prefix` check,
lock, look again and write.  A close moves the first entry of that id.  The operator
retires a prefix by hand.  A write may fail and a command may be killed between any two
steps; its flock goes with it.

`IssueRouting` extends it with `bin/route_issue` and `bin/lessons`: `route` is what they are
doing in each process, `flocks` the holders of the flock of the outstanding file and of
each plan's lessons.  `Evaluate` is the order of triggers, `CheckScope` the three conditions
of a fix at once.  `issues` are the lines of `outstanding_issues.md`, `counter` and `tmp` two
names for inodes in `cells`, so that two processes that rename one temporary name
interleave as they do on a disk; the cap is the default, the environment's or the
guardrail's.  A promotion makes the plan directory, writes the recon, rewrites the line
under the lock, and undoes the directory if the line is no longer open; a marker route
starts `bin/marker create` as a subprocess, which goes on in `cmd` while the caller waits,
and outlives it.  `bin/lessons add` is a read and a write under the plan's flock.  Every
command may fail at a write or be killed.

### Fleet

`dir` and `archive` hold a plan's state file, event log and ledger of runs, `meta` the roster
and the closed rows, `hub` the page as the zones it has and the view they show.  An
`update` or a hook loads, saves and appends its event; a render folds all files in one
step and swaps the page; a close saves the meta file, archives the directory and mints
a successor, which nobody keeps another close from archiving in between (`mixed` notes it); a spawn counts live runs, launches a detached runner and records it; a
runner may be killed, may fail to append its last row, and ends without one when the
child's output is JSON but no object (`RunIsLost`); its session may still tell hooks.
`mixed` also has these runs.  Nothing has a lock.  A
fault is a death between two steps.  The cap on live runs is one or more: a meta file
that says 0 gets the default (`_fleet/spawn.py:89`).

`Init` has variety instead of long behaviours: either plan may have a state, a history
or a run before the first command.  Profiles, prompts, `tmux` and the reuse of a pid are
left out.

## The runs

All twelve pass.

| run | instance | what it shows |
|---|---|---|
| `store_status` | 2 processes, 2 tasks, 4 commands, 1 crash, history of 1 | status updates on both command lines: log and state agree, a crash costs one row, the override gate, the history's boundary |
| `store_shared` | 2 processes, 2 tasks, 3 commands, 1 crash | the other writers beside an update: the inductive invariant `StoreInv`, a close is complete and told once, the refinement of `TaskBoard`, every command returns |
| `jsonl_log` | 2 writers, 4 rows (2 compound, 1 invalid), 3 crashes | what a crash may cost, nothing vanishes without a trace, both flocks are always given back |
| `log_merge` | 2 branches, 3 rows, 2 seconds, 2 merges or picks | no event is lost, merges absorb and commute, replay is recent |
| `chain` | 2 drivers, 2 terminals, 3 commands, 1 crash, 2 phases | one driver, the pause, the refinement of `ChainLock`, a driver ends |
| `chain_record` | 2 drivers, 2 phases, one each of fault, kill, pause and tick of the clock; cap and estimate of 1 | manifest, log and summary agree about what happened, success is earned, the cap, what is written stays |
| `retry` | 2 runs of any kind, cap 2, 2 retries, one edit of what grades, one inject, reset or kill | the budget, the guard, the meaning of green, every run ends; and `GatesInv`: 2 tasks, 2 paths, 11 lists of tests, 14 junctions, 36 worlds; 10 rubrics, texts of up to 2 pieces, 6 subtypes |
| `planner` | 2 runs of any of 5 jobs, a plan of 2 tasks, 14 patches, 11 orchestrators, 1 fault, 1 deferral | an amend is surgical, rows and page tell the plan, what is on the disk can be executed and is worked to its end |
| `intent` | 2 sessions (one with hooks), claims on a directory, on a file in it and on other files of its area, 1 process, 1 doctor, both back ends, 1 outage or kill, 1 edit | overlaps are explained, a halted session stays out, the stores agree, a pending session reaches the table |
| `morning` | 2 plans, 1 task id, 2 processes, 3 blocks, 5 commands, 1 kill | what is lost was lost by a writer without the flock, mirrors are true, the archive is closed, only halts reopen |
| `routing` | 2 processes, 3 commands, 1 fault, 3 lines, cap 2 | numbers are given once, rows and lines are kept, promotion is whole, the cap, closed is final |
| `fleet` | 2 plans, 2 operators, 2 runs, 2 commands, 1 fault, at most 1 live run | state and event, meta and archive, every run is told, lanes and tree, history is kept |

**Why the bounds are enough.**  The store's hazards need two processes in its critical
section's neighbourhood and one more command that sees the result; three or four
commands give every pair of writers with a third.  A history cap of 1 puts the row,
the sentinel and the refusal within three revisions (20, 21, 22 in the code).  Three
crashes of `jsonl_log` let a repair itself be interrupted and be repaired.  Three
rows suffice for a group of two and a rival, two seconds for an order, two merges for
a merge of a merged log.  In `chain` two drivers are a holder and a rival or a resumer,
three commands are a pause, a resume and a release, or two releases and one more; a third
driver beside two, which an unlinked sentinel lets in, is left to the proofs;
two phases have one boundary inside and one at the start.  In `chain_record` the
second driver is a fresh chain or the resumption of the first one's, which is where
two accounts of one chain can differ, and a clock of one tick reaches the cap before,
in and after a phase.  In `retry` a cap of 2 gives a run that retries once and a second
run that finds the budget part-used or gone; one edit reaches each thing that grades,
also committed, and what takes two (a test dropped from the list, forged, put back) is
left to the proofs, and was run once with `MaxEdits = 2` and the safety properties alone
(2 million states); the gates need two tasks (one that
covers another's test) and a text of two pieces (something in front of the rubric).
In `planner` two runs are a writer and a rival or a plan and its amend; there is one
patch and one emission for every case of the code.  In `intent` one process and the
doctor are the reader and the rewriter, two sessions the two claims of an overlap, which
on SQLite only one of them can see.
`morning` needs a reader, a writer and a third command that sees the result on one
file, and a second plan for a gesture that reaches the wrong one.  `routing` has a
create, a second create or close and a promotion in three commands; a cap of 2 is
overrun by the third line.  `fleet` starts from every shape of directory, so that two
commands are always the second and third event of a history.

Symmetry is used only in runs without liveness.  Deadlock checking is off only where
the program may stop: when all commands, merges or runs of a behaviour are over.

**Fairness.**  Weak fairness of each process's next step, and of nothing else: nobody
has to start a command, crash, or place a file.  In `OrchestratorStore` and `JsonlLog`
the step of a waiting process is to be granted the flock.  A holder waits for nothing
and takes finitely many steps, or dies and the kernel drops its lock; the commands of
a behaviour are finite in number, so from some point on the flock stays free for the
one that waits.  In `ChainDriver` a command waits for nothing and a driver only for
the pause; a phase is bounded by its timeouts and retry caps.  In `RetryLoop` pytest
has a timeout of 1800 s; a session ends by the SDK's own limits (the code's `timeout_s`
is not enforced); `CoderWrites` is not fair, a coder need not do anything.  In
`Planner` a worker that is given a task starts and finishes it in the end: the chain
runs the picker's next task for as long as there is one.  In `IntentRegistry` a command
goes on, and the doctor, started by the session-start hook of every session on the host,
is started again for as long as it has something to do.  `ChainRecord`, `MorningQueue`,
`IssueRouting` and `Fleet` state safety only.

## What is proved

Every component is proved about: `OrchestratorStore`, `JsonlLog`, `LogMerge`, `ChainRecord`,
`ChainDriver`, `Planner` with its `PlanPatch` and `PlanVerify`, `RetryLoop` with its `TestGates` and
`ReviewVerdicts`, `IntentRegistry`, `MorningQueue`, `ScheduledMarkers` with `IssueRouting`, and
`Fleet`; for every number of processes, tasks, commands, crashes, rows, merges, drivers,
terminals, phases, patches, operations of a patch, runs, retries, sessions, blocks, markers,
lines, plans and faults.  Every invariant, every action property and every refinement that a
run checks is stated by a theorem.  The proofs start
from the named assumptions of the modules and from nothing else:

| assumption | says |
|---|---|
| `StoreAssumption`, `RequestsAssumption`, `LogAssumption`, `ChainAssumption` | caps and bounds are natural numbers; the names of "nobody" and of "no row" are nobody's and no row's; requests are commands the program has |
| `MergeAssumption` | there are two branches, the status a task starts in is a status, the bounds are natural numbers |
| `PlannerAssumption` | the jobs are the five the command line has; plans, patches and orchestrators have the shape of their schemas; "no file" is no orchestrator; bounds are natural numbers |
| `RetryAssumption` | the same, and the runs of a behaviour are finitely many, because what they are owed is counted |
| `RegistryAssumption` | the same, and two areas touch in either order |
| `QueueAssumption`, `AbsentAssumption` | the real tasks are tasks, finitely many processes (those that may still write a block are counted), "no file" is not a file |
| `RecordAssumption` | there is a phase, cap, estimate and bounds are natural numbers, "none" is no driver |
| `MarkerAssumption` | finitely many processes (the traces of a failure are counted against them), requests that a command line can be, bounds that are natural numbers |
| `RoutingAssumption` | contexts are contexts, caps are natural numbers, no plan is named "issues", "nothing" is no plan and no number |
| `FleetAssumption` | finitely many runs with names of their own (the cap counts them), a cap of one or more, an edit sets fields to values a state may have |

**The store.**  `StoreInv` is inductive.  `TypeOK` alone is not enough for anything
else, so it adds: `FlockInv`, a process is inside the flock exactly when it holds it,
and its copy is the file until it writes; `WriterInv`, a process that has written
knows the one task whose row it owes; `CloserInv`, what a closer has found of lifecycle
and marker; `HistoryInv`, a task with a history has a status; `AgreementInv`, without
a crash every task is in flight, seeded and not moved, or agrees with its replay; and
`RenderedMatchesFile`.  From it follow type correctness, the safety of the snapshot,
the agreement of log and state, `RowTellsTheFile`, the override gate, the properties
of a close, `WriteTouchesOnlyItsOwn` and the refinement of `TaskBoard`.  Two more
invariants count.  `DivergenceIsBounded`: the tasks on which log and file disagree are
the ones a crash has left, each with a crash of its own, and the one that is in flight.
`HistoryAndLogAgree`: the history of a task and its rows in the log count the same
revisions, up to one for each crash.

**The log.**  `LogInv` says what the file holds; the proof needs what every holder of
the flock means by the bytes after the last newline.  `IInv` adds to the types:
`ControlInv`, one writer is past the flock; `TailInv`, the tail is what the step the
holder is at has made of it; and three budgets.  `SpoiltInv`: a line that does not parse
is two whole objects, and all such lines, with an object that is left to be glued
to the next row, cost a crash each.  `LostInv`: the same for acknowledged rows that no
reader finds.  `RiskInv`: a crash puts one row at risk, and it takes a second one, while
the repair is between its cut and its audit row, to lose it without a trace.
`AppendOnly` follows from `IInv` step by step.

**The merge.**  Not an invariant of bytes but an algebra: the lemmas on merging
say what the survivor of a group of rows is, that it exists, and that it depends on the
groups alone, so that `OrderIsIrrelevant` holds of any three logs and `NothingIsLost` of
any two.  `LogsInvariant`: a branch's log covers all it ever recorded or was handed, and
git's ancestors are among that.  `EveryMerge` adds that a merge absorbs what was merged
already and that a replay ends in the last second of either side.  `Resolved` and `Sorted`
are stated by what they return (the survivors, and an arrangement of them in order)
rather than by recursion; that there is such an arrangement (`SortExists`) is shown by a
least counterexample, from the well-foundedness of `<`, since the induction theorems
of the library take an operator the provers cannot instantiate.

**The chain's record.**  The three records of a chain and what happened are compared at
rest by `AccountsAgree`, but they part in between: a phase is over before its entry is
closed, and the entry before its row.  `RecordIInv` says by how much, at each step of a
driver.  `Alone`: the sentinel's holder is the one driver at work, and nobody bears the
chain id of a driver that has not begun.  `Course`: what a driver has in hand, from where
it stands.  `RowsFollow` and `EntriesFollow`: the rows of an undisturbed driver, and its
entries of the manifest as long as it is `of` the manifest, recount what happened up to the
step it is at, in order (`Recounts` compares by rank among indices, so there is no filter and
no recursion), and only the last entry may be open.  `SummaryFollows`: a summary is what
its driver had in hand, and success was earned by then.  `NothingAhead`: neither manifest
nor pause is ahead of the chain.  `InTime`: no time passes between the check of the cap and
the phase.  `RecordsStay` follows step by step.

**The chain.**  `LockInv` is inductive: the types; no driver is alive before it is
started; and, until a driver has started under the hands of a release (`raced`), what a
release can take is what it saw: before its probe the sentinel of the driver whose pid it
read, after it that of a driver that is gone, and gone is for good; a driver that holds has
its own sentinel with its own chain id, and one that has left has none.  From it follow
`LockTellsTheDriver` and the refinement of `ChainLock`.  A second, smaller invariant
ties `late` to the drivers past their probe and gives `PauseStopsWithinOnePhase`.  The
restriction is real: TLC finds a counterexample without it, with one release.

**The retry loop.**  `RetryInv` is inductive.  `TypeOK` bounds the iterations of a run
and is not: `LoopInv` says what is known of a run from where it stands.  `OweInv` adds to
the sessions so far the runs whose iteration is counted and whose session has not begun;
it gives the first half of `BudgetIsKept` for overlapping runs too.  The rest holds while
no two runs have overlapped: `AloneInv`, one run at most is active; `BudgetInv`, what it
may still spend is left of the cap; `CleanInv`, a run that started clean and whose
sessions each began with the plan unedited has no forged test and no forged conftest, in a
session a snapshot that protects them, and the green result it is about to trust has a
reason: the code works, the list is edited, or a conftest was added.  The last of these
passes only once it is committed (`OwnStep`: only its own step takes a run on).
`SessionLeavesNoForgery` and `PassIsEarned` follow.  The restriction is real: of two
runs that overlap one may read the budget before the other spends it, and restore a
surface that the other has just graded.

**The gates.**  `TestGates` and `ReviewVerdicts` have no state; what is proved of them
needs no invariant, and holds for every plan, junction and world, and for every answer:
the seven properties are theorems of their own, and `GatesInv`, which states them over small
inputs, follows.  A gate is earned and gates agree for plans whose ids are unique
(`UniqueIds`, which is one of the strict checks): with two tasks of one id the junction
resolves the first only.  Texts are read by their first object, which is a least index, not a
recursion.  To write the proofs the tests of `Pytest`, `Refusal` and `Evaluate`, which the
code makes one after the other, had to be `IF` chains: as a `CASE` with guards that overlap
they say that any of the guards that hold may win.

**The intent registry.**  `RegistryInv` says nothing of a process between two steps, and
is not inductive; `IntentInv` is.  `ControlInv` says what a process carries from where it
stands to its next step, and that a doctor beyond its sweep has a MySQL back end.
`KnownInv`: only sessions that `register` or a hook has created are edited.  `HaltInv` is
about every copy of the file that some process still holds, not only the file: a session
has at most one process that may yet mark its row, and a copy that says *halted* means
that the table has no row and that no copy lets the doctor insert one; without it a
doctor that read the file before the collision could insert the session after.  `MemInv`
ties the doctor's copy to the file it read: a mark comes off a row only after the insert.
`AgreeInv` weakens `StoresAgree` to what holds between steps, naming who is about to
make the two stores agree: the registrar, a process between the close in the file and
the close in the table, or the doctor.  `PassedInv`, on which `OverlapIsExplained` rests,
says that of two open sessions that were both checked the later has passed the earlier,
and whoever has passed another's claim would not find it.  So if one of the two would
find the other it was not the one that passed: the other came second.  On MySQL, where
finding and touching are symmetric, that one would have found it too.  As in `RegistryInv` itself, what is said of the two stores holds until a rewrite
has met rows it had not read (`stale`), and of sessions that no failed command has left
apart.

**The morning queue.**  `QueueInv` speaks of the files; what will become of them is in
the copies the processes hold.  A *version* of a block is one that a file of its plan or
a copy of one has.  `SectionInv`: a block of a copy is in a file, archived, or counted as
lost.  `HeldInv`: every entry that is in the file, or that a halt section may yet put there,
is in the copy of the flock's holder, unless it is archived or lost.  `VersionInv`: a
block's number has been given, all its versions have one kind, and a closed one tells
of a gesture that succeeded.  `ReopenInv`: an entry that a process could still write as
pending while a closed version of it is around was set back by a halt section.
`DistinctInv`: no file has two blocks of one number.  The smaller parts (`HolderInv`,
`TaskInv`, `StageInv`, `RoomInv`) are about where a process stands.  `OnlyHaltsReopen`
is `ReopenInv` at the step that writes.

**Markers and routing.**  `RoutingIInv` has three parts.  `MarkersIInv`: of each process that
holds a flock, what it read under it still stands.  The number it minted is above all
of its prefix, the detail file is its request's, the marker is still active, the prefix
still unknown.  `StuckDetails` and `StuckRows`, the details without a row and the rows nobody was told of
that no process on its way will mend, are no more than the faults; this is what makes
`TracesCostAFault`, which speaks of the files at rest, inductive.  `LinesIInv`: a copy of
the outstanding file `Stands`, that is, it differs from the file only where the operator
has resolved a line by hand meanwhile (whose edit the write then undoes); two promotions
on their way never own one plan; a recon is of its line; `StuckPlans` cost a fault each;
and every row of the log that claims a line or a lesson is true.  `CountIInv`: while no two
commands have met between check and count and nothing has failed, the counter, with what
the one command there has still to count, is what was dumped, and its temporary file is
nobody else's.  It gives `CapHoldsAlone`, and is the one part that faults or an overlap end.
`ClosedIsFinal` follows from what a close holds.

**The fleet.**  Every part of `FleetInv` is about two files that nobody locks together,
so `IInv` says what an actor between the first and the second holds, until `mixed` notes
that two have met there.  `TypeInv`: what a job carries at each step.  `WriteInv`, with
`StateHasItsEvent`: the event about to be appended has the status the state was given.
`MetaInv`: no meta file, on the disk or in the memory of a close, forgets a plan that is
archived or about to be, and before the first init nobody has anything to save.
`MintInv`: a plan on the roster has a directory, an archive, or a close that still has
to mint it.  `RunInv`: the runs with a row of their end are those that ended and were not
killed nor lost.  `CapInv`: every run at work is counted, or its operator is about to write the
row, and one operator at a time is between count and row.  `PageInv`: a page that
shows something has all its zones.  `HistoryIsKept` follows with the types alone.  The
proof found two things about the model: a cap of 0, which the code never has, and a
close that names as its successor a plan another close is archiving (below).

**The planner.**  The files agree only at rest, and every step of a run goes by what the run
read at its gate, so `PlannerIInv` says what each run has in hand.  `RunsInv`: a run that
has begun has all its locals and is where its job can be.  `DiskInv`: the plan on the disk
has the shape of a plan, an orchestrator there has passed the fatal checks, the rows since the
last whole plan are a sequence; and of a live run (`InHand`), the patch is one its schema allows, the
payload of an amend that was judged is that patch applied to what was read, and an
orchestrator that is about to be written has passed the checks itself.  The last is why
`PostCheck` never finds a fatal one and `DagIsExecutable` does not depend on who writes
last.  `TellsInv`, until a fault or a second writer has made the files unclean: one run at a
time writes the plan; what it read is what is on the disk; the rows lag behind the file from
the write of an amend to its row, the page from a write to its rendering; and what a
failed rendering will restore is what the page shows and the rows tell.  "What the rows tell"
is `OnRecord`: it asks nothing once an amend landed whose row was lost, and everything
again from the next whole plan on.  `IdleInv`: what an active amend was
permitted to edit does not run, but for what has `moved`.  `PlannerInv` is this at rest, with
`NotFatalIs`: an orchestrator without a fatal finding is executable.

`AmendsAreSurgical` needs what a patch of any length does.  `After` gives the plan after each
operation, and every operation has one `Effect`: it appends, replaces one entry, removes one,
or sets a scalar.  That an operation preserves a relation to the first plan (`KeepsByOne`,
`NothingLostByOne`, `CountedByOne`) gives it for the whole patch, by the least operation
after which it would not hold.  `Keeps` composes the places of the kept entries with
the shift of a removal.  For the half of the entries that may be fresh, the bound counts
operations, so the proof counts that each makes at most one entry fresh and each addition
or removal changes the size by one.

**Only model-checked.**

* Liveness everywhere (`EveryCommandReturns`, `EveryAppendReturns`,
  `DriverEndsUnlessPaused`, `EveryRunEnds`, `SoundPlanFinishes`, `PendingReachesTable`):
  liveness under fairness is beyond the prover.
* Of `PlanVerify`, the checks whose finding is no more than a warning, and of `ReadySet` the
  order of the picker's answer: no safety property rests on either, and `SoundPlanFinishes`
  is where unique ids, resolved dependencies and the picker's choice matter.

## Where code and documents disagree

Met while modelling.  The model does what the code does, so none of these is an error
of a run; each is a behaviour of the model that a reader of the document would not
expect.

*Store, log, merge*

* The picker closes a plan on what it read without the lock and does not look again:
  a task reopened in between does not stop it (`_orchestrator_query/closed_state.py:223`;
  lines 24-27 speak of a plan that is all done).
* A merge of a log with itself need not be that log: two rows of one second and
  transition become one, or rows of one second change places
  (`_git_merge_jsonl/merge.py:154`, `_jsonl_log/writer.py:142-145`).

*Chain*

* `chain-resume` refuses every live paused chain: it asks for `paused_since`, which
  `chain-pause` never stamps (`_chain_overnight/manifest.py:409-411`), so paused time is
  also billed to the cap.
* `--release-lock` "verifies" that the driver is dead (`_chain_overnight/main.py:401-410`)
  on one read of the sentinel and removes another that names the same chain: a driver
  that resumed the chain in between loses its lock and goes on to its next phase boundary.
* A pause can be created after its chain has ended and parks the plan's next chain
  (`_chain_pause/main.py:421`, `_chain_overnight/main.py:947-949`).
* A driver that is refused the lock has already taken the operator's inject off the
  disk (`_chain_overnight/main.py:518`).
* An exception in the phase loop leaves a summary that says `phase_success`, exit OK,
  while the process exits 2.
* The cap is read from the environment each time; `--wall-clock-seconds` and the
  manifest's value are ignored, against "Cap-from-manifest discipline"; a resumed driver
  starts the clock again, and its summary replaces the earlier one's.
* `next_phase_to_enter` of a pause can be stale; between a driver's lock and its stamp it
  is the previous chain's.

*Retry loop and gates*

* "The conftest vector is closed by provenance" and the guard
  (`_retry_loop/sdk_spawners.py:1088`), but a conftest or ini file that a guarded session
  adds outside `tests/` is neither protected (the snapshot holds files that exist,
  lines 906 and 1222-1226) nor swept (lines 1017-1022), and is trusted once committed.
  "Restore the protected surface" (lines 964-967) leaves out the list that defines it: an
  edit of `tests_enabled` is only reported (lines 1045-1052) and read at line 719.
* The guarded restoration deletes an inject, or a pause sentinel, that arrived
  during a session (`_retry_loop/sdk_spawners.py:1033`).
* Nothing validates a rubric against its schema: an empty object counts as version 1,
  not flagged; an object in front of the rubric decides in its stead.
* `RuntimeError` of a review is not "recovered by the retry-loop's normal failure
  semantics": the command line exits 2, the chain ends as a driver crash.  An unsupported
  version exits 5 on the command line and 2 in the chain.
* "Can never go green" is true of the selector: an entry the command line's pre-flight
  refuses passes in the chain, which has none.  A typed entry passes the junction and
  nothing runs it.
* A halt section is a heading and no entry: the list, the gestures, the index and the
  archive do not see it (`_retry_loop/halt_handoff.py:166`,
  `_morning_review/entry_format.py:5-7`).

*Planner*

* An amend adds a task to the plan and to the task state, never to the orchestrator,
  so the picker never offers it (`_planner/reconcile.py:638`, `_planner/main.py:1576`).
* The amend log is a "mandatory audit trail" that "only works if every amend is
  recorded" (`_planner/main.py:416-425`), and the append swallows an `OSError` (line 452):
  an amend can be applied, exit with success and leave no row.

*Intent registry*

* On SQLite the doctor never reconciles: it looks for a schema file of MySQL
  (`_intent/doctor.py:74`; `_intent/register.py:25-28` promises it).
* "We return the full open set", with the "same semantic as MySQL's JSON_OVERLAPS caveat"
  (`_intent/db.py:510-511`, and "identical" in line 494), but on SQLite the rows are
  kept by a substring of the JSON text (line 527): it finds overlaps that MySQL does not,
  misses others, and which of the two depends on who registers first.
* `SQLiteBusy` is caught nowhere.  A pivot of a halted session never inserts it.  The SQL
  prefilter misses overlaps of globs in different areas.  A `complete` while the
  database is down leaves its row open.  A stale rewrite can reopen closed rows.

*Morning queue*

* `abandon` calls `bin/lessons add` without its arguments, which is refused.
  `route-marker` looks for a line that canonical entries lack.
  `--internal-mark-deferred` has no caller.
* An entry of a collision has a made-up task id: `reactivate` on it adds a task nobody
  has.  Of two entries with one id the first hides the second.  The index drops a task
  deferred again after an earlier close.

*Markers, routing, lessons*

* `create` reports "lock" (exit 5) also when the row has landed and only the log failed:
  a retry makes a second marker.  A list without its heading is noticed after the detail
  file was written.  A prefix whose domain contains `|` no longer parses.
* `--include-ddl-count` and `--check-override-state` never fire from the command line.
  `lessons add` creates the plan directory, which refuses a later promotion.  The
  pre-commit gate compares with `>`, the outstanding one with `>=`.
* The cap on dumps is not hard (`_route_issue/lazy_dump_cap.py:5-10` and `outstanding.py:118`):
  two sessions of one id both pass the check.

*Fleet*

* A hook between another writer's load and save loses its update, despite "no
  clobbering" (`docs/FLEET.md:26`); two closes at once lose a closed row, and the close
  is then refused; a late hook resurrects an archived directory.
* A close that dies between archive and mint leaves the successor on the roster and
  refuses to be run again.  A close may name as successor a plan that another close is
  about to archive: that plan is then archived and on the roster.  A plan closed without a wave whose directory is kept is
  shown nowhere.  Runs of archived plans are not counted.
* A runner is "total by construction [...] never a lost run"
  (`_fleet/spawn_runner.py:17-19`), but output of the child that parses and is no object
  (`null`, a list, a string), or whose `permission_denials` has no length, raises at line
  90 or 95 and no row is written; and a row that cannot be appended costs a line on
  stderr.  `DeathsAreSeen` is what is left: the plan asks for attention.

## Not modelled

* *Chain status, renderers, status tree*: they derive text from files and write back
  nothing a property reads.  The status page is modelled for its statuses.
* *Evaluation gate and trend, regression replay, QA, eli5*: score arithmetic over
  single files, or agent sessions without shared state.
* *Hooks* other than intent's and fleet's, *MySQL guard*: classification of a command
  line, which keeps no state.
* *Environment, lint, small commands*: static checks and path resolution.
* Within the modelled parts: prompts, briefing text and formats, the SDK's wire format,
  the agents themselves, `--dry-run` modes.

Hazards no property covers, besides the disagreements above:

* a running sentinel left empty by a crash, whose chain id no `--release-lock` matches
  (`_chain_overnight/sentinel.py:136`); a driver that starts during a release loses a
  pause made for it (`_chain_overnight/main.py:466`);
* a manifest that does not parse is replaced by an empty one with the new phase
  (`_hooks/session_start_hook.py:103`);
* a torn last line that was committed stays in the merge base, and later merges refuse it
  (`_git_merge_jsonl/merge.py:54`);
* the two loops of one chain spend one counter, which nothing resets: a long `/code`
  leaves `/test` none (`_retry_loop/iteration_loop.py:402`);
* a score row appended after a torn one (`_eval_common/score_writer.py:90`).

## The plan

Every component that keeps state and shares it is modelled and proved about.  What is
left is the meaning of the abstract modules `TaskBoard` and `ChainLock`: their own
invariants, carried over by the refinements that are proved already.
