# Verification of the nightshift control plane

TLA+ specifications of the control plane in `src/control/internal`, of the root
wrapper `src/files/control/nightshift-rc` it drives, of the command-line tools that
share its files and of the web console in `src/control/web/src`, with TLC runs and TLAPS
proofs.

## 1. The system

nightshift runs coding agents unattended on one box. One Go process, the control
plane, keeps everything it must remember as JSON files under `~/.nightshift` and
serialises its own work with one mutex, `nsMu`; an execution is a transient systemd
unit, started through a small root wrapper and stopped by a timer armed before it.
Restarting the control plane loses only what is in memory: probe times, the auth
verdict, the operator's hold message.

| Component | State | Operations | Interacts with | What is hard |
|---|---|---|---|---|
| Launch queue (`nightrun.go` schedTick, `queue.go`, `internal/queue`, `internal/scheduler`, `internal/run`) | job files, marker files, `LastLaunch`, probe times | a tick every 30 s: prune, gate, skip, admit, dispatch, stamp, probe; create and cancel | units, reports, auth probes, alerts, flows | a tick reads a world that moves under it; crashes between its steps; outages that outlast a deadline |
| Units (`nightshift-rc run/stop-run/run-status`, launcher) | systemd units and timers | arm, start, stop, query; auth pre-flight | queue | a dispatch repeated against a live unit |
| Sweep minting (`nightrun.go`, `profile.go`) | per-night dedup marks, effective profile | mint waves, fan out execution workers, late mint | queue, tickets, profiles | midnight, outages, a failed config save |
| Flow runs (`flows.go`, `automations.go`, `emit.go`) | flow files with node runs | reconcile verdicts, insert, remediate, emit, block, stop, deadline | queue, worktrees, spool | routing across ticks, loop caps, orphans, crash between job and flow saves |
| Flow janitor (`flows.go`) | worktrees, cleaned flags | clean terminal flows | flows | a worktree removed under a live session |
| Governor (`governor.go`) | budget, ratchet history | checkpoints, top-up, morning ratchet | queue, ingest | once per night across restarts |
| Ticketboard (`tickets.go`, `internal/ticket`, `nightshift-ticket`) | ticket files, claim files | create, claim, review, comment, close | workers, janitor, minting | several processes, no common lock |
| Ticket janitor (`janitor.go`) | none of its own | close landed tickets | forges, ticketboard | evidence older than the ticket it closes |
| Remote-control sessions (`internal/session`, `nightshift-rc start/stop`) | units, 24 h timers | start, stop, status | operator | session cap counted before it is used |
| Ingester (`ingest.go`) | byte offsets, SQLite rows | scan transcripts | detectors | torn lines, truncation |
| Detectors (`detect.go`) | alerts | raise, refresh, clear | queue (limit-hit) | an alert that holds the queue for ever |
| Validation (`profile.go`, `flows.go`, `workbench.go`, `emit.go`) | none | cycles, order, bounds | all editors | graph algorithms |
| Documents (`focus.go`, `ideas.go`, `workbench.go`, `proposals.go`, `profiles_api.go`) | revisioned files | read, save, restore | operator, agents | stale revisions |
| Access (`internal/access`) | signing-key cache | verify, refresh | identity provider | refresh races, cooldown |
| Web console (`src/control/web/src`) | drafts, undo history, the address bar, query caches, a navigation guard, browser storage | edit and save templates, prompts, profiles and focus files; launch, follow and steer runs; switch sweeps; queue, cancel and stop jobs; hide agents | every HTTP handler; other tabs | late and failed answers over unsaved work; optimistic switches; a second copy of the server's rules |
| Reporting, dev mode, provisioning | none | read-only | - | not modelled |

The properties each part needs are listed as hazards in `PROJECT.json`, each with the
line where it bites and the property that would catch it.

## 2. Modules

| Module | What it is |
|---|---|
| `LaunchQueue` | one scheduler tick as a sequence of steps, with everything that may happen between them |
| `SlotPool` | abstract: sessions take one slot at a time within two limits and give slots back |
| `MCLaunchQueue` + `LaunchQueue*.cfg` | the instances TLC checks |
| `LaunchQueueProofs` | TLAPS proofs about `LaunchQueue`: types, the counted sessions, the refinement of `SlotPool`, the other safety properties |
| `FlowRun` | one task flow: its file, the job files of its nodes, verdict routing, insertion, emission, gating |
| `FlowRunPlans` | lemmas about the operators of `FlowRun`: what an insertion makes of a flow, which writes it owes |
| `FlowRunProofs` | TLAPS proofs: types, what each handler inserts, who may be launched, the lifetime budget |
| `FlowRunGraphProofs` | the graph of a run: ids, the acceptance node, who is owed a round |
| `MCFlowRun` + `FlowRun*.cfg` | a chain with an exception edge, and an emitter with a fan-in |
| `TicketBoard` | one agent's ticket files and claim sidecars, and everybody who changes them |
| `MCTicketBoard` + `TicketBoard*.cfg` | exec waves over three tickets, and sessions stealing a stale claim |
| `TicketBoardProofs` | TLAPS proofs about `TicketBoard` |
| `Subsequence`, `SubsequenceProofs` | pure: filtering a list and listing a set in an order; what is proved of both, of folds and of lists of lists |
| `ConsoleShell` | what the pages of the console share: which page is open, the guard, an operator's session |
| `GraphShape` | pure: templates, their drawing, the address bar's form of it, the console's and the server's checks |
| `Timeline` | abstract: an editor's history is one line of shapes and a place on it |
| `TemplateEditor` | the automation template editor and the stored templates behind it |
| `PromptEditor` | node prompts with their versions, runtimes, the node form |
| `ProfileEditor` | profiles, waves and their order, the proposal inbox |
| `FocusEditor` | the two north-star files, ideas promoted into one of them |
| `RunLauncher` | the three steps that start a run, with their preview |
| `RunPage` | one run: the list, the polled page, its four calls |
| `NightPage` | sweep switches and job rows |
| `Visibility` | presentation mode over the browser's tabs |
| `Console` | the composition: the pages around one shell |
| `MCConsole` + `Console.cfg` | sessions on every page |
| `ConsoleProofs` | TLAPS proofs about `Console`: the guard, typed text, switches, tabs, prompts, the history |
| `ConsoleShapeProofs` | what the pages hold: drawings, checks, wave orders, previews, and the types of every page |

### LaunchQueue

*State.* `job` is the job file (phase, gated, minutes, start time), `files` the marker
files beside it, `unit`/`stopAt` the systemd unit and its armed timer, `downAt` and
`limitAt` the verdicts the queue holds on, `lastLaunch` the config field, `probed` the
watchdog's memory. `pc`, `left`, `cands`, `occupied`, `held`, `gapBlocked`, `cur` are
the local variables of a tick.

*Actions.* A tick is `TickBegin`, one `Maintain` step per job file in listing order
(the switch of `schedTick`: prune, ungate, dep-skip, missing worktree, candidate),
`Snapshot` (loadQueue, newLaunchTick), one admission step per candidate in launch order
(`SkipWindow`, `PassOver`, `PersistClamp` are the outcomes of `scheduler.Service.Admit`),
`RcRun` (the wrapper), `MarkStarted`, and `TickEnd` (watchdog, save of `LastLaunch`).
A tick is split at the points where a crash or another process can be seen: between
any two steps a session may report, die or be stopped by its timer, and the control
plane may crash. `Queue` and `Cancel` take `nsMu`, so they happen between ticks. Each
save may fail where the code handles the failure; each failure and each crash spends
a budget, so a run says how many it allows. A skip is two writes, the marker and the job
file (`DepSkip`), and either of them may fail; a crash between them is a failed second write
and then `Crash`. A probe may fail, and with `BlankAnswers` it may also be answered by
nothing: `nightshift-rc:200` swallows an error of systemctl itself, and `ReleaseDead` takes
the empty state for a unit that is gone.

*Time* is counted in units a run chooses and advances only between ticks (a tick reads
the clock once). systemd is punctual: time does not pass a timer that is due. At most
`MaxMissed` units pass without a finished tick; outside them a tick ends in every unit.

*Left out.* One agent instead of two; prompt texts and sidecars; alerts about
starvation; the flow verdict hold, which appears as a nondeterministic wait of a gated
flow job (`FlowRun` has it in full); a dispatch's two `systemd-run` calls are one step.

### FlowRun

*State.* `flow` is the flow file: status, round and nodes, each with its id, its upstreams
(`after`), the verdict reconcile acted on (`seen` is `VerdictSeen`), its emitter (`by`) and
its job. `job` is the job file of a node, `report`/`emits` what a session delivered,
`marks` the marker files, `unit` the session, `clock` how near the deadline is, `asks`
the append requests in the spool. `pc`, `idx`, `total`, `left`, `cur` are the tick's local
variables.

*Writes.* A handler works on a copy of the flow (`mem`) and puts its results on disk one
file at a time: `writes` is the list of saves and deletions it has still to do, in the
code's order (`appendFlowNodeRun` saves a job before the node is known, `insertAfterNode`
rewires successors, the flow comes last). `WriteMint`, `WriteGate`, `WriteReap`,
`WriteFlow` and `WriteConsumed` do one each, and a crash may come before any of them: it
loses `mem` and the rest of the list.

*Actions.* A tick is `SpoolAppend` (applyFlowSpoolLocked), `Reconcile*` with one `Route*`
per case of the verdict switch, `StatusPass`, the maintenance loop (`VisitHeld` is
flowGateHold, then, as a second read of the reports, `VisitUngate`, `VisitDepSkip`,
`VisitPending` by gatedReadiness), `Launch` and `MarkStarted`, and `TickEnd` with the
watchdog. `Create`, `Stop`, `Cancel` and `MoveDeadline` are the handlers. Which ungated job
is launched, and whether one is, is left to the queue (`LaunchQueue` says when); only the
flow's own cap binds here.

*Reductions.* Sessions move between any two steps that read what they leave behind, not
between file writes. The verdict pass passes over nodes with nothing new in the same step
as it takes the next one that has. The newest job file is visited first: the listing is
latest first and jobs minted at one instant come in no fixed order.

*Left out.* Other flows; guidance, publishing and cleanup; member runtimes; templates and
their validation; the deadline request that comes through the spool. Node ids are `<<role, round, occurrence>>`
and job ids never repeat (the code draws 16 random bits per minute). The code spells a node
id as a string, so a custom role called `review-2` could have the id of the second `review`
(`flows.go:917-922`); such names are left out.

### TicketBoard

*State.* `ticket` is the ticket file (status and notes; a note is who wrote it and the
request it links), `claim` the sidecar with its age and the name in it, `born` the order
of creation, `job` the exec jobs minted so far, `forge` what became of the linked
requests. `cmd` is the process of a command a session runs, `cp` the control-plane handler
that has `nsMu`, `jan` the janitor's pass.

*Actions.* A command of `nightshift-ticket` reads the file and checks the status
(`Claim`, `Review`, `Comment`, `Close`), then replaces the whole file (`ReplaceFile`) and
may have a sidecar to remove; `claim` goes through `TryLock`, `StatLock`, `StealLock`,
`Relock`, `Sign` and `Inform` first. The handlers do the same under `nsMu`, which the
commands do not take: `UpdateLoad`/`UpdateSave` for the operator, `MintRead` and per pick
`MintSave` and `MintClaim` for an exec wave, `JanitorList`, `JanitorFetch` (without the
lock, request by request) and `JanitorLoad`/`JanitorSave`/`JanitorUnclaim`. A session may
be killed and the control plane restarted between any two steps.

*Reductions.* Listing the tickets is one step, although the files are read one by one. The
janitor takes tickets and requests in any order. A claim goes stale only while no command
and no handler is in progress: they take seconds, not eight hours. A request nobody links
does not change.

*Left out.* Two tickets with one id: `Create` is of a ticket that is absent, while the code
draws 16 random bits per minute and asks nobody whether they are taken
(`nightshift-ticket:61`, `tickets.go:159-166`), so a second one would replace the first.
Titles, bodies and times; the second agent, whose board is apart; the
self-directed sessions that fill a wave, which have no ticket. Tokens for the forges are
there; a missing one is a request that cannot be read.

### The console

*Shape.* The server is one process behind `nsMu`, so a handler is one step. What is hard
lies between the steps: the operator goes on while a call is under way, an answer shows
the server as it was, and a page compares, draws or restores copies of copies. Every page
has its server state, its cached copy (TanStack Query), the answer on its way, its local
state, and its calls, each `idle`, `sent` or answered. A call may be lost before or after
the server acted on it. `ConsoleShell` has the page and the guard: `GuardEffect` is the
`useEffect` of an editor, which runs when its dirty flag changes, `GuardMount` and
`GuardUnmount` its first run and its clean-up, `ConfirmNav` and `LeavePage` the
navigation that asks.

| Module | State | Actions and the code |
|---|---|---|
| `TemplateEditor` | `tServer`, `tCache`; `tShape`, `tPast`, `tFuture` (shape, history), `tDraft` (the fields), `tUrl` (`?g=`), selection and picker, `tSave`, `tReject` | `SetStages`, `SetEdges`, `Undo`, `Redo` and every caller of them: stage list, routes, the canvas (drag, insert, remove, reorder), toolbar, keyboard; emitters and member pins; `Persist` and `Reload`; `Save`, `Reset`, `ServerHandles`, `Rejected`, the refetch that remounts on a new revision |
| `PromptEditor` | `pServer` (prompt file, versions, runtime), `pDoc`, `pNode`, the tab, the text, the runtime panel, the new node's form | `save`, `restore`, `revert`, runtime, remove and create with `savePromptBody`, `deleteCustomNodeDef` and their handlers |
| `ProfileEditor` | `wServer`, `wActive`, `wProposal`, `wCache`, `wDraft`, `wEditing` | wave form with `findCycle`, `orderWaves`; `parseProfile`; activate, apply and dismiss |
| `FocusEditor` | `fServer`, `fCache`, `fText`, `fBase` | typing, the adoption of refetched content, save, promote |
| `RunLauncher` | `nServer`, `nCatalog`, the step, the template, the sequence, `nSent`, `nRun` | the form, the preview, `resolveFlowSpec`, `createFlowLocked` |
| `RunPage` | `rServer`, `rList`, `rCache`, `rPoll`, `rCalls` | timer, answers, deadline, guidance, stop, clean-up and their handlers |
| `NightPage` | `kSweeps`, `kShown`, `kFetch`, `kToggle`; `kJobs`, `kRows`, `kCall` | the optimistic switch (`onMutate`, `onError`, `onSettled`), rows and their buttons, the composer |
| `Visibility` | `vStorage`, `vSnapshot`, `vEvents` | presses, the `storage` event, a reload |

*Refinement.* `TemplateEditor` implements `Timeline`: past, shape and reversed future are
one line, the past's length the place on it. Every edit of the drawing goes on from that
place, undo and redo only walk, and mounting begins a line of one.

*Reductions.* A behaviour works on one page (`scene`): the pages share only the guard,
which leaving a page takes down, and the server, whose other writers are actions of
every page (`OtherWriter`, `OtherPrompt`, `Propose`, `ShelfChanges`, `SweptElsewhere`,
`RunMoves`). One call of a kind is under way, as the buttons are disabled while it is. A
page that was left and opened again can have a second one: `FlipSweep` allows one call per
agent and the job buttons one call, where each mounted row has its own
(`NightPage.tsx:57-65`, `395-425`); every call that ends invalidates, so what a page at rest
shows is the same. Of browser storage the console's own writes are modelled, not a
`localStorage.clear` from elsewhere nor a read that throws.
The address bar is rewritten by an effect after each edit; `Persist` does it after any
number of them. Texts are a few model values; a field the server would refuse is one
value of it. A wave form adds at most one upstream. A revision is a hash of a body, so the
body stands for it.

*Left out.* Layout, zoom and the minimap; the toast and confirmation texts (an operator
agrees or not); change proposals and overrides; the report reader; scores.

## 3. Runs

| Run | Instance | Shows |
|---|---|---|
| `flow_queue` | two parallel flow nodes and a fast-start successor, finish-by, group cap 1, box cap 2; errors of rc, worktree, probe | gating, launch order, spacing, deadline clamps, skipping, the watchdog's verdicts and at-most-once execution, while sessions move inside ticks |
| `crash_queue` | two waves of one pipeline run and a session that must be over by 02:00; two of: a crash, a failed save or marker | the counted sessions stay within caps and implement `SlotPool`, half-written skips included |
| `night_queue` | a night wave and the codex wave it triggers, with one hold and one error: a failed dispatch, a probe that fails or is answered by nothing | every queued job settles; a dead session's slot comes free before its window ends |
| `relaunch` | one crash | violated: a live run loses its timer (finding) |
| `after_noon` | no tick from before a morning deadline until noon | violated: an afternoon launch against tomorrow's deadline (finding) |
| `flow_chain` | `FlowRun`: implement (edge to amend) and review (default remediation), at most five nodes; two of: a crash, an auth failure, an append request | the graph stays well formed, the lifetime budget bounds the sessions ever started, verdicts and requests are acted on once, every run is decided unless a session that never ends has lost its timer to a crash |
| `flow_fan` | `FlowRun`: explore emits two attempts and a fan-in before the judge, two sessions at a time, a deadline; one of: crash, failed save or checkout, stop, cancel, moved deadline | verdicts are acted on once, only nodes of the graph get sessions, completion is the acceptance node's, blocking has a cause, an ended run keeps no job that could start |
| `flow_race` | `FlowRun`: the chain, undisturbed | violated: a successor starts before its upstream's verdict is routed (finding) |
| `flow_auth` | `FlowRun`: the chain, one auth failure | violated: a node skipped for dead credentials is routed like a delivery (finding) |
| `ticketboard` | `TicketBoard`: a hunt and an ops ticket, a second hunt ticket to be filed, two slots; four of: two waves, a session's command, an operator's update, a filed ticket, an error, a crash, a claim gone stale | slots filled fairly, no claim without a job, no second job for a claimed ticket, what landed is closed, what was abandoned is flagged once |
| `ticket_steal` | `TicketBoard`: three claims of one ticket, one of them gone stale | violated: a thief moves away a fresh lock (finding) |
| `console` | `Console`: 22 sessions over the eight pages | see below |

`console` asks one question of every page, whatever order answers, failures, other
writers and the operator come in:

* `GuardFollowsDraft`: the guard is up exactly while the editor on screen is dirty.
* `ImplementsTimeline`: undo and redo lose no shape and make none up.
* `RefreshKeepsShape`: a reload restores stages, member slots, order and routes, of a graph
  that is not too large for the address bar.
* `RefusalsForeseen`: on stages, members, slots, roles and the budget of emitters the
  console's checks are the server's. What it lets through the server refuses only for what it
  does not look at (`Unlooked`): member pins, the schedule, the length of the name and the
  description, the number, the length and the source of routes, and the length of an emitter's
  menu of roles.
* `PromptsRecoverable`: every body a node has had is its prompt or a version of it, and
  a node made again under an old name has no phantom history.
* `WavesFollowTriggers`: in every stored profile a triggered wave is listed after each of its
  upstreams, and in a draft too while its times can be read. The form takes any text for a time
  and leaves it to the server to refuse: with "9" the order is NaN, and such a draft may be
  listed in any order (`Listings`) until its save fails.
* `TypingSurvives`: a fetch neither changes unsaved text nor makes an untouched editor
  dirty, so no press of Save writes over a promoted idea unseen.
* `PreviewIsWhatRuns`: the run that is minted has the drawn stages and routes, and may
  emit when the review priced emissions.
* `RunPageCatchesUp` (liveness): the page comes to show the run as it is stored.
* `NightSettles`: when nothing is under way, switches and rows show the server's state.
* `TabsAgree`: when every event is delivered, the tabs render the same agents.

*Bounds of `console`.* A session gives each kind of event a number: edits, fields, picks,
undo and redo, navigation, and the rest (saves, other writers, lost answers). What
answers or settles by itself is not bounded. The sessions of a page differ in what they
spend on: three edits in a row fill and overflow a history of two (`HistoryCap`, 100 in
the code), two edits and three steps of history undo, branch and redo, one edit with a
save and another writer makes the rejected, the failed and the overtaken save. Smaller than
the code: `SlotMax` and `StageMax` 3 (4), `SessionCap` 4 (16), `EmitterWidth` 3 (8),
`EmitterMenu` 1 (8), `UrlNodes` 5 (32), `UrlSize` 8 names (12288 characters),
`VersionsShown` 1 (20). A stage and the slots of a role fill up; the drawing and its length in
the address bar, the session budget, an emitter's width and menu, the number and the length of
routes and the versions shown go past their limits. Another writer saves a template that
stands at those limits, so one edit of it is past them. The catalog has three of the four
roles. Wave times are none, two times of day, 25:00 and a text without minutes. A run has one node and one round; two agents, two jobs and two tabs are what a race needs; three waves
make a chain listed against its order. A session ends, so a behaviour may stop:
deadlock is not checked there.

*Bounds.* Three jobs let one job hold a slot, one wait for it and one depend on both;
caps of one and two are the smallest at which the box cap and the group cap can each
be the binding one (LaunchQueue); durations are scaled so that each of them (gap, window, probe
interval, hold age) elapses within the clock's bound. The two crashes of `crash_queue` allow a
crash during the recovery from a crash, or one after a write that failed; `relaunch` needs one.
No run that asserts `WatchdogReleasesOnlyDead` has blank answers, as they falsify it (a hazard
in `PROJECT.json`). In `FlowRun`, `Bound` says how often each kind of disruption may
happen and `AllEvents` how many may happen together. `flow_chain` allows two, so that a
request is applied, interrupted by a crash and applied again; `flow_fan` has room for a
second group (eight nodes), which nothing but a repeated emission would use, and its wider
graph leaves time for one disruption. `MaxJobs` is more ids than a run uses, and a handler that would run out of them waits (`IdsLeft`).
`TerminalReaped` and `BlockedForCause` are not claimed under auth failures: the status pass
then blocks without reaping (a hazard in `PROJECT.json`); until the first one both are proved. `Decided` is not claimed under
stop and cancel, which can leave a node without a job.
In `ticketboard` the number of slots is smaller than the number of tickets, so that budgets,
overflow and ops compete; four disturbances allow a wave, a crash in it, a second wave and
one racing command or update. Races between commands of two sessions are left to
`ticket_steal`, where nothing else happens.

*Fairness* (`FairSpec`, in `night_queue`, `flow_chain` and `ticketboard`). The tick goroutine runs for ever
(`startScheduler`), so a tick in progress goes on: WF of `Tick`. The clock moves; it
waits while a tick runs, hence SF of `Advance`. systemd fires armed timers: WF of
`Autostop`. Nothing is assumed about sessions, operators, probes or alerts: a session may
never report, an alarm may never be withdrawn. In `TicketBoard` a handler that has `nsMu` goes on (WF of
`Handler`) and the janitor's goroutine makes passes for ever (WF of `Janitor`); sessions,
operator and forges owe nothing. In `FlowRun` the tick's steps and writes are
weakly fair, a launch is strongly fair (the queue admits an ungated job sooner or later:
`EveryJobSettles`), and so is the end of a session that is stamped, which its armed timer
guarantees, together with the passing of its window (`TimeIsUp`). A session whose stamp was
lost to a crash owes nothing: the next dispatch of its job disarms its timer (`relaunch`), so
it may idle for ever and its run with it. `Decided` therefore asks only of behaviours in which
such a session is not there for ever (`Untimed`): it ends, or there is none. In `Console` only the open run page is fair: its query has a
`refetchInterval`, so `PollAnswered` and `PollArrives` happen (in a tab the browser shows),
and a call ends (`RunSettles`). Lost answers spend from the session. Nothing is assumed of the
operator, and the other pages promise nothing that needs fairness.

## 4. Proofs

Every theorem holds for all values of the constants that the named assumptions of its
module allow; the runs check the same definitions on small instances.

### The launch queue

`LaunchQueueProofs` proves what holds whatever crashes and fails:

* `TypeCorrect`: `Spec => []TypeOK`. The only hard part is that a clamp never saves a
  window that is not positive, which rests on the launcher's floor (`WindowType`).
* `CapsHold`: `Spec => []WorkingWithinCap`. The invariant is not inductive: admission
  judges the snapshot, and the stamp comes three steps later. `SlotInv` adds that during
  the launch phase the working sessions are among the snapshot's (`Counted`), that the
  job being dispatched was admitted against that snapshot (`Chosen`), and that no
  candidate is started (`Candidates`). The heart is `OneSlotAtATime`: whatever the step,
  sessions only leave the working set, except at the started stamp, which adds the
  dispatched job; `AdmittedFits` and `FewerFit` do the counting.
* `QueueImplementsSlotPool`: `Spec => ImplementsSlotPool`, by the same invariant: the
  stamp is `Acquire`, a shrinking set is `Release`, everything else stutters.

Its second half goes on from there. What a crash can break is stated under the
hypothesis that none has happened yet (`crashes = 0`, which also counts failed saves), as
in the run.

| Theorem | Property | Hypothesis | Inductive invariant beside it |
|---|---|---|---|
| `ReleasedStayDead` | `WatchdogReleasesOnlyDead` | systemctl answers (`~ BlankAnswers`) | `WatchdogInv`: a released job is a started one and its unit is gone |
| `DependentsWait` | `GatedAfterDelivery` | none | `GateInv`: who is ungated or has had a unit waits for waves that have reports |
| `SkippedStayUnrun` | `SkippedNeverRan` | no crash | `RanInv`: who has had a unit is started, or is the one being dispatched |
| `OneRunPerJob` | `RunsAtMostOnce` | no crash | the same |
| `TimersStayArmed` | - | no crash | `TimerInv`: a live unit has its timer, set to the end of its window |
| `LiveWithinCap` | `LiveSessionsWithinCap` | no crash, nothing old enough to be pruned, systemctl answers | the same: so an undelivered live unit is one the queue counts, and `CapsHold` applies |
| `LaunchesStaySpaced` | `LaunchesAreSpaced` | no crash | `GapInv`: every stamp but this tick's is at or before `lastLaunch` |
| `NeverOvertaken` | `NoOvertaking` | no crash | `OrderInv`: who waits is a candidate, or this tick's snapshot does not admit it |
| `FlowsAlwaysEndOnTime` | - | none | `FinishInv`: the window saved for a dispatch and the timer of a live unit end by the flow's finish-by |
| `LateLaunchesEndOnSchedule` | `LateLaunchEndsOnSchedule` | no candidate waits past noon of its deadline's day | `DeadlineInv`, the same for deadlines; `after_noon` shows why the hypothesis is there |

`TickShape` says what the tick's local variables may be at each `pc` and carries all of them. Each
proof asks first which steps touch the variables of a conjunct (the `Moves` lemmas); most
actions fall to that, and the two or three that are left are proved one by one.

Assumptions: the types of the constants, jobs of one group carry one cap
(`CapAssumption`: `mintWave` and `appendFlowNode` copy it), the watchdog's slack is
positive, a deadline is a time of day.

### The ticketboard

`TicketBoardProofs` proves every invariant of the run `ticketboard`: `TypesKept` (`TypeOK`),
`NoOrphanClaim` (`ScheduledHaveJobs`), `FlaggedOnce` (`AbandonedNotedOnce`),
`NeverMintedTwice` (`NoDoubleMint`) and `WavesAreFair` (`PicksAreFair`). They follow from one
inductive invariant, `IInv` (theorem `Invariance`), whose parts are:

* `TypeInv`: the types of the files; `Held`, that every copy a command, a handler or the
  janitor works on is of a ticket that exists; `Bred`, that `born` lists those and no other;
  `AtPick`, that the picks of a wave in progress were a fair choice.
* `NotesInv`: a request is flagged at most once in a file and in each copy that may still
  replace it.
* `JobsLeft`: a wave mints at most one job per slot, so there is a free job id whenever a
  wave has a pick to mint.
* `ClaimsHaveJobs`: a claim for the plan, and one about to be made, has its job.
* `PicksUnclaimed`: no pick still to be minted has a fresh claim for the plan.

The proof has a lemma for each group of variables that says which steps write it
(`TicketWrites`, `ClaimWrites`, ...), then one step lemma per part. The second half has the
algorithm: `Kept` lists the members of a set in the order of a sequence, every one once
(`KeptInOrder`), so a lane is its tickets in order (`LaneListed`), and cutting, filling up and
gluing lanes gives each its share (`PickedWell`). The assumption is `BoardAssumption`.

### The task flow

`FlowRunProofs` (the first two) and `FlowRunGraphProofs` prove, for every path, edge,
fan-out, budget and any number of crashes, failed saves, repeated requests and races:

* `EverySessionOwned` (`SessionsOwned`): a session is only ever started for a node of the
  saved flow. What makes it hard is that a job file is on disk before the flow that names
  it, and that a crash may come in between. Such an *orphan* is queued and could be launched;
  the invariant `Safe` says why it is not: it is gated (`UngatedOwned`) and stays gated, since
  it waits on an id the saved flow does not have, or on a node whose report nobody has acted
  on yet (`Routed`, `Holds`, `Waits`), until the flow is saved, the orphan is reaped
  or skipped. Beside it: job files are there before the flow that names them (`Files`:
  saved, or still to be minted ahead of the save), nothing is pending where the tick reads
  (`Quiet`), a report comes from a session (`Reported`).
* `EveryBudgetHolds` (`BudgetHolds`): nodes and sessions within the lifetime budget. The nodes
  are bounded by `Fits`, an invariant of both the saved flow and the handler's copy; the
  sessions follow from the first theorem.
* `GraphAlwaysWellFormed` (`TypeOK`): no two nodes of the saved flow share an id and none waits
  on what is no node, provided no emitter's fan-in has the role of its children (section 5: the
  server does not ask for that, and without it the property is false). The invariant is
  `Wired`: the same of the saved flow and of the handler's copy. Ids of one round differ in
  role or occurrence (`ChainBehind`, `GroupBehind`), those of different rounds in the round
  (`Laid`), and a round only waits on itself or on the node it is put behind (`GraphGrows`).
  `FlowRunAccounted` adds the counters `TypeOK` bounds: a request that is removed was in the
  spool.
* `AcceptanceAlwaysDecides` (`AcceptanceDecides`), under the same hypothesis. The invariant is
  `Decisive`: a run that has begun has a leaf (a node no other waits on); in a complete one the
  last leaf has said so, and the verdict pass that settled it has gone by it, so what it still
  inserts comes behind later nodes, which are no leaves. A round put behind a node takes over
  its place among the leaves and changes no other (`LeavesMove`), which needs that all of a
  round but its last node is waited on (`ChainTailed`, `GroupTailed`). `PlainMoves`,
  `NeedsWorkMoves`, `EmitMoves` and `SpoolMoves` say which nodes each step stamps and adds.
* `AlwaysActedOnce` (`ActedOnce`), under the same hypothesis. The invariant `Paid` is a
  balance, of the saved flow and of the handler's copy: rounds are at most the nodes that gave
  needs-work, plus the emitters that were given a group, plus `Owe`, the requests taken out of
  the spool, the crashes, and the request whose removal is still to be written. A step that adds
  a round adds to one of the three (`FaultOwes`, `GroupOwes`, `SpoolPaid`), and `Owe` never
  falls (`OweGrows`): a crash that loses a removal has been counted itself. `Single` says an
  emitter that has a group has a verdict, which no pass acts on again.
* `BlockedAlwaysForCause` (`BlockedForCause`) and `TerminalAlwaysReaped` (`TerminalReaped`),
  under the same hypothesis, and of every state before the first failed authentication. Both
  need that the status pass never blocks a run of its own accord (`StatusNeverBlocks`): it does
  when a skipped job is the acceptance node's, or when there is one and no node has run. The
  invariant `Tidy` says why neither comes up in a run that goes on: its decider has no verdict
  yet, a node that ended without a report was emitted, a node with any other verdict has a
  report, and so has the emitter of every emitted node, which is never the decider (`Excused`,
  `Open`). `Passed` adds that a skipped job without a verdict is still ahead of the pass, so it
  is news and the status pass has to wait for it; a failed authentication puts its mark behind
  the pass's back and breaks just that. `GrowsExcused` and `GrowsOpen` take `Tidy` through every
  insertion, `Goes` is what a verdict does. A run that is over has nothing left that could start
  (`Cleared`), and a copy that is about to be saved so has all of it in a deletion still to be
  done (`Clearing`), which comes before the save (`SavedLast`); jobs only age (`JobsAge`).
  The proof corrected the property: an emitted child is excused when it fails or reports
  blocked, but a needs-work verdict of its own does block the run when its role has an edge
  whose roles cannot be minted (`flows.go:1388-1394`), so `BlockedForCause` names that cause.

`FlowRunPlans` carries the argument about the data: `Plan` says which file writes a handler
may owe and in what order, `Insertion` and `Extends` what one round of nodes does to a flow
(`InsertedFlow`, `EmittedFlow`, `PartFlow`, one lemma per way to insert), and `FlowRunProofs`
turns it into one statement about every step of the verdict pass (`RouteActs`). The
assumption is `FlowAssumption`: the types of the constants; paths, chains and edges name
known roles and are not empty.

### The console

`ConsoleProofs` proves what relates the pages to the shell, the server and the other tabs,
`ConsoleShapeProofs` what the pages hold; together every safety property of the `console`
run, for every catalog, set of agents, tabs, ideas and waves, and every session.

| Theorem | Property | Inductive invariant |
|---|---|---|
| `GuardAlwaysFollowsDraft` | `GuardFollowsDraft` | `GuardHolds`: the property, and that the prompt page's home is its library (`HomeIsLibrary`), so that leaving a node leaves no draft behind |
| `TypingAlwaysSurvives` | `TypingSurvives` | `BaseIsCached`: an editor on screen diffs against the cached file it shows |
| `NightAlwaysSettles` | `NightSettles` | `SweepsAgree`: a switch on screen is the server's, or one of its calls or a refetch is still to correct it; `RowsAgree`, the same for job rows |
| `TabsAlwaysAgree` | `TabsAgree` | `KeysAgree`: per tab and key, the snapshot is the storage's unless an event for that key is on its way |
| `PromptsAlwaysRecoverable` | `PromptsRecoverable` | `PromptsKept`: the same with the files' shapes, and that a deleted node has no files |
| `HistoryImplementsTimeline` | `ImplementsTimeline` | `HistoryShapes`; `LineOf` is the refinement mapping |
| `RefreshAlwaysKeepsShape` | `RefreshKeepsShape`, of drawings within the address bar's limits | `TemplateHolds`: every shape on screen or in the history is one the editor can draw (no stage empty or too wide), every template at the server, in the cache or in a call is well formed |
| `RefusalsAlwaysForeseen` | `RefusalsForeseen`, up to `Unlooked` | the same, with the emitters of the draft |
| `WavesAlwaysFollowTriggers` | `WavesFollowTriggers` | `ProfileHolds`: every profile at the server, in the cache, a draft, a call or a proposal has `Sound` waves (no name twice, no ring), and a stored one has times that can be read |
| `PreviewAlwaysIsWhatRuns` | `PreviewIsWhatRuns` | `LauncherHolds`: what was sent is a drawing of what it names (`AsDrawn`), whatever the catalog became since |
| `ConsoleAlwaysTyped` | `ConsoleTypeOK` | all of these, and `PromptHolds`, `FocusHolds`, `RunHolds`, `JobsHold`, `TabsHold`: copies, calls and late answers of a page are ones it can have asked for |

The proofs begin with a classification: `TemplateMoves` says what the many edits of the
template editor can do to the guard and to the history (nothing, an `Apply`, an undo, a
redo, a reset), `ShellMoves` what any step can do to the shell, so each property is proved
over a handful of cases. `HistoryImplementsTimeline` maps an edit to `Edit` (`EditedLine`:
what lies ahead goes, of what lies behind the newest that fit are kept), undo and redo to
moves on an unchanged line (`WalkBack`, `WalkForth`), a save, reset or remount to `Begin`.

The invariants of `ConsoleShapeProofs` are needed because each property speaks of what is on
screen, and what is on screen came from somewhere else: a refetched catalog, an old answer,
the address bar, a step of undo. The data is what makes these theorems hard:

* *Drawing and reading back* (`DrawingRestored`). The editor draws a stage list as a set of
  nodes and restores it by sorting stage numbers and places. A set listed in a total order is
  its only ranking (`Enumerated`), so a row drawn from a stage is listed as that stage
  (`RowListed`) and the numbers of the stages come back in order, provided no stage is empty.
  An edit, the canvas, undo and redo keep every shape drawable (`StageListFits`,
  `EdgeListFits`, `CanvasFits`, `AppliedHolds`, `WalkedHolds`), and a drawing from the address
  bar is taken only for the template and revision it was made for (`RestoredFits`).
* *Two copies of one rule* (`Foreseen`). `NoIssue` and `NoDraftIssue` say what a draft the
  console finds nothing wrong with is like. The two sides do not ask the same questions: the
  server refuses a path longer than the cap, the console only a worst case beyond it, which is
  no less than the path (`WorstIsMore`); the server counts a slotted member over the whole
  path, the console within each stage and between pairs of stages (`SlotsAreUnique`). Limits
  the console does not know are in `Unlooked`, an emitter's refusal only where its menu of roles
  is too long.
* *The order of the waves* (`AllSettled`, `ListedAfter`). `Settled` says of a set of waves that
  each has its place and stands after its upstreams. The timed ones are from the start, a pass
  settles each wave whose upstreams are settled and unsettles none (`PassSettles`), and as long
  as a wave hangs on settled ones alone but is not settled, the next pass settles one more, so
  that as many passes as waves are enough. The sort that follows keeps waves of one place in
  their order.
* *Preview and run* (`HandledRun`). The server resolves what was sent against its own copy of
  the template; where that is the copy that was previewed, or the operator gave the nodes, the
  run is the drawing restored.

What these rest on is in `SubsequenceProofs`. The provers take no induction over data, so it
is done with sets: `Upward` (a set of numbers with 0 and every next one has them all),
`Folding` and `Walked` (a fold over the first n numbers is the last of n steps), from which
follow what `FlattenSeq`, `FoldLeft` and `SetToSeq` do (`Flattened`, `SumBounds`, `PassSteps`,
`ListedOnce`).

The assumptions on the constants, each checked by TLC in the `console` run:
`SessionAssumption` (the events of a session are counted), `HistoryAssumption` (the history
holds at least one shape; 100 in the code), `GraphAssumption` (bounds are positive, a role has
at least two slots), `LibraryAssumption` and `ShelfAssumption` (templates that are stored or
offered are `WellFormed`, which `loadCustomFlowTemplate` demands of every file it reads),
`WaveAssumption` (one of the first profiles can be parsed, the built-in waves have neither a
name twice nor a ring; nothing is assumed of what is typed as a time), `PromptAssumption`, `FocusAssumption`,
`RunAssumption`, `NightAssumption` and `VisibilityAssumption` (first values are among the
values there are).

### What stays with TLC

Liveness only (`EveryJobSettles`, `DeadRunsReleased`, `LandedCloses`, `Decided`,
`RunPageCatchesUp`): it rests on fairness and ENABLED, which the prover does not support.
Every invariant and every action property that a passing run checks is also a theorem.

### What the proofs changed in the model

Three definitions of the console determined no value in a case TLC never asked about, or
asked for an order that was none, and were corrected after the code: the place of a wave is
optional (`TimedOrder`, `Place`: `orderWaves` looks a missing upstream up and finds nothing);
a list is sorted by `<=` with the position in the list as the tie-break, as a stable sort does
(`Ranked`, `OrderWaves`); and the conditions of `JobStatus` are tried in turn, as the
code's chain of returns does, instead of overlapping branches of a CASE.

## 5. Findings

* `relaunch`: a crash or a failed save between dispatch and stamp makes the next tick
  disarm the live run's auto-stop; the comment in `nightshift-rc` says timer-first has no
  such hole.
* `after_noon`: a past deadline is tomorrow's once it is noon, so a wave that
  no tick has looked at from before its deadline until noon, as the box or the control plane was
  down, is launched with its whole window in the afternoon; `scheduler.go` says a late launch
  must still end when the schedule said it would. A wave that was merely held is skipped by the
  first tick after its deadline: `Admit` asks the window before holds and caps.
* `flow_race`: the verdict hold and the readiness of a gated node are two reads; a verdict
  that lands in between launches the successor beside the roles inserted for it.
* `flow_auth`: the pre-flight's skip report makes a dead-credentials node count as
  delivered without a verdict, and the chain proceeds.
* `ticket_steal`: a claim judges the sidecar's age and then moves whatever sidecar is there;
  a second thief moves the first one's fresh lock and both own the ticket, which the
  comment in `nightshift-ticket` says the atomic `mv` rules out.

A rule the server does not check, met while proving; no run is built on it:

* `emit.go:250-277` compares the fan-in's role with the emitter's own role only. Where it is
  the role of a child, the fan-in's id (`emit.go:423`) is that of the first child: two nodes
  have one id, and the fan-in waits on itself.

Disagreements between the console and its server met while modelling it, none of which
breaks a property above as stated:

* Removing a pinned comparison member leaves its pin in the draft: the console calls it
  valid, the server refuses, and no field on screen can clear it. Route sources that left
  the path, pin values, schedules without a goal, more than 16 routes or 16 roles of one route
  (`workbench.go:357-359`, `382-384`), more than 8 roles of an emitter (`emit.go:258`, although
  `model.ts:150` says the refusals are the same), and long names and descriptions
  (`workbench.go:317`) are unchecked by the console too; `RefusalsForeseen` names them all. A
  body of more than 32 KB (`workbench.go:495`) is refused too, which only long texts and lists
  beyond those limits make. Its minutes look a slotted member up under its slotted name.
* Separating a slotted member rebuilds it from its role, so `attempt#2` becomes `attempt` and
  its pin stays behind.
* A wave's time is free text to the form (`PipelinePage.tsx:254-260`). "9" has no minutes, so
  `nightOrder` and the comparison of the sort are NaN and a triggered wave of the draft may be
  listed above its upstream; the server refuses such a profile, the list says nothing.
* A rejected save stamps the issues onto the shape at that moment: edits made while the
  save was pending are shown as rejected. The stamp covers stages and routes only.
* A new or copied template, and a new profile, saved under an existing id overwrite it.
* A refetched revision remounts the template and prompt editors and drops unsaved text.
  A failed background refetch takes the profile and focus editors away with theirs. The
  runtime panel and the new node's form never register a guard, and the logo and the
  breadcrumbs do not ask it. A save that ends after the operator left navigates anyway.
* A profile opened again soon after it was saved starts from the old copy and turns dirty
  when the new one arrives. Renaming or removing a wave leaves `after` entries that the
  form no longer shows.
* The focus editor's base moves while text is unsaved, so saving it then drops a promotion
  that arrived meanwhile; its comment leaves that conflict to the operator.
* The address bar has neither pins, emitters nor fields, and a graph of more than 12288
  characters in it is not restored (`urlState.ts:37-39`).
* The run page clears guidance typed while an earlier one is sent, an older poll answer may
  replace a call's newer one until the next poll, and three of the four handlers answer with
  the run they failed to save. It offers deadline and guidance on an ended run, which the
  server refuses, and neither stop nor clean-up on a blocked one.
* The launcher's finish time is judged against the moment the form was opened, the server's
  ten minutes against now. Its emission budget counts an emitter once, the server each
  occurrence.
* A failed switch puts the whole map of switches back; the invalidation that follows
  corrects it. A wave's chip counts jobs by the prefix of their label.
* Two tabs that hide agents at once lose one of the two; a write the storage refused is
  undone by the next event.

## 6. What would come next

1. `LandedCloses` and the other liveness properties rest on invariants that could be proved;
   the leads-to steps themselves are out of the prover's reach.
2. Sweep minting: dedup around midnight, grace, late mint, failed config save, restart.
3. The governor: checkpoints and top-up once per night, the ratchet once per day.
4. Remote control, alerts and the ingester.

## 7. Not modelled

* Sweep minting, the governor, the flow janitor's git work, remote-control sessions, the
  ingester, the detectors and access verification have no module. Their hazards, beyond
  those in `PROJECT.json`, are: a checkpoint repeated after a restart, which mints its top-up or
  moves the budget twice (`governor.go:249`), the session cap counted before the unit starts
  (`nightshift-rc:86`), a transcript whose last line is half written (`ingest.go:113`),
  an alert kept after its cause (`detect.go:84`), a rotated key refused for the cooldown
  (`access.go:110`), and a deadline request that resets a finished flow's worktree fields
  (`flows.go:1239`).
* Reporting endpoints, the report reaper, development mode and provisioning hold no state
  the system's behaviour depends on.
* Of the console: the read-only pages (inbox, health, logs, ledger, cards of the studio,
  reports), the terminal, and everything about appearance.
* Formatting, logging and wording are left out of every module.
