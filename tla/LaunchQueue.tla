---------------------------- MODULE LaunchQueue ----------------------------
(***************************************************************************)
(* The launch queue of the control plane: one scheduler tick at a time      *)
(* (schedTick, under nsMu) visits every job file, collects the candidates,  *)
(* admits them in launch order through the gates of scheduler.Service.Admit *)
(* and dispatches at most one through nightshift-rc, which arms an          *)
(* auto-stop timer and starts a systemd unit.  Units, their reports and the *)
(* executor probes live outside the lock and may move between any two       *)
(* steps of a tick; the control plane may crash between any two of them.    *)
(*                                                                          *)
(* Time is counted in whole units (the run that instantiates the module     *)
(* says how long one is).  It advances only between ticks: a tick reads the *)
(* clock once (launchClock), and here it is also instantaneous.             *)
(***************************************************************************)
EXTENDS Integers, FiniteSets

CONSTANTS
  Jobs,           \* run ids; the integer order is the string order of the ids
  At,             \* At[j]: due time
  Minutes,        \* Minutes[j]: auto-stop window the job is queued with
  FinishBy,       \* FinishBy[j]: absolute flow deadline, or None
  Deadline,       \* Deadline[j]: profile "HH:MM" as a time of day, or None
  Deferred,       \* jobs an operator queued (Kind "deferred")
  FastStart,      \* jobs that bypass the launch gap
  Flow,           \* flow nodes: no upstream wait limit, own worktree
  Codex,          \* jobs of the codex executor; the others are claude's
  After,          \* After[j]: upstream waves, each a set of jobs; {} = ungated
  Quorum,         \* Quorum[j] \subseteq After[j]: emitted (fan-out) upstreams
  CapGroup,       \* CapGroup[j]: the flow or pipeline run j belongs to, or None
  Cap,            \* Cap[j]: sessions its group may run at once, 0 = uncapped
  BoxCap,         \* maxConcurrentSessions of the box, 0 = uncapped
  LaunchGap, Floor, Slack, WatchdogMinAge, WatchdogInterval, HoldMaxAge,
  LimitWindow, MaxWait, Grace, KeepFor,       \* the code's durations
  DayLen, Noon,   \* length of a day, and its noon
  Start, MaxTime, \* the clock runs from Start to MaxTime
  MaxErrors,      \* bound: errors the code handles (rc, worktree, probe)
  MaxCrashes,     \* bound: control-plane crashes and failed saves
  MaxAlarms,      \* bound: auth-down verdicts and limit hits
  MaxMissed,      \* bound: units of time that pass without a tick
  BlankAnswers    \* systemctl may fail, and nightshift-rc then answer nothing

None == -1

ASSUME JobsAssumption ==
  /\ Jobs \subseteq Nat /\ IsFiniteSet(Jobs)
  /\ At \in [Jobs -> Nat] /\ Minutes \in [Jobs -> Nat \ {0}]
  /\ FinishBy \in [Jobs -> Nat \cup {None}]
  /\ Deadline \in [Jobs -> Nat \cup {None}]
  /\ After \in [Jobs -> SUBSET SUBSET Jobs]
  /\ CapGroup \in [Jobs -> Nat \cup {None}] /\ Cap \in [Jobs -> Nat]

\* Every job of a cap group is stamped with the group's one cap
\* (mintWave, appendFlowNode copy it from the pipeline or the flow).
ASSUME CapAssumption ==
  \A i, j \in Jobs : CapGroup[i] = CapGroup[j] => Cap[i] = Cap[j]

ASSUME TimeAssumption ==
  /\ BoxCap \in Nat /\ BlankAnswers \in BOOLEAN
  /\ {LaunchGap, WatchdogInterval, HoldMaxAge, LimitWindow, MaxWait,
      Grace, KeepFor, Noon, Start, MaxTime, MaxErrors, MaxCrashes,
      MaxAlarms, MaxMissed} \subseteq Nat
  /\ {Floor, Slack, WatchdogMinAge, DayLen} \subseteq Nat \ {0}

\* A deadline is a time of day ("HH:MM"), and so is noon.
ASSUME DayAssumption ==
  Noon <= DayLen /\ \A j \in Jobs : Deadline[j] < DayLen

VARIABLES
  now,        \* the wall clock
  job,        \* the job files: [phase, gated, minutes, startedAt]
  files,      \* files[j]: which of <id>.md, .authfail, .depskip, .watchdog exist
  unit,       \* the systemd unit of a run: "none", "active" or "dead"
  stopAt,     \* when the unit's armed auto-stop timer fires, or None
  downAt,     \* time of an executor's standing auth-down verdict, or None
  limitAt,    \* time of an uncleared limit-hit alert, or None
  lastLaunch, \* cfg.LastLaunch on disk
  probed,     \* watchdogChecked, in memory; None = never
  pc,         \* where the tick stands: "idle" between ticks
  left,       \* jobs the maintenance loop has still to visit
  cands,      \* launch candidates not yet admitted or passed over
  occupied,   \* the jobs loadQueue counted as working
  held,       \* executors the tick's health snapshot holds
  gapBlocked, \* the launch gap had not elapsed at the snapshot
  cur,        \* the job being dispatched or launched in this tick, or None
  ticked,     \* a tick ended since the clock last moved
  errors, crashes, alarms, missed   \* spent budgets

disk    == <<job, files, lastLaunch>>
units   == <<unit, stopAt>>
health  == <<downAt, limitAt>>
tick    == <<pc, left, cands, occupied, held, gapBlocked, cur>>
budgets == <<errors, crashes, alarms, missed>>
vars == <<now, disk, units, health, probed, tick, ticked, budgets>>

Executors == {"claude", "codex"}
Executor(j) == IF j \in Codex THEN "codex" ELSE "claude"
Exists(j) == job[j].phase \in {"queued", "started", "skipped"}
Least(a, b) == IF a < b THEN a ELSE b

(***************************************************************************)
(* The pure rules of internal/run and internal/queue.                       *)
(***************************************************************************)
Tier(j) == CASE j \in Deferred -> 0
             [] j \notin Deferred /\ (Deadline[j] # None \/ FinishBy[j] # None) -> 1
             [] OTHER -> 2

Before(i, j) ==
  \/ Tier(i) < Tier(j)
  \/ Tier(i) = Tier(j) /\ At[i] < At[j]
  \/ Tier(i) = Tier(j) /\ At[i] = At[j] /\ i < j

\* MUTANT of FitBefore: no floor.
FitBeforeNoFloor(end, m) == Least(m, end - now)

\* The window a launch at this instant may use, or None when less than the
\* launcher's floor is left of it.
FitBefore(end, m) ==
  IF end - now < Floor THEN None ELSE Least(m, end - now)

\* "HH:MM" today, or tomorrow's when it is past and the clock is after noon.
DeadlineClampedMinutes(j, m) ==
  IF Deadline[j] = None THEN m
  ELSE LET today == (now - (now % DayLen)) + Deadline[j]
           rolls == today < now /\ (now % DayLen) >= Noon
       IN  FitBefore(IF rolls THEN today + DayLen ELSE today, m)

AbsoluteDeadlineMinutes(j, m) ==
  IF FinishBy[j] = None THEN m ELSE FitBefore(FinishBy[j], m)

Window(j) ==
  LET m == DeadlineClampedMinutes(j, job[j].minutes)
  IN  IF m = None THEN None ELSE AbsoluteDeadlineMinutes(j, m)

RunMaybeActive(j) == now < job[j].startedAt + job[j].minutes + Slack

\* A started job that still occupies a session slot.
JobWorking(j) ==
  job[j].phase = "started" /\ RunMaybeActive(j) /\ files[j] = {}

Working == {j \in Jobs : JobWorking(j)}

\* MUTANT of AdmitCap: off by one.
AdmitCapOneMore(j) ==
  /\ BoxCap > 0 => Cardinality(occupied) <= BoxCap
  /\ Cap[j] > 0 /\ CapGroup[j] # None =>
       Cardinality({i \in occupied : CapGroup[i] = CapGroup[j]}) <= Cap[j]

AdmitCap(j) ==
  /\ BoxCap > 0 => Cardinality(occupied) < BoxCap
  /\ Cap[j] > 0 /\ CapGroup[j] # None =>
       Cardinality({i \in occupied : CapGroup[i] = CapGroup[j]}) < Cap[j]

\* MUTANT of Fresh: a stale verdict still holds the queue.
FreshForEver(t, age) == t # None

Fresh(t, age) == t # None /\ now - t < age

\* The executors ExecutorHold pauses: a fresh auth-down verdict, or (claude
\* only) an open limit-hit inside its rolling window.
HeldExecutors ==
  {e \in Executors : \/ Fresh(downAt[e], HoldMaxAge)
                     \/ e = "claude" /\ Fresh(limitAt, LimitWindow)}

\* MUTANT of WatchdogDue: a run is probed only once.
WatchdogDueOnce(j) ==
  now - job[j].startedAt >= WatchdogMinAge /\ probed[j] = None

WatchdogDue(j) ==
  /\ now - job[j].startedAt >= WatchdogMinAge
  /\ probed[j] # None => now - probed[j] >= WatchdogInterval

(***************************************************************************)
(* Gating on upstream waves (profile.go).                                   *)
(***************************************************************************)
JobTerminalNoReport(j) ==
  \/ job[j].phase = "skipped"
  \/ files[j] \cap {"depskip", "authfail", "watchdog"} # {}
  \/ /\ job[j].phase = "started"
     /\ now > job[j].startedAt + job[j].minutes + Slack

UpstreamWaveStatus(wave) ==
  LET here == {j \in wave : Exists(j)} IN
  CASE \E j \in here : "report" \in files[j] -> "success"
    [] /\ here # {}
       /\ \A j \in here : "report" \notin files[j] /\ JobTerminalNoReport(j)
         -> "failed"
    [] OTHER -> "pending"

\* MUTANT of GatedReadiness: the first delivered upstream is enough.
GatedReadinessAny(j) ==
  IF \E w \in After[j] : UpstreamWaveStatus(w) = "success" THEN "success"
  ELSE "pending"

GatedReadiness(j) ==
  LET Waves(s) == {w \in After[j] : UpstreamWaveStatus(w) = s} IN
  CASE \/ ~ Waves("failed") \subseteq Quorum[j]
       \/ Waves("failed") # {} /\ Waves("success") = {} /\ Waves("pending") = {}
       \/ /\ Waves("pending") # {} /\ j \notin Flow
          /\ now > At[j] + MaxWait
         -> "failed"
    [] /\ Waves("pending") # {} /\ Waves("failed") \subseteq Quorum[j]
       /\ j \in Flow \/ now <= At[j] + MaxWait
         -> "pending"
    [] OTHER -> "success"

Init ==
  /\ now = Start
  /\ job = [j \in Jobs |-> [phase |-> "absent", gated |-> FALSE,
                            minutes |-> Minutes[j], startedAt |-> None]]
  /\ files = [j \in Jobs |-> {}]
  /\ unit = [j \in Jobs |-> "none"] /\ stopAt = [j \in Jobs |-> None]
  /\ downAt = [e \in Executors |-> None] /\ limitAt = None
  /\ lastLaunch = None
  /\ probed = [j \in Jobs |-> None]
  /\ pc = "idle" /\ left = {} /\ cands = {} /\ occupied = {} /\ held = {}
  /\ gapBlocked = FALSE /\ cur = None
  /\ ticked = FALSE
  /\ errors = 0 /\ crashes = 0 /\ alarms = 0 /\ missed = 0

(***************************************************************************)
(* Handlers that take nsMu, so they run only between ticks.                 *)
(***************************************************************************)
\* A job file appears: a sweep slot is minted once it is due and within the
\* grace, an operator's run or a flow's node at any time.
Queue(j) ==
  /\ pc = "idle" /\ job[j].phase = "absent"
  /\ j \in Deferred \cup Flow \/ (At[j] <= now /\ now <= At[j] + Grace)
  /\ job' = [job EXCEPT ![j].phase = "queued", ![j].gated = After[j] # {}]
  /\ UNCHANGED <<now, files, lastLaunch, units, health, probed, tick, ticked, budgets>>

\* handleJobCancel: anything not started is deleted, whatever its markers.
Cancel(j) ==
  /\ pc = "idle" /\ job[j].phase \in {"queued", "skipped"}
  /\ job' = [job EXCEPT ![j].phase = "gone"]
  /\ UNCHANGED <<now, files, lastLaunch, units, health, probed, tick, ticked, budgets>>

(***************************************************************************)
(* schedTick: the maintenance loop over the job files.                      *)
(***************************************************************************)
TickBegin ==
  /\ pc = "idle"
  /\ pc' = "maintain" /\ left' = Jobs /\ cands' = {}
  /\ UNCHANGED <<now, disk, units, health, probed, occupied, held, gapBlocked,
                 cur, ticked, budgets>>

\* loadJobs lists the latest due time first; equal ones in no fixed order.
Visiting(j) ==
  /\ pc = "maintain" /\ j \in left
  /\ \A i \in left : At[i] <= At[j]
  /\ left' = left \ {j}
  /\ UNCHANGED <<now, lastLaunch, units, health, probed, pc, occupied, held,
                 gapBlocked, cur, ticked, alarms, missed>>

Saves == UNCHANGED <<errors, crashes>>
WriteFails == crashes < MaxCrashes /\ crashes' = crashes + 1
SaveFails == WriteFails /\ UNCHANGED errors
EnvError == errors < MaxErrors /\ errors' = errors + 1

\* A skip is two writes, the marker and the job file.  Either may fail, which
\* is logged or ignored; a crash between the two is a failed write, then Crash.
DepSkip(j) ==
  \E marked, saved \in BOOLEAN :
    /\ files' = IF marked THEN [files EXCEPT ![j] = @ \cup {"depskip"}] ELSE files
    /\ job' = IF saved THEN [job EXCEPT ![j].phase = "skipped", ![j].gated = FALSE]
              ELSE job
    /\ IF marked /\ saved THEN UNCHANGED crashes ELSE WriteFails

Due(j) == At[j] <= now
Gated(j) == job[j].phase = "queued" /\ job[j].gated
Ungated(j) == job[j].phase = "queued" /\ ~ job[j].gated
WindowTooShort(j) == FinishBy[j] # None /\ now + Floor > FinishBy[j]

\* A skipped or started job older than the keep horizon is deleted.
VisitPrune(j) ==
  /\ Visiting(j)
  /\ job[j].phase \in {"skipped", "started"} /\ now - At[j] > KeepFor
  /\ job' = [job EXCEPT ![j].phase = "gone"]
  /\ UNCHANGED <<files, cands, errors, crashes>>

\* Upstreams delivered and the window is open: the job is ungated with its
\* clamped window, and is a candidate of this tick if it is due.
VisitUngate(j) ==
  /\ Visiting(j)
  /\ Gated(j) /\ GatedReadiness(j) = "success" /\ Window(j) # None
  /\ \/ /\ job' = [job EXCEPT ![j].gated = FALSE, ![j].minutes = Window(j)]
        /\ cands' = IF Due(j) THEN cands \cup {j} ELSE cands
        /\ Saves
     \/ UNCHANGED <<job, cands>> /\ SaveFails
  /\ UNCHANGED files

\* A dead upstream, a closed window, or a flow member without its worktree.
VisitDepSkip(j) ==
  /\ Visiting(j)
  /\ \/ Gated(j) /\ GatedReadiness(j) = "failed"
     \/ Gated(j) /\ GatedReadiness(j) = "success" /\ Window(j) = None
     \/ Ungated(j) /\ WindowTooShort(j)
  /\ DepSkip(j)
  /\ UNCHANGED <<cands, errors>>

\* MUTANT of VisitNoWorktree: the marker is written, the job is not skipped.
VisitNoWorktreeKeepsJob(j) ==
  /\ Visiting(j) /\ j \in Flow /\ Ungated(j) /\ Due(j) /\ ~ WindowTooShort(j)
  /\ files' = [files EXCEPT ![j] = @ \cup {"depskip"}]
  /\ EnvError /\ UNCHANGED <<job, cands, crashes>>

VisitNoWorktree(j) ==
  /\ Visiting(j) /\ j \in Flow
  /\ \/ Gated(j) /\ GatedReadiness(j) = "success" /\ Window(j) # None
     \/ Ungated(j) /\ Due(j) /\ ~ WindowTooShort(j)
  /\ DepSkip(j)
  /\ EnvError /\ UNCHANGED cands

VisitCandidate(j) ==
  /\ Visiting(j) /\ Ungated(j) /\ Due(j) /\ ~ WindowTooShort(j)
  /\ cands' = cands \cup {j}
  /\ UNCHANGED <<job, files, errors, crashes>>

\* Nothing to do: no file, not due, still waiting, or young enough to keep.
\* A gated flow node may also be kept waiting by its flow's verdict hold.
VisitNothing(j) ==
  /\ Visiting(j)
  /\ \/ ~ Exists(j)
     \/ job[j].phase \in {"skipped", "started"} /\ now - At[j] <= KeepFor
     \/ Gated(j) /\ (j \in Flow \/ GatedReadiness(j) = "pending")
     \/ Ungated(j) /\ ~ Due(j) /\ ~ WindowTooShort(j)
  /\ UNCHANGED <<job, files, cands, errors, crashes>>

Maintain(j) ==
  \/ VisitPrune(j) \/ VisitUngate(j) \/ VisitDepSkip(j)
  \/ VisitNoWorktree(j) \/ VisitCandidate(j) \/ VisitNothing(j)

\* loadQueue and newLaunchTick: the one snapshot every candidate is judged by.
Snapshot ==
  /\ pc = "maintain" /\ left = {}
  /\ pc' = "admit"
  /\ occupied' = Working
  /\ held' = HeldExecutors
  /\ gapBlocked' = (lastLaunch # None /\ now - lastLaunch < LaunchGap)
  /\ UNCHANGED <<now, disk, units, health, probed, left, cands, cur, ticked,
                 budgets>>

(***************************************************************************)
(* schedTick: the launch phase, one candidate of the sorted list at a time. *)
(***************************************************************************)
\* MUTANT of Admitting: the candidates are not sorted.
AdmittingUnsorted(j) ==
  /\ pc = "admit" /\ j \in cands
  /\ cands' = cands \ {j}
  /\ UNCHANGED <<now, lastLaunch, units, health, probed, left, occupied, held,
                 gapBlocked, ticked, alarms, missed>>

Admitting(j) ==
  /\ pc = "admit" /\ j \in cands
  /\ \A i \in cands \ {j} : Before(j, i)
  /\ cands' = cands \ {j}
  /\ UNCHANGED <<now, lastLaunch, units, health, probed, left, occupied, held,
                 gapBlocked, ticked, alarms, missed>>

\* MUTANT of Admissible: the launch gap is not asked.
AdmissibleNoGap(j) == Executor(j) \notin held /\ AdmitCap(j)

Admissible(j) ==
  /\ Executor(j) \notin held
  /\ AdmitCap(j)
  /\ gapBlocked => j \in FastStart

\* The window closed while the job was queued: skipped for good.  Here the file
\* is saved before the marker is written.
SkipWindow(j) ==
  /\ Admitting(j) /\ Window(j) = None
  /\ DepSkip(j)
  /\ UNCHANGED <<pc, cur, errors>>

\* Executor held, a cap reached or the gap not elapsed: it stays queued.
PassOver(j) ==
  /\ Admitting(j) /\ Window(j) # None /\ ~ Admissible(j)
  /\ UNCHANGED <<job, files, pc, cur, errors, crashes>>

\* MUTANT of PersistClamp: the clamp is not saved, so the timer is armed from
\* the window the job was queued with.
PersistClampForgets(j) ==
  /\ Admitting(j) /\ Window(j) # None /\ Admissible(j)
  /\ pc' = "dispatch" /\ cur' = j /\ Saves
  /\ UNCHANGED <<job, files>>

\* The clamped window is saved before the dispatch; if it cannot be, the
\* candidate is given up for this tick.
PersistClamp(j) ==
  /\ Admitting(j) /\ Window(j) # None /\ Admissible(j)
  /\ \/ /\ job' = [job EXCEPT ![j].minutes = Window(j)]
        /\ pc' = "dispatch" /\ cur' = j
        /\ Saves
     \/ /\ Window(j) # job[j].minutes
        /\ UNCHANGED <<job, pc, cur>> /\ SaveFails
  /\ UNCHANGED files

(***************************************************************************)
(* nightshift-rc run: stop a timer of an earlier start, arm the new one,    *)
(* start the unit; if the unit cannot be started stop the timer again.      *)
(***************************************************************************)
RcRun ==
  /\ pc = "dispatch"
  /\ \/ /\ unit[cur] # "active"
        /\ stopAt' = [stopAt EXCEPT ![cur] = now + job[cur].minutes]
        /\ unit' = [unit EXCEPT ![cur] = "active"]
        /\ pc' = "mark"
        /\ UNCHANGED <<cur, errors, crashes>>
     \/ /\ unit[cur] # "active" => errors < MaxErrors
        /\ errors' = IF unit[cur] = "active" THEN errors ELSE errors + 1
        /\ stopAt' = [stopAt EXCEPT ![cur] = None]
        /\ pc' = "admit" /\ cur' = None
        /\ UNCHANGED <<unit, crashes>>
  /\ UNCHANGED <<now, disk, health, probed, left, cands, occupied, held,
                 gapBlocked, ticked, alarms, missed>>

\* MUTANT of MarkStarted: the time is stamped, the job is not marked started.
MarkStartedTimeOnly ==
  /\ pc = "mark"
  /\ job' = [job EXCEPT ![cur].startedAt = now] /\ Saves
  /\ pc' = "finish" /\ cands' = {}
  /\ UNCHANGED <<now, files, lastLaunch, units, health, probed, left, occupied,
                 held, gapBlocked, cur, ticked, alarms, missed>>

\* MUTANT of MarkStarted: the tick goes on launching on the same snapshot.
MarkStartedGoesOn ==
  /\ pc = "mark"
  /\ job' = [job EXCEPT ![cur].phase = "started", ![cur].startedAt = now]
  /\ Saves /\ pc' = "admit" /\ UNCHANGED cands
  /\ UNCHANGED <<now, files, lastLaunch, units, health, probed, left, occupied,
                 held, gapBlocked, cur, ticked, alarms, missed>>

\* The started stamp.  A failed save is logged and the launch stands.
MarkStarted ==
  /\ pc = "mark"
  /\ \/ /\ job' = [job EXCEPT ![cur].phase = "started",
                              ![cur].startedAt = now]
        /\ Saves
     \/ UNCHANGED job /\ SaveFails
  /\ pc' = "finish" /\ cands' = {}
  /\ UNCHANGED <<now, files, lastLaunch, units, health, probed, left, occupied,
                 held, gapBlocked, cur, ticked, alarms, missed>>

QueueDrained ==
  /\ pc = "admit" /\ cands = {}
  /\ pc' = "finish"
  /\ UNCHANGED <<now, disk, units, health, probed, left, cands, occupied, held,
                 gapBlocked, cur, ticked, budgets>>

\* MUTANT of ReleaseDead: a failed probe counts as a dead unit.
ReleaseDeadOnError(j, failed, blank) == j \in failed \/ unit[j] # "active"

\* A probe whose rc call fails is inconclusive; any answer but "active" is a
\* dead unit.  nightshift-rc swallows a failure of systemctl itself (|| true)
\* and answers nothing, which is such an answer.
ReleaseDead(j, failed, blank) ==
  j \notin failed /\ (unit[j] # "active" \/ j \in blank)

\* runWatchdog, then the save of the config if this tick launched something;
\* a failed save is only logged.
TickEnd ==
  /\ pc = "finish"
  /\ LET due == {j \in Working : WatchdogDue(j)} IN
     \E failed \in SUBSET due :
     \E blank \in IF BlankAnswers THEN SUBSET (due \ failed) ELSE {{}} :
       /\ errors + Cardinality(failed \cup blank) <= MaxErrors
       /\ errors' = errors + Cardinality(failed \cup blank)
       /\ probed' = [j \in Jobs |-> IF j \in due THEN now ELSE probed[j]]
       /\ files' = [j \in Jobs |-> IF j \in due /\ ReleaseDead(j, failed, blank)
                                   THEN files[j] \cup {"watchdog"}
                                   ELSE files[j]]
  /\ IF cur = None
     THEN UNCHANGED <<lastLaunch, crashes>>
     ELSE \/ lastLaunch' = now /\ UNCHANGED crashes
          \/ /\ UNCHANGED lastLaunch
             /\ crashes < MaxCrashes /\ crashes' = crashes + 1
  /\ pc' = "idle" /\ cur' = None /\ occupied' = {} /\ held' = {}
  /\ gapBlocked' = FALSE /\ ticked' = TRUE
  /\ UNCHANGED <<now, job, units, health, left, cands, alarms, missed>>

(***************************************************************************)
(* The control plane dies and comes back at any point: job files and        *)
(* markers stay, units and timers are systemd's, what was in memory is      *)
(* gone: the tick, the probe times, claude's auth verdict.                  *)
(***************************************************************************)
Crash ==
  /\ crashes < MaxCrashes /\ crashes' = crashes + 1
  /\ pc' = "idle" /\ left' = {} /\ cands' = {} /\ occupied' = {}
  /\ held' = {} /\ gapBlocked' = FALSE /\ cur' = None
  /\ probed' = [j \in Jobs |-> None]
  /\ downAt' = [downAt EXCEPT !["claude"] = None]
  /\ UNCHANGED <<now, disk, units, limitAt, ticked, errors, alarms, missed>>

(***************************************************************************)
(* What goes on outside the lock.                                           *)
(***************************************************************************)
\* The session writes (or drafts) its report.
Report(j) ==
  /\ unit[j] = "active" /\ "report" \notin files[j]
  /\ files' = [files EXCEPT ![j] = @ \cup {"report"}]
  /\ UNCHANGED <<now, job, lastLaunch, units, health, probed, tick, ticked, budgets>>

\* The unit ends: the session is over, it died, or handleRunStop stopped it.
\* A timer left behind would stop a unit that no longer runs.
UnitEnds(j) ==
  /\ unit[j] = "active"
  /\ unit' = [unit EXCEPT ![j] = "dead"] /\ stopAt' = [stopAt EXCEPT ![j] = None]
  /\ UNCHANGED <<now, disk, health, probed, tick, ticked, budgets>>

\* The launcher's pre-flight finds the executor logged out: it writes the
\* failure report and the marker and exits.  It runs at the unit's start.
AuthFail(j) ==
  /\ unit[j] = "active" /\ files[j] = {} /\ stopAt[j] = now + job[j].minutes
  /\ files' = [files EXCEPT ![j] = @ \cup {"report", "authfail"}]
  /\ unit' = [unit EXCEPT ![j] = "dead"] /\ stopAt' = [stopAt EXCEPT ![j] = None]
  /\ UNCHANGED <<now, job, lastLaunch, health, probed, tick, ticked, budgets>>

Autostop(j) ==
  /\ unit[j] = "active" /\ stopAt[j] # None /\ stopAt[j] <= now
  /\ unit' = [unit EXCEPT ![j] = "dead"] /\ stopAt' = [stopAt EXCEPT ![j] = None]
  /\ UNCHANGED <<now, disk, health, probed, tick, ticked, budgets>>

\* Auth probes and limit-hit alerts.
Alarm ==
  /\ alarms < MaxAlarms /\ alarms' = alarms + 1
  /\ \/ \E e \in Executors : downAt' = [downAt EXCEPT ![e] = now]
        /\ UNCHANGED limitAt
     \/ limitAt' = now /\ UNCHANGED downAt
  /\ UNCHANGED <<now, disk, units, probed, tick, ticked, errors, crashes, missed>>

Recover ==
  /\ \/ \E e \in Executors : /\ downAt[e] # None
                             /\ downAt' = [downAt EXCEPT ![e] = None]
        /\ UNCHANGED limitAt
     \/ limitAt # None /\ limitAt' = None /\ UNCHANGED downAt
  /\ UNCHANGED <<now, disk, units, probed, tick, ticked, budgets>>

\* systemd is punctual: time does not pass an armed timer that is due.  A tick
\* ends in every unit of time, except while the control plane is down.
Advance ==
  /\ pc = "idle" /\ now < MaxTime
  /\ missed' = IF ticked THEN missed ELSE missed + 1
  /\ missed' <= MaxMissed
  /\ \A j \in Jobs : unit[j] = "active" /\ stopAt[j] # None => now < stopAt[j]
  /\ now' = now + 1 /\ ticked' = FALSE
  /\ UNCHANGED <<disk, units, health, probed, tick, errors, crashes, alarms>>

Tick ==
  \/ TickBegin \/ Snapshot \/ RcRun \/ MarkStarted \/ QueueDrained \/ TickEnd
  \/ \E j \in Jobs : \/ Maintain(j) \/ SkipWindow(j) \/ PassOver(j)
                     \/ PersistClamp(j)

Environment ==
  \/ Crash \/ Alarm \/ Recover \/ Advance
  \/ \E j \in Jobs : \/ Queue(j) \/ Cancel(j) \/ Report(j) \/ UnitEnds(j)
                     \/ AuthFail(j) \/ Autostop(j)

Next == Tick \/ Environment
Spec == Init /\ [][Next]_vars

\* The tick goroutine keeps running, the clock keeps moving (it waits while a
\* tick runs, hence strong fairness) and systemd fires its timers.
FairSpec ==
  /\ Spec
  /\ WF_vars(Tick) /\ SF_vars(Advance)
  /\ \A j \in Jobs : WF_vars(Autostop(j))

-----------------------------------------------------------------------------
JobFile == [phase : {"absent", "queued", "started", "skipped", "gone"},
            gated : BOOLEAN, minutes : Nat \ {0}, startedAt : Nat \cup {None}]

\* The shape of the state: one job file per run, markers, units and timers,
\* and a tick that holds candidates only while it runs (LaunchQueue's variables).
TypeOK ==
  /\ now \in Nat
  /\ job \in [Jobs -> JobFile]
  /\ files \in [Jobs -> SUBSET {"report", "authfail", "depskip", "watchdog"}]
  /\ unit \in [Jobs -> {"none", "active", "dead"}]
  /\ stopAt \in [Jobs -> Nat \cup {None}]
  /\ downAt \in [Executors -> Nat \cup {None}] /\ limitAt \in Nat \cup {None}
  /\ lastLaunch \in Nat \cup {None} /\ probed \in [Jobs -> Nat \cup {None}]
  /\ pc \in {"idle", "maintain", "admit", "dispatch", "mark", "finish"}
  /\ left \subseteq Jobs /\ cands \subseteq Jobs /\ occupied \subseteq Jobs
  /\ held \subseteq Executors /\ gapBlocked \in BOOLEAN
  /\ cur \in Jobs \cup {None}
  /\ pc \in {"dispatch", "mark"} => cur \in Jobs
  /\ ticked \in BOOLEAN
  /\ errors \in Nat /\ crashes \in Nat /\ alarms \in Nat /\ missed \in Nat

Fits(busy) ==
  /\ BoxCap > 0 => Cardinality(busy) <= BoxCap
  /\ \A j \in Jobs : Cap[j] > 0 /\ CapGroup[j] # None =>
       Cardinality({i \in busy : CapGroup[i] = CapGroup[j]}) <= Cap[j]

\* The sessions loadQueue counts never exceed a cap, whatever dies, times out,
\* fails to be saved or crashes: admission judges a snapshot, and between the
\* snapshot and the started stamp sessions may only leave (loadQueue, AdmitCap).
WorkingWithinCap == Fits(Working)

\* The queue implements the abstract pool of slots, a working session holding
\* one: slots are taken one at a time, by the started stamp, and only within
\* the limits, at every crash and failed save.
Slots == INSTANCE SlotPool WITH
           Sessions <- Jobs, busy <- Working, BoxLimit <- BoxCap,
           Group <- CapGroup,
           GroupLimit <- [j \in Jobs |-> IF CapGroup[j] = None THEN 0 ELSE Cap[j]]
ImplementsSlotPool == Slots!Spec

\* What the caps are for: the units that really run and have not delivered stay
\* within them.  The count is made from job files alone, so this asks that a
\* live unit is never missing from the files' view (loadQueue, jobWorking).
LiveSessionsWithinCap ==
  Fits({j \in Jobs : unit[j] = "active" /\ "report" \notin files[j]})

\* An active unit has an armed auto-stop timer: no run can outlive its window
\* (nightshift-rc arms the timer before the workload).
AutoStopArmed == \A j \in Jobs : unit[j] = "active" => stopAt[j] # None

\* The end the schedule gave a job: the first Deadline at or after its due time.
ScheduledEnd(j) ==
  LET sameDay == (At[j] - (At[j] % DayLen)) + Deadline[j]
  IN  IF sameDay < At[j] THEN sameDay + DayLen ELSE sameDay

\* A live run will be stopped no later than its flow's finish-by and its
\* profile's deadline, however long holds, caps and the gap delayed its launch
\* (Admit re-clamps and saves the window before the dispatch).
LateLaunchEndsOnSchedule ==
  \A j \in Jobs : unit[j] = "active" /\ stopAt[j] # None =>
    /\ FinishBy[j] # None => stopAt[j] <= FinishBy[j]
    /\ Deadline[j] # None => stopAt[j] <= ScheduledEnd(j)

\* Two launches are at least the launch gap apart unless the later one is a
\* fast start (cfg.LastLaunch, one launch per tick).
LaunchesAreSpaced ==
  \A i \in Jobs, j \in Jobs \ FastStart :
    (/\ i # j /\ job[i].startedAt # None /\ job[j].startedAt # None
     /\ \/ job[i].startedAt < job[j].startedAt
        \/ i \notin FastStart /\ job[i].startedAt = job[j].startedAt)
    => job[j].startedAt - job[i].startedAt >= LaunchGap

\* As long as systemctl itself answers, the watchdog takes the slot only of a run
\* whose unit is gone, and that unit never comes back: a probe that fails any
\* other way is no proof of death (runWatchdog, ReleaseDead).
WatchdogReleasesOnlyDead ==
  \A j \in Jobs : "watchdog" \in files[j] => unit[j] # "active"

\* A job reported as skipped (its marker tells successors it will never
\* deliver) has never run and never will (writeDepSkip, Skip).
SkippedNeverRan ==
  \A j \in Jobs : "depskip" \in files[j] => unit[j] = "none"

\* A dependent runs only after its upstreams delivered: every wave has a
\* report, or, for emitted waves, at least one of them has (gatedReadiness).
GatedAfterDelivery ==
  \A j \in Jobs : unit[j] # "none" /\ After[j] # {} =>
    LET Delivered(w) == \E i \in w : "report" \in files[i]
    IN  /\ \A w \in After[j] \ Quorum[j] : Delivered(w)
        /\ \E w \in After[j] : Delivered(w)

SameClass(i, j) ==
  /\ Executor(i) = Executor(j) /\ CapGroup[i] = CapGroup[j]
  /\ i \notin FastStart /\ j \notin FastStart

\* A job is never launched past a due, ungated job that precedes it in launch
\* order and needs the same things: same executor, same cap group, no fast
\* start (sortCandidates, one launch per tick).  Only a failed dispatch lets the
\* next candidate through, so none may have failed yet.
NoOvertaking ==
  [][\A i, j \in Jobs :
       /\ unit[j] # "active" /\ unit'[j] = "active" /\ errors = 0
       /\ i # j /\ SameClass(i, j) /\ Before(i, j)
       => ~ (Ungated(i) /\ Due(i))]_vars

\* A run is executed at most once: a unit that ended is never started again
\* (the started stamp keeps the job out of every later tick).
RunsAtMostOnce ==
  [][\A j \in Jobs : unit[j] = "dead" => unit'[j] = "dead"]_vars

\* Every queued job is eventually launched, skipped or cancelled: no gate (hold,
\* cap, gap, upstream wait) keeps it for ever.
EveryJobSettles ==
  \A j \in Jobs : job[j].phase = "queued" ~> job[j].phase # "queued"

\* The slot of a session that died without a report comes free, well before the
\* end of its window (asked while the clock's bound leaves time for the probes).
DeadRunsReleased ==
  LET horizon == MaxTime - WatchdogMinAge - (1 + MaxErrors) * WatchdogInterval
  IN  \A j \in Jobs :
        JobWorking(j) /\ unit[j] = "dead" /\ now <= horizon ~> ~ JobWorking(j)
=============================================================================
