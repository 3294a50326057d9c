------------------------------ MODULE NightPage ------------------------------
(***************************************************************************)
(* The night section of the runs page: a sweep switch per agent, set before *)
(* the server answers; an agent's job rows, polled every ten seconds, with  *)
(* their cancel and stop buttons; and the composer that queues a job.       *)
(***************************************************************************)
EXTENDS ConsoleShell, SequencesExt

CONSTANTS
  SweepAgents, \* the agents of the page
  FirstJobs,   \* the state of each of one agent's jobs: JobStates by job
  JobFacts,    \* what the page knows of a started job: [report, ledger]
  QueuedJob    \* the job the composer mints

VARIABLES
  kSweeps,   \* the server's switches
  kShown,    \* the cached ones: Nothing, or The(switches)
  kStale,    \* their query is invalidated
  kFetch,    \* an answer to it on its way
  kToggle,   \* by agent, its switch's call: [pc, on, prev]
  kForeign,  \* agents switched elsewhere since the last answer was taken
  kJobs,     \* the server's jobs: JobStates by job
  kRows,     \* the cached jobs
  kRowsStale,
  kRowsFetch,
  kMoved,    \* jobs that moved on their own since the last answer was taken
  kCall,     \* the job call under way: [pc, kind, job]
  kComposer  \* "closed", "blank" or "written"

sweepVars == <<kSweeps, kShown, kStale, kFetch, kToggle, kForeign>>
jobVars == <<kJobs, kRows, kRowsStale, kRowsFetch, kMoved, kCall, kComposer>>
nightVars == <<sweepVars, jobVars>>

Night == scene = "night" /\ page = "open"
Off == [pc |-> "idle", on |-> FALSE, prev |-> <<>>]
NoJobCall == [pc |-> "idle", kind |-> "queue", job |-> QueuedJob]
JobStates == {"absent", "scheduled", "gated", "active", "over", "skipped"}
ASSUME NightAssumption ==
  /\ FirstJobs # {} /\ FirstJobs \subseteq [DOMAIN JobFacts -> JobStates]
  /\ QueuedJob \in DOMAIN JobFacts
FirstSwitches == [a \in SweepAgents |-> FALSE]

NightInit ==
  /\ kSweeps = FirstSwitches /\ kShown = <<>> /\ kStale = FALSE /\ kFetch = <<>>
  /\ kToggle = [a \in SweepAgents |-> Off] /\ kForeign = {}
  /\ kJobs \in Chosen("night", FirstJobs) /\ kRows = <<>> /\ kRowsStale = FALSE /\ kRowsFetch = <<>>
  /\ kMoved = {} /\ kCall = NoJobCall /\ kComposer = "closed"

(***************************************************************************)
(* The page.                                                                *)
(***************************************************************************)
OpenNight ==
  /\ scene = "night" /\ page = "home" /\ page' = "open" /\ Spend("nav")
  /\ kStale' = TRUE /\ kRowsStale' = TRUE /\ kComposer' = "closed"
  /\ UNCHANGED <<scene, guard, kSweeps, kShown, kFetch, kToggle, kForeign>>
  /\ UNCHANGED <<kJobs, kRows, kRowsFetch, kMoved, kCall>>
LeaveNight == LeavePage /\ UNCHANGED nightVars

(***************************************************************************)
(* The sweep switches. The call is made at once with the switch already      *)
(* moved and any answer on its way thrown away; a failure puts the whole    *)
(* map back as this call found it; either way the map is asked for again.   *)
(***************************************************************************)
CancelQueries == kFetch' = <<>>
Mutate(agent, on) ==
  /\ CancelQueries
  /\ kShown' = <<[a \in SweepAgents |-> IF a = agent THEN on ELSE kShown # <<>> /\ kShown[1][a]]>>
FlipSweep(agent) ==
  LET on == ~ (kShown # <<>> /\ kShown[1][agent])
  IN  /\ Night /\ kToggle[agent].pc = "idle" /\ Spend("edit")
      /\ Mutate(agent, on)
      /\ kToggle' = [kToggle EXCEPT ![agent] = [pc |-> "sent", on |-> on, prev |-> kShown]]
      /\ UNCHANGED <<scene, page, guard, kSweeps, kStale, kForeign, jobVars>>
SweepHandled(agent) ==
  /\ kToggle[agent].pc = "sent"
  /\ \E kept \in BOOLEAN, pc \in {"done", "failed"} :
       /\ kept \/ pc = "failed"
       /\ kSweeps' = IF kept THEN [kSweeps EXCEPT ![agent] = kToggle[agent].on] ELSE kSweeps
       /\ kToggle' = [kToggle EXCEPT ![agent].pc = pc]
  /\ UNCHANGED <<shellVars, kShown, kStale, kFetch, kForeign, jobVars>>
SweepSettledQuietly == UNCHANGED <<kStale, kFetch>>
SweepInvalidated == kStale' = TRUE /\ kFetch' = <<>>
SweepSettles(agent) ==
  /\ kToggle[agent].pc \in {"done", "failed"} /\ kToggle' = [kToggle EXCEPT ![agent] = Off]
  /\ kShown' = IF kToggle[agent].pc = "failed" /\ kToggle[agent].prev # <<>>
               THEN kToggle[agent].prev ELSE kShown
  /\ SweepInvalidated
  /\ UNCHANGED <<shellVars, kSweeps, kForeign, jobVars>>

\* A query that is invalidated is asked for while the page is open; an answer is the
\* server's map when it was taken.
SweepsAnswered ==
  /\ Night /\ kStale /\ kFetch = <<>>
  /\ kFetch' = <<kSweeps>> /\ kForeign' = {}
  /\ UNCHANGED <<shellVars, kSweeps, kShown, kStale, kToggle, jobVars>>
SweepsArrive ==
  /\ kFetch # <<>> /\ kFetch' = <<>> /\ kShown' = kFetch /\ kStale' = FALSE
  /\ UNCHANGED <<shellVars, kSweeps, kToggle, kForeign, jobVars>>
SweptElsewhere ==
  /\ Night /\ Spend("other")
  /\ \E a \in SweepAgents : kSweeps' = [kSweeps EXCEPT ![a] = ~ @] /\ kForeign' = kForeign \cup {a}
  /\ UNCHANGED <<scene, page, guard, kShown, kStale, kFetch, kToggle, jobVars>>

(***************************************************************************)
(* The rows. A status joins the job, its report and the ledger; the buttons  *)
(* follow the cached status.                                                *)
(***************************************************************************)
JobStatus(state, facts) ==
  CASE state = "skipped" -> "dep-skip"
    [] state = "gated" -> "waiting"
    [] state = "scheduled" -> "scheduled"
    [] state = "active" -> "running"
    [] OTHER -> IF facts.report \/ facts.ledger = "delivered" THEN "delivered"
                ELSE IF facts.ledger = "auth-skip" THEN "auth-skip"
                ELSE IF facts.ledger = "no-deliverable" THEN "no-report" ELSE "done"
\* The chip of a wave shows the status of its jobs that most wants an eye.
WavePriority ==
  <<"running", "dep-skip", "no-report", "waiting", "scheduled", "delivered", "auth-skip", "done">>
AggregateStatus(statuses) ==
  IF statuses = {} THEN "idle"
  ELSE WavePriority[Min({i \in DOMAIN WavePriority : WavePriority[i] \in statuses})]
Rows == IF kRows = <<>> THEN {} ELSE {j \in DOMAIN kRows[1] : kRows[1][j] # "absent"}
RowStatus(job) == JobStatus(kRows[1][job], JobFacts[job])
WaveChip == AggregateStatus({RowStatus(j) : j \in Rows})

RowsUntouched == UNCHANGED <<kRows, kRowsStale, kRowsFetch>>
PressJob(kind, job) ==
  /\ Night /\ kCall.pc = "idle" /\ Spend("pick")
  /\ kCall' = [pc |-> "sent", kind |-> kind, job |-> job]
  /\ UNCHANGED <<scene, page, guard, sweepVars, kJobs, kMoved, kComposer>> /\ RowsUntouched
CancelJob(job) == RowStatus(job) \in {"scheduled", "waiting"} /\ PressJob("cancel", job)
StopJob(job) == RowStatus(job) = "running" /\ PressJob("stop", job)
QueueJob == kComposer = "written" /\ PressJob("queue", QueuedJob)
Compose ==
  /\ Night /\ Spend("field")
  /\ \E to \in {"closed", "blank", "written"} \ {kComposer} :
       kComposer' = to /\ (kComposer = "closed" => to = "blank")
  /\ UNCHANGED <<scene, page, guard, sweepVars, kJobs, kMoved, kCall>> /\ RowsUntouched

\* The server cancels what has not started, and asks systemd to stop a run.
JobTaken(kind, job) ==
  CASE kind = "queue" -> [kJobs EXCEPT ![job] = IF @ = "absent" THEN "scheduled" ELSE @]
    [] kind = "cancel" -> [kJobs EXCEPT ![job] = IF @ \in {"scheduled", "gated"} THEN "absent" ELSE @]
    [] OTHER -> [kJobs EXCEPT ![job] = IF @ = "active" THEN "over" ELSE @]
JobHandled ==
  /\ kCall.pc = "sent"
  /\ \E kept \in BOOLEAN, pc \in {"done", "failed"} :
       /\ pc = "done" => kept
       /\ kJobs' = IF kept THEN JobTaken(kCall.kind, kCall.job) ELSE kJobs
       /\ kMoved' = IF kept /\ pc = "failed" /\ kCall.kind = "queue" THEN kMoved \cup {kCall.job} ELSE kMoved
       /\ kCall' = [kCall EXCEPT !.pc = pc]
  /\ UNCHANGED <<shellVars, sweepVars, kComposer>> /\ RowsUntouched
\* Cancel and stop ask again whatever came of them, a queued job only when it succeeded:
\* then the composer closes too, with whatever was typed into it since.
JobSettles ==
  /\ kCall.pc \in {"done", "failed"} /\ kCall' = NoJobCall
  /\ IF kCall.kind = "queue" /\ kCall.pc = "failed" THEN UNCHANGED <<kRowsStale, kRowsFetch, kComposer>>
     ELSE /\ kRowsStale' = TRUE /\ kRowsFetch' = <<>>
          /\ kComposer' = IF kCall.kind = "queue" THEN "closed" ELSE kComposer
  /\ UNCHANGED <<shellVars, sweepVars, kJobs, kRows, kMoved>>

JobMoves ==
  /\ Night /\ Spend("other")
  /\ \E j \in DOMAIN kJobs :
       /\ \E to \in CASE kJobs[j] \in {"scheduled", "gated"} -> {"active", "skipped"}
                      [] kJobs[j] = "active" -> {"over"} [] OTHER -> {} :
            kJobs' = [kJobs EXCEPT ![j] = to]
       /\ kMoved' = kMoved \cup {j}
  /\ UNCHANGED <<scene, page, guard, sweepVars, kCall, kComposer>> /\ RowsUntouched
\* The poll asks whether or not the rows are invalidated.
JobsAnswered ==
  /\ Night /\ kRowsFetch = <<>> /\ (kRowsStale \/ kRows # <<kJobs>>)
  /\ kRowsFetch' = <<kJobs>> /\ kMoved' = {}
  /\ UNCHANGED <<shellVars, sweepVars, kJobs, kRows, kRowsStale, kCall, kComposer>>
JobsArrive ==
  /\ kRowsFetch # <<>> /\ kRowsFetch' = <<>> /\ kRows' = kRowsFetch /\ kRowsStale' = FALSE
  /\ UNCHANGED <<shellVars, sweepVars, kJobs, kMoved, kCall, kComposer>>

NightNext ==
  \/ OpenNight \/ LeaveNight
  \/ \E a \in SweepAgents : FlipSweep(a) \/ SweepHandled(a) \/ SweepSettles(a)
  \/ SweepsAnswered \/ SweepsArrive \/ SweptElsewhere
  \/ \E j \in Rows : CancelJob(j) \/ StopJob(j)
  \/ QueueJob \/ Compose \/ JobHandled \/ JobSettles \/ JobMoves
  \/ JobsAnswered \/ JobsArrive

(***************************************************************************)
(* Properties.                                                              *)
(***************************************************************************)
NightTypeOK ==
  /\ kSweeps \in [SweepAgents -> BOOLEAN] /\ kJobs \in [DOMAIN JobFacts -> JobStates]
  /\ kForeign \subseteq SweepAgents /\ kMoved \subseteq DOMAIN JobFacts
  /\ WaveChip = "running" <=> \E j \in Rows : kRows[1][j] = "active"

\* However the switches of several agents, their failures and old answers overlap: once no
\* call is under way, nothing is invalidated and nothing is on its way, a switch shows what
\* the server holds unless it was moved elsewhere since, and a row the job as it is unless
\* it moved on its own since. (NightPage.tsx:395-408, 57-65, 410-425)
NightSettles ==
  /\ (kShown # <<>> /\ ~ kStale /\ kFetch = <<>> /\ \A a \in SweepAgents : kToggle[a].pc = "idle")
       => \A a \in SweepAgents \ kForeign : kShown[1][a] = kSweeps[a]
  /\ (kRows # <<>> /\ ~ kRowsStale /\ kRowsFetch = <<>> /\ kCall.pc = "idle")
       => \A j \in DOMAIN kJobs \ kMoved : kRows[1][j] = kJobs[j]
=============================================================================
