------------------------- MODULE LaunchQueueProofs -------------------------
(***************************************************************************)
(* Proofs about LaunchQueue, for every set of jobs, caps and durations and  *)
(* every budget of errors and crashes: the state keeps its type, working    *)
(* sessions stay within the caps, and the queue implements SlotPool; then   *)
(* what the queue promises about the run of a job, its upstreams, its slot, *)
(* its timer, its distance from other launches and its place in the order.  *)
(*                                                                          *)
(* Some of these promises are kept only until the control plane first dies  *)
(* or first fails to save a file (crashes counts both); those are stated as *)
(* crashes = 0 => ..., the others hold whatever fails.                      *)
(***************************************************************************)
EXTENDS LaunchQueue, FiniteSetTheorems, TLAPS

-----------------------------------------------------------------------------
(***************************************************************************)
(* Windows.                                                                 *)
(***************************************************************************)

\* A window that is not refused is at least the floor or what was asked, so a
\* stop sidecar is never written with zero or negative minutes (Admit).
LEMMA WindowType ==
  ASSUME TypeOK, NEW j \in Jobs
  PROVE  Window(j) = None \/ Window(j) \in Nat \ {0}
<1>1. \A end \in Nat, m \in Nat \ {0} :
        FitBefore(end, m) = None \/ FitBefore(end, m) \in Nat \ {0}
  BY TimeAssumption DEF FitBefore, Least, TypeOK, None
<1>2. job[j].minutes \in Nat \ {0}
  BY DEF TypeOK, JobFile
<1>3. DeadlineClampedMinutes(j, job[j].minutes) \in (Nat \ {0}) \cup {None}
  <2>1. CASE Deadline[j] = None
    BY <2>1, <1>2 DEF DeadlineClampedMinutes
  <2>2. CASE Deadline[j] # None
    <3>1. Deadline[j] \in Nat
      BY <2>2, JobsAssumption
    <3>2. now \in Nat /\ DayLen \in Nat \ {0}
      BY TimeAssumption DEF TypeOK
    <3>3. now % DayLen \in 0..(DayLen - 1) /\ now % DayLen <= now
      BY <3>2, SMT
    <3> DEFINE today == (now - (now % DayLen)) + Deadline[j]
    <3>4. today \in Nat /\ today + DayLen \in Nat
      BY <3>1, <3>2, <3>3
    <3> QED
      BY <2>2, <3>4, <1>1, <1>2 DEF DeadlineClampedMinutes
  <2> QED BY <2>1, <2>2
<1>4. \A m \in Nat \ {0} :
        AbsoluteDeadlineMinutes(j, m) \in (Nat \ {0}) \cup {None}
  BY <1>1, JobsAssumption DEF AbsoluteDeadlineMinutes
<1> QED
  BY <1>3, <1>4 DEF Window

-----------------------------------------------------------------------------
(***************************************************************************)
(* Type correctness.                                                        *)
(***************************************************************************)

\* The three ways a job file is rewritten in two fields keep its shape (the
\* mints, the ungate and the skips of schedTick).
LEMMA JobFileUpdates ==
  ASSUME NEW f \in [Jobs -> JobFile], NEW j \in Jobs
  PROVE  /\ [f EXCEPT ![j].phase = "skipped", ![j].gated = FALSE] \in [Jobs -> JobFile]
         /\ \A b \in BOOLEAN :
              [f EXCEPT ![j].phase = "queued", ![j].gated = b] \in [Jobs -> JobFile]
         /\ \A m \in Nat \ {0} :
              [f EXCEPT ![j].gated = FALSE, ![j].minutes = m] \in [Jobs -> JobFile]
<1>1. [f EXCEPT ![j].phase = "skipped", ![j].gated = FALSE] \in [Jobs -> JobFile]
  BY DEF JobFile
<1>2. ASSUME NEW b \in BOOLEAN
      PROVE  [f EXCEPT ![j].phase = "queued", ![j].gated = b] \in [Jobs -> JobFile]
  BY DEF JobFile
<1>3. ASSUME NEW m \in Nat \ {0}
      PROVE  [f EXCEPT ![j].gated = FALSE, ![j].minutes = m] \in [Jobs -> JobFile]
  BY DEF JobFile
<1> QED BY <1>1, <1>2, <1>3

\* What these rewrites leave in the file, and in the other files: none of them
\* starts a job.
LEMMA JobFileValues ==
  ASSUME NEW f \in [Jobs -> JobFile], NEW j \in Jobs, NEW b, NEW m
  PROVE  LET skip  == [f EXCEPT ![j].phase = "skipped", ![j].gated = FALSE]
             mint  == [f EXCEPT ![j].phase = "queued", ![j].gated = b]
             open  == [f EXCEPT ![j].gated = FALSE, ![j].minutes = m]
             clamp == [f EXCEPT ![j].minutes = m]
         IN  /\ skip[j].phase = "skipped" /\ mint[j].phase = "queued"
             /\ open[j].phase = f[j].phase /\ clamp[j].phase = f[j].phase
             /\ \A i \in Jobs \ {j} : /\ skip[i] = f[i] /\ mint[i] = f[i]
                                      /\ open[i] = f[i] /\ clamp[i] = f[i]
  BY DEF JobFile

\* Every step keeps the type invariant, one case per action of schedTick, of
\* the handlers and of the environment.
LEMMA TypeStep == TypeOK /\ [Next]_vars => TypeOK'
<1> SUFFICES ASSUME TypeOK, [Next]_vars PROVE TypeOK'
  OBVIOUS
<1> USE DEF TypeOK, JobFile, disk, units, health, tick, budgets
<1>1. CASE TickBegin
  BY <1>1 DEF TickBegin
<1>2. CASE Snapshot
  BY <1>2 DEF Snapshot, Working, HeldExecutors
<1>3. CASE RcRun
  BY <1>3, SMTT(30) DEF RcRun
<1>4. CASE MarkStarted
  BY <1>4 DEF MarkStarted, Saves, SaveFails, WriteFails
<1>5. CASE QueueDrained
  BY <1>5 DEF QueueDrained
<1>6. CASE TickEnd
  <2> DEFINE due == {j \in Working : WatchdogDue(j)}
  <2>1. PICK failed \in SUBSET due, blank \in SUBSET due :
          /\ errors' = errors + Cardinality(failed \cup blank)
          /\ probed' = [j \in Jobs |-> IF j \in due THEN now ELSE probed[j]]
          /\ files' = [j \in Jobs |-> IF j \in due /\ ReleaseDead(j, failed, blank)
                                      THEN files[j] \cup {"watchdog"}
                                      ELSE files[j]]
    BY <1>6 DEF TickEnd
  <2>2. IsFiniteSet(failed \cup blank)
    BY FS_Subset, JobsAssumption DEF Working
  <2>3. errors' \in Nat
    BY <2>1, <2>2, FS_CardinalityType
  <2>4. /\ probed' \in [Jobs -> Nat \cup {None}]
        /\ files' \in [Jobs -> SUBSET {"report", "authfail", "depskip", "watchdog"}]
    <3> HIDE DEF due
    <3> QED BY <2>1
  <2>5. lastLaunch' \in Nat \cup {None} /\ crashes' \in Nat
    BY <1>6 DEF TickEnd
  <2>6. /\ pc' = "idle" /\ cur' = None /\ occupied' = {} /\ held' = {}
        /\ gapBlocked' = FALSE /\ ticked' = TRUE
        /\ UNCHANGED <<now, job, units, health, left, cands, alarms, missed>>
    BY <1>6 DEF TickEnd
  <2> HIDE DEF due
  <2> QED BY <2>3, <2>4, <2>5, <2>6
<1>7. CASE Crash
  <2>1. downAt' \in [Executors -> Nat \cup {None}]
    BY <1>7 DEF Crash
  <2>2. crashes' \in Nat
    BY <1>7 DEF Crash
  <2> QED
    BY <1>7, <2>1, <2>2 DEF Crash
<1>8. CASE Alarm
  BY <1>8 DEF Alarm
<1>9. CASE Recover
  BY <1>9 DEF Recover
<1>10. CASE Advance
  <2>1. missed' \in Nat
    <3>1. CASE ticked
      BY <1>10, <3>1 DEF Advance
    <3>2. CASE ~ ticked
      BY <1>10, <3>2 DEF Advance
    <3> QED BY <3>1, <3>2
  <2>2. now' \in Nat
    BY <1>10 DEF Advance
  <2> QED
    BY <1>10, <2>1, <2>2 DEF Advance
<1>11. ASSUME NEW j \in Jobs, Queue(j) PROVE TypeOK'
  <2>1. (After[j] # {}) \in BOOLEAN
    OBVIOUS
  <2>2. job' \in [Jobs -> JobFile]
    BY <1>11, <2>1, JobFileUpdates DEF Queue
  <2> QED
    BY <1>11, <2>2 DEF Queue
<1>12. ASSUME NEW j \in Jobs, Cancel(j) PROVE TypeOK'
  BY <1>12 DEF Cancel
<1>13. ASSUME NEW j \in Jobs, VisitPrune(j) PROVE TypeOK'
  BY <1>13, SMTT(30) DEF VisitPrune, Visiting
<1>14. ASSUME NEW j \in Jobs, VisitUngate(j) PROVE TypeOK'
  <2>1. Window(j) \in Nat \ {0}
    BY <1>14, WindowType DEF VisitUngate
  <2>2. job' \in [Jobs -> JobFile]
    <3>1. \/ job' = job
          \/ job' = [job EXCEPT ![j].gated = FALSE, ![j].minutes = Window(j)]
      BY <1>14 DEF VisitUngate
    <3>2. job \in [Jobs -> JobFile]
      OBVIOUS
    <3>3. [job EXCEPT ![j].gated = FALSE, ![j].minutes = Window(j)]
            \in [Jobs -> JobFile]
      BY ONLY <3>2, <2>1, JobFileUpdates, j \in Jobs
    <3> QED BY ONLY <3>1, <3>2, <3>3
  <2>3. crashes' \in Nat /\ errors' \in Nat /\ cands' \subseteq Jobs
    BY <1>14 DEF VisitUngate, Saves, SaveFails, WriteFails
  <2> QED
    BY <1>14, <2>2, <2>3 DEF VisitUngate, Visiting
<1>skip. ASSUME NEW j \in Jobs, DepSkip(j)
         PROVE  /\ job' \in [Jobs -> JobFile]
                /\ files' \in [Jobs -> SUBSET {"report", "authfail", "depskip", "watchdog"}]
                /\ crashes' \in Nat
  <2>1. /\ \/ job' = job
           \/ job' = [job EXCEPT ![j].phase = "skipped", ![j].gated = FALSE]
        /\ \/ files' = files
           \/ files' = [files EXCEPT ![j] = @ \cup {"depskip"}]
        /\ crashes' = crashes \/ crashes' = crashes + 1
    BY <1>skip DEF DepSkip, WriteFails
  <2>2. job' \in [Jobs -> JobFile]
    <3>1. job \in [Jobs -> JobFile]
      OBVIOUS
    <3> QED BY ONLY <2>1, <3>1, JobFileUpdates, j \in Jobs
  <2>3. files' \in [Jobs -> SUBSET {"report", "authfail", "depskip", "watchdog"}]
    <3>1. files \in [Jobs -> SUBSET {"report", "authfail", "depskip", "watchdog"}]
      OBVIOUS
    <3> QED BY ONLY <2>1, <3>1, j \in Jobs
  <2>4. crashes' \in Nat
    <3>1. crashes \in Nat
      OBVIOUS
    <3> QED BY ONLY <2>1, <3>1
  <2> QED BY ONLY <2>2, <2>3, <2>4
<1>15. ASSUME NEW j \in Jobs, VisitDepSkip(j) PROVE TypeOK'
  <2>1. DepSkip(j)
    BY <1>15 DEF VisitDepSkip
  <2> QED BY <1>15, <2>1, <1>skip DEF VisitDepSkip, Visiting
<1>16. ASSUME NEW j \in Jobs, VisitNoWorktree(j) PROVE TypeOK'
  <2>1. DepSkip(j)
    BY <1>16 DEF VisitNoWorktree
  <2> QED BY <1>16, <2>1, <1>skip DEF VisitNoWorktree, Visiting, EnvError
<1>17. ASSUME NEW j \in Jobs, VisitCandidate(j) PROVE TypeOK'
  BY <1>17 DEF VisitCandidate, Visiting, Saves, SaveFails
<1>18. ASSUME NEW j \in Jobs, VisitNothing(j) PROVE TypeOK'
  BY <1>18 DEF VisitNothing, Visiting, Saves, SaveFails
<1>19. ASSUME NEW j \in Jobs, SkipWindow(j) PROVE TypeOK'
  <2>1. DepSkip(j)
    BY <1>19 DEF SkipWindow
  <2> QED BY <1>19, <2>1, <1>skip DEF SkipWindow, Admitting
<1>20. ASSUME NEW j \in Jobs, PassOver(j) PROVE TypeOK'
  BY <1>20 DEF PassOver, Admitting
<1>21. ASSUME NEW j \in Jobs, PersistClamp(j) PROVE TypeOK'
  <2>1. Window(j) \in Nat \ {0}
    BY <1>21, WindowType DEF PersistClamp
  <2>2. job' \in [Jobs -> JobFile]
    <3>1. job' = job \/ job' = [job EXCEPT ![j].minutes = Window(j)]
      BY <1>21 DEF PersistClamp
    <3> QED BY <3>1, <2>1
  <2>3. crashes' \in Nat /\ errors' \in Nat
    BY <1>21 DEF PersistClamp, Saves, SaveFails, WriteFails
  <2> QED
    BY <1>21, <2>2, <2>3 DEF PersistClamp, Admitting
<1>22. ASSUME NEW j \in Jobs, Report(j) PROVE TypeOK'
  BY <1>22 DEF Report
<1>23. ASSUME NEW j \in Jobs, UnitEnds(j) PROVE TypeOK'
  BY <1>23 DEF UnitEnds
<1>24. ASSUME NEW j \in Jobs, AuthFail(j) PROVE TypeOK'
  BY <1>24 DEF AuthFail
<1>25. ASSUME NEW j \in Jobs, Autostop(j) PROVE TypeOK'
  BY <1>25 DEF Autostop
<1>26. CASE UNCHANGED vars
  BY <1>26 DEF vars
<1> QED
  BY <1>1, <1>2, <1>3, <1>4, <1>5, <1>6, <1>7, <1>8, <1>9, <1>10, <1>11, <1>12, <1>13, <1>14, <1>15, <1>16, <1>17, <1>18, <1>19, <1>20, <1>21, <1>22, <1>23, <1>24, <1>25, <1>26
     DEF Next, Tick, Environment, Maintain

\* Every state the queue can reach has the shape TypeOK states (schedTick, the
\* handlers, nightshift-rc and the crash of the control plane included).
THEOREM TypeCorrect == Spec => []TypeOK
<1>1. Init => TypeOK
  <2> SUFFICES ASSUME Init PROVE TypeOK
    OBVIOUS
  <2>1. job \in [Jobs -> JobFile]
    BY JobsAssumption DEF Init, JobFile
  <2>2. now \in Nat
    BY TimeAssumption DEF Init
  <2> QED
    BY <2>1, <2>2 DEF Init, TypeOK
<1> QED
  BY <1>1, TypeStep, PTL DEF Spec

-----------------------------------------------------------------------------
(***************************************************************************)
(* The caps.  During a tick the working sessions are among those of the     *)
(* snapshot, the job being dispatched fits beside the snapshot, and no      *)
(* candidate is started: so the started stamp is the only step that takes a *)
(* slot, and it takes one the snapshot left free.                           *)
(***************************************************************************)
Counted == pc \in {"admit", "dispatch", "mark"} => Working \subseteq occupied
Chosen == pc \in {"dispatch", "mark"} => AdmitCap(cur)
Candidates == \A j \in cands : job[j].phase # "started"
SlotInv == TypeOK /\ Fits(Working) /\ Counted /\ Chosen /\ Candidates

\* A set of sessions within the caps stays so when some of them leave.
LEMMA FewerFit ==
  ASSUME NEW S \in SUBSET Jobs, NEW T \in SUBSET S, Fits(S)
  PROVE  Fits(T)
<1>1. IsFiniteSet(S)
  BY JobsAssumption, FS_Subset
<1>2. \A A \in SUBSET S : \A B \in SUBSET A :
        /\ Cardinality(B) \in Nat /\ Cardinality(A) \in Nat
        /\ Cardinality(B) <= Cardinality(A)
  <2> SUFFICES ASSUME NEW A \in SUBSET S, NEW B \in SUBSET A
               PROVE  /\ Cardinality(B) \in Nat /\ Cardinality(A) \in Nat
                      /\ Cardinality(B) <= Cardinality(A)
    OBVIOUS
  <2>1. IsFiniteSet(A)
    BY <1>1, FS_Subset
  <2> QED BY <2>1, FS_Subset, FS_CardinalityType
<1>3. BoxCap > 0 => Cardinality(T) <= BoxCap
  BY <1>2, TimeAssumption DEF Fits
<1>4. ASSUME NEW j \in Jobs, Cap[j] > 0, CapGroup[j] # None
      PROVE  Cardinality({i \in T : CapGroup[i] = CapGroup[j]}) <= Cap[j]
  <2>1. Cardinality({i \in S : CapGroup[i] = CapGroup[j]}) <= Cap[j]
    BY <1>4 DEF Fits
  <2>2. Cap[j] \in Nat
    BY JobsAssumption
  <2>3. {i \in T : CapGroup[i] = CapGroup[j]}
          \subseteq {i \in S : CapGroup[i] = CapGroup[j]}
    OBVIOUS
  <2> QED BY <2>1, <2>2, <2>3, <1>2
<1> QED BY <1>3, <1>4 DEF Fits

\* An admitted job fits beside any set of sessions of the snapshot (AdmitCap).
LEMMA AdmittedFits ==
  ASSUME TypeOK, NEW S \in SUBSET occupied, NEW j \in Jobs, AdmitCap(j), Fits(S)
  PROVE  Fits(S \cup {j})
<1>1. IsFiniteSet(occupied)
  BY JobsAssumption, FS_Subset DEF TypeOK
<1>2. \A A \in SUBSET occupied : \A B \in SUBSET A :
        /\ IsFiniteSet(B) /\ Cardinality(B) \in Nat /\ Cardinality(A) \in Nat
        /\ Cardinality(B) <= Cardinality(A)
        /\ Cardinality(B \cup {j}) <= Cardinality(B) + 1
        /\ Cardinality(B \cup {j}) \in Nat
  <2> SUFFICES ASSUME NEW A \in SUBSET occupied, NEW B \in SUBSET A
               PROVE  /\ IsFiniteSet(B) /\ Cardinality(B) \in Nat
                      /\ Cardinality(A) \in Nat
                      /\ Cardinality(B) <= Cardinality(A)
                      /\ Cardinality(B \cup {j}) <= Cardinality(B) + 1
                      /\ Cardinality(B \cup {j}) \in Nat
    OBVIOUS
  <2>1. IsFiniteSet(A) /\ IsFiniteSet(B)
    BY <1>1, FS_Subset
  <2>2. Cardinality(B) \in Nat /\ Cardinality(A) \in Nat
        /\ Cardinality(B) <= Cardinality(A)
    BY <2>1, FS_Subset, FS_CardinalityType
  <2>3. IsFiniteSet(B \cup {j})
        /\ Cardinality(B \cup {j}) =
             IF j \in B THEN Cardinality(B) ELSE Cardinality(B) + 1
    BY <2>1, FS_AddElement
  <2> QED BY <2>1, <2>2, <2>3
<1>3. BoxCap > 0 => Cardinality(S \cup {j}) <= BoxCap
  BY <1>2, TimeAssumption DEF AdmitCap
<1>4. ASSUME NEW k \in Jobs, Cap[k] > 0, CapGroup[k] # None
      PROVE  Cardinality({i \in S \cup {j} : CapGroup[i] = CapGroup[k]}) <= Cap[k]
  <2> DEFINE in(X) == {i \in X : CapGroup[i] = CapGroup[k]}
  <2>1. CASE CapGroup[j] = CapGroup[k]
    <3>1. in(S \cup {j}) = in(S) \cup {j}
      BY <2>1
    <3>2. Cap[j] = Cap[k] /\ Cap[k] \in Nat
      BY <2>1, CapAssumption, JobsAssumption
    <3>3. Cardinality(in(occupied)) < Cap[k]
      BY <2>1, <3>2, <1>4 DEF AdmitCap
    <3>4. in(S) \subseteq in(occupied) /\ in(occupied) \subseteq occupied
      OBVIOUS
    <3> HIDE DEF in
    <3>5. Cardinality(in(S) \cup {j}) <= Cap[k]
      BY <3>2, <3>3, <3>4, <1>2
    <3> QED BY <3>1, <3>5 DEF in
  <2>2. CASE CapGroup[j] # CapGroup[k]
    <3>1. in(S \cup {j}) = in(S)
      BY <2>2
    <3> QED BY <3>1, <1>4 DEF Fits
  <2> QED BY <2>1, <2>2
<1> QED BY <1>3, <1>4 DEF Fits

\* No session starts to count as working in a step that starts no job, rewrites
\* no started job's file, removes no marker and does not set the clock back.
LEMMA WorkingShrinks ==
  ASSUME TypeOK, TypeOK', now <= now',
         \A j \in Jobs : job'[j].phase = "started" => job'[j] = job[j],
         \A j \in Jobs : files[j] \subseteq files'[j]
  PROVE  Working' \subseteq Working
<1> SUFFICES ASSUME NEW j \in Jobs, JobWorking(j)' PROVE JobWorking(j)
  BY DEF Working
<1>1. job'[j].phase = "started" /\ files'[j] = {}
      /\ now' < job'[j].startedAt + job'[j].minutes + Slack
  BY DEF JobWorking, RunMaybeActive
<1>2. job'[j] = job[j] /\ files[j] = {}
  BY <1>1
<1>3. now \in Nat /\ now' \in Nat /\ Slack \in Nat
      /\ job[j].minutes \in Nat /\ job[j].startedAt \in Int
  BY TimeAssumption DEF TypeOK, JobFile, None
<1>4. now < job[j].startedAt + job[j].minutes + Slack
  BY <1>1, <1>2, <1>3
<1> QED BY <1>1, <1>2, <1>4 DEF JobWorking, RunMaybeActive

\* Only the started stamp gives a session a slot, and only to the job the tick
\* dispatched (MarkStarted); every other step of the queue, of a handler or of
\* the environment lets sessions leave at most.
LEMMA OneSlotAtATime ==
  ASSUME SlotInv, TypeOK', [Next]_vars
  PROVE  \/ Working' \subseteq Working
         \/ /\ pc = "mark" /\ pc' = "finish" /\ cur \in Jobs
            /\ Working' = Working \cup {cur}
<1> DEFINE Kept ==
      /\ now <= now'
      /\ \A j \in Jobs : job'[j].phase = "started" => job'[j] = job[j]
      /\ \A j \in Jobs : files[j] \subseteq files'[j]
<1>1. Kept => Working' \subseteq Working
  BY WorkingShrinks DEF SlotInv
<1>2. CASE MarkStarted
  <2>1. pc = "mark" /\ pc' = "finish" /\ cur \in Jobs
    BY <1>2 DEF MarkStarted, SlotInv, TypeOK
  <2>2. now' = now /\ files' = files
        /\ \A j \in Jobs \ {cur} : job'[j] = job[j]
    BY <1>2, <2>1 DEF MarkStarted, SlotInv, TypeOK
  <2>3. \A j \in Jobs \ {cur} : JobWorking(j)' <=> JobWorking(j)
    BY <2>2 DEF JobWorking, RunMaybeActive
  <2> QED BY <2>1, <2>3 DEF Working
<1> SUFFICES ASSUME ~ MarkStarted PROVE Kept
  BY <1>1, <1>2
<1>typed. job \in [Jobs -> JobFile]
  BY DEF SlotInv, TypeOK
<1> USE DEF SlotInv, TypeOK, disk, units, health, tick, budgets
<1>3. ASSUME UNCHANGED <<now, job, files>> PROVE Kept
  BY <1>3
<1>4. ASSUME now <= now', UNCHANGED <<job, files>> PROVE Kept
  BY <1>4
<1>5. ASSUME UNCHANGED <<now, files>>, NEW j \in Jobs,
             job'[j].phase # "started" \/ job'[j] = job[j],
             \A i \in Jobs \ {j} : job'[i] = job[i]
      PROVE  Kept
  BY <1>5
<1>6. ASSUME UNCHANGED now, NEW j \in Jobs,
             job'[j].phase # "started" \/ job'[j] = job[j],
             \A i \in Jobs \ {j} : job'[i] = job[i],
             \A i \in Jobs : files[i] \subseteq files'[i]
      PROVE  Kept
  BY <1>6
<1> HIDE DEF Kept
<1>7. CASE TickBegin
  BY <1>7, <1>3 DEF TickBegin
<1>8. CASE Snapshot
  BY <1>8, <1>3 DEF Snapshot
<1>9. CASE RcRun
  BY <1>9, <1>3 DEF RcRun
<1>10. CASE QueueDrained
  BY <1>10, <1>3 DEF QueueDrained
<1>11. CASE TickEnd
  <2>1. /\ UNCHANGED <<now, job>>
        /\ \A i \in Jobs : files[i] \subseteq files'[i]
    BY <1>11 DEF TickEnd
  <2> QED BY <2>1 DEF Kept
<1>12. CASE Crash
  BY <1>12, <1>3 DEF Crash
<1>13. CASE Alarm
  BY <1>13, <1>3 DEF Alarm
<1>14. CASE Recover
  BY <1>14, <1>3 DEF Recover
<1>15. CASE Advance
  <2>1. now <= now' /\ UNCHANGED <<job, files>>
    BY <1>15 DEF Advance
  <2> QED BY <2>1, <1>4
<1>16. ASSUME NEW j \in Jobs, Queue(j) PROVE Kept
  <2>1. job' = [job EXCEPT ![j].phase = "queued", ![j].gated = After[j] # {}]
        /\ UNCHANGED <<now, files>>
    BY <1>16 DEF Queue
  <2>2. job'[j].phase = "queued" /\ \A i \in Jobs \ {j} : job'[i] = job[i]
    BY ONLY <2>1, <1>typed, JobFileValues, j \in Jobs
  <2> QED BY <2>1, <2>2, <1>5
<1>17. ASSUME NEW j \in Jobs, Cancel(j) PROVE Kept
  BY <1>17, <1>5 DEF Cancel
<1>18. ASSUME NEW j \in Jobs, VisitPrune(j) PROVE Kept
  BY <1>18, <1>5 DEF VisitPrune, Visiting
<1>19. ASSUME NEW j \in Jobs, VisitUngate(j) PROVE Kept
  <2>1. /\ \/ job' = job
           \/ job' = [job EXCEPT ![j].gated = FALSE, ![j].minutes = Window(j)]
        /\ job[j].phase = "queued" /\ UNCHANGED <<now, files>>
    BY <1>19 DEF VisitUngate, Visiting, Gated
  <2>2. job'[j].phase = "queued" /\ \A i \in Jobs \ {j} : job'[i] = job[i]
    <3>1. CASE job' = job
      BY ONLY <2>1, <3>1
    <3>2. CASE job' = [job EXCEPT ![j].gated = FALSE, ![j].minutes = Window(j)]
      BY ONLY <2>1, <3>2, <1>typed, JobFileValues, j \in Jobs
    <3> QED BY ONLY <2>1, <3>1, <3>2
  <2> QED BY <2>1, <2>2, <1>5
<1>20. ASSUME NEW j \in Jobs, VisitDepSkip(j) PROVE Kept
  <2>1. /\ \/ job' = job
           \/ job' = [job EXCEPT ![j].phase = "skipped", ![j].gated = FALSE]
        /\ now' = now /\ \A i \in Jobs : files[i] \subseteq files'[i]
    BY <1>20 DEF VisitDepSkip, Visiting, DepSkip
  <2>2. /\ job'[j] = job[j] \/ job'[j].phase = "skipped"
        /\ \A i \in Jobs \ {j} : job'[i] = job[i]
    <3>1. CASE job' = job
      BY ONLY <3>1
    <3>2. CASE job' = [job EXCEPT ![j].phase = "skipped", ![j].gated = FALSE]
      BY ONLY <3>2, <1>typed, JobFileValues, j \in Jobs
    <3> QED BY ONLY <2>1, <3>1, <3>2
  <2> QED BY <2>1, <2>2, <1>6
<1>21. ASSUME NEW j \in Jobs, VisitNoWorktree(j) PROVE Kept
  <2>1. /\ \/ job' = job
           \/ job' = [job EXCEPT ![j].phase = "skipped", ![j].gated = FALSE]
        /\ now' = now /\ \A i \in Jobs : files[i] \subseteq files'[i]
    BY <1>21 DEF VisitNoWorktree, Visiting, DepSkip
  <2>2. /\ job'[j] = job[j] \/ job'[j].phase = "skipped"
        /\ \A i \in Jobs \ {j} : job'[i] = job[i]
    <3>1. CASE job' = job
      BY ONLY <3>1
    <3>2. CASE job' = [job EXCEPT ![j].phase = "skipped", ![j].gated = FALSE]
      BY ONLY <3>2, <1>typed, JobFileValues, j \in Jobs
    <3> QED BY ONLY <2>1, <3>1, <3>2
  <2> QED BY <2>1, <2>2, <1>6
<1>22. ASSUME NEW j \in Jobs, VisitCandidate(j) PROVE Kept
  BY <1>22, <1>3 DEF VisitCandidate, Visiting
<1>23. ASSUME NEW j \in Jobs, VisitNothing(j) PROVE Kept
  BY <1>23, <1>3 DEF VisitNothing, Visiting
<1>24. ASSUME NEW j \in Jobs, SkipWindow(j) PROVE Kept
  <2>1. /\ \/ job' = job
           \/ job' = [job EXCEPT ![j].phase = "skipped", ![j].gated = FALSE]
        /\ now' = now /\ \A i \in Jobs : files[i] \subseteq files'[i]
    BY <1>24 DEF SkipWindow, Admitting, DepSkip
  <2>2. /\ job'[j] = job[j] \/ job'[j].phase = "skipped"
        /\ \A i \in Jobs \ {j} : job'[i] = job[i]
    <3>1. CASE job' = job
      BY ONLY <3>1
    <3>2. CASE job' = [job EXCEPT ![j].phase = "skipped", ![j].gated = FALSE]
      BY ONLY <3>2, <1>typed, JobFileValues, j \in Jobs
    <3> QED BY ONLY <2>1, <3>1, <3>2
  <2> QED BY <2>1, <2>2, <1>6
<1>25. ASSUME NEW j \in Jobs, PassOver(j) PROVE Kept
  BY <1>25, <1>3 DEF PassOver, Admitting
<1>26. ASSUME NEW j \in Jobs, PersistClamp(j) PROVE Kept
  <2>1. /\ job' = job \/ job' = [job EXCEPT ![j].minutes = Window(j)]
        /\ job[j].phase # "started" /\ UNCHANGED <<now, files>>
    BY <1>26 DEF PersistClamp, Admitting, Candidates
  <2>2. job'[j].phase # "started" /\ \A i \in Jobs \ {j} : job'[i] = job[i]
    <3>1. CASE job' = job
      BY ONLY <2>1, <3>1
    <3>2. CASE job' = [job EXCEPT ![j].minutes = Window(j)]
      BY ONLY <2>1, <3>2, <1>typed, JobFileValues, j \in Jobs
    <3> QED BY ONLY <2>1, <3>1, <3>2
  <2> QED BY <2>1, <2>2, <1>5
<1>27. ASSUME NEW j \in Jobs, Report(j) PROVE Kept
  BY <1>27, <1>6 DEF Report
<1>28. ASSUME NEW j \in Jobs, UnitEnds(j) PROVE Kept
  BY <1>28, <1>3 DEF UnitEnds
<1>29. ASSUME NEW j \in Jobs, AuthFail(j) PROVE Kept
  BY <1>29, <1>6 DEF AuthFail
<1>30. ASSUME NEW j \in Jobs, Autostop(j) PROVE Kept
  BY <1>30, <1>3 DEF Autostop
<1>31. CASE UNCHANGED vars
  BY <1>31, <1>3 DEF vars
<1> QED
  BY <1>7, <1>8, <1>9, <1>10, <1>11, <1>12, <1>13, <1>14, <1>15, <1>16, <1>17,
     <1>18, <1>19, <1>20, <1>21, <1>22, <1>23, <1>24, <1>25, <1>26, <1>27,
     <1>28, <1>29, <1>30, <1>31
     DEF Next, Tick, Environment, Maintain

\* The candidates of a tick are queued jobs until one of them is launched, and
\* the launch empties the list.
LEMMA CandidatesStep ==
  ASSUME SlotInv, TypeOK', [Next]_vars
  PROVE  Candidates'
<1> USE DEF SlotInv, Candidates, TypeOK, disk, units, health, tick, budgets
<1>typed. job \in [Jobs -> JobFile]
  OBVIOUS
<1>1. ASSUME \A j \in cands' : job'[j].phase # "started" PROVE Candidates'
  BY <1>1
<1>2. ASSUME cands' \subseteq cands, UNCHANGED job PROVE Candidates'
  BY <1>2
<1>3. ASSUME cands' \subseteq cands, NEW j \in Jobs,
             job'[j].phase # "started" \/ job'[j] = job[j],
             \A i \in Jobs \ {j} : job'[i] = job[i]
      PROVE  Candidates'
  BY <1>3
<1>4. ASSUME cands' = {} PROVE Candidates'
  BY <1>4
<1>5. CASE TickBegin
  BY <1>5, <1>4 DEF TickBegin
<1>6. CASE Snapshot
  BY <1>6, <1>2 DEF Snapshot
<1>7. CASE RcRun
  BY <1>7, <1>2 DEF RcRun
<1>8. CASE MarkStarted
  BY <1>8, <1>4 DEF MarkStarted
<1>9. CASE QueueDrained
  BY <1>9, <1>2 DEF QueueDrained
<1>10. CASE TickEnd
  BY <1>10, <1>2 DEF TickEnd
<1>11. CASE Crash
  BY <1>11, <1>4 DEF Crash
<1>12. CASE Alarm
  BY <1>12, <1>2 DEF Alarm
<1>13. CASE Recover
  BY <1>13, <1>2 DEF Recover
<1>14. CASE Advance
  BY <1>14, <1>2 DEF Advance
<1>15. ASSUME NEW j \in Jobs, Queue(j) PROVE Candidates'
  <2>1. job' = [job EXCEPT ![j].phase = "queued", ![j].gated = After[j] # {}]
        /\ cands' = cands
    BY <1>15 DEF Queue
  <2>2. job'[j].phase = "queued" /\ \A i \in Jobs \ {j} : job'[i] = job[i]
    BY ONLY <2>1, <1>typed, JobFileValues, j \in Jobs
  <2> QED BY <2>1, <2>2, <1>3
<1>16. ASSUME NEW j \in Jobs, Cancel(j) PROVE Candidates'
  BY <1>16, <1>3 DEF Cancel
<1>17. ASSUME NEW j \in Jobs, VisitPrune(j) PROVE Candidates'
  BY <1>17, <1>3 DEF VisitPrune, Visiting
<1>18. ASSUME NEW j \in Jobs, VisitUngate(j) PROVE Candidates'
  <2>1. /\ \/ job' = job
           \/ job' = [job EXCEPT ![j].gated = FALSE, ![j].minutes = Window(j)]
        /\ job[j].phase = "queued" /\ cands' \subseteq cands \cup {j}
    BY <1>18 DEF VisitUngate, Visiting, Gated
  <2>2. job'[j].phase = "queued" /\ \A i \in Jobs \ {j} : job'[i] = job[i]
    <3>1. CASE job' = job
      BY ONLY <2>1, <3>1
    <3>2. CASE job' = [job EXCEPT ![j].gated = FALSE, ![j].minutes = Window(j)]
      BY ONLY <2>1, <3>2, <1>typed, JobFileValues, j \in Jobs
    <3> QED BY ONLY <2>1, <3>1, <3>2
  <2> QED BY <2>1, <2>2, <1>1
<1>19. ASSUME NEW j \in Jobs, VisitDepSkip(j) PROVE Candidates'
  <2>1. /\ \/ job' = job
           \/ job' = [job EXCEPT ![j].phase = "skipped", ![j].gated = FALSE]
        /\ cands' \subseteq cands
    BY <1>19 DEF VisitDepSkip, Visiting, DepSkip
  <2>2. /\ job'[j] = job[j] \/ job'[j].phase = "skipped"
        /\ \A i \in Jobs \ {j} : job'[i] = job[i]
    <3>1. CASE job' = job
      BY ONLY <3>1
    <3>2. CASE job' = [job EXCEPT ![j].phase = "skipped", ![j].gated = FALSE]
      BY ONLY <3>2, <1>typed, JobFileValues, j \in Jobs
    <3> QED BY ONLY <2>1, <3>1, <3>2
  <2> QED BY <2>1, <2>2, <1>3
<1>20. ASSUME NEW j \in Jobs, VisitNoWorktree(j) PROVE Candidates'
  <2>1. /\ \/ job' = job
           \/ job' = [job EXCEPT ![j].phase = "skipped", ![j].gated = FALSE]
        /\ cands' \subseteq cands
    BY <1>20 DEF VisitNoWorktree, Visiting, DepSkip
  <2>2. /\ job'[j] = job[j] \/ job'[j].phase = "skipped"
        /\ \A i \in Jobs \ {j} : job'[i] = job[i]
    <3>1. CASE job' = job
      BY ONLY <3>1
    <3>2. CASE job' = [job EXCEPT ![j].phase = "skipped", ![j].gated = FALSE]
      BY ONLY <3>2, <1>typed, JobFileValues, j \in Jobs
    <3> QED BY ONLY <2>1, <3>1, <3>2
  <2> QED BY <2>1, <2>2, <1>3
<1>21. ASSUME NEW j \in Jobs, VisitCandidate(j) PROVE Candidates'
  BY <1>21, <1>1 DEF VisitCandidate, Visiting, Ungated
<1>22. ASSUME NEW j \in Jobs, VisitNothing(j) PROVE Candidates'
  BY <1>22, <1>2 DEF VisitNothing, Visiting
<1>23. ASSUME NEW j \in Jobs, SkipWindow(j) PROVE Candidates'
  <2>1. /\ \/ job' = job
           \/ job' = [job EXCEPT ![j].phase = "skipped", ![j].gated = FALSE]
        /\ cands' \subseteq cands
    BY <1>23 DEF SkipWindow, Admitting, DepSkip
  <2>2. /\ job'[j] = job[j] \/ job'[j].phase = "skipped"
        /\ \A i \in Jobs \ {j} : job'[i] = job[i]
    <3>1. CASE job' = job
      BY ONLY <3>1
    <3>2. CASE job' = [job EXCEPT ![j].phase = "skipped", ![j].gated = FALSE]
      BY ONLY <3>2, <1>typed, JobFileValues, j \in Jobs
    <3> QED BY ONLY <2>1, <3>1, <3>2
  <2> QED BY <2>1, <2>2, <1>3
<1>24. ASSUME NEW j \in Jobs, PassOver(j) PROVE Candidates'
  BY <1>24, <1>2 DEF PassOver, Admitting
<1>25. ASSUME NEW j \in Jobs, PersistClamp(j) PROVE Candidates'
  <2>1. /\ job' = job \/ job' = [job EXCEPT ![j].minutes = Window(j)]
        /\ job[j].phase # "started" /\ cands' \subseteq cands
    BY <1>25 DEF PersistClamp, Admitting
  <2>2. job'[j].phase # "started" /\ \A i \in Jobs \ {j} : job'[i] = job[i]
    <3>1. CASE job' = job
      BY ONLY <2>1, <3>1
    <3>2. CASE job' = [job EXCEPT ![j].minutes = Window(j)]
      BY ONLY <2>1, <3>2, <1>typed, JobFileValues, j \in Jobs
    <3> QED BY ONLY <2>1, <3>1, <3>2
  <2> QED BY <2>1, <2>2, <1>3
<1>26. ASSUME NEW j \in Jobs, Report(j) PROVE Candidates'
  BY <1>26, <1>2 DEF Report
<1>27. ASSUME NEW j \in Jobs, UnitEnds(j) PROVE Candidates'
  BY <1>27, <1>2 DEF UnitEnds
<1>28. ASSUME NEW j \in Jobs, AuthFail(j) PROVE Candidates'
  BY <1>28, <1>2 DEF AuthFail
<1>29. ASSUME NEW j \in Jobs, Autostop(j) PROVE Candidates'
  BY <1>29, <1>2 DEF Autostop
<1>30. CASE UNCHANGED vars
  BY <1>30, <1>2 DEF vars
<1> QED
  BY <1>5, <1>6, <1>7, <1>8, <1>9, <1>10, <1>11, <1>12, <1>13, <1>14, <1>15,
     <1>16, <1>17, <1>18, <1>19, <1>20, <1>21, <1>22, <1>23, <1>24, <1>25,
     <1>26, <1>27, <1>28, <1>29, <1>30
     DEF Next, Tick, Environment, Maintain

\* The snapshot and the chosen job stay what admission judged until the tick is
\* over: only the snapshot rewrites occupied, only an admission chooses.
LEMMA TickStep ==
  ASSUME SlotInv, TypeOK', [Next]_vars
  PROVE  Counted' /\ Chosen'
<1> DEFINE Done == Counted' /\ Chosen'
<1> SUFFICES Done
  OBVIOUS
<1>0. Working' \subseteq Working \/ pc' = "finish"
  BY OneSlotAtATime
<1>1. ASSUME pc' \notin {"admit", "dispatch", "mark"} PROVE Done
  BY <1>1 DEF Counted, Chosen
<1>2. ASSUME pc' = pc, UNCHANGED <<occupied, cur>> PROVE Done
  BY <1>0, <1>2 DEF Counted, Chosen, AdmitCap, SlotInv
<1>3. CASE Snapshot
  <2>1. pc' = "admit" /\ occupied' = Working
    BY <1>3 DEF Snapshot
  <2> QED BY <2>1, <1>0 DEF Counted, Chosen
<1>4. ASSUME NEW j \in Jobs, PersistClamp(j) PROVE Done
  <2>1. /\ pc = "admit" /\ occupied' = occupied
        /\ \/ pc' = "dispatch" /\ cur' = j /\ AdmitCap(j)
           \/ UNCHANGED <<pc, cur>>
    BY <1>4 DEF PersistClamp, Admitting, Admissible
  <2> QED BY <2>1, <1>0 DEF Counted, Chosen, AdmitCap, SlotInv
<1>5. CASE RcRun
  <2>1. /\ pc = "dispatch" /\ occupied' = occupied
        /\ \/ pc' = "mark" /\ cur' = cur
           \/ pc' = "admit"
    BY <1>5 DEF RcRun
  <2> QED BY <2>1, <1>0 DEF Counted, Chosen, AdmitCap, SlotInv
<1>6. CASE TickBegin \/ MarkStarted \/ QueueDrained \/ TickEnd \/ Crash
  <2>1. pc' \notin {"admit", "dispatch", "mark"}
    BY <1>6 DEF TickBegin, MarkStarted, QueueDrained, TickEnd, Crash
  <2> QED BY <2>1, <1>1
<1>7. CASE Alarm \/ Recover \/ Advance
  <2>1. pc' = pc /\ UNCHANGED <<occupied, cur>>
    BY <1>7 DEF Alarm, Recover, Advance, tick
  <2> QED BY <2>1, <1>2
<1>8. ASSUME NEW j \in Jobs, Maintain(j) PROVE Done
  <2>1. pc' = "maintain"
    BY <1>8 DEF Maintain, VisitPrune, VisitUngate, VisitDepSkip, VisitNoWorktree,
                VisitCandidate, VisitNothing, Visiting
  <2> QED BY <2>1, <1>1
<1>9. ASSUME NEW j \in Jobs, SkipWindow(j) \/ PassOver(j) PROVE Done
  <2>1. pc' = pc /\ UNCHANGED <<occupied, cur>>
    BY <1>9 DEF SkipWindow, PassOver, Admitting
  <2> QED BY <2>1, <1>2
<1>10. ASSUME NEW j \in Jobs, Queue(j) \/ Cancel(j) \/ Report(j) PROVE Done
  <2>1. pc' = pc /\ UNCHANGED <<occupied, cur>>
    BY <1>10 DEF Queue, Cancel, Report, tick
  <2> QED BY <2>1, <1>2
<1>11. ASSUME NEW j \in Jobs, UnitEnds(j) \/ AuthFail(j) \/ Autostop(j) PROVE Done
  <2>1. pc' = pc /\ UNCHANGED <<occupied, cur>>
    BY <1>11 DEF UnitEnds, AuthFail, Autostop, tick
  <2> QED BY <2>1, <1>2
<1>12. CASE UNCHANGED vars
  BY <1>12, <1>2 DEF vars, tick
<1> HIDE DEF Done
<1> QED
  BY <1>3, <1>4, <1>5, <1>6, <1>7, <1>8, <1>9, <1>10, <1>11, <1>12
     DEF Next, Tick, Environment

\* Every step keeps the working sessions within the caps: when one takes a slot
\* it is the job admission chose against the snapshot (AdmitCap, Admit).
LEMMA SlotStep == SlotInv /\ [Next]_vars => SlotInv'
<1> SUFFICES ASSUME SlotInv, [Next]_vars PROVE SlotInv'
  OBVIOUS
<1>1. TypeOK /\ TypeOK'
  BY TypeStep DEF SlotInv
<1>2. Candidates' /\ Counted' /\ Chosen'
  BY <1>1, CandidatesStep, TickStep
<1>3. Working \in SUBSET Jobs
  BY DEF Working
<1>4. Fits(Working')
  <2>1. CASE Working' \subseteq Working
    BY <2>1, <1>3, FewerFit DEF SlotInv
  <2>2. CASE pc = "mark" /\ cur \in Jobs /\ Working' = Working \cup {cur}
    <3>1. Working \in SUBSET occupied /\ AdmitCap(cur) /\ Fits(Working)
      BY <2>2 DEF SlotInv, Counted, Chosen
    <3> QED BY <2>2, <3>1, <1>1, AdmittedFits
  <2> QED BY <2>1, <2>2, <1>1, OneSlotAtATime
<1>5. Fits(Working)'
  BY <1>4 DEF Fits
<1> QED BY <1>1, <1>2, <1>5 DEF SlotInv

\* The queue starts with no session.
LEMMA SlotInit == Init => SlotInv /\ Working = {}
<1> SUFFICES ASSUME Init PROVE SlotInv /\ Working = {}
  OBVIOUS
<1>1. TypeOK
  <2>1. job \in [Jobs -> JobFile]
    BY JobsAssumption DEF Init, JobFile
  <2>2. now \in Nat
    BY TimeAssumption DEF Init
  <2> QED BY <2>1, <2>2 DEF Init, TypeOK
<1>2. Working = {}
  BY DEF Init, Working, JobWorking
<1>3. Fits({})
  <2>1. Cardinality({}) = 0
    BY FS_EmptySet
  <2>2. ASSUME NEW k \in Jobs, Cap[k] > 0
        PROVE  Cardinality({i \in {} : CapGroup[i] = CapGroup[k]}) <= Cap[k]
    <3>1. {i \in {} : CapGroup[i] = CapGroup[k]} = {}
      OBVIOUS
    <3>2. Cap[k] \in Nat
      BY JobsAssumption
    <3>3. Cardinality({i \in {} : CapGroup[i] = CapGroup[k]}) = 0
      BY <3>1, <2>1, Zenon
    <3> QED BY <3>2, <3>3
  <2>3. BoxCap > 0 => Cardinality({}) <= BoxCap
    BY <2>1, TimeAssumption
  <2> QED BY <2>2, <2>3 DEF Fits
<1> QED BY <1>1, <1>2, <1>3 DEF Init, SlotInv, Counted, Chosen, Candidates

\* The caps hold in every reachable state, for any jobs, caps, durations and
\* any number of crashes and failed saves (LaunchQueue's WorkingWithinCap).
THEOREM CapsHold == Spec => []WorkingWithinCap
<1>1. Init => SlotInv
  BY SlotInit
<1>2. SlotInv => WorkingWithinCap
  BY DEF SlotInv, WorkingWithinCap
<1> QED BY <1>1, <1>2, SlotStep, PTL DEF Spec

\* A step of the queue is a step of the abstract pool or leaves it alone: the
\* started stamp acquires, everything else that shows releases.
LEMMA PoolStep == SlotInv /\ [Next]_vars => [Slots!Next]_Working
<1> SUFFICES ASSUME SlotInv, [Next]_vars PROVE [Slots!Next]_Working
  OBVIOUS
<1>1. TypeOK'
  BY TypeStep DEF SlotInv
<1>2. CASE Working' = Working
  BY <1>2
<1>3. CASE Working' \subseteq Working /\ Working' # Working
  <2>1. Slots!Release
    BY <1>3 DEF Slots!Release
  <2> QED BY <2>1 DEF Slots!Next
<1>4. CASE /\ pc = "mark" /\ cur \in Jobs /\ Working' # Working
           /\ Working' = Working \cup {cur}
  <2>1. Working \subseteq occupied /\ AdmitCap(cur) /\ cur \notin Working
    BY <1>4 DEF SlotInv, Counted, Chosen
  <2>2. IsFiniteSet(occupied)
    BY JobsAssumption, FS_Subset DEF SlotInv, TypeOK
  <2>3. \A A \in SUBSET occupied : \A B \in SUBSET A :
          /\ Cardinality(B) \in Nat /\ Cardinality(A) \in Nat
          /\ Cardinality(B) <= Cardinality(A)
    <3> SUFFICES ASSUME NEW A \in SUBSET occupied, NEW B \in SUBSET A
                 PROVE  /\ Cardinality(B) \in Nat /\ Cardinality(A) \in Nat
                        /\ Cardinality(B) <= Cardinality(A)
      OBVIOUS
    <3>1. IsFiniteSet(A)
      BY <2>2, FS_Subset
    <3> QED BY <3>1, FS_Subset, FS_CardinalityType
  <2>size. \A S : Slots!Cardinality(S) = Cardinality(S)
    BY DEF Slots!Cardinality, Cardinality
  <2>4. Slots!Below(Working, BoxCap)
    BY <2>1, <2>3, <2>size, TimeAssumption DEF AdmitCap, Slots!Below
  <2> DEFINE limit == IF CapGroup[cur] = None THEN 0 ELSE Cap[cur]
             mine(X) == {i \in X : CapGroup[i] = CapGroup[cur]}
  <2>5. Slots!Below(mine(Working), limit)
    <3>1. CASE limit = 0
      BY <3>1 DEF Slots!Below
    <3>2. CASE limit # 0
      <4>1. Cap[cur] > 0 /\ CapGroup[cur] # None /\ limit = Cap[cur]
        BY <3>2, <1>4, JobsAssumption
      <4>2. Cardinality(mine(occupied)) < Cap[cur]
        BY <4>1, <2>1 DEF AdmitCap
      <4>3. mine(Working) \subseteq mine(occupied) /\ mine(occupied) \subseteq occupied
        BY <2>1
      <4>4. Cap[cur] \in Nat
        BY <1>4, JobsAssumption
      <4> HIDE DEF mine
      <4>5. Cardinality(mine(Working)) < Cap[cur]
        BY <4>2, <4>3, <4>4, <2>3
      <4> QED BY <4>1, <4>5, <2>size DEF Slots!Below
    <3> QED BY <3>1, <3>2
  <2>6. Slots!Acquire(cur)
    BY <1>4, <2>1, <2>4, <2>5 DEF Slots!Acquire, Slots!Members
  <2> QED BY <1>4, <2>6 DEF Slots!Next
<1> QED BY <1>1, <1>2, <1>3, <1>4, OneSlotAtATime

\* The launch queue implements the abstract pool of slots for every instance:
\* sessions take slots one at a time and within the box's and the group's limit
\* (loadQueue, AdmitCap, MarkStarted against SlotPool).
THEOREM QueueImplementsSlotPool == Spec => ImplementsSlotPool
<1>1. Init => SlotInv /\ Slots!Init
  BY SlotInit DEF Slots!Init
<1> QED BY <1>1, SlotStep, PoolStep, PTL DEF Spec, ImplementsSlotPool, Slots!Spec

-----------------------------------------------------------------------------
(***************************************************************************)
(* A step touches the files, the unit and the timer of one job at most: the  *)
(* one it is about.  Only the watchdog at the end of a tick writes markers   *)
(* for several.                                                              *)
(***************************************************************************)
Same(j) == /\ job'[j] = job[j] /\ files'[j] = files[j]
           /\ unit'[j] = unit[j] /\ stopAt'[j] = stopAt[j]

OwnStep(j) ==
  \/ Queue(j) \/ Cancel(j) \/ Maintain(j) \/ SkipWindow(j) \/ PassOver(j)
  \/ PersistClamp(j) \/ Report(j) \/ UnitEnds(j) \/ AuthFail(j) \/ Autostop(j)

\* Steps that are about no job in particular, or about the one of the tick.
SharedStep ==
  \/ TickBegin \/ Snapshot \/ RcRun \/ MarkStarted \/ QueueDrained \/ TickEnd
  \/ Crash \/ Alarm \/ Recover \/ Advance

\* Next, sorted by whom a step is about.
LEMMA Steps ==
  [Next]_vars <=> SharedStep \/ (\E j \in Jobs : OwnStep(j)) \/ UNCHANGED vars
BY DEF Next, Tick, Environment, SharedStep, OwnStep

\* Another job's step leaves a job alone (every handler and every branch of
\* schedTick writes under one id).
LEMMA OthersLeaveAlone ==
  ASSUME TypeOK, NEW j \in Jobs, NEW k \in Jobs \ {j}, OwnStep(k)
  PROVE  Same(j)
<1> USE DEF TypeOK, Same, disk, units
<1>1. CASE Queue(k)
  BY <1>1 DEF Queue
<1>2. CASE Cancel(k)
  BY <1>2 DEF Cancel
<1>3. CASE VisitPrune(k)
  BY <1>3 DEF VisitPrune, Visiting
<1>4. CASE VisitUngate(k)
  BY <1>4 DEF VisitUngate, Visiting
<1>5. CASE VisitDepSkip(k)
  BY <1>5 DEF VisitDepSkip, Visiting, DepSkip
<1>6. CASE VisitNoWorktree(k)
  BY <1>6 DEF VisitNoWorktree, Visiting, DepSkip
<1>7. CASE VisitCandidate(k) \/ VisitNothing(k)
  BY <1>7 DEF VisitCandidate, VisitNothing, Visiting
<1>8. CASE SkipWindow(k)
  BY <1>8 DEF SkipWindow, Admitting, DepSkip
<1>9. CASE PassOver(k)
  BY <1>9 DEF PassOver, Admitting
<1>10. CASE PersistClamp(k)
  BY <1>10 DEF PersistClamp, Admitting
<1>11. CASE Report(k)
  BY <1>11 DEF Report
<1>12. CASE UnitEnds(k) \/ AuthFail(k) \/ Autostop(k)
  BY <1>12 DEF UnitEnds, AuthFail, Autostop
<1> QED
  BY <1>1, <1>2, <1>3, <1>4, <1>5, <1>6, <1>7, <1>8, <1>9, <1>10, <1>11, <1>12
     DEF OwnStep, Maintain

-----------------------------------------------------------------------------
(***************************************************************************)
(* The shape of a tick: it holds jobs still to visit only while it          *)
(* maintains, candidates only until it has launched one, and whatever it    *)
(* holds is a due, ungated job that no other handler can touch before the   *)
(* tick lets go of it (schedTick runs under nsMu).                          *)
(***************************************************************************)
TickShape ==
  /\ pc # "maintain" => left = {}
  /\ pc \notin {"maintain", "admit", "dispatch", "mark"} => cands = {}
  /\ cur # None => pc \in {"dispatch", "mark", "finish"}
  /\ \A j \in cands : Ungated(j) /\ Due(j) /\ j \notin left /\ j # cur
  /\ pc \in {"dispatch", "mark"} => Ungated(cur) /\ Due(cur)

\* The fields that the mints, the ungate, the skips, the clamp and the stamp
\* rewrite.
LEMMA Fields ==
  ASSUME NEW f \in [Jobs -> JobFile], NEW j \in Jobs, NEW b, NEW m
  PROVE  LET skip  == [f EXCEPT ![j].phase = "skipped", ![j].gated = FALSE]
             mint  == [f EXCEPT ![j].phase = "queued", ![j].gated = b]
             open  == [f EXCEPT ![j].gated = FALSE, ![j].minutes = m]
             clamp == [f EXCEPT ![j].minutes = m]
             done  == [f EXCEPT ![j].phase = "started", ![j].startedAt = m]
             drop  == [f EXCEPT ![j].phase = "gone"]
         IN  /\ skip[j].phase = "skipped" /\ skip[j].startedAt = f[j].startedAt
             /\ mint[j].phase = "queued" /\ mint[j].gated = b
             /\ mint[j].startedAt = f[j].startedAt
             /\ open[j].phase = f[j].phase /\ open[j].gated = FALSE
             /\ open[j].startedAt = f[j].startedAt
             /\ clamp[j].phase = f[j].phase /\ clamp[j].gated = f[j].gated
             /\ clamp[j].startedAt = f[j].startedAt /\ clamp[j].minutes = m
             /\ done[j].phase = "started" /\ done[j].startedAt = m
             /\ done[j].minutes = f[j].minutes
             /\ drop[j].phase = "gone" /\ drop[j].startedAt = f[j].startedAt
             /\ drop[j].minutes = f[j].minutes
  BY DEF JobFile

\* Every step keeps the shape of the tick.
LEMMA TickShapeStep ==
  ASSUME TypeOK, TypeOK', TickShape, [Next]_vars
  PROVE  TickShape'
<1> USE DEF TypeOK, TickShape, Ungated, Due, None
<1>typed. job \in [Jobs -> JobFile] /\ cands \subseteq Jobs /\ Jobs \subseteq Nat
  BY JobsAssumption
<1>1. CASE UNCHANGED <<job, now, pc, left, cands, cur>>
  BY <1>1
<1>2. CASE TickBegin
  BY <1>2 DEF TickBegin
<1>3. CASE Snapshot
  BY <1>3 DEF Snapshot, disk
<1>4. CASE RcRun
  BY <1>4, <1>typed DEF RcRun, disk
<1>5. CASE MarkStarted
  BY <1>5 DEF MarkStarted
<1>6. CASE QueueDrained
  BY <1>6 DEF QueueDrained, disk
<1>7. CASE TickEnd \/ Crash
  BY <1>7 DEF TickEnd, Crash
<1>8. CASE Alarm \/ Recover
  BY <1>8, <1>1 DEF Alarm, Recover, tick, disk
<1>9. CASE Advance
  BY <1>9 DEF Advance, tick
<1>10. ASSUME NEW k \in Jobs, Queue(k) \/ Cancel(k) PROVE TickShape'
  BY <1>10 DEF Queue, Cancel, tick
<1>11. ASSUME NEW k \in Jobs, Maintain(k) PROVE TickShape'
  <2>1. /\ pc = "maintain" /\ k \in left /\ pc' = pc /\ left' = left \ {k}
        /\ cur' = cur /\ now' = now
    BY <1>11 DEF Maintain, VisitPrune, VisitUngate, VisitDepSkip, VisitNoWorktree,
                 VisitCandidate, VisitNothing, Visiting
  <2>2. \A i \in cands : Same(i)
    BY <2>1, <1>11, OthersLeaveAlone DEF OwnStep
  <2>3. \/ cands' = cands
        \/ cands' = cands \cup {k} /\ Ungated(k)' /\ Due(k)
    <3>1. CASE VisitUngate(k)
      <4>1. \/ cands' = cands
            \/ /\ job' = [job EXCEPT ![k].gated = FALSE, ![k].minutes = Window(k)]
               /\ job[k].phase = "queued" /\ Due(k) /\ cands' = cands \cup {k}
        BY <3>1 DEF VisitUngate, Gated
      <4>2. CASE job' = [job EXCEPT ![k].gated = FALSE, ![k].minutes = Window(k)]
        <5>1. job'[k].phase = job[k].phase /\ job'[k].gated = FALSE
          BY ONLY <4>2, <1>typed, Fields, k \in Jobs
        <5> QED BY <4>1, <5>1
      <4> QED BY <4>1, <4>2
    <3>2. CASE VisitCandidate(k)
      BY <3>2 DEF VisitCandidate
    <3>3. CASE ~ VisitUngate(k) /\ ~ VisitCandidate(k)
      BY <3>3, <1>11 DEF Maintain, VisitPrune, VisitDepSkip, DepSkip,
                         VisitNoWorktree, VisitNothing
    <3> QED BY <3>1, <3>2, <3>3
  <2> QED BY <2>1, <2>2, <2>3, <1>typed DEF Same
<1>12. ASSUME NEW k \in Jobs, SkipWindow(k) \/ PassOver(k) PROVE TickShape'
  <2>1. /\ pc = "admit" /\ k \in cands /\ cands' = cands \ {k}
        /\ pc' = pc /\ left' = left /\ cur' = cur /\ now' = now
    BY <1>12 DEF SkipWindow, PassOver, Admitting
  <2>2. \A i \in cands' : Same(i)
    BY <2>1, <1>12, <1>typed, OthersLeaveAlone DEF OwnStep
  <2> QED BY <2>1, <2>2 DEF Same
<1>13. ASSUME NEW k \in Jobs, PersistClamp(k) PROVE TickShape'
  <2>1. /\ pc = "admit" /\ k \in cands /\ cands' = cands \ {k}
        /\ left' = left /\ now' = now
        /\ \/ pc' = "dispatch" /\ cur' = k
           \/ pc' = pc /\ cur' = cur
    BY <1>13 DEF PersistClamp, Admitting
  <2>2. \A i \in cands' : Same(i)
    BY <2>1, <1>13, <1>typed, OthersLeaveAlone DEF OwnStep
  <2>3. job' = job \/ job' = [job EXCEPT ![k].minutes = Window(k)]
    BY <1>13 DEF PersistClamp
  <2>4. job'[k].phase = job[k].phase /\ job'[k].gated = job[k].gated
    <3>1. CASE job' = job
      BY <3>1
    <3>2. CASE job' = [job EXCEPT ![k].minutes = Window(k)]
      BY ONLY <3>2, <1>typed, Fields, k \in Jobs
    <3> QED BY <2>3, <3>1, <3>2
  <2> QED BY <2>1, <2>2, <2>4 DEF Same
<1>14. ASSUME NEW k \in Jobs, Report(k) \/ UnitEnds(k) \/ AuthFail(k) \/ Autostop(k)
       PROVE  TickShape'
  BY <1>14, <1>1 DEF Report, UnitEnds, AuthFail, Autostop, tick, disk
<1>15. CASE UNCHANGED vars
  BY <1>15, <1>1 DEF vars, tick, disk
<1> QED
  BY <1>2, <1>3, <1>4, <1>5, <1>6, <1>7, <1>8, <1>9, <1>10, <1>11, <1>12, <1>13,
     <1>14, <1>15, Steps DEF SharedStep, OwnStep

-----------------------------------------------------------------------------
(***************************************************************************)
(* The life of one job: every step leaves its file, markers, unit and timer *)
(* alone or makes one of these moves.                                       *)
(***************************************************************************)
SameRun(j) == unit'[j] = unit[j] /\ stopAt'[j] = stopAt[j]
SameTick == pc' = pc /\ cur' = cur /\ now' = now /\ crashes' = crashes

\* The tick is dispatching or launching the job.
InHand(j) == cur = j /\ pc \in {"dispatch", "mark"}

\* Nothing happens to the job.  A dispatch under way goes on, unless a crash or
\* a failed save ends it, and none begins.
Rests(j) ==
  /\ Same(j)
  /\ \/ pc' = pc /\ cur' = cur /\ (now' = now \/ pc = "idle")
     \/ ~ InHand(j)' /\ (InHand(j) => crashes' = crashes + 1)

Arrives(j) ==
  /\ pc = "idle" /\ job[j].phase = "absent"
  /\ job'[j].phase = "queued" /\ job'[j].gated = (After[j] # {})
  /\ job'[j].startedAt = job[j].startedAt
  /\ files'[j] = files[j] /\ SameRun(j) /\ SameTick

Vanishes(j) ==
  /\ \/ pc = "idle" /\ job[j].phase \in {"queued", "skipped"}
     \/ /\ pc = "maintain" /\ job[j].phase \in {"skipped", "started"}
        /\ now - At[j] > KeepFor
  /\ job'[j].phase = "gone"
  /\ job'[j].startedAt = job[j].startedAt
  /\ files'[j] = files[j] /\ SameRun(j) /\ SameTick

Opens(j) ==
  /\ pc = "maintain" /\ Gated(j) /\ GatedReadiness(j) = "success"
  /\ job'[j].phase = "queued"
  /\ job'[j].startedAt = job[j].startedAt
  /\ files'[j] = files[j] /\ SameRun(j) /\ SameTick

\* One of the two writes of a skip may fail, or both.
Skips(j) ==
  /\ pc \in {"maintain", "admit"} /\ job[j].phase = "queued" /\ SameRun(j)
  /\ pc' = pc /\ cur' = cur /\ now' = now
  /\ \/ files'[j] = files[j] \cup {"depskip"}
     \/ files'[j] = files[j] /\ crashes' = crashes + 1
  /\ \/ /\ job'[j].phase = "skipped" /\ job'[j].startedAt = job[j].startedAt
        /\ crashes' = crashes \/ crashes' = crashes + 1
     \/ job'[j] = job[j] /\ crashes' = crashes + 1

Clamps(j) ==
  /\ pc = "admit" /\ pc' = "dispatch" /\ cur' = j
  /\ now' = now /\ crashes' = crashes
  /\ j \in cands /\ Ungated(j) /\ Window(j) # None
  /\ job'[j].phase = "queued" /\ job'[j].gated = FALSE
  /\ job'[j].minutes = Window(j) /\ job'[j].startedAt = job[j].startedAt
  /\ files'[j] = files[j] /\ SameRun(j)

Starts(j) ==
  /\ pc = "dispatch" /\ cur = j /\ pc' = "mark" /\ cur' = j
  /\ now' = now /\ crashes' = crashes
  /\ unit[j] # "active" /\ unit'[j] = "active"
  /\ stopAt'[j] = now + job[j].minutes
  /\ job'[j] = job[j] /\ files'[j] = files[j]

Disarms(j) ==
  /\ pc = "dispatch" /\ cur = j /\ pc' = "admit" /\ cur' = None
  /\ now' = now /\ crashes' = crashes
  /\ unit'[j] = unit[j] /\ stopAt'[j] = None
  /\ errors' = IF unit[j] = "active" THEN errors ELSE errors + 1
  /\ job'[j] = job[j] /\ files'[j] = files[j]

Stamps(j) ==
  /\ pc = "mark" /\ cur = j /\ pc' = "finish" /\ cur' = j
  /\ now' = now /\ crashes' = crashes
  /\ job'[j].phase = "started" /\ job'[j].startedAt = now
  /\ job'[j].minutes = job[j].minutes
  /\ files'[j] = files[j] /\ SameRun(j)

Delivers(j) ==
  /\ unit[j] = "active" /\ files'[j] = files[j] \cup {"report"}
  /\ job'[j] = job[j] /\ SameRun(j) /\ SameTick

\* The unit ends, and may have been found logged out first.
Ends(j) ==
  /\ unit[j] = "active" /\ unit'[j] = "dead" /\ stopAt'[j] = None
  /\ \/ files'[j] = files[j]
     \/ files[j] = {} /\ files'[j] = {"report", "authfail"}
  /\ job'[j] = job[j] /\ SameTick

Released(j) ==
  /\ pc = "finish" /\ JobWorking(j) /\ (BlankAnswers \/ unit[j] # "active")
  /\ files'[j] = files[j] \cup {"watchdog"}
  /\ job'[j] = job[j] /\ SameRun(j) /\ now' = now /\ pc' = "idle"

Moves(j) ==
  \/ Rests(j) \/ Arrives(j) \/ Vanishes(j) \/ Opens(j) \/ Skips(j) \/ Clamps(j)
  \/ Starts(j) \/ Disarms(j) \/ Stamps(j) \/ Delivers(j) \/ Ends(j) \/ Released(j)

\* No step does anything else to a job.
LEMMA JobMoves ==
  ASSUME TypeOK, TickShape, [Next]_vars, NEW j \in Jobs
  PROVE  Moves(j)
<1>typed. job \in [Jobs -> JobFile] /\ files \in [Jobs -> SUBSET {"report", "authfail", "depskip", "watchdog"}]
          /\ unit \in [Jobs -> {"none", "active", "dead"}]
          /\ stopAt \in [Jobs -> Nat \cup {None}]
  BY DEF TypeOK
<1>1. CASE Queue(j)
  <2>1. /\ job' = [job EXCEPT ![j].phase = "queued", ![j].gated = After[j] # {}]
        /\ pc = "idle" /\ job[j].phase = "absent"
        /\ UNCHANGED <<files, unit, stopAt, pc, cur, now, crashes>>
    BY <1>1 DEF Queue, units, tick, budgets
  <2>2. /\ job'[j].phase = "queued" /\ job'[j].startedAt = job[j].startedAt
        /\ job'[j].gated = (After[j] # {})
    BY ONLY <2>1, <1>typed, Fields, j \in Jobs
  <2>3. Arrives(j)
    BY <2>1, <2>2 DEF Arrives, SameRun, SameTick
  <2> QED BY <2>3 DEF Moves
<1>2. CASE Cancel(j) \/ VisitPrune(j)
  <2>1. /\ job' = [job EXCEPT ![j].phase = "gone"]
        /\ \/ pc = "idle" /\ job[j].phase \in {"queued", "skipped"}
           \/ /\ pc = "maintain" /\ job[j].phase \in {"skipped", "started"}
              /\ now - At[j] > KeepFor
        /\ UNCHANGED <<files, unit, stopAt, pc, cur, now, crashes>>
    BY <1>2 DEF Cancel, VisitPrune, Visiting, units, tick, budgets
  <2>2. job'[j].phase = "gone" /\ job'[j].startedAt = job[j].startedAt
    BY ONLY <2>1, <1>typed, Fields, j \in Jobs
  <2>3. Vanishes(j)
    BY <2>1, <2>2 DEF Vanishes, SameRun, SameTick
  <2> QED BY <2>3 DEF Moves
<1>3. CASE VisitUngate(j)
  <2>1. /\ pc = "maintain" /\ Gated(j) /\ GatedReadiness(j) = "success"
        /\ UNCHANGED <<files, unit, stopAt, pc, cur, now>>
        /\ \/ job' = job
           \/ /\ job' = [job EXCEPT ![j].gated = FALSE, ![j].minutes = Window(j)]
              /\ crashes' = crashes
    BY <1>3 DEF VisitUngate, Visiting, units, Saves
  <2>2. CASE job' = job
    BY <2>1, <2>2 DEF Moves, Rests, Same, InHand
  <2>3. CASE job' # job
    <3>1. job' = [job EXCEPT ![j].gated = FALSE, ![j].minutes = Window(j)]
      BY <2>1, <2>3
    <3>2. job'[j].phase = job[j].phase /\ job'[j].startedAt = job[j].startedAt
      BY ONLY <3>1, <1>typed, Fields, j \in Jobs
    <3>3. Opens(j)
      BY <2>1, <2>3, <3>2 DEF Opens, SameRun, SameTick, Gated
    <3> QED BY <3>3 DEF Moves
  <2> QED BY <2>2, <2>3
<1>4. CASE VisitDepSkip(j) \/ VisitNoWorktree(j) \/ SkipWindow(j)
  <2>1. /\ pc \in {"maintain", "admit"} /\ job[j].phase = "queued"
        /\ UNCHANGED <<unit, stopAt, pc, cur, now>> /\ DepSkip(j)
    <3>1. CASE VisitDepSkip(j)
      BY <3>1 DEF VisitDepSkip, Visiting, units, Gated, Ungated
    <3>2. CASE VisitNoWorktree(j)
      BY <3>2 DEF VisitNoWorktree, Visiting, units, Gated, Ungated
    <3>3. CASE SkipWindow(j)
      BY <3>3 DEF SkipWindow, Admitting, TickShape, units, Ungated
    <3> QED BY <1>4, <3>1, <3>2, <3>3
  <2> DEFINE skip == [job EXCEPT ![j].phase = "skipped", ![j].gated = FALSE]
  <2>2. PICK marked \in BOOLEAN, saved \in BOOLEAN :
          /\ files' = IF marked THEN [files EXCEPT ![j] = @ \cup {"depskip"}] ELSE files
          /\ job' = IF saved THEN skip ELSE job
          /\ IF marked /\ saved THEN crashes' = crashes ELSE crashes' = crashes + 1
    BY <2>1 DEF DepSkip, WriteFails
  <2>skip. skip[j].phase = "skipped" /\ skip[j].startedAt = job[j].startedAt
    BY ONLY <1>typed, Fields, j \in Jobs
  <2>3. /\ \/ files'[j] = files[j] \cup {"depskip"}
           \/ files'[j] = files[j] /\ crashes' = crashes + 1
        /\ \/ /\ job'[j].phase = "skipped" /\ job'[j].startedAt = job[j].startedAt
              /\ crashes' = crashes \/ crashes' = crashes + 1
           \/ job'[j] = job[j] /\ crashes' = crashes + 1
    <3> HIDE DEF skip
    <3>1. CASE marked
      BY <2>2, <2>skip, <1>typed, <3>1
    <3>2. CASE ~ marked
      BY <2>2, <2>skip, <3>2
    <3> QED BY <3>1, <3>2
  <2>4. Skips(j)
    BY <2>1, <2>3 DEF Skips, SameRun
  <2> QED BY <2>4 DEF Moves
<1>5. CASE VisitCandidate(j) \/ VisitNothing(j) \/ PassOver(j)
  <2>1. Same(j) /\ pc' = pc /\ cur' = cur /\ now' = now
    BY <1>5 DEF VisitCandidate, VisitNothing, PassOver, Visiting, Admitting, units, Same
  <2> QED BY <2>1 DEF Moves, Rests, InHand
<1>6. CASE PersistClamp(j)
  <2>1. /\ pc = "admit" /\ j \in cands /\ Ungated(j) /\ Window(j) # None
        /\ UNCHANGED <<files, unit, stopAt, now>>
        /\ \/ job' = job /\ pc' = pc /\ cur' = cur
           \/ /\ job' = [job EXCEPT ![j].minutes = Window(j)]
              /\ pc' = "dispatch" /\ cur' = j /\ crashes' = crashes
    BY <1>6 DEF PersistClamp, Admitting, TickShape, units, Saves
  <2>2. CASE pc' = pc
    BY <2>1, <2>2 DEF Moves, Rests, Same, InHand
  <2>3. CASE pc' # pc
    <3>1. job' = [job EXCEPT ![j].minutes = Window(j)]
      BY <2>1, <2>3
    <3>2. /\ job'[j].phase = job[j].phase /\ job'[j].gated = job[j].gated
          /\ job'[j].startedAt = job[j].startedAt /\ job'[j].minutes = Window(j)
      BY ONLY <3>1, <1>typed, Fields, j \in Jobs
    <3>3. job[j].gated \in BOOLEAN
      BY <1>typed DEF JobFile
    <3>4. Clamps(j)
      BY <2>1, <2>3, <3>2, <3>3 DEF Clamps, SameRun, Ungated
    <3> QED BY <3>4 DEF Moves
  <2> QED BY <2>2, <2>3
<1>7. CASE Report(j)
  BY <1>7, <1>typed DEF Report, Moves, Delivers, SameRun, SameTick, units, tick, budgets
<1>8. CASE UnitEnds(j) \/ Autostop(j)
  <2>1. /\ unit[j] = "active" /\ unit' = [unit EXCEPT ![j] = "dead"]
        /\ stopAt' = [stopAt EXCEPT ![j] = None]
        /\ UNCHANGED <<now, job, files, pc, cur, crashes>>
    BY <1>8 DEF UnitEnds, Autostop, disk, tick, budgets
  <2>2. Ends(j)
    BY <2>1, <1>typed DEF Ends, SameTick
  <2> QED BY <2>2 DEF Moves
<1>9. CASE AuthFail(j)
  BY <1>9, <1>typed DEF AuthFail, Moves, Ends, SameTick, tick, budgets
<1>10. CASE RcRun /\ cur = j
  <2>1. CASE pc' = "mark"
    BY <1>10, <2>1, <1>typed DEF RcRun, Moves, Starts, disk
  <2>2. CASE pc' # "mark"
    BY <1>10, <2>2, <1>typed DEF RcRun, Moves, Disarms, disk
  <2> QED BY <2>1, <2>2
<1>11. CASE MarkStarted /\ cur = j
  <2>1. /\ pc = "mark" /\ pc' = "finish" /\ cur' = cur
        /\ UNCHANGED <<files, unit, stopAt, now>>
        /\ \/ job' = job /\ crashes' = crashes + 1
           \/ /\ job' = [job EXCEPT ![j].phase = "started", ![j].startedAt = now]
              /\ crashes' = crashes
    BY <1>11 DEF MarkStarted, units, Saves, SaveFails, WriteFails
  <2>2. CASE job' = [job EXCEPT ![j].phase = "started", ![j].startedAt = now]
             /\ crashes' = crashes
    <3>1. /\ job'[j].phase = "started" /\ job'[j].startedAt = now
          /\ job'[j].minutes = job[j].minutes
      BY ONLY <2>2, <1>typed, Fields, j \in Jobs
    <3>2. Stamps(j)
      BY <1>11, <2>1, <2>2, <3>1 DEF Stamps, SameRun
    <3> QED BY <3>2 DEF Moves
  <2>3. CASE job' = job /\ crashes' = crashes + 1
    BY <2>1, <2>3 DEF Moves, Rests, Same, InHand
  <2> QED BY <2>1, <2>2, <2>3
<1>12. CASE TickEnd
  <2>1. /\ pc = "finish" /\ pc' = "idle" /\ UNCHANGED <<now, job, unit, stopAt>>
        /\ \/ files'[j] = files[j]
           \/ /\ files'[j] = files[j] \cup {"watchdog"}
              /\ JobWorking(j) /\ (BlankAnswers \/ unit[j] # "active")
    BY <1>12 DEF TickEnd, Working, ReleaseDead, units
  <2> QED BY <2>1 DEF Moves, Rests, Same, InHand, Released, SameRun
<1>13. CASE SharedStep /\ ~ TickEnd /\ ~ ((RcRun \/ MarkStarted) /\ cur = j)
  <2>1. Same(j)
    <3> USE DEF TypeOK, Same, disk, units
    <3>1. CASE TickBegin \/ Snapshot \/ QueueDrained
      BY <3>1 DEF TickBegin, Snapshot, QueueDrained
    <3>2. CASE Crash \/ Alarm \/ Recover \/ Advance
      BY <3>2 DEF Crash, Alarm, Recover, Advance
    <3>3. CASE RcRun /\ cur # j
      BY <3>3 DEF RcRun
    <3>4. CASE MarkStarted /\ cur # j
      BY <3>4 DEF MarkStarted
    <3> QED BY <1>13, <3>1, <3>2, <3>3, <3>4 DEF SharedStep
  <2>2. \/ pc' = pc /\ cur' = cur /\ (now' = now \/ pc = "idle")
        \/ ~ InHand(j)' /\ (InHand(j) => crashes' = crashes + 1)
    BY <1>13 DEF SharedStep, TickBegin, Snapshot, QueueDrained, RcRun, MarkStarted,
                 Crash, Alarm, Recover, Advance, tick, InHand
  <2> QED BY <2>1, <2>2 DEF Moves, Rests
<1>14. ASSUME NEW k \in Jobs \ {j}, OwnStep(k) PROVE Moves(j)
  <2>1. Same(j)
    BY <1>14, OthersLeaveAlone
  <2>2. \/ pc' = pc /\ cur' = cur /\ now' = now
        \/ pc = "admit" /\ pc' = "dispatch" /\ cur' = k
    BY <1>14 DEF OwnStep, Maintain, VisitPrune, VisitUngate, VisitDepSkip,
                 VisitNoWorktree, VisitCandidate, VisitNothing, Visiting, SkipWindow,
                 PassOver, PersistClamp, Admitting, Queue, Cancel, Report, UnitEnds,
                 AuthFail, Autostop, tick
  <2> QED BY <2>1, <2>2 DEF Moves, Rests, InHand
<1>15. CASE UNCHANGED vars
  BY <1>15 DEF vars, disk, units, tick, Moves, Rests, Same
<1> QED
  BY <1>1, <1>2, <1>3, <1>4, <1>5, <1>6, <1>7, <1>8, <1>9, <1>10, <1>11, <1>12,
     <1>13, <1>14, <1>15, Steps DEF OwnStep, Maintain

\* What every proof below starts from.
Base == TypeOK /\ TickShape

\* The type and the tick's shape hold in every reachable state (schedTick).
LEMMA BaseHolds == Spec => []Base
<1>1. Init => Base
  <2>1. Init => TypeOK
    BY SlotInit DEF SlotInv
  <2>2. Init => TickShape
    BY DEF Init, TickShape
  <2> QED BY <2>1, <2>2 DEF Base
<1>2. Base /\ [Next]_vars => Base'
  BY TypeStep, TickShapeStep DEF Base
<1> QED BY <1>1, <1>2, PTL DEF Spec

\* Nothing takes back a marker, a failure or a crash, and the clock never goes
\* back; it only moves between ticks, when nothing else does (Advance).
LEMMA OnlyGrow ==
  ASSUME Base, Base', [Next]_vars
  PROVE  /\ \A j \in Jobs : files[j] \subseteq files'[j]
         /\ crashes <= crashes' /\ errors <= errors'
         /\ \/ now' = now
            \/ /\ now' = now + 1 /\ pc = "idle"
               /\ UNCHANGED <<job, files, unit, stopAt, lastLaunch, pc, cur>>
               /\ \A j \in Jobs :
                    unit[j] = "active" /\ stopAt[j] # None => now < stopAt[j]
<1> USE DEF Base, TypeOK
<1>1. \A j \in Jobs : files[j] \subseteq files'[j]
  <2> SUFFICES ASSUME NEW j \in Jobs PROVE files[j] \subseteq files'[j]
    OBVIOUS
  <2>1. Moves(j)
    BY JobMoves
  <2> QED BY <2>1 DEF Moves, Rests, Same, Arrives, Vanishes, Opens, Skips, Clamps,
                      Starts, Disarms, Stamps, Delivers, Ends, Released
<1>2. crashes <= crashes' /\ errors <= errors'
  <2>1. CASE TickEnd
    <3>1. PICK lost \in SUBSET {j \in Working : WatchdogDue(j)} :
            errors' = errors + Cardinality(lost)
      BY <2>1 DEF TickEnd
    <3>2. IsFiniteSet(lost)
      BY FS_Subset, JobsAssumption DEF Working
    <3>3. Cardinality(lost) \in Nat
      BY <3>2, FS_CardinalityType
    <3>4. errors <= errors'
      BY <3>1, <3>3
    <3>5. crashes <= crashes'
      BY <2>1 DEF TickEnd
    <3> QED BY <3>4, <3>5
  <2>2. CASE SharedStep /\ ~ TickEnd
    BY <2>2 DEF SharedStep, TickBegin, Snapshot, RcRun, MarkStarted, Saves, SaveFails,
                WriteFails, QueueDrained, Crash, Alarm, Recover, Advance, budgets
  <2>3. ASSUME NEW k \in Jobs, OwnStep(k) PROVE crashes <= crashes' /\ errors <= errors'
    BY <2>3 DEF OwnStep, Maintain, VisitPrune, VisitUngate, VisitDepSkip,
                DepSkip, VisitNoWorktree, VisitCandidate, VisitNothing, Visiting,
                SkipWindow, PassOver, PersistClamp, Admitting, Queue, Cancel, Report,
                UnitEnds, AuthFail, Autostop, Saves, SaveFails, WriteFails, EnvError,
                budgets
  <2>4. CASE UNCHANGED vars
    BY <2>4 DEF vars, budgets
  <2> QED BY <2>1, <2>2, <2>3, <2>4, Steps
<1>3. \/ now' = now
      \/ /\ now' = now + 1 /\ pc = "idle"
         /\ UNCHANGED <<job, files, unit, stopAt, lastLaunch, pc, cur>>
         /\ \A j \in Jobs :
              unit[j] = "active" /\ stopAt[j] # None => now < stopAt[j]
  <2>1. CASE SharedStep
    BY <2>1 DEF SharedStep, TickBegin, Snapshot, RcRun, MarkStarted, QueueDrained,
                TickEnd, Crash, Alarm, Recover, Advance, disk, units, tick
  <2>2. ASSUME NEW k \in Jobs, OwnStep(k) PROVE now' = now
    BY <2>2 DEF OwnStep, Maintain, VisitPrune, VisitUngate, VisitDepSkip,
                VisitNoWorktree, VisitCandidate, VisitNothing, Visiting,
                SkipWindow, PassOver, PersistClamp, Admitting, Queue, Cancel, Report,
                UnitEnds, AuthFail, Autostop
  <2>3. CASE UNCHANGED vars
    BY <2>3 DEF vars
  <2> QED BY <2>1, <2>2, <2>3, Steps
<1> QED BY <1>1, <1>2, <1>3

-----------------------------------------------------------------------------
(***************************************************************************)
(* The watchdog.  A released run is a started one, and a started run is no  *)
(* candidate of any later tick: so its dead unit stays dead.                *)
(***************************************************************************)
WatchdogInv == ~ BlankAnswers =>
  \A j \in Jobs : "watchdog" \in files[j] =>
    job[j].phase \in {"started", "gone"} /\ unit[j] # "active"

\* A released run stays started and dead (runWatchdog, ReleaseDead).
LEMMA WatchdogHolds == Spec => []WatchdogInv
<1>1. Init => WatchdogInv
  BY DEF Init, WatchdogInv
<1>2. Base /\ WatchdogInv /\ [Next]_vars => WatchdogInv'
  <2> SUFFICES ASSUME Base, WatchdogInv, [Next]_vars, ~ BlankAnswers, NEW j \in Jobs,
                      "watchdog" \in files'[j]
               PROVE  job'[j].phase \in {"started", "gone"} /\ unit'[j] # "active"
    BY DEF WatchdogInv
  <2>1. "watchdog" \in files[j] =>
          job[j].phase \in {"started", "gone"} /\ unit[j] # "active"
    BY DEF WatchdogInv
  <2>2. Moves(j)
    BY JobMoves DEF Base
  <2>3. CASE Rests(j) \/ Arrives(j) \/ Vanishes(j) \/ Opens(j)
    BY <2>1, <2>3 DEF Rests, Same, Arrives, Vanishes, Opens, Gated, SameRun
  <2>4. CASE Skips(j) \/ Clamps(j)
    BY <2>1, <2>4 DEF Skips, Clamps, Ungated, SameRun
  <2>5. CASE Starts(j) \/ Disarms(j) \/ Stamps(j)
    BY <2>1, <2>5 DEF Starts, Disarms, Stamps, SameRun, Base, TickShape, Ungated
  <2>6. CASE Delivers(j) \/ Ends(j) \/ Released(j)
    BY <2>1, <2>6 DEF Delivers, Ends, Released, JobWorking, SameRun
  <2> QED BY <2>2, <2>3, <2>4, <2>5, <2>6 DEF Moves
<1> QED BY <1>1, <1>2, BaseHolds, PTL DEF Spec

\* As long as systemctl itself answers, the slot the watchdog releases is that of
\* a unit which is gone and never comes back, whatever else crashes or fails
\* (runWatchdog, ReleaseDead; nightshift-rc:200 swallows systemctl's own failure).
THEOREM ReleasedStayDead == Spec => [](~ BlankAnswers => WatchdogReleasesOnlyDead)
<1>1. WatchdogInv => (~ BlankAnswers => WatchdogReleasesOnlyDead)
  BY DEF WatchdogInv, WatchdogReleasesOnlyDead
<1> QED BY <1>1, WatchdogHolds, PTL

-----------------------------------------------------------------------------
(***************************************************************************)
(* Gating.  A dependent is ungated only when its upstreams have delivered,  *)
(* and no report is ever deleted.                                           *)
(***************************************************************************)
DeliveredTo(j) ==
  LET Delivered(w) == \E i \in w : "report" \in files[i]
  IN  /\ \A w \in After[j] \ Quorum[j] : Delivered(w)
      /\ \E w \in After[j] : Delivered(w)

GateInv ==
  \A j \in Jobs :
    (Ungated(j) \/ unit[j] # "none") /\ After[j] # {} => DeliveredTo(j)

\* A wave that counts as a success has a report.
LEMMA SuccessHasReport ==
  ASSUME NEW w, UpstreamWaveStatus(w) = "success"
  PROVE  \E i \in w : "report" \in files[i]
<1> DEFINE here == {j \in w : Exists(j)}
<1>1. CASE \E j \in here : "report" \in files[j]
  BY <1>1
<1>2. CASE ~ \E j \in here : "report" \in files[j]
  BY <1>2 DEF UpstreamWaveStatus
<1> QED BY <1>1, <1>2

\* What a readiness of "success" is worth: every wave that is not emitted
\* succeeded, and some wave did (gatedReadiness).
LEMMA ReadyIsDelivered ==
  ASSUME TypeOK, NEW j \in Jobs, After[j] # {}, GatedReadiness(j) = "success"
  PROVE  DeliveredTo(j)
<1> DEFINE Waves(s) == {w \in After[j] : UpstreamWaveStatus(w) = s}
<1>1. \A w : UpstreamWaveStatus(w) \in {"success", "failed", "pending"}
  BY DEF UpstreamWaveStatus
<1>2. /\ Waves("failed") \subseteq Quorum[j]
      /\ ~ (Waves("failed") # {} /\ Waves("success") = {} /\ Waves("pending") = {})
      /\ Waves("pending") = {}
  <2> DEFINE late == j \notin Flow /\ now > At[j] + MaxWait
             early == j \in Flow \/ now <= At[j] + MaxWait
  <2>1. GatedReadiness(j) =
          CASE \/ ~ Waves("failed") \subseteq Quorum[j]
               \/ Waves("failed") # {} /\ Waves("success") = {} /\ Waves("pending") = {}
               \/ Waves("pending") # {} /\ late
                 -> "failed"
            [] /\ Waves("pending") # {} /\ Waves("failed") \subseteq Quorum[j]
               /\ early -> "pending"
            [] OTHER -> "success"
    BY DEF GatedReadiness
  <2>2. late \/ early
    BY JobsAssumption, TimeAssumption DEF TypeOK
  <2>3. /\ Waves("failed") \subseteq Quorum[j]
        /\ ~ (Waves("failed") # {} /\ Waves("success") = {} /\ Waves("pending") = {})
        /\ ~ (Waves("pending") # {} /\ late)
    <3> HIDE DEF Waves, late, early
    <3> QED BY <2>1
  <2>4. ~ (Waves("pending") # {} /\ early)
    <3> HIDE DEF Waves, late, early
    <3> QED BY <2>1, <2>3
  <2> QED BY <2>2, <2>3, <2>4
<1>3. \A w \in After[j] : UpstreamWaveStatus(w) = "success" \/ w \in Waves("failed")
  BY <1>1, <1>2
<1>4. \A w \in After[j] \ Quorum[j] : UpstreamWaveStatus(w) = "success"
  BY <1>2, <1>3
<1>5. \E w \in After[j] : UpstreamWaveStatus(w) = "success"
  BY <1>2, <1>3
<1> QED BY <1>4, <1>5, SuccessHasReport DEF DeliveredTo

\* No dependent runs before its upstreams have delivered, for any waves, any
\* emitted ones and any failures (gatedReadiness, schedTick).
THEOREM DependentsWait == Spec => []GatedAfterDelivery
<1>1. Init => GateInv
  BY DEF Init, GateInv, Ungated
<1>2. Base /\ Base' /\ GateInv /\ [Next]_vars => GateInv'
  <2> SUFFICES ASSUME Base, Base', GateInv, [Next]_vars, NEW j \in Jobs, After[j] # {},
                      Ungated(j)' \/ unit'[j] # "none"
               PROVE  DeliveredTo(j)'
    BY DEF GateInv
  <2>1. DeliveredTo(j) => DeliveredTo(j)'
    <3>1. \A i \in Jobs : files[i] \subseteq files'[i]
      BY OnlyGrow
    <3>2. \A w \in After[j] : w \subseteq Jobs
      BY JobsAssumption
    <3> QED BY <3>1, <3>2 DEF DeliveredTo
  <2>2. Ungated(j) \/ unit[j] # "none" => DeliveredTo(j)
    BY DEF GateInv
  <2>3. Moves(j)
    BY JobMoves DEF Base
  <2>4. CASE Rests(j) \/ Arrives(j) \/ Vanishes(j)
    BY <2>1, <2>2, <2>4 DEF Rests, Same, Arrives, Vanishes, Ungated, SameRun
  <2>5. CASE Opens(j)
    BY <2>1, <2>5, ReadyIsDelivered DEF Opens, Base
  <2>6. CASE Skips(j) \/ Clamps(j)
    BY <2>1, <2>2, <2>6 DEF Skips, Clamps, Ungated, SameRun
  <2>7. CASE Starts(j) \/ Disarms(j) \/ Stamps(j)
    BY <2>1, <2>2, <2>7 DEF Starts, Disarms, Stamps, SameRun, Base, TickShape, Ungated
  <2>8. CASE Delivers(j) \/ Ends(j) \/ Released(j)
    BY <2>1, <2>2, <2>8 DEF Delivers, Ends, Released, SameRun, Ungated
  <2> QED BY <2>3, <2>4, <2>5, <2>6, <2>7, <2>8 DEF Moves
<1>3. GateInv => GatedAfterDelivery
  BY DEF GateInv, GatedAfterDelivery, DeliveredTo
<1> QED BY <1>1, <1>2, <1>3, BaseHolds, PTL DEF Spec

-----------------------------------------------------------------------------
(***************************************************************************)
(* One job, one run.  Until the control plane first dies or fails to save a *)
(* file, a job that is not marked started has no unit, except the one the   *)
(* tick is launching; so a skipped job never had one, and a unit that ended *)
(* belongs to a started job, which no later tick considers.                 *)
(***************************************************************************)
Launching(j) == pc = "mark" /\ cur = j

RanInv == crashes = 0 =>
  \A j \in Jobs :
    /\ job[j].phase \in {"absent", "queued", "skipped"} =>
         unit[j] = "none" \/ Launching(j)
    /\ "depskip" \in files[j] =>
         unit[j] = "none" /\ job[j].phase \in {"skipped", "gone"}
    /\ "authfail" \in files[j] => "report" \in files[j]

\* A unit that ran left its traces, in every reachable state (MarkStarted, RcRun).
LEMMA RanHolds == Spec => []RanInv
<1>1. Init => RanInv
  BY DEF Init, RanInv
<1>2. Base /\ Base' /\ RanInv /\ [Next]_vars => RanInv'
  <2> SUFFICES ASSUME Base, Base', RanInv, [Next]_vars, crashes' = 0, NEW j \in Jobs
               PROVE  /\ job'[j].phase \in {"absent", "queued", "skipped"} =>
                           unit'[j] = "none" \/ Launching(j)'
                      /\ "depskip" \in files'[j] =>
                           /\ unit'[j] = "none"
                           /\ job'[j].phase \in {"skipped", "gone"}
                      /\ "authfail" \in files'[j] => "report" \in files'[j]
    BY DEF RanInv
  <2>1. crashes = 0
    BY OnlyGrow DEF Base, TypeOK
  <2>2. /\ job[j].phase \in {"absent", "queued", "skipped"} =>
             unit[j] = "none" \/ Launching(j)
        /\ "depskip" \in files[j] =>
             unit[j] = "none" /\ job[j].phase \in {"skipped", "gone"}
        /\ "authfail" \in files[j] => "report" \in files[j]
    BY <2>1 DEF RanInv
  <2>3. Moves(j)
    BY JobMoves DEF Base
  <2>4. CASE Rests(j)
    BY <2>1, <2>2, <2>4 DEF Rests, Same, InHand, Launching
  <2>5. CASE Arrives(j) \/ Vanishes(j) \/ Opens(j)
    BY <2>2, <2>5 DEF Arrives, Vanishes, Opens, Gated, SameRun, Launching
  <2>6. CASE Skips(j) \/ Clamps(j)
    BY <2>1, <2>2, <2>6 DEF Skips, Clamps, Ungated, SameRun, Launching
  <2>7. CASE Starts(j) \/ Disarms(j) \/ Stamps(j)
    BY <2>2, <2>7 DEF Starts, Disarms, Stamps, SameRun, Base, TickShape, Ungated,
                      Launching
  <2>8. CASE Delivers(j)
    BY <2>2, <2>8 DEF Delivers, SameRun, SameTick, Launching
  <2>9. CASE Ends(j)
    BY <2>2, <2>9 DEF Ends, SameTick, Launching
  <2>10. CASE Released(j)
    BY <2>2, <2>10 DEF Released, JobWorking, SameRun
  <2> QED BY <2>3, <2>4, <2>5, <2>6, <2>7, <2>8, <2>9, <2>10 DEF Moves
<1> QED BY <1>1, <1>2, BaseHolds, PTL DEF Spec

\* Until the first crash or failed save, a job that tells its successors it will
\* never deliver has never had a unit (writeDepSkip, Skip).
THEOREM SkippedStayUnrun == Spec => [](crashes = 0 => SkippedNeverRan)
<1>1. RanInv => (crashes = 0 => SkippedNeverRan)
  BY DEF RanInv, SkippedNeverRan
<1> QED BY <1>1, RanHolds, PTL

\* In a behaviour where nothing crashes and every save succeeds, no unit is
\* started twice, whatever the watchdog, the timers and the failed dispatches do
\* (schedTick).
THEOREM OneRunPerJob == Spec /\ [](crashes = 0) => RunsAtMostOnce
<1>1. Base /\ crashes = 0 /\ RanInv /\ [Next]_vars =>
        [\A j \in Jobs : unit[j] = "dead" => unit'[j] = "dead"]_vars
  <2> SUFFICES ASSUME Base, crashes = 0, RanInv, [Next]_vars, NEW j \in Jobs,
                      unit[j] = "dead"
               PROVE  unit'[j] = "dead"
    OBVIOUS
  <2>1. Moves(j)
    BY JobMoves DEF Base
  <2>2. ~ Starts(j)
    BY DEF Starts, RanInv, Launching, Base, TickShape, Ungated
  <2> QED BY <2>1, <2>2 DEF Moves, Rests, Same, Arrives, Vanishes, Opens, Skips, Clamps,
                            SameRun, Disarms, Stamps, Delivers, Ends, Released
<1> QED BY <1>1, BaseHolds, RanHolds, PTL DEF Spec, RunsAtMostOnce

-----------------------------------------------------------------------------
(***************************************************************************)
(* The caps, of the sessions that really run.  A live unit that has not     *)
(* delivered is that of a started job inside its window, because its timer  *)
(* is armed for the end of that window: so its file counts as working.  The *)
(* one exception is the unit being launched, and admission made room for it.*)
(***************************************************************************)
TimerInv == crashes = 0 =>
  \A j \in Jobs :
    /\ unit[j] = "active" => stopAt[j] # None /\ now <= stopAt[j]
    /\ unit[j] = "active" /\ job[j].phase = "started" =>
         stopAt[j] = job[j].startedAt + job[j].minutes
    /\ Launching(j) => unit[j] = "dead" \/ stopAt[j] = now + job[j].minutes
    /\ unit[j] = "active" /\ job[j].phase = "gone" => now > At[j] + KeepFor

\* Every live unit has its timer until a crash, and a pruned job none before its
\* file expires (nightshift-rc arms before it starts; schedTick prunes).
LEMMA TimerHolds == Spec => []TimerInv
<1>1. Init => TimerInv
  BY DEF Init, TimerInv, Launching
<1>2. Base /\ Base' /\ RanInv /\ TimerInv /\ [Next]_vars => TimerInv'
  <2> SUFFICES ASSUME Base, Base', RanInv, TimerInv, [Next]_vars, crashes' = 0,
                      NEW j \in Jobs
               PROVE  /\ unit'[j] = "active" => stopAt'[j] # None /\ now' <= stopAt'[j]
                      /\ unit'[j] = "active" /\ job'[j].phase = "started" =>
                           stopAt'[j] = job'[j].startedAt + job'[j].minutes
                      /\ Launching(j)' =>
                           unit'[j] = "dead" \/ stopAt'[j] = now' + job'[j].minutes
                      /\ unit'[j] = "active" /\ job'[j].phase = "gone" =>
                           now' > At[j] + KeepFor
    BY DEF TimerInv
  <2>1. crashes = 0
    BY OnlyGrow DEF Base, TypeOK
  <2>2. /\ unit[j] = "active" => stopAt[j] # None /\ now <= stopAt[j]
        /\ unit[j] = "active" /\ job[j].phase = "started" =>
             stopAt[j] = job[j].startedAt + job[j].minutes
        /\ Launching(j) => unit[j] = "dead" \/ stopAt[j] = now + job[j].minutes
        /\ unit[j] = "active" /\ job[j].phase = "gone" => now > At[j] + KeepFor
    BY <2>1 DEF TimerInv
  <2>3. /\ job[j].phase \in {"absent", "queued", "skipped"} =>
             unit[j] = "none" \/ Launching(j)
    BY <2>1 DEF RanInv
  <2>4. /\ now \in Nat /\ stopAt[j] \in Nat \cup {None} /\ At[j] \in Nat /\ KeepFor \in Nat
        /\ job[j].minutes \in Nat \ {0} /\ job'[j].minutes \in Nat \ {0}
        /\ job[j].startedAt \in Nat \cup {None}
        /\ unit[j] \in {"none", "active", "dead"}
        /\ job[j].phase \in {"absent", "queued", "started", "skipped", "gone"}
    BY JobsAssumption, TimeAssumption DEF Base, TypeOK, JobFile
  <2>5. Moves(j)
    BY JobMoves DEF Base
  <2>6. CASE now' # now
    <3>1. /\ now' = now + 1 /\ pc = "idle"
          /\ UNCHANGED <<job, files, unit, stopAt, lastLaunch, pc, cur>>
          /\ unit[j] = "active" /\ stopAt[j] # None => now < stopAt[j]
      BY <2>6, OnlyGrow
    <3> QED BY <3>1, <2>2, <2>4 DEF Launching, None
  <2>7. CASE Rests(j) /\ now' = now
    BY <2>1, <2>2, <2>3, <2>4, <2>7 DEF Rests, Same, InHand, Launching, Base, TickShape, Ungated
  <2>8. CASE Arrives(j) \/ Vanishes(j) \/ Opens(j)
    BY <2>2, <2>3, <2>4, <2>8 DEF Arrives, Vanishes, Opens, Gated, SameRun, SameTick,
                                  Launching
  <2>9. CASE Skips(j) \/ Clamps(j)
    BY <2>1, <2>2, <2>3, <2>9 DEF Skips, Clamps, Ungated, SameRun, Launching
  <2>10. CASE Starts(j)
    BY <2>2, <2>4, <2>10 DEF Starts, Base, TickShape, Ungated, Launching, None
  <2>11. CASE Disarms(j)
    BY <2>3, <2>11 DEF Disarms, Base, TickShape, Ungated, Launching
  <2>12. CASE Stamps(j)
    BY <2>2, <2>12 DEF Stamps, SameRun, Launching
  <2>13. CASE Delivers(j) \/ Ends(j)
    BY <2>2, <2>13 DEF Delivers, Ends, SameRun, SameTick, Launching
  <2>14. CASE Released(j)
    BY <2>2, <2>14 DEF Released, SameRun, Launching
  <2> QED BY <2>5, <2>6, <2>7, <2>8, <2>9, <2>10, <2>11, <2>12, <2>13, <2>14 DEF Moves
<1> QED BY <1>1, <1>2, BaseHolds, RanHolds, PTL DEF Spec

\* Until the first crash or failed save every active unit has its auto-stop timer,
\* armed for the end of its window (nightshift-rc arms it before the workload, and
\* only a start of the same unit could disarm it).
THEOREM TimersStayArmed == Spec => [](crashes = 0 => AutoStopArmed)
<1>1. TimerInv => (crashes = 0 => AutoStopArmed)
  BY DEF TimerInv, AutoStopArmed
<1> QED BY <1>1, TimerHolds, PTL

\* Until the first crash or failed save, as long as systemctl itself answers and no
\* job is older than the horizon past which its file is pruned, the units that really
\* run and have not delivered stay within every cap (loadQueue, jobWorking, AdmitCap).
THEOREM LiveWithinCap ==
  Spec => [](/\ crashes = 0 /\ ~ BlankAnswers
             /\ \A j \in Jobs : now <= At[j] + KeepFor
             => LiveSessionsWithinCap)
<1> DEFINE Live == {j \in Jobs : unit[j] = "active" /\ "report" \notin files[j]}
<1>1. ASSUME SlotInv, Base, RanInv, TimerInv, WatchdogInv,
             crashes = 0 /\ ~ BlankAnswers,
             \A j \in Jobs : now <= At[j] + KeepFor
      PROVE  LiveSessionsWithinCap
  <2>1. ASSUME NEW j \in Live PROVE j \in Working \/ Launching(j)
    <3>1. j \in Jobs /\ unit[j] = "active" /\ "report" \notin files[j]
      BY <2>1
    <3>2. /\ job[j].phase \in {"absent", "queued", "skipped"} => Launching(j)
          /\ "depskip" \notin files[j] /\ "authfail" \notin files[j]
      BY <1>1, <3>1 DEF RanInv
    <3>3. "watchdog" \notin files[j]
      BY <1>1, <3>1 DEF WatchdogInv
    <3>4. files[j] = {}
      BY <1>1, <3>1, <3>2, <3>3 DEF Base, TypeOK
    <3>5. job[j].phase # "gone"
      <4>1. now \in Nat /\ At[j] + KeepFor \in Nat /\ now <= At[j] + KeepFor
        BY <1>1, <3>1, JobsAssumption, TimeAssumption DEF Base, TypeOK
      <4>2. job[j].phase = "gone" => now > At[j] + KeepFor
        BY <1>1, <3>1 DEF TimerInv
      <4> QED BY <4>1, <4>2
    <3>6. CASE job[j].phase = "started"
      <4>1. now <= stopAt[j] /\ stopAt[j] = job[j].startedAt + job[j].minutes
        BY <1>1, <3>1, <3>6 DEF TimerInv
      <4>2. /\ now \in Nat /\ job[j].startedAt \in Int /\ job[j].minutes \in Nat
            /\ Slack \in Nat \ {0}
        BY <1>1, <3>1, TimeAssumption DEF Base, TypeOK, JobFile, None
      <4>3. RunMaybeActive(j)
        BY <4>1, <4>2 DEF RunMaybeActive
      <4> QED BY <3>1, <3>4, <3>6, <4>3 DEF Working, JobWorking
    <3>7. job[j].phase \in {"absent", "queued", "started", "skipped", "gone"}
      BY <1>1, <3>1 DEF Base, TypeOK, JobFile
    <3> QED BY <3>2, <3>5, <3>6, <3>7
  <2>2. CASE pc = "mark"
    <3>1. /\ Working \in SUBSET occupied /\ AdmitCap(cur) /\ Fits(Working)
          /\ cur \in Jobs /\ TypeOK
      BY <1>1, <2>2 DEF SlotInv, Counted, Chosen, TypeOK
    <3>2. Fits(Working \cup {cur})
      BY <3>1, AdmittedFits
    <3>3. Live \in SUBSET (Working \cup {cur}) /\ Working \cup {cur} \in SUBSET Jobs
      BY <2>1, <3>1 DEF Working, Launching
    <3>4. Fits(Live)
      <4> HIDE DEF Live
      <4> QED BY <3>2, <3>3, FewerFit
    <3> QED BY <3>4 DEF LiveSessionsWithinCap
  <2>3. CASE pc # "mark"
    <3>1. Live \in SUBSET Working /\ Working \in SUBSET Jobs
      BY <2>1, <2>3 DEF Working, Launching
    <3>2. Fits(Live)
      <4> HIDE DEF Live
      <4> QED BY <1>1, <3>1, FewerFit DEF SlotInv
    <3> QED BY <3>2 DEF LiveSessionsWithinCap
  <2> QED BY <2>2, <2>3
<1>2. Spec => []SlotInv
  BY SlotInit, SlotStep, PTL DEF Spec
<1> QED BY <1>1, <1>2, BaseHolds, RanHolds, TimerHolds, WatchdogHolds, PTL

-----------------------------------------------------------------------------
(***************************************************************************)
(* The life of a tick: what it judged the candidates by at its snapshot     *)
(* stays until it is over, and only its end saves the time of a launch.     *)
(***************************************************************************)
judged == <<occupied, held, gapBlocked>>

TickRests == UNCHANGED <<pc, cur, judged, lastLaunch>>

Begins == /\ pc = "idle" /\ pc' = "maintain"
          /\ UNCHANGED <<now, cur, lastLaunch>>

Judges == /\ pc = "maintain" /\ pc' = "admit" /\ UNCHANGED <<now, cur, lastLaunch>>
          /\ gapBlocked' = (lastLaunch # None /\ now - lastLaunch < LaunchGap)

Chooses == /\ pc = "admit" /\ pc' = "dispatch" /\ cur' \in Jobs /\ Admissible(cur')
           /\ UNCHANGED <<now, judged, lastLaunch>>

Launches == /\ pc = "dispatch" /\ pc' = "mark" /\ UNCHANGED <<now, cur, judged, lastLaunch>>

GivesUp == /\ pc = "dispatch" /\ pc' = "admit" /\ cur' = None
           /\ UNCHANGED <<now, judged, lastLaunch>>

Stamped == pc = "mark" /\ pc' = "finish" /\ UNCHANGED <<now, cur, lastLaunch>>

Drains == pc = "admit" /\ pc' = "finish" /\ UNCHANGED <<now, cur, lastLaunch>>

Finishes == /\ pc = "finish" /\ pc' = "idle" /\ cur' = None /\ now' = now
            /\ \/ cur = None /\ lastLaunch' = lastLaunch
               \/ cur # None /\ lastLaunch' = now
               \/ lastLaunch' = lastLaunch /\ crashes' = crashes + 1

Dies == /\ pc' = "idle" /\ cur' = None /\ crashes' = crashes + 1
        /\ UNCHANGED <<now, lastLaunch>>

\* No step does anything else to the tick.
LEMMA TickMoves ==
  ASSUME TypeOK, [Next]_vars
  PROVE  \/ TickRests \/ Begins \/ Judges \/ Chooses \/ Launches \/ GivesUp
         \/ Stamped \/ Drains \/ Finishes \/ Dies
<1> USE DEF TickRests, judged, tick, disk
<1>1. CASE TickBegin
  BY <1>1 DEF TickBegin, Begins
<1>2. CASE Snapshot
  BY <1>2 DEF Snapshot, Judges
<1>3. CASE RcRun
  BY <1>3 DEF RcRun, Launches, GivesUp
<1>4. CASE MarkStarted
  BY <1>4 DEF MarkStarted, Stamped
<1>5. CASE QueueDrained
  BY <1>5 DEF QueueDrained, Drains
<1>6. CASE TickEnd
  BY <1>6 DEF TickEnd, Finishes
<1>7. CASE Crash
  BY <1>7 DEF Crash, Dies
<1>8. CASE Alarm \/ Recover \/ Advance
  BY <1>8 DEF Alarm, Recover, Advance
<1>9. ASSUME NEW k \in Jobs, PersistClamp(k) PROVE Chooses \/ TickRests
  <2>1. /\ pc = "admit" /\ UNCHANGED <<now, occupied, held, gapBlocked, lastLaunch>>
        /\ \/ pc' = "dispatch" /\ cur' = k
           \/ pc' = pc /\ cur' = cur
        /\ Admissible(k)
    BY <1>9 DEF PersistClamp, Admitting
  <2> QED BY <2>1 DEF Chooses
<1>10. ASSUME NEW k \in Jobs, OwnStep(k), ~ PersistClamp(k) PROVE TickRests
  BY <1>10 DEF OwnStep, Maintain, VisitPrune, VisitUngate, VisitDepSkip,
               VisitNoWorktree, VisitCandidate, VisitNothing, Visiting, SkipWindow,
               PassOver, Admitting, Queue, Cancel, Report, UnitEnds, AuthFail, Autostop
<1>11. CASE UNCHANGED vars
  BY <1>11 DEF vars
<1> QED BY <1>1, <1>2, <1>3, <1>4, <1>5, <1>6, <1>7, <1>8, <1>9, <1>10, <1>11, Steps
           DEF SharedStep

-----------------------------------------------------------------------------
(***************************************************************************)
(* The launch gap.  Every stamp but the one of this tick is at or before    *)
(* the saved time of the last launch, and a job that is no fast start is    *)
(* chosen only when the gap since that time has elapsed.                    *)
(***************************************************************************)
GapInv == crashes = 0 =>
  /\ lastLaunch <= now
  /\ pc \in {"admit", "dispatch", "mark"} =>
       (gapBlocked <=> lastLaunch # None /\ now - lastLaunch < LaunchGap)
  /\ pc \in {"dispatch", "mark"} => (gapBlocked => cur \in FastStart)
  /\ pc = "finish" /\ cur # None => job[cur].startedAt = now
  /\ \A j \in Jobs : job[j].startedAt # None =>
       job[j].startedAt <= lastLaunch \/ (pc = "finish" /\ cur = j)

\* A job's stamp stays what it is, except when the tick stamps it now.
LEMMA StampMoves ==
  ASSUME Base, [Next]_vars, NEW j \in Jobs
  PROVE  job'[j].startedAt = job[j].startedAt \/ Stamps(j)
<1>1. Moves(j)
  BY JobMoves DEF Base
<1> QED BY <1>1 DEF Moves, Rests, Same, Arrives, Vanishes, Opens, Skips, Clamps,
                    Starts, Disarms, Delivers, Ends, Released

\* Every step keeps the bookkeeping of the launch gap (newLaunchTick, Stamp).
LEMMA GapStep ==
  ASSUME Base, Base', GapInv, [Next]_vars
  PROVE  GapInv'
<1> SUFFICES ASSUME crashes' = 0 PROVE GapInv'
  BY DEF GapInv
<1>1. crashes = 0 /\ crashes' # crashes + 1
  BY OnlyGrow DEF Base, TypeOK
<1>2. /\ lastLaunch <= now
      /\ pc \in {"admit", "dispatch", "mark"} =>
           (gapBlocked <=> lastLaunch # None /\ now - lastLaunch < LaunchGap)
      /\ pc \in {"dispatch", "mark"} => (gapBlocked => cur \in FastStart)
      /\ pc = "finish" /\ cur # None => job[cur].startedAt = now
      /\ \A j \in Jobs : job[j].startedAt # None =>
           job[j].startedAt <= lastLaunch \/ (pc = "finish" /\ cur = j)
  BY <1>1 DEF GapInv
<1>3. /\ now \in Nat /\ now' \in Nat /\ lastLaunch \in Nat \cup {None}
      /\ lastLaunch' \in Nat \cup {None} /\ cur \in Jobs \cup {None} /\ None = -1
      /\ cur' \in Jobs \cup {None} /\ Jobs \subseteq Nat
      /\ \A j \in Jobs : job[j].startedAt \in Nat \cup {None}
      /\ \A j \in Jobs : job'[j].startedAt \in Nat \cup {None}
  BY JobsAssumption DEF Base, TypeOK, JobFile, None
<1>4. cur # None => pc \in {"dispatch", "mark", "finish"}
  BY DEF Base, TickShape
<1>5. \A j \in Jobs : job'[j].startedAt = job[j].startedAt \/ Stamps(j)
  BY StampMoves
<1>6. \/ now' = now
      \/ /\ now' = now + 1 /\ pc = "idle"
         /\ UNCHANGED <<job, lastLaunch, pc, cur>>
  BY OnlyGrow
<1>7. CASE now' # now
  <2>1. /\ now' = now + 1 /\ pc = "idle" /\ UNCHANGED <<job, lastLaunch, pc, cur>>
    BY <1>6, <1>7
  <2>2. lastLaunch' <= now' /\ pc' = "idle"
    BY <2>1, <1>2, <1>3
  <2>3. \A j \in Jobs : job'[j].startedAt # None => job'[j].startedAt <= lastLaunch'
    BY <2>1, <1>2
  <2> QED BY ONLY <2>2, <2>3 DEF GapInv
<1>8. CASE now' = now /\ (TickRests \/ Begins \/ Judges \/ Chooses)
  <2>1. \A j \in Jobs : job'[j].startedAt = job[j].startedAt
    BY <1>5, <1>8 DEF TickRests, Begins, Judges, Chooses, Stamps
  <2>2. CASE TickRests
    BY <2>1, <2>2, <1>2, <1>3, <1>8 DEF TickRests, judged, GapInv
  <2>3. CASE Begins
    BY <2>1, <2>3, <1>2, <1>3, <1>4, <1>8 DEF Begins, GapInv
  <2>4. CASE Judges
    BY <2>1, <2>4, <1>2, <1>3, <1>4, <1>8 DEF Judges, GapInv
  <2>5. CASE Chooses
    BY <2>1, <2>5, <1>2, <1>3, <1>4, <1>8 DEF Chooses, judged, Admissible, GapInv
  <2> QED BY <1>8, <2>2, <2>3, <2>4, <2>5
<1>9. CASE Launches \/ GivesUp
  <2>1. \A j \in Jobs : job'[j].startedAt = job[j].startedAt
    BY <1>5, <1>9 DEF Launches, GivesUp, Stamps
  <2>2. CASE Launches
    <3>1. /\ pc = "dispatch" /\ pc' = "mark"
          /\ UNCHANGED <<now, cur, gapBlocked, lastLaunch>>
      BY <2>2 DEF Launches, judged
    <3> QED BY <3>1, <2>1, <1>2, <1>3 DEF GapInv
  <2>3. CASE GivesUp
    BY <2>1, <2>3, <1>2, <1>3 DEF GivesUp, judged, GapInv
  <2> QED BY <1>9, <2>2, <2>3
<1>10. CASE Stamped
  <2>1. cur \in Jobs /\ pc = "mark" /\ pc' = "finish" /\ UNCHANGED <<now, cur, lastLaunch>>
    BY <1>10 DEF Stamped, Base, TypeOK
  <2>2. Stamps(cur)
    <3>1. Moves(cur)
      BY <2>1, JobMoves DEF Base
    <3> QED BY <3>1, <2>1, <1>1 DEF Moves, Rests, InHand, Arrives, Vanishes, Opens, Skips,
               Clamps, Starts, Disarms, Delivers, Ends, Released, SameTick
  <2>3. job'[cur].startedAt = now
    BY <2>2 DEF Stamps
  <2>4. \A j \in Jobs \ {cur} : job'[j].startedAt = job[j].startedAt
    BY <1>5 DEF Stamps
  <2> QED BY <2>1, <2>3, <2>4, <1>2, <1>3 DEF GapInv
<1>11. CASE Drains
  <2>1. \A j \in Jobs : job'[j].startedAt = job[j].startedAt
    BY <1>5, <1>11 DEF Drains, Stamps
  <2> QED BY <2>1, <1>2, <1>3, <1>4, <1>11 DEF Drains, GapInv
<1>12. CASE Finishes
  <2>1. \A j \in Jobs : job'[j].startedAt = job[j].startedAt
    BY <1>5, <1>12 DEF Finishes, Stamps
  <2>2. /\ pc = "finish" /\ pc' = "idle" /\ cur' = None /\ now' = now
        /\ \/ cur = None /\ lastLaunch' = lastLaunch
           \/ cur # None /\ lastLaunch' = now
    BY <1>1, <1>12 DEF Finishes
  <2>3. lastLaunch <= lastLaunch' /\ lastLaunch' <= now'
    BY <2>2, <1>2, <1>3
  <2>4. \A j \in Jobs : job[j].startedAt # None => job[j].startedAt <= lastLaunch'
    BY <2>2, <2>3, <1>2, <1>3
  <2> QED BY <2>1, <2>2, <2>3, <2>4 DEF GapInv
<1>13. CASE Dies
  BY <1>1, <1>13 DEF Dies
<1> QED BY <1>7, <1>8, <1>9, <1>10, <1>11, <1>12, <1>13, TickMoves DEF Base

\* Until the first crash or failed save, two launches are the launch gap apart
\* unless the later one is a fast start (newLaunchTick, cfg.LastLaunch).
THEOREM LaunchesStaySpaced == Spec => [](crashes = 0 => LaunchesAreSpaced)
<1>1. Init => GapInv /\ (crashes = 0 => LaunchesAreSpaced)
  <2> SUFFICES ASSUME Init PROVE GapInv /\ LaunchesAreSpaced
    OBVIOUS
  <2>1. now \in Nat /\ \A j \in Jobs : job[j].startedAt = None
    BY TimeAssumption DEF Init
  <2> QED BY <2>1 DEF Init, GapInv, LaunchesAreSpaced, None
<1>2. Base /\ Base' /\ GapInv /\ [Next]_vars => GapInv'
  BY GapStep
<1>3. Base /\ Base' /\ GapInv /\ (crashes = 0 => LaunchesAreSpaced) /\ [Next]_vars
        => (crashes = 0 => LaunchesAreSpaced)'
  <2> SUFFICES ASSUME Base, Base', GapInv, crashes = 0 => LaunchesAreSpaced, [Next]_vars,
                      crashes' = 0, NEW i \in Jobs, NEW j \in Jobs \ FastStart, i # j,
                      job'[i].startedAt # None, job'[j].startedAt # None,
                      \/ job'[i].startedAt < job'[j].startedAt
                      \/ /\ i \notin FastStart
                         /\ job'[i].startedAt = job'[j].startedAt
               PROVE  job'[j].startedAt - job'[i].startedAt >= LaunchGap
    BY DEF LaunchesAreSpaced
  <2>1. crashes = 0 /\ LaunchesAreSpaced
    BY OnlyGrow DEF Base, TypeOK
  <2>2. /\ lastLaunch <= now
        /\ pc = "mark" =>
             (gapBlocked <=> lastLaunch # None /\ now - lastLaunch < LaunchGap)
        /\ pc = "mark" => (gapBlocked => cur \in FastStart)
        /\ \A k \in Jobs : job[k].startedAt # None =>
             job[k].startedAt <= lastLaunch \/ (pc = "finish" /\ cur = k)
    BY <2>1 DEF GapInv
  <2>3. /\ now \in Nat /\ lastLaunch \in Nat \cup {None} /\ LaunchGap \in Nat /\ None = -1
        /\ job[i].startedAt \in Nat \cup {None} /\ job[j].startedAt \in Nat \cup {None}
    BY TimeAssumption DEF Base, TypeOK, JobFile, None
  <2>4. CASE Stamps(j)
    <3>1. /\ pc = "mark" /\ cur = j /\ job'[j].startedAt = now
          /\ job'[i].startedAt = job[i].startedAt
      BY <2>4, StampMoves DEF Stamps
    <3>2. job[i].startedAt <= lastLaunch /\ ~ gapBlocked
      BY <3>1, <2>2
    <3>3. ~ (lastLaunch # None /\ now - lastLaunch < LaunchGap)
      BY <3>1, <3>2, <2>2, Zenon
    <3> QED BY <3>1, <3>2, <3>3, <2>2, <2>3
  <2>5. CASE Stamps(i)
    <3>1. /\ pc = "mark" /\ cur = i /\ job'[i].startedAt = now
          /\ job'[j].startedAt = job[j].startedAt
      BY <2>5, StampMoves DEF Stamps
    <3>2. job[j].startedAt <= lastLaunch
      BY <3>1, <2>2
    <3>3. i \notin FastStart /\ job[j].startedAt = now /\ lastLaunch = now
      BY <3>1, <3>2, <2>2, <2>3
    <3>4. ~ gapBlocked
      BY <3>1, <3>3, <2>2
    <3>5. ~ (lastLaunch # None /\ now - lastLaunch < LaunchGap)
      BY <3>1, <3>4, <2>2, Zenon
    <3> QED BY <3>1, <3>3, <3>5, <2>3
  <2>6. CASE ~ Stamps(i) /\ ~ Stamps(j)
    <3>1. job'[i].startedAt = job[i].startedAt /\ job'[j].startedAt = job[j].startedAt
      BY <2>6, StampMoves
    <3> QED BY <3>1, <2>1 DEF LaunchesAreSpaced
  <2> QED BY <2>4, <2>5, <2>6
<1> QED BY <1>1, <1>2, <1>3, BaseHolds, PTL DEF Spec

-----------------------------------------------------------------------------
(***************************************************************************)
(* Launch order.  While nothing has failed, a due, ungated job is not lost  *)
(* sight of: once visited it is a candidate, and a candidate that admission *)
(* has taken from the list without choosing it is one that this tick's      *)
(* snapshot does not admit.                                                 *)
(***************************************************************************)
Waiting(i) == Ungated(i) /\ Due(i)

OrderInv == crashes = 0 /\ errors = 0 =>
  /\ pc = "maintain" => \A i \in Jobs \ left : Waiting(i) => i \in cands
  /\ pc = "admit" =>
       \A i \in Jobs : Waiting(i) => i \in cands \/ ~ Admissible(i)
  /\ pc = "dispatch" =>
       /\ Admissible(cur)
       /\ \A i \in Jobs \ {cur} : Waiting(i) =>
            (i \in cands /\ Before(cur, i)) \/ ~ Admissible(i)

\* A visited job that waits when its visit is over is a candidate (schedTick).
LEMMA VisitedWaitersCompete ==
  ASSUME TypeOK, NEW k \in Jobs, Maintain(k), crashes' # crashes + 1, Waiting(k)'
  PROVE  k \in cands'
<1>typed. job \in [Jobs -> JobFile]
  BY DEF TypeOK
<1>1. job'[k].phase = "queued" /\ ~ job'[k].gated /\ Due(k)' /\ now' = now
  BY DEF Waiting, Ungated, Maintain, VisitPrune, VisitUngate, VisitDepSkip,
         VisitNoWorktree, VisitCandidate, VisitNothing, Visiting
<1>2. CASE VisitPrune(k)
  <2>1. job' = [job EXCEPT ![k].phase = "gone"]
    BY <1>2 DEF VisitPrune
  <2>2. job'[k].phase = "gone"
    BY ONLY <2>1, <1>typed, Fields, k \in Jobs
  <2> QED BY <1>1, <2>2
<1>3. CASE VisitUngate(k)
  BY <1>1, <1>3 DEF VisitUngate, SaveFails, WriteFails, Due
<1>4. CASE VisitDepSkip(k) \/ VisitNoWorktree(k)
  <2>1. job' = [job EXCEPT ![k].phase = "skipped", ![k].gated = FALSE]
    BY <1>4 DEF VisitDepSkip, DepSkip, WriteFails, VisitNoWorktree
  <2>2. job'[k].phase = "skipped"
    BY ONLY <2>1, <1>typed, Fields, k \in Jobs
  <2> QED BY <1>1, <2>2
<1>5. CASE VisitCandidate(k)
  BY <1>5 DEF VisitCandidate
<1>6. CASE VisitNothing(k)
  BY <1>1, <1>6 DEF VisitNothing, Exists, Gated, Ungated, Due
<1> QED BY <1>2, <1>3, <1>4, <1>5, <1>6 DEF Maintain

\* Every step keeps the bookkeeping of the launch order (SortByLaunchOrder).
LEMMA OrderStep ==
  ASSUME Base, Base', RanInv, OrderInv, [Next]_vars
  PROVE  OrderInv'
<1> SUFFICES ASSUME crashes' = 0, errors' = 0 PROVE OrderInv'
  BY DEF OrderInv
<1>1. crashes = 0 /\ errors = 0 /\ crashes' # crashes + 1 /\ errors' # errors + 1
  BY OnlyGrow DEF Base, TypeOK
<1>2. /\ pc = "maintain" => \A i \in Jobs \ left : Waiting(i) => i \in cands
      /\ pc = "admit" =>
           \A i \in Jobs : Waiting(i) => i \in cands \/ ~ Admissible(i)
      /\ pc = "dispatch" =>
           /\ Admissible(cur)
           /\ \A i \in Jobs \ {cur} : Waiting(i) =>
                (i \in cands /\ Before(cur, i)) \/ ~ Admissible(i)
  BY <1>1 DEF OrderInv
<1>3. \A i \in cands : i \in Jobs /\ i \notin left
  BY DEF Base, TypeOK, TickShape
<1>4. ASSUME pc' \notin {"maintain", "admit", "dispatch"} PROVE OrderInv'
  BY <1>4 DEF OrderInv
<1>5. ASSUME UNCHANGED <<job, now, tick>> PROVE OrderInv'
  BY <1>2, <1>5 DEF OrderInv, tick, Waiting, Ungated, Due, Admissible, AdmitCap
<1>6. CASE TickBegin
  BY <1>6 DEF TickBegin, OrderInv
<1>7. CASE Snapshot
  BY <1>2, <1>7 DEF Snapshot, OrderInv, Waiting, Ungated, Due, disk
<1>8. CASE RcRun
  <2>1. pc = "dispatch" /\ unit[cur] = "none"
    <3>1. pc = "dispatch" /\ cur \in Jobs /\ job[cur].phase = "queued"
      BY <1>8 DEF RcRun, Base, TypeOK, TickShape, Ungated
    <3> QED BY <3>1, <1>1 DEF RanInv, Launching
  <2>2. pc' = "mark"
    BY <2>1, <1>1, <1>8 DEF RcRun
  <2> QED BY <2>2, <1>4
<1>9. CASE MarkStarted \/ QueueDrained \/ TickEnd \/ Crash
  BY <1>9, <1>4 DEF MarkStarted, QueueDrained, TickEnd, Crash
<1>10. CASE Alarm \/ Recover
  BY <1>10, <1>5 DEF Alarm, Recover, disk
<1>11. CASE Advance
  BY <1>11, <1>4 DEF Advance, tick
<1>12. ASSUME NEW k \in Jobs, Queue(k) \/ Cancel(k) PROVE OrderInv'
  BY <1>12, <1>4 DEF Queue, Cancel, tick
<1>13. ASSUME NEW k \in Jobs, Maintain(k) PROVE OrderInv'
  <2>1. /\ pc = "maintain" /\ pc' = "maintain" /\ left' = left \ {k} /\ now' = now
        /\ cands \subseteq cands'
    BY <1>13 DEF Maintain, VisitPrune, VisitUngate, VisitDepSkip, DepSkip,
                 VisitNoWorktree, VisitCandidate, VisitNothing, Visiting
  <2>2. Waiting(k)' => k \in cands'
    BY <1>1, <1>13, VisitedWaitersCompete DEF Base
  <2>3. ASSUME NEW i \in Jobs \ left', i # k, Waiting(i)' PROVE i \in cands'
    <3>1. Same(i)
      BY <2>3, <1>13, OthersLeaveAlone DEF OwnStep, Base
    <3>2. Waiting(i) /\ i \notin left
      BY <2>1, <2>3, <3>1 DEF Waiting, Ungated, Due, Same
    <3> QED BY <2>1, <3>2, <1>2
  <2> QED BY <2>1, <2>2, <2>3 DEF OrderInv
<1>14. ASSUME NEW k \in Jobs, SkipWindow(k) \/ PassOver(k) PROVE OrderInv'
  <2>1. /\ pc = "admit" /\ pc' = "admit" /\ cands' = cands \ {k} /\ now' = now
        /\ UNCHANGED <<held, occupied, gapBlocked>>
    BY <1>14 DEF SkipWindow, PassOver, Admitting
  <2>2. Waiting(k)' => ~ Admissible(k)
    <3>1. CASE SkipWindow(k)
      <4>1. job' = [job EXCEPT ![k].phase = "skipped", ![k].gated = FALSE]
        BY <3>1, <1>1 DEF SkipWindow, DepSkip, WriteFails
      <4>2. job \in [Jobs -> JobFile]
        BY DEF Base, TypeOK
      <4>3. job'[k].phase = "skipped"
        BY ONLY <4>1, <4>2, Fields, k \in Jobs
      <4> QED BY <4>3 DEF Waiting, Ungated
    <3>2. CASE PassOver(k)
      BY <3>2 DEF PassOver
    <3> QED BY <1>14, <3>1, <3>2
  <2>3. ASSUME NEW i \in Jobs, Waiting(i)' PROVE i \in cands' \/ ~ Admissible(i)
    <3>1. CASE i = k
      BY <3>1, <2>2, <2>3
    <3>2. CASE i # k
      <4>1. Same(i)
        BY <3>2, <1>14, OthersLeaveAlone DEF OwnStep, Base
      <4>2. Waiting(i)
        BY <2>1, <2>3, <4>1 DEF Waiting, Ungated, Due, Same
      <4> QED BY <2>1, <3>2, <4>2, <1>2
    <3> QED BY <3>1, <3>2
  <2>4. \A i \in Jobs : Admissible(i)' <=> Admissible(i)
    BY <2>1 DEF Admissible, AdmitCap
  <2> QED BY <2>1, <2>3, <2>4 DEF OrderInv
<1>15. ASSUME NEW k \in Jobs, PersistClamp(k) PROVE OrderInv'
  <2>1. /\ pc = "admit" /\ pc' = "dispatch" /\ cur' = k /\ cands' = cands \ {k}
        /\ Admissible(k) /\ now' = now /\ UNCHANGED <<held, occupied, gapBlocked>>
        /\ \A i \in cands \ {k} : Before(k, i)
    BY <1>1, <1>15 DEF PersistClamp, SaveFails, WriteFails, Admitting
  <2>2. ASSUME NEW i \in Jobs \ {k}, Waiting(i)'
        PROVE  (i \in cands' /\ Before(k, i)) \/ ~ Admissible(i)
    <3>1. Same(i)
      BY <1>15, OthersLeaveAlone DEF OwnStep, Base
    <3>2. Waiting(i)
      BY <2>1, <2>2, <3>1 DEF Waiting, Ungated, Due, Same
    <3> QED BY <2>1, <3>2, <1>2
  <2>3. \A i \in Jobs : Admissible(i)' <=> Admissible(i)
    BY <2>1 DEF Admissible, AdmitCap
  <2>4. \A i \in Jobs : Before(cur, i)' <=> Before(k, i)
    BY <2>1 DEF Before, Tier
  <2> QED BY <2>1, <2>2, <2>3, <2>4 DEF OrderInv
<1>16. ASSUME NEW k \in Jobs, Report(k) \/ UnitEnds(k) \/ AuthFail(k) \/ Autostop(k)
       PROVE  OrderInv'
  BY <1>16, <1>5 DEF Report, UnitEnds, AuthFail, Autostop, disk
<1>17. CASE UNCHANGED vars
  BY <1>17, <1>5 DEF vars, disk
<1> QED
  BY <1>6, <1>7, <1>8, <1>9, <1>10, <1>11, <1>12, <1>13, <1>14, <1>15, <1>16, <1>17,
     Steps DEF SharedStep, OwnStep

\* Launch order is a strict order: no two jobs precede each other (Before).
LEMMA BeforeAsymmetric ==
  ASSUME NEW i \in Jobs, NEW j \in Jobs, Before(i, j)
  PROVE  ~ Before(j, i)
<1>1. /\ At[i] \in Nat /\ At[j] \in Nat /\ i \in Nat /\ j \in Nat
      /\ Tier(i) \in Nat /\ Tier(j) \in Nat
  BY JobsAssumption DEF Tier
<1> QED BY <1>1 DEF Before

\* In a behaviour where nothing crashes and every save succeeds, no job is
\* launched past a due job that precedes it in launch order and needs the same
\* executor, group and gap, as long as no dispatch has failed (SortByLaunchOrder,
\* newLaunchTick, Admit).
THEOREM NeverOvertaken == Spec /\ [](crashes = 0) => NoOvertaking
<1>1. Init => OrderInv
  BY DEF Init, OrderInv
<1>2. Base /\ Base' /\ RanInv /\ OrderInv /\ [Next]_vars => OrderInv'
  BY OrderStep
<1>3. Base /\ crashes = 0 /\ OrderInv /\ [Next]_vars =>
        [\A i, j \in Jobs :
           /\ unit[j] # "active" /\ unit'[j] = "active" /\ errors = 0
           /\ i # j /\ SameClass(i, j) /\ Before(i, j)
           => ~ (Ungated(i) /\ Due(i))]_vars
  <2> SUFFICES ASSUME Base, crashes = 0, OrderInv, [Next]_vars,
                      NEW i \in Jobs, NEW j \in Jobs,
                      unit[j] # "active", unit'[j] = "active", errors = 0,
                      i # j, SameClass(i, j), Before(i, j)
               PROVE  ~ Waiting(i)
    BY DEF Waiting
  <2>1. Moves(j)
    BY JobMoves DEF Base
  <2>2. pc = "dispatch" /\ cur = j
    BY <2>1 DEF Moves, Rests, Same, Arrives, Vanishes, Opens, Skips, Clamps, SameRun,
                Starts, Disarms, Stamps, Delivers, Ends, Released
  <2>3. /\ Admissible(j)
        /\ Waiting(i) => Before(j, i) \/ ~ Admissible(i)
    BY <2>2 DEF OrderInv
  <2>4. Admissible(i)
    <3>1. Executor(i) = Executor(j) /\ CapGroup[i] = CapGroup[j] /\ Cap[i] = Cap[j]
      BY CapAssumption DEF SameClass
    <3>2. Executor(j) \notin held /\ AdmitCap(j) /\ ~ gapBlocked
      BY <2>3 DEF Admissible, SameClass
    <3> QED BY <3>1, <3>2 DEF Admissible, AdmitCap
  <2> QED BY <2>3, <2>4, BeforeAsymmetric
<1> QED BY <1>1, <1>2, <1>3, BaseHolds, RanHolds, PTL DEF Spec, NoOvertaking

-----------------------------------------------------------------------------
(***************************************************************************)
(* The end of a late launch.  The window a candidate is dispatched with     *)
(* ends by the flow's finish-by, and by the profile's deadline unless the   *)
(* queue held the candidate past noon of the day that deadline fell on: by  *)
(* then "HH:MM" means tomorrow's (deadlineClampedMinutes).                  *)
(***************************************************************************)

\* Whole days are a day apart.
LEMMA Multiples ==
  ASSUME NEW d \in Nat \ {0}, NEW p \in Int, NEW q \in Int, p < q
  PROVE  d * p + d <= d * q
<1>1. q - p - 1 \in Nat /\ d \in Nat
  OBVIOUS
<1>2. d * (q - p - 1) >= 0
  BY <1>1
<1>3. d * (q - p - 1) = d * q - d * p - d
  BY <1>1
<1> QED BY <1>1, <1>2, <1>3

\* The start of a day is a whole number of days, and less than a day ago.
LEMMA DayStart ==
  ASSUME NEW x \in Nat
  PROVE  \E q \in Nat : /\ x - (x % DayLen) = DayLen * q /\ DayLen * q \in Nat
                        /\ x % DayLen \in 0..(DayLen - 1)
<1>1. DayLen \in Nat \ {0}
  BY TimeAssumption
<1>2. /\ x \div DayLen \in Nat /\ x % DayLen \in 0..(DayLen - 1)
      /\ x = DayLen * (x \div DayLen) + (x % DayLen)
  BY <1>1
<1> DEFINE q == x \div DayLen
           r == x % DayLen
<1>3. q \in Nat /\ r \in 0..(DayLen - 1) /\ x = DayLen * q + r /\ DayLen * q \in Nat
  BY <1>1, <1>2
<1>4. x - r = DayLen * q
  <2> HIDE DEF q, r
  <2> QED BY <1>1, <1>3
<1> QED BY <1>3, <1>4

\* A window that is not refused ends by the end it was clamped to.
LEMMA FitBeforeEnds ==
  ASSUME now \in Nat, NEW end \in Int, NEW m \in Nat \ {0}, FitBefore(end, m) # None
  PROVE  /\ now < end /\ now + FitBefore(end, m) <= end
         /\ FitBefore(end, m) \in Nat \ {0} /\ FitBefore(end, m) <= m
BY TimeAssumption DEF FitBefore, Least, None

\* Noon of the day a job's scheduled end falls on.
DeadlineNoon(j) == (ScheduledEnd(j) - Deadline[j]) + Noon

\* The clamp by the deadline ends by the scheduled end of a due job, while that
\* end is ahead or it is not yet noon of its day (deadlineClampedMinutes).
LEMMA DeadlineClampEnds ==
  ASSUME TypeOK, NEW j \in Jobs, Deadline[j] # None, Due(j),
         now <= ScheduledEnd(j) \/ now < DeadlineNoon(j),
         NEW m \in Nat \ {0}, DeadlineClampedMinutes(j, m) # None
  PROVE  /\ now + DeadlineClampedMinutes(j, m) <= ScheduledEnd(j)
         /\ DeadlineClampedMinutes(j, m) \in Nat \ {0}
<1>1. /\ DayLen \in Nat \ {0} /\ now \in Nat /\ At[j] \in Nat /\ At[j] <= now
      /\ Noon \in Nat /\ Noon <= DayLen
      /\ Deadline[j] \in Nat /\ Deadline[j] < DayLen
  BY JobsAssumption, TimeAssumption, DayAssumption DEF TypeOK, Due
<1> DEFINE D == Deadline[j]
           day(q) == DayLen * q
<1>2. PICK qn \in Nat : /\ now - (now % DayLen) = day(qn) /\ day(qn) \in Nat
                        /\ now % DayLen \in 0..(DayLen - 1)
  BY <1>1, DayStart
<1>3. PICK qa \in Nat : /\ At[j] - (At[j] % DayLen) = day(qa) /\ day(qa) \in Nat
                        /\ At[j] % DayLen \in 0..(DayLen - 1)
  BY <1>1, DayStart
<1>4. PICK qs \in Nat : /\ ScheduledEnd(j) = day(qs) + D /\ day(qs) \in Nat
  <2>1. CASE day(qa) + D < At[j]
    <3>1. ScheduledEnd(j) = (day(qa) + D) + DayLen
      BY <1>3, <2>1 DEF ScheduledEnd
    <3>2. day(qa + 1) = day(qa) + DayLen /\ day(qa + 1) \in Nat
      BY <1>1, <1>3
    <3> QED BY <3>1, <3>2, <1>1, <1>3
  <2>2. CASE ~ (day(qa) + D < At[j])
    BY <1>3, <2>2 DEF ScheduledEnd
  <2> QED BY <2>1, <2>2
<1>5. \A p, q \in Nat : p < q => day(p) + DayLen <= day(q)
  BY <1>1, Multiples
<1>6. /\ qn < qs \/ qn = qs \/ qs < qn
      /\ qn < qs => day(qn) + DayLen <= day(qs)
      /\ qs < qn => day(qs) + DayLen <= day(qn)
  BY <1>5
<1> DEFINE today == day(qn) + D
           end == IF today < now /\ now % DayLen >= Noon THEN today + DayLen ELSE today
<1>7. DeadlineClampedMinutes(j, m) = FitBefore(end, m)
  BY <1>2 DEF DeadlineClampedMinutes
<1>8. end \in Int
  BY <1>1, <1>2
<1>9. /\ now < end /\ now + FitBefore(end, m) <= end
      /\ FitBefore(end, m) \in Nat \ {0}
  <2> HIDE DEF end
  <2> QED BY <1>1, <1>7, <1>8, FitBeforeEnds
<1>10. end <= ScheduledEnd(j)
  <2>1. now = day(qn) + (now % DayLen)
    BY <1>1, <1>2
  <2>2. now <= day(qs) + D \/ now < day(qs) + Noon
    BY <1>1, <1>4 DEF DeadlineNoon
  <2> DEFINE dn == day(qn)
             ds == day(qs)
             r == now % DayLen
  <2>3. /\ dn \in Nat /\ ds \in Nat /\ r \in 0..(DayLen - 1) /\ now = dn + r
        /\ now <= ds + D \/ now < ds + Noon
        /\ dn + DayLen <= ds \/ dn = ds \/ ds + DayLen <= dn
        /\ now < (IF dn + D < now /\ r >= Noon THEN dn + D + DayLen ELSE dn + D)
    BY <1>2, <1>4, <1>6, <1>9, <2>1, <2>2
  <2>4. (IF dn + D < now /\ r >= Noon THEN dn + D + DayLen ELSE dn + D) <= ds + D
    <3> HIDE DEF dn, ds, r
    <3> QED BY <2>3, <1>1
  <2> QED BY <2>4, <1>4
<1> QED BY <1>1, <1>4, <1>7, <1>9, <1>10

\* The window a candidate is dispatched with ends by every end it has.
LEMMA WindowEnds ==
  ASSUME TypeOK, NEW j \in Jobs, Window(j) # None
  PROVE  /\ FinishBy[j] # None => now + Window(j) <= FinishBy[j]
         /\ Deadline[j] # None /\ Due(j)
              /\ (now <= ScheduledEnd(j) \/ now < DeadlineNoon(j))
            => now + Window(j) <= ScheduledEnd(j)
<1> DEFINE m == DeadlineClampedMinutes(j, job[j].minutes)
<1>1. job[j].minutes \in Nat \ {0} /\ now \in Nat /\ FinishBy[j] \in Nat \cup {None}
  BY JobsAssumption DEF TypeOK, JobFile
<1>2. m # None /\ Window(j) = AbsoluteDeadlineMinutes(j, m)
  BY DEF Window
<1>3. m \in Nat \ {0}
  <2>1. CASE FinishBy[j] = None
    <3>1. Window(j) = m
      BY <1>2, <2>1 DEF AbsoluteDeadlineMinutes
    <3> QED BY <3>1, WindowType
  <2>2. CASE FinishBy[j] # None /\ Deadline[j] = None
    BY <1>1, <2>2 DEF DeadlineClampedMinutes
  <2>3. CASE Deadline[j] # None
    <3>1. /\ Deadline[j] \in Nat /\ now - (now % DayLen) \in Int /\ DayLen \in Nat
      BY <2>3, <1>1, DayStart, JobsAssumption, TimeAssumption
    <3>2. PICK end \in Int : m = FitBefore(end, job[j].minutes)
      BY <2>3, <3>1 DEF DeadlineClampedMinutes
    <3> HIDE DEF m
    <3> QED BY <3>2, <1>1, <1>2, FitBeforeEnds
  <2> QED BY <2>1, <2>2, <2>3
<1>4. FinishBy[j] # None =>
        now + Window(j) <= FinishBy[j] /\ Window(j) <= m /\ Window(j) \in Nat
  <2> HIDE DEF m
  <2> SUFFICES ASSUME FinishBy[j] # None
               PROVE  now + Window(j) <= FinishBy[j] /\ Window(j) <= m /\ Window(j) \in Nat
    OBVIOUS
  <2>1. Window(j) = FitBefore(FinishBy[j], m) /\ FinishBy[j] \in Int
    BY <1>1, <1>2 DEF AbsoluteDeadlineMinutes
  <2> QED BY <2>1, <1>1, <1>3, FitBeforeEnds
<1>5. FinishBy[j] = None => Window(j) = m
  BY <1>2 DEF AbsoluteDeadlineMinutes
<1>6. ASSUME Deadline[j] # None, Due(j),
             now <= ScheduledEnd(j) \/ now < DeadlineNoon(j)
      PROVE  now + Window(j) <= ScheduledEnd(j)
  <2>1. now + m <= ScheduledEnd(j)
    BY <1>1, <1>2, <1>6, DeadlineClampEnds
  <2>2. ScheduledEnd(j) \in Int
    <3>1. At[j] \in Nat /\ Deadline[j] \in Int /\ DayLen \in Nat
      BY JobsAssumption, TimeAssumption, None \in Int DEF None
    <3>2. At[j] - (At[j] % DayLen) \in Int
      BY <3>1, DayStart
    <3> QED BY <3>1, <3>2 DEF ScheduledEnd
  <2> HIDE DEF m
  <2> QED BY <2>1, <2>2, <1>1, <1>3, <1>4, <1>5
<1> QED BY <1>4, <1>6

\* What it takes for a job to be stopped by the end e: its window when it is
\* dispatched, and the timer of its unit.
EndsBy(j, e) ==
  /\ pc = "dispatch" /\ cur = j => now + job[j].minutes <= e
  /\ unit[j] = "active" /\ stopAt[j] # None => stopAt[j] <= e

\* Every step keeps a live unit's timer within the job's end (Admit, RcRun).
LEMMA EndStep ==
  ASSUME Base, Base', [Next]_vars, NEW j \in Jobs, NEW e, EndsBy(j, e),
         Clamps(j) => now + Window(j) <= e
  PROVE  EndsBy(j, e)'
<1> USE DEF EndsBy
<1>1. Moves(j)
  BY JobMoves DEF Base
<1>2. CASE Rests(j)
  BY <1>2 DEF Rests, Same, InHand
<1>3. CASE Arrives(j) \/ Vanishes(j) \/ Opens(j) \/ Skips(j)
  BY <1>3 DEF Arrives, Vanishes, Opens, Skips, SameRun, SameTick
<1>4. CASE Clamps(j)
  BY <1>4 DEF Clamps, SameRun
<1>5. CASE Starts(j) \/ Disarms(j) \/ Stamps(j)
  BY <1>5 DEF Starts, Disarms, Stamps, SameRun
<1>6. CASE Delivers(j) \/ Ends(j) \/ Released(j)
  BY <1>6 DEF Delivers, Ends, Released, SameRun, SameTick
<1> QED BY <1>1, <1>2, <1>3, <1>4, <1>5, <1>6 DEF Moves

FinishInv == \A j \in Jobs : FinishBy[j] # None => EndsBy(j, FinishBy[j])
DeadlineInv == \A j \in Jobs : Deadline[j] # None => EndsBy(j, ScheduledEnd(j))

\* A live run of a flow will be stopped by the flow's finish-by.
FlowsEndOnTime ==
  \A j \in Jobs : unit[j] = "active" /\ stopAt[j] # None /\ FinishBy[j] # None
    => stopAt[j] <= FinishBy[j]

\* A live run of a flow is stopped by the flow's finish-by, however long holds,
\* caps, the gap, crashes and failed saves delayed its launch (Admit clamps the
\* window to it and saves it before the dispatch).
THEOREM FlowsAlwaysEndOnTime == Spec => []FlowsEndOnTime
<1>1. Init => FinishInv
  BY DEF Init, FinishInv, EndsBy
<1>2. Base /\ Base' /\ FinishInv /\ [Next]_vars => FinishInv'
  <2> SUFFICES ASSUME Base, Base', FinishInv, [Next]_vars, NEW j \in Jobs,
                      FinishBy[j] # None
               PROVE  EndsBy(j, FinishBy[j])'
    BY DEF FinishInv
  <2>1. Clamps(j) => now + Window(j) <= FinishBy[j]
    BY WindowEnds DEF Clamps, Base
  <2> QED BY <2>1, EndStep DEF FinishInv
<1>3. FinishInv => FlowsEndOnTime
  BY DEF FinishInv, FlowsEndOnTime, EndsBy
<1> QED BY <1>1, <1>2, <1>3, BaseHolds, PTL DEF Spec

\* No tick has a candidate left over from a night whose deadline has passed and
\* whose noon has too.
CandidatesInTime ==
  \A j \in cands : Deadline[j] # None =>
    now <= ScheduledEnd(j) \/ now < DeadlineNoon(j)

\* In a behaviour where no candidate waits past noon of the day its deadline fell
\* on, every live run ends on schedule, its profile's deadline included; past that
\* noon it need not (deadlineClampedMinutes; the run after_noon shows it).
THEOREM LateLaunchesEndOnSchedule ==
  Spec /\ []CandidatesInTime => []LateLaunchEndsOnSchedule
<1>1. Init => DeadlineInv
  BY DEF Init, DeadlineInv, EndsBy
<1>2. Base /\ Base' /\ CandidatesInTime /\ DeadlineInv /\ [Next]_vars => DeadlineInv'
  <2> SUFFICES ASSUME Base, Base', CandidatesInTime, DeadlineInv, [Next]_vars,
                      NEW j \in Jobs, Deadline[j] # None
               PROVE  EndsBy(j, ScheduledEnd(j))'
    BY DEF DeadlineInv
  <2>1. Clamps(j) => now + Window(j) <= ScheduledEnd(j)
    BY WindowEnds DEF Clamps, Base, TickShape, CandidatesInTime
  <2>2. EndsBy(j, ScheduledEnd(j))
    BY DEF DeadlineInv
  <2> DEFINE e == ScheduledEnd(j)
  <2>3. e = ScheduledEnd(j)
    OBVIOUS
  <2>4. EndsBy(j, e)'
    <3> HIDE DEF e
    <3> QED BY <2>1, <2>2, <2>3, EndStep
  <2> QED BY <2>4
<1>3. DeadlineInv /\ FlowsEndOnTime => LateLaunchEndsOnSchedule
  BY DEF DeadlineInv, FlowsEndOnTime, EndsBy, LateLaunchEndsOnSchedule
<1> QED BY <1>1, <1>2, <1>3, BaseHolds, FlowsAlwaysEndOnTime, PTL DEF Spec
=============================================================================
