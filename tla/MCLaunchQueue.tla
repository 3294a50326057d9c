--------------------------- MODULE MCLaunchQueue ---------------------------
(***************************************************************************)
(* Instances of LaunchQueue for TLC.  Every definition gives one CONSTANT   *)
(* its value in the configuration of the same name.                         *)
(***************************************************************************)
EXTENDS LaunchQueue

NoTime(J) == [j \in J |-> None]
Ungate(J) == [j \in J |-> {}]

\* Flow: the unit is a while longer than half the launch gap.  Two parallel
\* nodes, one of them emitted, and their successor, a fast start; at most one
\* session of the flow at a time, and all must end by the finish-by.
FlowJobs == 1..3
FlowAt == <<0, 0, 0>>
FlowMinutes == <<2, 2, 3>>
FlowFinishBy == <<5, 5, 5>>
FlowDeadline == NoTime(FlowJobs)
FlowCapGroup == <<1, 1, 1>>
FlowCap == <<1, 1, 1>>
FlowAfter == <<{}, {}, {{1}, {2}}>>
FlowQuorum == <<{}, {}, {{1}}>>

\* Crash: two waves of one pipeline run with cap 1, one of which waits for a
\* third session that must be over by 02:00, box cap 2.
CrashJobs == 1..3
CrashAt == <<0, 0, 0>>
CrashMinutes == <<3, 2, 2>>
CrashFinishBy == NoTime(CrashJobs)
CrashDeadline == <<None, 2, None>>
CrashCapGroup == <<1, None, 1>>
CrashCap == <<1, 0, 1>>
CrashAfter == <<{}, {}, {{2}}>>
CrashQuorum == Ungate(CrashJobs)

\* Night: hours.  A 22:00 wave that must end by 01:00 and a codex wave that it
\* triggers, whose window outlasts the clock, so that only the watchdog can
\* free its slot.
NightJobs == 1..2
NightAt == <<22, 23>>
NightMinutes == <<2, 40>>
NightFinishBy == NoTime(NightJobs)
NightDeadline == <<1, None>>
NightCapGroup == <<1, 1>>
NightCap == <<0, 0>>
NightAfter == <<{}, {{1}}>>
NightQuorum == Ungate(NightJobs)
=============================================================================
