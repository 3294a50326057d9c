------------------------------ MODULE FlowRun ------------------------------
(***************************************************************************)
(* One task flow: a goal worked on by a chain of sessions.  Every node of   *)
(* the flow is an ordinary job file; reconcileFlowsLocked, called by every  *)
(* scheduler tick before the launch queue, reads the reports the sessions   *)
(* deliver, acts on each verdict once (complete, block, insert the roles of *)
(* an exception edge, emit a fan-out group) and saves the flow.             *)
(*                                                                          *)
(* A handler computes in memory (mem) what it then puts on disk one file at *)
(* a time: writes is what it has still to put there.  The control plane may *)
(* crash before any of those writes; sessions report, exit and run out of   *)
(* time between any two steps.                                              *)
(*                                                                          *)
(* Which of the ungated jobs a tick launches is the launch queue's choice   *)
(* (module LaunchQueue); here it is any one the flow's own cap admits.      *)
(***************************************************************************)
EXTENDS Subsequence

CONSTANTS
  Roles,        \* the node definitions there are
  Path,         \* the happy path: its members <<role, stage>> in order
  Edges,        \* Edges[role]: the roles a needs-work verdict inserts
  Emitters,     \* Emitters[role] = [child, max, fanIn]: runtime fan-out
  AppendRoles,  \* what an agent's append request asks for
  Answers,      \* Answers[role]: what its sessions report, <<verdict, children
                \* asked for>>; the verdict "draft" is a report without one
  Cap,          \* flowCap: sessions the flow runs at once
  NodeMax,      \* flowNodeMax: nodes the flow may have in its lifetime
  HasDeadline,  \* the flow was created with an absolute deadline
  MaxJobs,      \* bound: job ids, more than a run can use
  Bound,        \* bounds: Bound[k] events of kind k
  AllEvents     \* and so many of all kinds in one behaviour

Events == {"error", "auth", "crash", "append", "stop", "move", "cancel"}

ASSUME FlowAssumption ==
  /\ NodeMax \in Nat /\ Cap \in Nat \ {0} /\ MaxJobs \in Nat
  /\ HasDeadline \in BOOLEAN
  /\ Bound \in [Events -> Nat] /\ AllEvents \in Nat
  /\ \A role \in DOMAIN Answers :
       Answers[role] \subseteq {"draft", "ok", "needs-work", "blocked", "complete"} \X Nat
  /\ {"amend", "validate"} \subseteq Roles
  /\ Path \in Seq(Roles \X Nat) \ {<<>>}
  /\ AppendRoles \in Seq(Roles) \ {<<>>}
  /\ \A role \in DOMAIN Edges : Edges[role] \in Seq(Roles) \ {<<>>}
  /\ \A role \in DOMAIN Emitters :
       /\ Emitters[role].child \in Roles /\ Emitters[role].fanIn \in Roles
       /\ Emitters[role].max \in Nat

JobIds == 1..MaxJobs
None == <<>>

VARIABLES
  flow,   \* the flow file: [status, nodes, round]
  mem,    \* the copy the running handler works on
  job,    \* the job files: [phase, gated, after, node]
  report, \* report[j]: "none", "draft" (no verdict in it yet) or its verdict
  emits,  \* emits[j]: children the report of j asks for
  marks,  \* marks[j]: .authfail, .depskip, .watchdog, and "over" once the
          \* auto-stop window of a started run and its slack are past
  unit,   \* the session: "none", "active" or "dead"
  clock,  \* the deadline: "open", "near" (under 10 minutes left) or "past"
  pc,     \* where the tick stands, "idle" between ticks
  writes, \* file writes the running handler has still to do
  idx,    \* the node the verdict pass is at
  total,  \* the nodes there were when the pass began
  left,   \* queued jobs the maintenance loop has still to visit
  cur,    \* the job being checked or launched, 0 for none
  asks,   \* append requests waiting in the spool
  spent   \* how often each bounded event happened

sessions == <<report, emits, unit>>
loop == <<idx, total, left, cur>>
vars == <<flow, mem, job, marks, sessions, clock, pc, writes, loop, asks, spent>>

NoFlow == [status |-> "none", nodes |-> <<>>, round |-> 0]
FlowTerminal(f) == f.status \in {"complete", "blocked", "stopped", "deadline"}

Spend(kind) ==
  /\ spent[kind] < Bound[kind]
  /\ Cardinality(UNION {{k} \X (1..spent[k]) : k \in Events}) < AllEvents
  /\ spent' = [spent EXCEPT ![kind] = @ + 1]

Highest(S) == CHOOSE i \in S : \A k \in S : k <= i

(***************************************************************************)
(* Jobs: phases, and the three ways a run ends (profile.go).                *)
(***************************************************************************)
Exists(j) == job[j].phase \in {"queued", "started", "skipped"}
Unstarted(j) == job[j].phase \in {"queued", "skipped"}
ReportExists(j) == report[j] # "none"

JobTerminalNoReport(j) ==
  \/ job[j].phase = "skipped"
  \/ marks[j] \cap {"depskip", "authfail", "watchdog"} # {}
  \/ job[j].phase = "started" /\ "over" \in marks[j]

JobWorking(j) ==
  job[j].phase = "started" /\ ~ ReportExists(j) /\ marks[j] = {}

\* The first id no job file ever had.
NextJob == LET used == {j \in JobIds : job[j].phase # "absent"}
           IN  IF used = {} THEN 1 ELSE Highest(used) + 1

\* Bound: no handler mints more jobs than there are ids left.
IdsLeft(n) == NextJob + n <= MaxJobs + 1

(***************************************************************************)
(* The graph of a flow.  A node id is <<role, round, occurrence>>.          *)
(***************************************************************************)
Nodes(f) == {f.nodes[i] : i \in DOMAIN f.nodes}
Owned(f) == {n.job : n \in Nodes(f)}

NewNode(id, after, by, j) ==
  [id |-> id, after |-> after, seen |-> "", by |-> by, job |-> j]

\* MUTANT of AcceptanceID: the last slot of the list.
AcceptanceLastSlot(f) == f.nodes[Len(f.nodes)].id

\* The node whose verdict decides the run: the last that nothing depends on.
AcceptanceID(f) ==
  LET tails == {i \in DOMAIN f.nodes : \A m \in Nodes(f) : f.nodes[i].id \notin m.after}
  IN  f.nodes[IF tails = {} THEN Len(f.nodes) ELSE Highest(tails)].id

\* Every node that waits on `at` waits on `tail` instead.
Regated(nodes, at, tail) ==
  [i \in DOMAIN nodes |->
     IF at \in nodes[i].after
     THEN [nodes[i] EXCEPT !.after = (@ \ {at}) \cup {tail}]
     ELSE nodes[i]]

\* The node ids a chain of roles gets in a round.
ChainIds(roles, round) ==
  [i \in DOMAIN roles |->
     <<roles[i], round, Cardinality({h \in 1..i : roles[h] = roles[i]})>>]

\* MUTANT of Room: the lifetime budget is not asked.
RoomUnlimited(f) == MaxJobs

\* How many nodes the lifetime budget still has room for.
Room(f) == NodeMax - Len(f.nodes)

(***************************************************************************)
(* File writes a handler queues.  Deletions come as one set: their order    *)
(* does not matter.                                                         *)
(***************************************************************************)
Put(kind, jobs, node) == [kind |-> kind, jobs |-> jobs, node |-> node]
MintWrites(nodes) == [i \in DOMAIN nodes |-> Put("mint", {nodes[i].job}, nodes[i])]
SaveFlow == <<Put("flow", {}, None)>>
SaveOrLose == <<Put("save", {}, None)>>
Consume == <<Put("consume", {}, None)>>
Reap(jobs) == IF jobs = {} THEN <<>> ELSE <<Put("reap", jobs, None)>>

\* Successors of `at` that have not started: their job files are rewritten.
GateWrites(f, at, tail) ==
  LET nodes == Kept(f.nodes, {n \in Nodes(f) : at \in n.after /\ Unstarted(n.job)})
      moved == Regated(nodes, at, tail)
  IN  [i \in DOMAIN moved |-> Put("gate", {moved[i].job}, moved[i])]

\* MUTANT of Unreported: nothing is reaped.
UnreportedNone(f) == {}

\* reapUnstartedFlowJobs: jobs that never ran and never delivered.
Unreported(f) == {j \in Owned(f) : Unstarted(j) /\ ~ ReportExists(j)}

\* MUTANT of Orphans: jobs the flow does not know are left alone.
OrphansKept(f) == {}

\* reapOrphanFlowJobs: jobs that claim the flow and are not nodes of it.
Orphans(f) == {j \in JobIds \ Owned(f) : Unstarted(j) /\ ~ ReportExists(j)}

(***************************************************************************)
(* Insertion of a chain of roles after a node, and a fan-out group.         *)
(***************************************************************************)
ChainNodes(f, at, roles) ==
  LET ids == ChainIds(roles, f.round + 1)
  IN  [i \in DOMAIN roles |->
         NewNode(ids[i], {IF i = 1 THEN at ELSE ids[i - 1]}, None, NextJob + i - 1)]

\* MUTANT of Inserted: the round is not counted.
InsertedSameRound(f, at, roles) ==
  LET new == ChainNodes(f, at, roles)
  IN  [f EXCEPT !.nodes = Regated(@, at, new[Len(new)].id) \o new]

\* insertAfterNode when all the roles could be minted.
Inserted(f, at, roles) ==
  LET new == ChainNodes(f, at, roles)
  IN  [f EXCEPT !.round = @ + 1,
                !.nodes = Regated(@, at, new[Len(new)].id) \o new]

InsertWrites(f, at, roles) ==
  LET new == ChainNodes(f, at, roles)
  IN  MintWrites(new) \o GateWrites(f, at, new[Len(new)].id)

\* How many of them can be minted: the budget, and ten minutes to the deadline.
Mintable(f, roles) ==
  IF clock # "open" THEN 0
  ELSE IF Len(roles) <= Room(f) THEN Len(roles) ELSE Room(f)

\* applyEmissionLocked refuses a request that is not entirely in order.
EmissionFits(f, n) ==
  LET role == n.id[1] IN
  /\ role \in DOMAIN Emitters
  /\ report[n.job] = "ok" /\ emits[n.job] \in 1..Emitters[role].max
  /\ emits[n.job] + 1 <= Room(f)
  /\ clock = "open"

GroupNodes(f, n) ==
  LET spec == Emitters[n.id[1]]
      ids  == [i \in 1..emits[n.job] |-> <<spec.child, f.round + 1, i>>]
  IN  [i \in 1..emits[n.job] |-> NewNode(ids[i], {n.id}, n.id, NextJob + i - 1)]
        \o << NewNode(<<spec.fanIn, f.round + 1, 1>>, {ids[i] : i \in DOMAIN ids},
                      None, NextJob + emits[n.job]) >>

FanInID(f, n) == <<Emitters[n.id[1]].fanIn, f.round + 1, 1>>

\* MUTANT of Emitted: the stamp waits for the save at the end of the pass.
EmittedStampLater(f, i) ==
  LET n == f.nodes[i] IN
  [f EXCEPT !.round = @ + 1,
            !.nodes = Regated(@, n.id, FanInID(f, n)) \o GroupNodes(f, n)]

\* The node is stamped in the same flow the group is saved with.
Emitted(f, i) ==
  LET n == f.nodes[i] IN
  [f EXCEPT !.round = @ + 1,
            !.nodes = [Regated(@, n.id, FanInID(f, n)) EXCEPT ![i].seen = "ok"]
                        \o GroupNodes(f, n)]

(***************************************************************************)
(* Gates (profile.go and flowGateHold), read from the flow file.            *)
(***************************************************************************)
Named(f, id) == {n \in Nodes(f) : n.id = id}

FlowGateHold(j) ==
  /\ flow.status # "none"
  /\ \/ FlowTerminal(flow)
     \/ \E up \in job[j].after : \E n \in Named(flow, up) :
          \/ n.seen = "blocked" /\ n.by = None
          \/ n.seen = "" /\ ReportExists(n.job)

UpstreamWaveStatus(up) ==
  LET here == {j \in JobIds : Exists(j) /\ job[j].id = up} IN
  CASE \E j \in here : ReportExists(j) -> "success"
    [] here # {} /\ \A j \in here : ~ ReportExists(j) /\ JobTerminalNoReport(j)
         -> "failed"
    [] OTHER -> "pending"

GatedReadiness(j) ==
  LET Waves(s) == {up \in job[j].after : UpstreamWaveStatus(up) = s}
      Quorum == {up \in job[j].after : \E n \in Named(flow, up) : n.by # None}
  IN
  CASE ~ Waves("failed") \subseteq Quorum -> "failed"
    [] Waves("failed") # {} /\ Waves("success") = {} /\ Waves("pending") = {} -> "failed"
    [] Waves("failed") \subseteq Quorum /\ Waves("pending") # {} -> "pending"
    [] OTHER -> "success"

-----------------------------------------------------------------------------
Init ==
  /\ flow = NoFlow /\ mem = NoFlow
  /\ job = [j \in JobIds |-> [phase |-> "absent", gated |-> FALSE, after |-> {}, id |-> None]]
  /\ report = [j \in JobIds |-> "none"] /\ emits = [j \in JobIds |-> 0]
  /\ marks = [j \in JobIds |-> {}] /\ unit = [j \in JobIds |-> "none"]
  /\ clock = "open"
  /\ pc = "idle" /\ writes = <<>> /\ idx = 0 /\ total = 0 /\ left = {} /\ cur = 0
  /\ asks = 0 /\ spent = [k \in Events |-> 0]

files == <<flow, job, marks, asks>>
outside == <<sessions, clock>>
Computing == writes = <<>>

(***************************************************************************)
(* Handlers that take nsMu between ticks.                                   *)
(***************************************************************************)
StageId(k) ==
  <<Path[k][1], 0, Cardinality({i \in 1..k : Path[i][1] = Path[k][1]})>>

\* mintFlow: every member of a stage waits on every member of the one before.
Minted ==
  [k \in DOMAIN Path |->
     LET before == {i \in DOMAIN Path : Path[i][2] = Path[k][2] - 1}
     IN  NewNode(StageId(k), {StageId(i) : i \in before}, None, k)]

\* createFlowLocked: the node jobs first, then the flow file.  A flow that cannot
\* have all its nodes is refused and leaves nothing.
Create ==
  /\ pc = "idle" /\ Computing
  /\ Len(Path) <= NodeMax /\ clock = "open" /\ IdsLeft(Len(Path))
  /\ flow.status = "none" /\ \A j \in JobIds : job[j].phase = "absent"
  /\ mem' = [status |-> "queued", nodes |-> Minted, round |-> 0]
  /\ writes' = MintWrites(Minted) \o SaveFlow
  /\ UNCHANGED <<files, outside, pc, loop, spent>>

\* handleFlowStop: every job that has not started is deleted, then the status
\* is saved.  The running sessions are stopped after the unlock (see UnitExit).
Stop ==
  /\ pc = "idle" /\ Computing /\ Spend("stop")
  /\ flow.status # "none" /\ ~ FlowTerminal(flow)
  /\ mem' = [flow EXCEPT !.status = "stopped"]
  /\ writes' = Reap({j \in Owned(flow) : Unstarted(j)}) \o SaveOrLose
  /\ UNCHANGED <<files, outside, pc, loop>>

\* handleJobCancel takes any job that has not started, a flow's too.
Cancel(j) ==
  /\ pc = "idle" /\ Computing /\ Spend("cancel")
  /\ Unstarted(j)
  /\ job' = [job EXCEPT ![j].phase = "gone"]
  /\ UNCHANGED <<flow, mem, marks, outside, pc, writes, loop, asks>>

(***************************************************************************)
(* The file writes of the running handler, one at a time.                   *)
(***************************************************************************)
WriteMint ==
  /\ ~ Computing /\ Head(writes).kind = "mint"
  /\ LET w == Head(writes) IN
     job' = [j \in JobIds |->
               IF j \in w.jobs
               THEN [phase |-> "queued", gated |-> w.node.after # {},
                     after |-> w.node.after, id |-> w.node.id]
               ELSE job[j]]
  /\ writes' = Tail(writes)
  /\ UNCHANGED <<flow, mem, marks, asks, outside, pc, loop, spent>>

WriteGate ==
  /\ ~ Computing /\ Head(writes).kind = "gate"
  /\ LET w == Head(writes) IN
     job' = [j \in JobIds |-> IF j \in w.jobs THEN [job[j] EXCEPT !.after = w.node.after]
                              ELSE job[j]]
  /\ writes' = Tail(writes)
  /\ UNCHANGED <<flow, mem, marks, asks, outside, pc, loop, spent>>

WriteReap ==
  /\ ~ Computing /\ Head(writes).kind = "reap"
  /\ \E j \in Head(writes).jobs :
       /\ job' = [job EXCEPT ![j].phase = "gone"]
       /\ writes' = IF Head(writes).jobs = {j} THEN Tail(writes)
                    ELSE [writes EXCEPT ![1].jobs = @ \ {j}]
  /\ UNCHANGED <<flow, mem, marks, asks, outside, pc, loop, spent>>

\* The save that ends a handler may fail, which is not noticed.
WriteFlow ==
  /\ ~ Computing /\ Head(writes).kind \in {"flow", "save"}
  /\ \/ flow' = mem /\ UNCHANGED spent
     \/ Head(writes).kind = "save" /\ Spend("error") /\ UNCHANGED flow
  /\ writes' = Tail(writes)
  /\ UNCHANGED <<mem, job, marks, asks, outside, pc, loop>>

\* MUTANT of WriteConsumed: the request stays in the spool.
WriteConsumedNever ==
  /\ ~ Computing /\ Head(writes).kind = "consume"
  /\ writes' = Tail(writes)
  /\ UNCHANGED <<flow, mem, job, marks, asks, outside, pc, loop, spent>>

WriteConsumed ==
  /\ ~ Computing /\ Head(writes).kind = "consume"
  /\ asks' = asks - 1
  /\ writes' = Tail(writes)
  /\ UNCHANGED <<flow, mem, job, marks, outside, pc, loop, spent>>

Writing == WriteMint \/ WriteGate \/ WriteReap \/ WriteFlow \/ WriteConsumed

(***************************************************************************)
(* The tick: spool requests, then reconcileFlowsLocked.                     *)
(***************************************************************************)
\* nsMu is taken for the tick, or held by it since its spool requests.
Begins == pc \in {"idle", "spool"} /\ Computing

\* An append request: roles after the acceptance node, or a refusal that may
\* leave the jobs it did mint to the orphan reap.
SpoolAppend ==
  /\ Begins /\ asks > 0 /\ pc' = "spool"
  /\ IF flow.status = "none" \/ FlowTerminal(flow)
     THEN writes' = Consume /\ UNCHANGED mem
     ELSE LET at == AcceptanceID(flow)
              k  == Mintable(flow, AppendRoles)
          IN  /\ IdsLeft(k)
              /\ IF k = Len(AppendRoles)
                 THEN /\ mem' = Inserted(flow, at, AppendRoles)
                      /\ writes' = InsertWrites(flow, at, AppendRoles) \o SaveOrLose \o Consume
                 ELSE /\ writes' = MintWrites(SubSeq(ChainNodes(flow, at, AppendRoles), 1, k))
                                     \o Consume
                      /\ UNCHANGED mem
  /\ UNCHANGED <<files, outside, loop, spent>>

\* A decided flow is left alone; one past its deadline is ended.
ReconcileNothing ==
  /\ Begins /\ asks = 0
  /\ flow.status = "none" \/ FlowTerminal(flow)
  /\ pc' = "gate" /\ left' = JobIds
  /\ UNCHANGED <<files, mem, outside, writes, idx, total, cur, spent>>

ReconcileDeadline ==
  /\ Begins /\ asks = 0
  /\ flow.status \in {"queued", "running"} /\ clock = "past"
  /\ mem' = [flow EXCEPT !.status = "deadline"]
  /\ writes' = Reap(Unreported(flow)) \o SaveOrLose
  /\ pc' = "gate" /\ left' = JobIds
  /\ UNCHANGED <<files, outside, idx, total, cur, spent>>

ReconcileBegin ==
  /\ Begins /\ asks = 0
  /\ flow.status \in {"queued", "running"} /\ clock # "past"
  /\ mem' = flow
  /\ writes' = Reap(Orphans(flow))
  /\ pc' = "route" /\ idx' = 1 /\ total' = Len(flow.nodes)
  /\ UNCHANGED <<files, outside, left, cur, spent>>

(***************************************************************************)
(* The verdict pass: the nodes in order, those there were when it began.    *)
(* One with nothing new is passed over together with the next that has.     *)
(***************************************************************************)
\* A report with no verdict yet, of a session that is not over.
StillWriting(j) ==
  report[j] = "draft" /\ job[j].phase = "started" /\ ~ JobTerminalNoReport(j)

Ended(j) == ~ ReportExists(j) /\ Exists(j) /\ JobTerminalNoReport(j)
Delivered(j) == ReportExists(j) /\ ~ StillWriting(j)

News == {i \in idx..total : /\ mem.nodes[i].seen = ""
                            /\ Ended(mem.nodes[i].job) \/ Delivered(mem.nodes[i].job)}
At == CHOOSE i \in News : \A k \in News : i <= k
Here == mem.nodes[At]

Routing ==
  /\ pc = "route" /\ Computing /\ News # {} /\ mem.status # "blocked"
  /\ UNCHANGED <<files, outside, pc, total, left, cur>>

Stamped(v) == [mem EXCEPT !.nodes[At].seen = v]
Blocked(f) == [f EXCEPT !.status = "blocked"]
Onward(f, ws) == mem' = f /\ writes' = ws /\ idx' = At + 1

\* MUTANT of RouteEnded: only a report moves the chain.
RouteEndedNever ==
  /\ Routing /\ Ended(Here.job)
  /\ Onward(mem, <<>>)
  /\ UNCHANGED spent

\* MUTANT of RouteEnded: a dead attempt blocks the run like any other node.
RouteEndedBlocks ==
  /\ Routing /\ Ended(Here.job)
  /\ LET f == Stamped("terminal-no-report") IN Onward(Blocked(f), Reap(Unreported(f)))
  /\ UNCHANGED spent

\* Terminal without a report: an implicit blocked verdict, which an emitted
\* child may give without stopping the run.
RouteEnded ==
  /\ Routing /\ Ended(Here.job)
  /\ LET f == Stamped("terminal-no-report") IN
     IF Here.by = None THEN Onward(Blocked(f), Reap(Unreported(f))) ELSE Onward(f, <<>>)
  /\ UNCHANGED spent

\* An emitter's ok with a fan-out request that is in order.
RouteEmit ==
  /\ Routing /\ Delivered(Here.job) /\ EmissionFits(mem, Here)
  /\ IdsLeft(emits[Here.job] + 1)
  /\ Onward(Emitted(mem, At),
            MintWrites(GroupNodes(mem, Here))
              \o GateWrites(mem, Here.id, FanInID(mem, Here)) \o SaveFlow)
  /\ UNCHANGED spent

\* The verdict without a group; one that should have been minted and could not
\* be has been rolled back.
Verdict(v) ==
  /\ Routing /\ Delivered(Here.job) /\ report[Here.job] = v
  /\ IF EmissionFits(mem, Here) THEN Spend("error") ELSE UNCHANGED spent

Seen(v) == IF v = "draft" THEN "none" ELSE v
Deciding == Here.id = AcceptanceID(mem)

RouteComplete ==
  /\ Verdict("complete") /\ Deciding
  /\ Onward([Stamped("complete") EXCEPT !.status = "complete"], <<>>)

RouteUndecided(v) ==
  /\ Verdict(v) /\ Deciding
  /\ LET f == Stamped(Seen(v)) IN Onward(Blocked(f), Reap(Unreported(f)))

\* blocked in mid-chain: only an emitted child may say it and the run go on.
RouteBlocked ==
  /\ Verdict("blocked") /\ ~ Deciding
  /\ LET f == Stamped("blocked") IN
     IF Here.by = None THEN Onward(Blocked(f), Reap(Unreported(f))) ELSE Onward(f, <<>>)

\* needs-work of the acceptance node is a remediation round by default; in
\* mid-chain it is the roles of a declared edge, or nothing.
Exception ==
  LET role == Here.id[1] IN
  IF role \in DOMAIN Edges THEN Edges[role]
  ELSE IF Deciding THEN <<"amend", "validate">> ELSE <<>>

RouteNeedsWork ==
  /\ Verdict("needs-work")
  /\ LET f == Stamped("needs-work")
         k == Mintable(mem, Exception)
         new == ChainNodes(f, Here.id, Exception)
         failed == Blocked([f EXCEPT !.round = @ + 1, !.nodes = @ \o SubSeq(new, 1, k)])
         g == Inserted(f, Here.id, Exception)
     IN  /\ IdsLeft(k)
         /\ IF Exception = <<>> THEN Onward(f, <<>>)
            ELSE IF k < Len(Exception)
            THEN Onward(failed, MintWrites(SubSeq(new, 1, k))
                                  \o Reap(Unreported(f) \cup {new[i].job : i \in 1..k}))
            ELSE Onward(IF Deciding THEN [g EXCEPT !.status = "running"] ELSE g,
                        InsertWrites(f, Here.id, Exception))

\* ok, complete or no verdict in mid-chain: the next node may go.
RouteProceed(v) ==
  /\ Verdict(v) /\ ~ Deciding
  /\ Onward(Stamped(Seen(v)), <<>>)

\* The status pass, and the save when something changed.
StatusPass ==
  /\ pc = "route" /\ Computing
  /\ News = {} \/ mem.status = "blocked"
  /\ LET jobs == Owned(mem)
         last == CHOOSE n \in Nodes(mem) : n.id = AcceptanceID(mem)
         Skip(j) == marks[j] \cap {"depskip", "authfail"} # {} \/ job[j].phase = "skipped"
         progressed == \E j \in jobs : ReportExists(j) \/ job[j].phase = "started"
         dead == \/ Exists(last.job) /\ Skip(last.job)
                 \/ (\E j \in jobs : Exists(j) /\ Skip(j)) /\ ~ progressed
         f == [mem EXCEPT !.status =
                 IF @ \in {"blocked", "complete"} THEN @
                 ELSE IF dead THEN "blocked"
                 ELSE IF progressed THEN "running" ELSE @]
     IN  mem' = f /\ writes' = IF f = flow THEN <<>> ELSE SaveOrLose
  /\ pc' = "gate" /\ left' = JobIds /\ idx' = 0 /\ total' = 0
  /\ UNCHANGED <<files, outside, cur, spent>>

(***************************************************************************)
(* The maintenance loop over the queued jobs.  The verdict hold and the     *)
(* readiness of a gated job are two reads of the reports.  The newest job   *)
(* comes first (the code fixes no order for those minted in one instant).   *)
(***************************************************************************)
ToVisit == {j \in left : job[j].phase = "queued"}
Visiting(j) == pc = "gate" /\ Computing /\ j \in ToVisit /\ j = Highest(ToVisit)

VisitHeld(j) ==
  /\ Visiting(j) /\ job[j].gated /\ FlowGateHold(j)
  /\ left' = left \ {j}
  /\ UNCHANGED <<files, mem, outside, pc, writes, idx, total, cur, spent>>

VisitGated(j) ==
  /\ Visiting(j) /\ job[j].gated /\ ~ FlowGateHold(j)
  /\ left' = left \ {j} /\ cur' = j /\ pc' = "ready"
  /\ UNCHANGED <<files, mem, outside, writes, idx, total, spent>>

DepSkip(j) ==
  /\ job' = [job EXCEPT ![j].phase = "skipped", ![j].gated = FALSE]
  /\ marks' = [marks EXCEPT ![j] = @ \cup {"depskip"}]

\* ensureFlowNodeWorktree needs the flow file.
NoWorktree == (flow.status = "none" /\ UNCHANGED spent) \/ Spend("error")

Visited == /\ pc' = "gate" /\ cur' = 0
           /\ UNCHANGED <<flow, mem, asks, outside, writes, idx, total, left>>

VisitUngate ==
  /\ pc = "ready" /\ GatedReadiness(cur) = "success" /\ clock = "open" /\ flow.status # "none"
  /\ job' = [job EXCEPT ![cur].gated = FALSE, ![cur].after = {}]
  /\ UNCHANGED <<marks, spent>> /\ Visited

VisitDepSkip ==
  /\ pc = "ready"
  /\ \/ GatedReadiness(cur) = "failed" /\ UNCHANGED spent
     \/ GatedReadiness(cur) = "success" /\ clock # "open" /\ UNCHANGED spent
     \/ GatedReadiness(cur) = "success" /\ clock = "open" /\ NoWorktree
  /\ DepSkip(cur) /\ Visited

VisitPending ==
  /\ pc = "ready" /\ GatedReadiness(cur) = "pending"
  /\ UNCHANGED <<job, marks, spent>> /\ Visited

VisitUngated(j) ==
  /\ Visiting(j) /\ ~ job[j].gated
  /\ left' = left \ {j}
  /\ \/ clock # "open" /\ DepSkip(j) /\ UNCHANGED spent
     \/ clock = "open" /\ NoWorktree /\ DepSkip(j)
     \/ clock = "open" /\ flow.status # "none" /\ UNCHANGED <<job, marks, spent>>
  /\ UNCHANGED <<flow, mem, asks, outside, pc, writes, idx, total, cur>>

VisitsDone ==
  /\ pc = "gate" /\ Computing /\ ToVisit = {}
  /\ pc' = "launch" /\ left' = {} /\ mem' = NoFlow
  /\ UNCHANGED <<files, outside, writes, idx, total, cur, spent>>

(***************************************************************************)
(* One launch per tick, at most, and the watchdog.                          *)
(***************************************************************************)
Launch(j) ==
  /\ pc = "launch"
  /\ job[j].phase = "queued" /\ ~ job[j].gated
  /\ Cardinality({i \in JobIds : JobWorking(i)}) < Cap
  /\ unit[j] # "active"
  /\ unit' = [unit EXCEPT ![j] = "active"]
  /\ cur' = j /\ pc' = "mark"
  /\ UNCHANGED <<files, mem, report, emits, clock, writes, idx, total, left, spent>>

MarkStarted ==
  /\ pc = "mark"
  /\ job' = [job EXCEPT ![cur].phase = "started"]
  /\ cur' = 0 /\ pc' = "watch"
  /\ UNCHANGED <<flow, mem, marks, asks, outside, writes, idx, total, left, spent>>

\* runWatchdog releases the runs it probes and finds dead without a report.
\* The tick may have launched nothing, or not been let to by the queue.
TickEnd ==
  /\ pc \in {"launch", "watch"}
  /\ \E found \in SUBSET {j \in JobIds : JobWorking(j) /\ unit[j] # "active"} :
       marks' = [j \in JobIds |-> IF j \in found THEN marks[j] \cup {"watchdog"} ELSE marks[j]]
  /\ pc' = "idle"
  /\ UNCHANGED <<flow, mem, job, asks, outside, writes, loop, spent>>

(***************************************************************************)
(* What happens outside the lock.  Sessions move between any two steps of a *)
(* tick that read what they leave behind; file writes and launches read     *)
(* none of it, and the spool and the clock are read once a tick.            *)
(***************************************************************************)
Inside == <<mem, pc, writes, loop>>
Outside == Computing /\ pc \in {"idle", "route", "gate", "ready"}

\* A session keeps its report current: without a verdict first, perhaps.  What
\* it does after its verdict is of no consequence to the flow.
Report(j, v, n) ==
  /\ Outside /\ unit[j] = "active" /\ report[j] \in {"none", "draft"} /\ report[j] # v
  /\ report' = [report EXCEPT ![j] = v]
  /\ emits' = [emits EXCEPT ![j] = n]
  /\ unit' = IF v = "draft" THEN unit ELSE [unit EXCEPT ![j] = "dead"]
  /\ UNCHANGED <<files, clock, Inside, spent>>

\* The launcher's pre-flight fails: a report and a marker, and no session.
AuthFail(j) ==
  /\ Outside /\ unit[j] = "active" /\ report[j] = "none" /\ Spend("auth")
  /\ report' = [report EXCEPT ![j] = "draft"]
  /\ marks' = [marks EXCEPT ![j] = @ \cup {"authfail"}]
  /\ unit' = [unit EXCEPT ![j] = "dead"]
  /\ UNCHANGED <<flow, job, asks, emits, clock, Inside>>

\* The session exits, is stopped, or its auto-stop timer fires.
UnitExit(j) ==
  /\ Outside /\ unit[j] = "active"
  /\ unit' = [unit EXCEPT ![j] = "dead"]
  /\ UNCHANGED <<files, report, emits, clock, Inside, spent>>

\* The auto-stop window of a run without a verdict, and ten minutes, are past.
WindowPast(j) ==
  /\ pc = "idle" /\ Computing
  /\ job[j].phase = "started" /\ unit[j] = "dead" /\ report[j] \in {"none", "draft"}
  /\ marks[j] = {}
  /\ marks' = [marks EXCEPT ![j] = @ \cup {"over"}]
  /\ UNCHANGED <<flow, job, asks, outside, Inside, spent>>

RequestAppend ==
  /\ pc = "idle" /\ Computing /\ Spend("append")
  /\ asks' = asks + 1
  /\ UNCHANGED <<flow, job, marks, outside, Inside>>

DeadlineNears ==
  /\ HasDeadline /\ pc = "idle" /\ Computing /\ clock # "past"
  /\ clock' = IF clock = "open" THEN "near" ELSE "past"
  /\ UNCHANGED <<files, sessions, Inside, spent>>

\* handleFlowDeadline: the deadline of a live flow is moved or lifted.
MoveDeadline ==
  /\ HasDeadline /\ pc = "idle" /\ Computing /\ Spend("move")
  /\ flow.status \in {"queued", "running"}
  /\ clock # "open" /\ clock' = "open"
  /\ UNCHANGED <<files, sessions, Inside>>

\* The control plane dies: what it computed is gone, what it wrote stays.  (In
\* the other phases a crash loses nothing but the rest of the tick.)
Crash ==
  /\ ~ Computing \/ pc \in {"route", "mark"}
  /\ Spend("crash")
  /\ pc' = "idle" /\ mem' = NoFlow /\ writes' = <<>>
  /\ idx' = 0 /\ total' = 0 /\ left' = {} /\ cur' = 0
  /\ UNCHANGED <<files, outside>>

Route ==
  \/ RouteEnded \/ RouteEmit \/ RouteComplete \/ RouteBlocked
  \/ RouteNeedsWork
  \/ \E v \in {"draft", "ok", "blocked"} : RouteUndecided(v)
  \/ \E v \in {"draft", "ok", "complete"} : RouteProceed(v)

Visit ==
  \/ \E j \in JobIds : VisitHeld(j) \/ VisitGated(j) \/ VisitUngated(j)
  \/ VisitUngate \/ VisitDepSkip \/ VisitPending \/ VisitsDone

Tick ==
  \/ SpoolAppend
  \/ ReconcileNothing \/ ReconcileDeadline \/ ReconcileBegin
  \/ Route \/ StatusPass \/ Visit
  \/ MarkStarted \/ TickEnd

Session(j) ==
  \/ /\ unit[j] # "none" /\ job[j].id[1] \in DOMAIN Answers
     /\ \E a \in Answers[job[j].id[1]] : Report(j, a[1], a[2])
  \/ AuthFail(j) \/ UnitExit(j) \/ WindowPast(j)

Next ==
  \/ Create \/ Stop \/ RequestAppend \/ DeadlineNears \/ MoveDeadline \/ Crash
  \/ Writing \/ Tick
  \/ \E j \in JobIds : Cancel(j) \/ Launch(j) \/ Session(j)

\* The auto-stop timer of a started session fires, and time passes.  No timer
\* vouches for a session whose stamp was lost: the next dispatch of its job stops
\* the timer, and then finds the unit there (nightshift-rc:165, 187).
TimeIsUp(j) == (job[j].phase = "started" /\ UnitExit(j)) \/ WindowPast(j)

\* The ticker goes on ticking and a tick ends; the launch queue admits a job of
\* the flow if there is one tick after tick; a session that has its timer ends.
Fairness ==
  /\ WF_vars(Writing \/ Tick)
  /\ SF_vars(\E j \in JobIds : Launch(j))
  /\ SF_vars(\E j \in JobIds : TimeIsUp(j))

Spec == Init /\ [][Next]_vars
FairSpec == Spec /\ Fairness

-----------------------------------------------------------------------------
Statuses == {"none", "queued", "running", "complete", "blocked", "deadline", "stopped"}

\* Types of the state: files, sessions, the tick and its pending writes.  The
\* saved graph is well formed: node ids are distinct, upstreams are nodes.
TypeOK ==
  /\ flow.status \in Statuses /\ mem.status \in Statuses
  /\ Owned(flow) \cup Owned(mem) \subseteq JobIds
  /\ Cardinality({n.id : n \in Nodes(flow)}) = Len(flow.nodes)
  /\ UNION {n.after : n \in Nodes(flow)} \subseteq {n.id : n \in Nodes(flow)}
  /\ \A j \in JobIds :
       /\ job[j].phase \in {"absent", "queued", "started", "skipped", "gone"}
       /\ job[j].gated \in BOOLEAN
       /\ report[j] \in {"none", "draft", "ok", "needs-work", "blocked", "complete"} /\ emits[j] \in Nat
       /\ marks[j] \subseteq {"authfail", "depskip", "watchdog", "over"}
       /\ unit[j] \in {"none", "active", "dead"}
  /\ clock \in {"open", "near", "past"}
  /\ pc \in {"idle", "spool", "route", "gate", "ready", "launch", "mark", "watch"}
  /\ left \subseteq JobIds /\ cur \in 0..MaxJobs
  /\ \A i \in DOMAIN writes : writes[i].jobs \subseteq JobIds
  /\ asks \in 0..Bound["append"] /\ \A k \in Events : spent[k] \in 0..Bound[k]

\* The lifetime budget bounds the nodes of a run and the sessions it ever
\* starts, whatever crashes between the writes of an insertion.
BudgetHolds ==
  /\ Len(flow.nodes) <= NodeMax
  /\ Cardinality({j \in JobIds : unit[j] # "none"}) <= NodeMax

\* A session is started only for a job the flow file knows as a node: a crash
\* that leaves job files behind never turns one into a phantom session.
SessionsOwned == {j \in JobIds : unit[j] # "none"} \subseteq Owned(flow)

\* A verdict is acted on once: every round of nodes beyond the happy path is
\* owed to a needs-work verdict, an emission or an append request (one that is
\* read again because a crash came before its removal), and an emitter has one
\* group.
ActedOnce ==
  /\ Cardinality({n.id[2] : n \in Nodes(flow)} \ {0}) <=
       Cardinality({n \in Nodes(flow) : n.seen = "needs-work"})
         + Cardinality({n.by : n \in Nodes(flow)} \ {None})
         + spent["append"] + spent["crash"]
  /\ \A m, n \in Nodes(flow) : m.by = n.by /\ m.by # None => m.id[2] = n.id[2]

\* A complete run is one whose acceptance node, the last that nothing in the
\* saved graph depends on, reported complete.
AcceptanceDecides ==
  flow.status = "complete" =>
    \E i \in DOMAIN flow.nodes :
      LET n == flow.nodes[i]
          Free(k) == \A m \in Nodes(flow) : flow.nodes[k].id \notin m.after
      IN  /\ Free(i) /\ \A k \in DOMAIN flow.nodes : k > i => ~ Free(k)
          /\ n.seen = "complete" /\ report[n.job] = "complete"

\* A run is blocked for a cause a node of the plan gave, by a needs-work verdict
\* whose roles could not be minted, or by an acceptance node that did not decide;
\* never by an emitted attempt that fails or reports blocked.
BlockedForCause ==
  flow.status = "blocked" =>
    \E n \in Nodes(flow) :
      \/ n.by = None /\ n.seen \in {"blocked", "terminal-no-report"}
      \/ n.seen = "needs-work" /\ (n.by = None \/ n.id[1] \in DOMAIN Edges)
      \/ n.id = AcceptanceID(flow) /\ n.seen \in {"ok", "none"}

\* A run that was blocked, stopped or timed out holds no job that could still
\* start and never delivered.
TerminalReaped ==
  flow.status \in {"blocked", "stopped", "deadline"} =>
    \A j \in Owned(flow) : Unstarted(j) => ReportExists(j)

\* A complete run has no node left that was inserted to address a needs-work
\* verdict and never ran.
CompleteIsAddressed ==
  flow.status = "complete" =>
    \A n \in Nodes(flow) : n.id[2] > 0 => ReportExists(n.job)

\* A session skipped for dead credentials blocks its run like any other node
\* that ended without a result.
AuthSkipBlocks ==
  \A n \in Nodes(flow) :
    n.by = None /\ n.seen # "" /\ "authfail" \in marks[n.job] => FlowTerminal(flow)

\* A live session of a job that is still queued: between its dispatch and its
\* stamp, or for as long as it likes after a crash has lost the stamp.
Untimed == \E j \in JobIds : job[j].phase = "queued" /\ unit[j] = "active"

\* A run is decided sooner or later: no chain waits for ever on a report that
\* will not come, unless it is that of a session which never ends and whose
\* stamp, and with it its timer, a crash has lost.
Decided ==
  []<>(~ Untimed) => (flow.status \in {"queued", "running"} ~> FlowTerminal(flow))
=============================================================================
