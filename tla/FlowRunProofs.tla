--------------------------- MODULE FlowRunProofs ---------------------------
(***************************************************************************)
(* Types are kept by every step of FlowRun: the flow file and the handler's *)
(* copy of it are within the lifetime budget, the job files and sessions    *)
(* are what they should be, what is left to write is a plan in order.       *)
(*                                                                          *)
(* Most of it is what the handlers that insert nodes do, said once for all  *)
(* of them (Acts, CreateStep, SpoolStep, EndStep, StatusPassStep).          *)
(***************************************************************************)
EXTENDS FlowRunPlans

Reports == {"none", "draft", "ok", "needs-work", "blocked", "complete"}
Marks == {"authfail", "depskip", "watchdog", "over"}
Units == {"none", "active", "dead"}
Clocks == {"open", "near", "past"}
Pcs == {"idle", "spool", "route", "gate", "ready", "launch", "mark", "watch"}

(***************************************************************************)
(* Types.  A flow has no nodes exactly when there is none, it is within its *)
(* budget, and no node is of a round that has not been counted.             *)
(***************************************************************************)
Fits(f) ==
  /\ Len(f.nodes) <= NodeMax
  /\ f.status = "none" => f.nodes = <<>> /\ f.round = 0
  /\ f.nodes = <<>> => f.status = "none"
  /\ \A i \in 1..Len(f.nodes) : f.nodes[i].id[2] <= f.round

FlowsTyped == flow \in Flow /\ mem \in Flow /\ Fits(flow) /\ Fits(mem)
JobsTyped == job \in [JobIds -> JobFile]
SessionsTyped ==
  /\ report \in [JobIds -> Reports] /\ emits \in [JobIds -> Nat]
  /\ marks \in [JobIds -> SUBSET Marks] /\ unit \in [JobIds -> Units] /\ clock \in Clocks
LoopTyped ==
  /\ idx \in Nat /\ total \in Nat /\ left \subseteq JobIds /\ cur \in 0..MaxJobs /\ pc \in Pcs
  /\ pc = "route" => /\ idx # 0 /\ total <= Len(flow.nodes)
                     /\ Len(flow.nodes) <= Len(mem.nodes) /\ mem.nodes # <<>>
Typed == FlowsTyped /\ JobsTyped /\ SessionsTyped /\ Plan(writes) /\ LoopTyped

LEMMA NoFlowFits == NoFlow \in Flow /\ Fits(NoFlow) /\ NoFlow.nodes = <<>>
<1>1. NoFlow \in Flow /\ NoFlow.nodes = <<>>
  BY DEF NoFlow, Flow, Statuses
<1>2. Len(<<>>) = 0 /\ NodeMax \in Nat
  BY FlowAssumption
<1>3. NoFlow.nodes = <<>> /\ NoFlow.round = 0 /\ NoFlow.status = "none"
  BY DEF NoFlow
<1>4. Fits(NoFlow)
  BY <1>2, <1>3 DEF Fits
<1> QED BY <1>1, <1>4

LEMMA InitTyped == Init => Typed
<1> SUFFICES ASSUME Init PROVE Typed
  OBVIOUS
<1>1. FlowsTyped
  BY NoFlowFits DEF Init, FlowsTyped
<1>2. JobsTyped
  <2>1. [phase |-> "absent", gated |-> FALSE, after |-> {}, id |-> None] \in JobFile
    BY DEF JobFile, Phases, None
  <2> QED BY <2>1 DEF Init, JobsTyped
<1>3. SessionsTyped
  BY DEF Init, SessionsTyped, Reports, Marks, Units, Clocks
<1>4. LoopTyped
  BY FlowAssumption DEF Init, LoopTyped, Pcs
<1>5. Plan(writes)
  BY ShortPlans DEF Init
<1> QED BY <1>1, <1>2, <1>3, <1>4, <1>5 DEF Typed

\* What a handler inserts into a flow that fits fits, within the budget.
LEMMA InsertionFits ==
  ASSUME NEW f \in Flow, NEW g, NEW at, NEW ws, Fits(f), Insertion(f, g, at, ws),
         f.nodes # <<>>, Len(g.nodes) <= NodeMax, g.status # "none"
  PROVE  g \in Flow /\ Fits(g) /\ g.nodes # <<>> /\ Plan(ws)
<1>1. /\ g \in Flow /\ Plan(ws) /\ Len(f.nodes) <= Len(g.nodes) /\ f.round <= g.round
      /\ \A i \in 1..Len(f.nodes) : g.nodes[i].id = f.nodes[i].id
      /\ \A i \in 1..Len(g.nodes) : i > Len(f.nodes) =>
           g.nodes[i].id[2] = f.round + 1 /\ g.round = f.round + 1
  BY DEF Insertion, Extends
<1>2. Len(f.nodes) \in Nat \ {0} /\ Len(g.nodes) \in Nat /\ f.round \in Nat /\ g.round \in Nat
  BY <1>1, LenProperties, EmptySeq DEF Flow
<1>3. g.nodes # <<>>
  BY <1>1, <1>2
<1>4. \A i \in 1..Len(g.nodes) : g.nodes[i].id[2] <= g.round
  <2> SUFFICES ASSUME NEW i \in 1..Len(g.nodes) PROVE g.nodes[i].id[2] <= g.round
    OBVIOUS
  <2>1. CASE i > Len(f.nodes)
    BY <1>1, <1>2, <2>1
  <2>2. CASE i <= Len(f.nodes)
    <3>1. i \in 1..Len(f.nodes)
      BY <1>2, <2>2
    <3>2. f.nodes[i].id[2] <= f.round
      BY <3>1 DEF Fits
    <3>3. f.nodes[i].id \in Id
      <4>1. f.nodes[i] \in Node
        BY <3>1, ElementOfSeq DEF Flow
      <4> QED BY <4>1 DEF Node
    <3>4. f.nodes[i].id[2] \in Nat
      BY <3>3 DEF Id
    <3>5. g.nodes[i].id[2] = f.nodes[i].id[2]
      BY <1>1, <3>1
    <3> QED BY <1>1, <1>2, <3>2, <3>4, <3>5
  <2> QED BY <1>2, <2>1, <2>2
<1>5. Fits(g)
  BY <1>3, <1>4 DEF Fits
<1> QED BY <1>1, <1>3, <1>5

(***************************************************************************)
(* What the verdict pass makes of a node with news: a stamp, jobs to        *)
(* delete, or one round of nodes behind it.                                 *)
(***************************************************************************)
Acts(i) ==
  /\ i \in 1..total
  /\ Insertion(mem, mem', mem.nodes[i].id, writes') /\ Restamped(mem, mem')
  /\ Len(mem'.nodes) <= NodeMax /\ mem'.status # "none"
  /\ \A w \in Range(writes') :
       /\ w.kind \in {"mint", "gate", "reap", "flow"}
       /\ w.kind \in {"mint", "gate"} => ReportExists(mem.nodes[i].job)

\* It is at one of the nodes the saved flow has, and that one has no verdict.
LEMMA HereIsNode ==
  ASSUME Typed, Routing
  PROVE  /\ At \in 1..total /\ At \in 1..Len(flow.nodes) /\ At \in 1..Len(mem.nodes)
         /\ Here \in Node /\ Here.id \in Id /\ Here.job \in JobIds
         /\ mem.status # "none" /\ mem \in Flow /\ Fits(mem) /\ mem.nodes # <<>>
<1>1. /\ pc = "route" /\ News # {} /\ mem \in Flow /\ Fits(mem) /\ flow \in Flow
      /\ idx \in Nat \ {0} /\ total \in Nat /\ mem.nodes # <<>>
      /\ total <= Len(flow.nodes) /\ Len(flow.nodes) <= Len(mem.nodes)
  BY DEF Routing, Typed, LoopTyped, FlowsTyped
<1>2. At \in idx..total
  BY <1>1, AtIsNews
<1>3. Len(flow.nodes) \in Nat /\ Len(mem.nodes) \in Nat /\ mem.nodes \in Seq(Node)
  BY <1>1, LenProperties DEF Flow
<1>4. At \in 1..total /\ At \in 1..Len(flow.nodes) /\ At \in 1..Len(mem.nodes)
  BY <1>1, <1>2, <1>3
<1>5. Here \in Node
  BY <1>3, <1>4, ElementOfSeq DEF Here
<1>6. Here.id \in Id /\ Here.job \in JobIds
  BY <1>5 DEF Node
<1>7. mem.status # "none"
  BY <1>1 DEF Fits
<1> QED BY <1>1, <1>4, <1>5, <1>6, <1>7

LEMMA HereIsUnseen ==
  ASSUME Typed, Routing
  PROVE  Here.seen = ""
<1>1. At \in News
  BY AtIsNews DEF Routing, Typed, LoopTyped
<1> QED BY <1>1, Zenon DEF News, Here

LEMMA UnreportedJobs ==
  ASSUME NEW f \in Flow
  PROVE  Unreported(f) \in SUBSET JobIds /\ Owned(f) \in SUBSET JobIds
<1>1. \A n \in Nodes(f) : n.job \in JobIds
  <2>1. f.nodes \in Seq(Node) /\ DOMAIN f.nodes = 1..Len(f.nodes)
    BY LenProperties DEF Flow
  <2>2. \A i \in DOMAIN f.nodes : f.nodes[i] \in Node
    BY <2>1, ElementOfSeq
  <2> QED BY <2>2 DEF Nodes, Node
<1> QED BY <1>1 DEF Unreported, Owned

LEMMA StampActs ==
  ASSUME Typed, Routing, NEW v \in Verdicts, NEW g, NEW ws, Onward(g, ws),
         g = Stamped(v) \/ \E s \in Endings : g = WithStatus(Stamped(v), s),
         ws = <<>> \/ \E J \in SUBSET JobIds : ws = Reap(J)
  PROVE  Acts(At)
<1>1. /\ At \in 1..total /\ At \in 1..Len(mem.nodes) /\ mem.status # "none"
      /\ mem \in Flow /\ Fits(mem) /\ Here = mem.nodes[At]
  BY HereIsNode DEF Here
<1>2. mem' = g /\ writes' = ws
  BY DEF Onward
<1>3. Plan(ws) /\ \A w \in Range(ws) : w.kind = "reap"
  BY ShortPlans, ReapPlan
<1>4. Stamped(v) = Stamp(mem, At, v)
  BY DEF Stamped, Stamp
<1>5. /\ Insertion(mem, g, Here.id, ws) /\ Len(g.nodes) = Len(mem.nodes) /\ Restamped(mem, g)
      /\ g.status \in {mem.status} \cup Endings
  <2> DEFINE h == Stamped(v)
             at == Here.id
  <2>1. h = Stamp(mem, At, v) /\ (g = h \/ \E s \in Endings : g = WithStatus(h, s))
    BY <1>4
  <2> HIDE DEF h, at
  <2>2. /\ Insertion(mem, g, at, ws) /\ Len(g.nodes) = Len(mem.nodes) /\ Restamped(mem, g)
        /\ g.status \in {mem.status} \cup Endings
    BY <1>1, <1>3, <2>1, StampedStep, ZenonT(40)
  <2> QED BY <2>2 DEF at
<1>6. Len(g.nodes) <= NodeMax
  BY <1>1, <1>5 DEF Fits
<1>7. g.status # "none"
  BY <1>1, <1>5 DEF Endings
<1> QED BY <1>1, <1>2, <1>3, <1>5, <1>6, <1>7 DEF Acts

LEMMA StampRoutes ==
  ASSUME Typed,
         \/ RouteEnded \/ RouteComplete \/ RouteBlocked
         \/ \E v \in {"draft", "ok", "blocked"} : RouteUndecided(v)
         \/ \E v \in {"draft", "ok", "complete"} : RouteProceed(v)
  PROVE  Acts(At)
<1>1. ASSUME Routing, NEW v \in Verdicts
      PROVE  Unreported(Stamped(v)) \in SUBSET JobIds
  <2>1. mem \in Flow /\ At \in 1..Len(mem.nodes)
    BY <1>1, HereIsNode
  <2> DEFINE h == Stamped(v)
  <2>2. h = Stamp(mem, At, v)
    BY DEF Stamped, Stamp
  <2> HIDE DEF h
  <2>3. h \in Flow
    BY <1>1, <2>1, <2>2, StampedFlow
  <2> QED BY <2>3, UnreportedJobs DEF h
<1>2. ASSUME Routing, NEW v \in Verdicts,
             \/ Onward(Stamped(v), <<>>)
             \/ Onward(Blocked(Stamped(v)), Reap(Unreported(Stamped(v))))
             \/ Onward([Stamped(v) EXCEPT !.status = "complete"], <<>>)
      PROVE  Acts(At)
  <2> DEFINE h == Stamped(v)
             J == Unreported(h)
  <2>1. J \in SUBSET JobIds
    BY <1>1, <1>2
  <2>2. Blocked(h) = WithStatus(h, "blocked") /\ [h EXCEPT !.status = "complete"] = WithStatus(h, "complete")
    BY DEF Blocked, WithStatus
  <2> DEFINE b == WithStatus(h, "blocked")
             c == WithStatus(h, "complete")
  <2>3. \/ Onward(h, <<>>) \/ Onward(b, Reap(J)) \/ Onward(c, <<>>)
    BY <1>2, <2>2
  <2>4. (\E s \in Endings : b = WithStatus(h, s)) /\ (\E s \in Endings : c = WithStatus(h, s))
    BY DEF Endings
  <2> HIDE DEF J, b, c
  <2>5. CASE Onward(h, <<>>)
    BY <1>2, <2>5, StampActs
  <2>6. CASE Onward(b, Reap(J))
    BY <1>2, <2>1, <2>4, <2>6, StampActs
  <2>7. CASE Onward(c, <<>>)
    BY <1>2, <2>4, <2>7, StampActs
  <2> QED BY <2>3, <2>5, <2>6, <2>7
<1>3. {"terminal-no-report", "complete", "blocked", "ok", "none"} \subseteq Verdicts
  BY DEF Verdicts, Stamps
<1>4. CASE RouteEnded
  <2> DEFINE v == "terminal-no-report"
  <2>1. Routing /\ v \in Verdicts
    BY <1>3, <1>4 DEF RouteEnded
  <2>2. \/ Onward(Stamped(v), <<>>) \/ Onward(Blocked(Stamped(v)), Reap(Unreported(Stamped(v))))
    BY <1>4, Zenon DEF RouteEnded
  <2> HIDE DEF v
  <2> QED BY <1>2, <2>1, <2>2
<1>5. CASE RouteComplete
  <2> DEFINE v == "complete"
  <2>1. Routing /\ v \in Verdicts /\ Onward([Stamped(v) EXCEPT !.status = "complete"], <<>>)
    BY <1>3, <1>5, Zenon DEF RouteComplete, Verdict
  <2> HIDE DEF v
  <2> QED BY <1>2, <2>1
<1>6. CASE RouteBlocked
  <2> DEFINE v == "blocked"
  <2>1. Routing /\ v \in Verdicts
    BY <1>3, <1>6 DEF RouteBlocked, Verdict
  <2>2. \/ Onward(Stamped(v), <<>>) \/ Onward(Blocked(Stamped(v)), Reap(Unreported(Stamped(v))))
    BY <1>6, Zenon DEF RouteBlocked
  <2> HIDE DEF v
  <2> QED BY <1>2, <2>1, <2>2
<1>7. ASSUME NEW u \in {"draft", "ok", "blocked"}, RouteUndecided(u)
      PROVE  Acts(At)
  <2> DEFINE v == Seen(u)
  <2>1. Routing /\ v \in Verdicts
    BY <1>3, <1>7 DEF RouteUndecided, Verdict, Seen
  <2>2. Onward(Blocked(Stamped(v)), Reap(Unreported(Stamped(v))))
    BY <1>7, Zenon DEF RouteUndecided
  <2> HIDE DEF v
  <2> QED BY <1>2, <2>1, <2>2
<1>8. ASSUME NEW u \in {"draft", "ok", "complete"}, RouteProceed(u)
      PROVE  Acts(At)
  <2> DEFINE v == Seen(u)
  <2>1. Routing /\ v \in Verdicts
    BY <1>3, <1>8 DEF RouteProceed, Verdict, Seen
  <2>2. Onward(Stamped(v), <<>>)
    BY <1>8, Zenon DEF RouteProceed
  <2> HIDE DEF v
  <2> QED BY <1>2, <2>1, <2>2
<1> QED BY <1>4, <1>5, <1>6, <1>7, <1>8

\* The roles a needs-work verdict inserts are roles there are.
LEMMA ExceptionRoles ==
  Exception \in Seq(Roles)
<1> DEFINE r == <<"amend", "validate">>
<1>1. r \in Seq(Roles)
  BY FlowAssumption
<1>2. <<>> \in Seq(Roles)
  OBVIOUS
<1>3. \A role \in DOMAIN Edges : Edges[role] \in Seq(Roles)
  BY FlowAssumption
<1> HIDE DEF r
<1>4. Exception = IF Here.id[1] \in DOMAIN Edges THEN Edges[Here.id[1]]
                  ELSE IF Deciding THEN r ELSE <<>>
  BY DEF Exception, r
<1> QED BY ONLY <1>1, <1>2, <1>3, <1>4, Zenon

\* An insertion into the stamped flow is one into the flow.
LEMMA StampedInsertion ==
  ASSUME Typed, Routing, NEW v \in Verdicts, NEW h, h = Stamped(v),
         NEW g, NEW ws, Insertion(h, g, Here.id, ws), Restamped(h, g)
  PROVE  Insertion(mem, g, Here.id, ws) /\ Restamped(mem, g)
<1> DEFINE at == Here.id
<1>1. mem \in Flow /\ At \in 1..Len(mem.nodes) /\ h = Stamp(mem, At, v)
  BY HereIsNode DEF Stamped, Stamp
<1>2. Plan(<<>>) /\ \A w \in Range(<<>>) : w.kind = "reap"
  BY ShortPlans
<1> HIDE DEF at
<1>3. Insertion(mem, h, at, <<>>) /\ Len(h.nodes) = Len(mem.nodes) /\ Restamped(mem, h)
  <2> DEFINE ws0 == <<>>
  <2>1. Plan(ws0) /\ \A w \in Range(ws0) : w.kind = "reap"
    BY <1>2
  <2> HIDE DEF ws0
  <2>2. Insertion(mem, h, at, ws0) /\ Len(h.nodes) = Len(mem.nodes) /\ Restamped(mem, h)
    BY ONLY <1>1, <2>1, v \in Verdicts, StampedAlone, SMTT(60)
  <2> QED BY <2>2 DEF ws0
<1>4. h \in Flow /\ h.round = mem.round
  BY <1>1, StampedFlow
<1>5. \A i \in 1..Len(mem.nodes) :
        h.nodes[i].id = mem.nodes[i].id /\ h.nodes[i].job = mem.nodes[i].job
  BY <1>3 DEF Insertion, Extends
<1>6. Insertion(h, g, at, ws)
  BY DEF at
<1>7. Insertion(mem, g, at, ws)
  BY <1>1, <1>3, <1>4, <1>5, <1>6, InsertionFrom
<1>8. Restamped(mem, g)
  BY ONLY <1>3, Restamped(h, g) DEF Restamped
<1> QED BY <1>7, <1>8 DEF at

LEMMA NeedsWorkActs ==
  ASSUME Typed, RouteNeedsWork
  PROVE  Acts(At)
<1> DEFINE v == "needs-work"
           f == Stamped(v)
           at == Here.id
           roles == Exception
           k == Mintable(mem, roles)
           new == ChainNodes(f, at, roles)
           part == SubSeq(new, 1, k)
           failed == Blocked([f EXCEPT !.round = @ + 1, !.nodes = @ \o part])
           g == Inserted(f, at, roles)
           J == Unreported(f) \cup {new[i].job : i \in 1..k}
<1>1. Routing /\ Delivered(Here.job) /\ v \in Verdicts
  BY DEF RouteNeedsWork, Verdict, Verdicts, Stamps
<1>2. /\ IdsLeft(k)
      /\ \/ Onward(f, <<>>)
         \/ k < Len(roles) /\ Onward(failed, MintWrites(part) \o Reap(J))
         \/ /\ roles # <<>> /\ ~ (k < Len(roles))
            /\ \/ Onward([g EXCEPT !.status = "running"], InsertWrites(f, at, roles))
               \/ Onward(g, InsertWrites(f, at, roles))
  <2> HIDE DEF v
  <2> QED BY Zenon DEF RouteNeedsWork, v
<1>3. /\ mem \in Flow /\ At \in 1..total /\ At \in 1..Len(mem.nodes) /\ at \in Id
      /\ Here = mem.nodes[At] /\ Fits(mem) /\ mem.status # "none"
  BY <1>1, HereIsNode DEF Here
<1>4. f = Stamp(mem, At, v)
  BY DEF Stamped, Stamp
<1> HIDE DEF v, f
<1>5. f \in Flow /\ f.round = mem.round /\ f.status = mem.status /\ Len(f.nodes) = Len(mem.nodes)
  BY <1>1, <1>3, <1>4, StampedFlow
<1>6. roles \in Seq(Roles) /\ Len(roles) \in Nat
  BY ExceptionRoles, LenProperties
<1>7. k \in 0..Len(roles) /\ Len(f.nodes) + k <= NodeMax
  <2>1. Len(mem.nodes) <= NodeMax
    BY <1>3 DEF Fits
  <2> QED BY <1>3, <1>5, <1>6, <2>1, MintableRoom
<1>8. ReportExists(Here.job)
  BY <1>1 DEF Delivered
<1>9. CASE Onward(f, <<>>)
  BY <1>1, <1>9, StampActs DEF f
<1> HIDE DEF at, roles, k
<1>10. ASSUME NEW to, NEW ws, Onward(to, ws), Insertion(f, to, at, ws), Restamped(f, to),
              Len(to.nodes) <= NodeMax, to.status # "none",
              \A w \in Range(ws) : w.kind \in {"mint", "gate", "reap", "flow"}
       PROVE  Acts(At)
  <2>1. mem' = to /\ writes' = ws
    BY <1>10 DEF Onward
  <2>2. Insertion(mem, to, Here.id, ws) /\ Restamped(mem, to)
    <3>1. f = Stamped(v) /\ Insertion(f, to, Here.id, ws)
      BY <1>10 DEF f, at
    <3> QED BY <1>1, <1>10, <3>1, StampedInsertion
  <2> QED BY <1>3, <1>8, <1>10, <2>1, <2>2 DEF Acts
<1>11. CASE k < Len(roles) /\ Onward(failed, MintWrites(part) \o Reap(J))
  <2>1. RoundOf(f, at, part) /\ Len(part) = k
    BY <1>2, <1>3, <1>5, <1>6, <1>7, ChainIsRound
  <2>2. J \in SUBSET JobIds
    <3>1. Unreported(f) \in SUBSET JobIds
      BY <1>5, UnreportedJobs
    <3>2. \A i \in 1..k : new[i].job \in JobIds
      <4>1. \A i \in 1..k : part[i].job \in JobIds
        BY <1>2, <2>1, RoundJobs
      <4>2. \A i \in 1..k : part[i] = new[i]
        BY <1>7
      <4> QED BY <4>1, <4>2
    <3> HIDE DEF new
    <3> QED BY <3>1, <3>2
  <2> DEFINE s == MintWrites(part)
             t == Reap(J)
             ws == s \o t
  <2>3. failed = Partly(f, part)
    BY DEF Blocked, Partly
  <2> HIDE DEF J, part
  <2>4. Carries(s, f, at, part) /\ \A w \in Range(s) : w.kind = "mint"
    BY <1>2, <2>1, MintsCarry
  <2>5. Plan(t) /\ \A w \in Range(t) : w.kind = "reap"
    BY <2>2, ReapPlan
  <2> HIDE DEF s, t
  <2>6. Carries(ws, f, at, part) /\ Range(ws) = Range(s) \cup Range(t)
    <3>1. \A w \in Range(t) : w.kind \notin {"mint", "gate"}
      BY <2>5
    <3>2. \A w \in Range(s) : w.kind \notin Ends
      BY <2>4 DEF Ends
    <3> QED BY <2>4, <2>5, <3>1, <3>2, CarryMore
  <2> HIDE DEF ws, failed
  <2>7. /\ Insertion(f, failed, at, ws) /\ Len(failed.nodes) = Len(f.nodes) + k
        /\ Restamped(f, failed) /\ failed.status = "blocked"
    <3>1. /\ f \in Flow /\ at \in Id /\ RoundOf(f, at, part) /\ IdsLeft(Len(part))
          /\ Carries(ws, f, at, part)
      BY <1>2, <1>3, <1>5, <2>1, <2>6
    <3> QED BY <2>1, <2>3, <3>1, PartFlow
  <2>8. \A w \in Range(ws) : w.kind \in {"mint", "gate", "reap", "flow"}
    BY <2>4, <2>5, <2>6
  <2>9. Onward(failed, ws)
    BY <1>11 DEF ws, s, t
  <2> QED BY <1>7, <1>10, <2>7, <2>8, <2>9
<1>12. ASSUME roles # <<>>, ~ (k < Len(roles)), NEW to,
              to = g \/ to = [g EXCEPT !.status = "running"],
              Onward(to, InsertWrites(f, at, roles))
       PROVE  Acts(At)
  <2> DEFINE ws == InsertWrites(f, at, roles)
  <2>1. k = Len(roles) /\ IdsLeft(Len(roles))
    BY <1>2, <1>6, <1>7, <1>12
  <2>2. /\ Carries(ws, f, at, ChainNodes(f, at, roles))
        /\ \A w \in Range(ws) : w.kind \in {"mint", "gate"}
    BY <1>3, <1>5, <1>6, <1>12, <2>1, InsertWritesCarry
  <2> HIDE DEF ws
  <2>3. to = Inserted(f, at, roles) \/ to = [Inserted(f, at, roles) EXCEPT !.status = "running"]
    BY <1>12
  <2>4. /\ Insertion(f, to, at, ws) /\ Len(to.nodes) = Len(f.nodes) + Len(roles)
        /\ Restamped(f, to) /\ to.status \in {f.status, "running"}
    <3>1. /\ f \in Flow /\ at \in Id /\ roles \in Seq(Roles) /\ roles # <<>>
          /\ IdsLeft(Len(roles)) /\ Carries(ws, f, at, ChainNodes(f, at, roles))
      BY <1>3, <1>5, <1>6, <1>12, <2>1, <2>2
    <3> HIDE DEF g
    <3> QED BY ONLY <2>3, <3>1, InsertedFlow
  <2>5. Len(to.nodes) <= NodeMax /\ to.status # "none"
    BY <1>3, <1>5, <1>7, <2>1, <2>4
  <2>6. Onward(to, ws)
    BY <1>12 DEF ws
  <2> QED BY <1>10, <2>2, <2>4, <2>5, <2>6
<1>13. CASE /\ roles # <<>> /\ ~ (k < Len(roles))
            /\ \/ Onward([g EXCEPT !.status = "running"], InsertWrites(f, at, roles))
               \/ Onward(g, InsertWrites(f, at, roles))
  BY <1>12, <1>13
<1> QED BY <1>2, <1>9, <1>11, <1>13

LEMMA EmitActs ==
  ASSUME Typed, RouteEmit
  PROVE  Acts(At)
<1> DEFINE n == Here
           e == emits[n.job]
           g == Emitted(mem, At)
           ws == MintWrites(GroupNodes(mem, n)) \o GateWrites(mem, n.id, FanInID(mem, n))
                   \o SaveFlow
<1>1. Routing /\ Delivered(n.job) /\ EmissionFits(mem, n) /\ IdsLeft(e + 1) /\ Onward(g, ws)
  BY DEF RouteEmit
<1>2. /\ mem \in Flow /\ At \in 1..total /\ At \in 1..Len(mem.nodes) /\ n \in Node
      /\ n = mem.nodes[At] /\ Fits(mem) /\ mem.status # "none" /\ n.job \in JobIds
  BY <1>1, HereIsNode DEF Here
<1>3. /\ n.id[1] \in DOMAIN Emitters /\ e \in Nat \ {0} /\ e + 1 <= Room(mem)
  <2>1. emits \in [JobIds -> Nat]
    BY DEF Typed, SessionsTyped
  <2>2. e \in Nat
    BY <1>2, <2>1
  <2>3. n.id[1] \in DOMAIN Emitters /\ e \in 1..Emitters[n.id[1]].max /\ e + 1 <= Room(mem)
    BY <1>1 DEF EmissionFits
  <2> QED BY <2>2, <2>3
<1>4. ReportExists(n.job)
  BY <1>1 DEF Delivered
<1> HIDE DEF n, e, g
<1>5. /\ Carries(ws, mem, n.id, GroupNodes(mem, n))
      /\ \A w \in Range(ws) : w.kind \in {"mint", "gate", "flow"}
  <2>1. emits[n.job] \in Nat \ {0} /\ IdsLeft(emits[n.job] + 1)
    BY <1>1, <1>3 DEF e
  <2> QED BY <1>2, <1>3, <2>1, EmitPlan
<1> HIDE DEF ws
<1>6. /\ Insertion(mem, g, n.id, ws) /\ Len(g.nodes) = Len(mem.nodes) + e + 1
      /\ Restamped(mem, g) /\ g.status = mem.status
  <2>1. /\ mem \in Flow /\ At \in 1..Len(mem.nodes) /\ n = mem.nodes[At]
        /\ n.id[1] \in DOMAIN Emitters /\ emits[n.job] \in Nat \ {0}
        /\ IdsLeft(emits[n.job] + 1) /\ Carries(ws, mem, n.id, GroupNodes(mem, n))
    BY <1>1, <1>2, <1>3, <1>5 DEF e
  <2>2. /\ Insertion(mem, g, n.id, ws) /\ Len(g.nodes) = Len(mem.nodes) + emits[n.job] + 1
        /\ Restamped(mem, g) /\ g.status = mem.status
    BY ONLY <2>1, EmittedFlow, ZenonT(40) DEF g
  <2> QED BY <2>2 DEF e
<1>7. Len(g.nodes) <= NodeMax
  <2>1. Len(mem.nodes) \in Nat /\ NodeMax \in Nat
    BY <1>2, LenProperties, FlowAssumption DEF Flow
  <2>2. e \in Nat /\ e + 1 <= NodeMax - Len(mem.nodes)
    BY <1>3 DEF Room
  <2>3. Len(g.nodes) = Len(mem.nodes) + e + 1
    BY <1>6
  <2> DEFINE a == Len(mem.nodes)
             b == Len(g.nodes)
  <2>4. a \in Nat /\ NodeMax \in Nat /\ e \in Nat /\ e + 1 <= NodeMax - a /\ b = a + e + 1
    BY <2>1, <2>2, <2>3
  <2> HIDE DEF a, b
  <2>5. b <= NodeMax
    BY ONLY <2>4
  <2> QED BY <2>5 DEF b
<1>8. mem' = g /\ writes' = ws
  BY <1>1 DEF Onward
<1>9. Acts(At)
  <2>1. g.status # "none"
    BY ONLY <1>2, <1>6
  <2>2. Insertion(mem, g, mem.nodes[At].id, ws)
    BY ONLY <1>2, <1>6
  <2>3. ReportExists(mem.nodes[At].job)
    BY ONLY <1>2, <1>4
  <2> QED BY <1>2, <1>5, <1>6, <1>7, <1>8, <2>1, <2>2, <2>3 DEF Acts
<1> QED BY <1>9

LEMMA RouteActs ==
  ASSUME Typed, Route
  PROVE  Acts(At) /\ Routing /\ idx' = At + 1
<1>1. Routing /\ idx' = At + 1
  BY DEF Route, RouteEnded, RouteEmit, RouteComplete, RouteBlocked, RouteNeedsWork,
         RouteUndecided, RouteProceed, Verdict, Onward
<1>2. RouteEmit => Acts(At)
  BY EmitActs
<1>3. RouteNeedsWork => Acts(At)
  BY NeedsWorkActs
<1>4. RouteEmit \/ RouteNeedsWork \/ Acts(At)
  BY StampRoutes DEF Route
<1> QED BY <1>1, <1>2, <1>3, <1>4

(***************************************************************************)
(* What the other handlers make of the flow.                                *)
(***************************************************************************)
LEMMA ReapSavePlan ==
  ASSUME NEW J \in SUBSET JobIds, NEW ws, ws = Reap(J) \o SaveOrLose
  PROVE  Plan(ws) /\ \A w \in Range(ws) : w.kind \in {"reap", "save"}
<1> DEFINE s == Reap(J)
           t == SaveOrLose
<1>1. Plan(s) /\ \A w \in Range(s) : w.kind = "reap"
  BY ReapPlan
<1>2. Plan(t) /\ \A w \in Range(t) : w.kind = "save"
  BY EndPlans
<1>3. ws = s \o t
  OBVIOUS
<1> HIDE DEF s, t
<1>4. Plan(s \o t) /\ Range(s \o t) = Range(s) \cup Range(t)
  <2>1. (\A w \in Range(t) : w.kind # "mint") /\ (\A w \in Range(t) : w.kind \in Ends)
    BY <1>2 DEF Ends
  <2> QED BY <1>1, <1>2, <2>1, PlanConcat
<1> QED BY <1>1, <1>2, <1>3, <1>4

LEMMA MintedNodes ==
  ASSUME Len(Path) <= MaxJobs
  PROVE  /\ Minted \in Seq(Node) /\ Len(Minted) = Len(Path) /\ Len(Path) \in Nat \ {0}
         /\ \A k \in 1..Len(Path) : Minted[k].job = k /\ Minted[k].id[2] = 0
<1> DEFINE n == Len(Path)
<1>1. Path \in Seq(Roles \X Nat) /\ n \in Nat \ {0} /\ DOMAIN Path = 1..n /\ MaxJobs \in Nat
  BY FlowAssumption, LenProperties, EmptySeq
<1>2. \A k \in 1..n : StageId(k) \in Id /\ StageId(k)[2] = 0
  <2> SUFFICES ASSUME NEW k \in 1..n PROVE StageId(k) \in Id /\ StageId(k)[2] = 0
    OBVIOUS
  <2> DEFINE same == {i \in 1..k : Path[i][1] = Path[k][1]}
  <2>1. Path[k] \in Roles \X Nat
    BY <1>1, ElementOfSeq
  <2>2. Cardinality(same) \in Nat
    <3>1. 1 \in Int /\ k \in Int
      BY <1>1
    <3>2. IsFiniteSet(same)
      BY <3>1, FS_Interval, FS_Subset
    <3> QED BY <3>2, FS_CardinalityType
  <2>3. StageId(k) = <<Path[k][1], 0, Cardinality(same)>>
    BY DEF StageId
  <2> HIDE DEF same
  <2> QED BY <2>1, <2>2, <2>3 DEF Id
<1> DEFINE ups(k) == {StageId(i) : i \in {i \in DOMAIN Path : Path[i][2] = Path[k][2] - 1}}
<1>3. \A k \in 1..n : ups(k) \in SUBSET Id
  BY <1>1, <1>2
<1>4. Minted = [k \in 1..n |-> NewNode(StageId(k), ups(k), None, k)]
  BY <1>1 DEF Minted
<1> HIDE DEF n, ups
<1>5. ASSUME NEW k \in 1..n
      PROVE  Minted[k] \in Node /\ Minted[k].job = k /\ Minted[k].id[2] = 0
  <2>1. Minted[k] = NewNode(StageId(k), ups(k), None, k)
    BY <1>4
  <2>2. k \in JobIds
    BY <1>1 DEF n, JobIds
  <2>3. None \in Id \cup {None} /\ StageId(k) \in Id /\ ups(k) \in SUBSET Id
    BY <1>2, <1>3
  <2>4. Minted[k] \in Node
    BY ONLY <2>1, <2>2, <2>3, NewNodeType
  <2>5. Minted[k].id = StageId(k) /\ Minted[k].job = k
    BY ONLY <2>1, NewNodeFields
  <2> QED BY <1>2, <2>4, <2>5
<1>6. Minted \in Seq(Node) /\ Len(Minted) = n
  <2>1. Minted = [k \in 1..n |-> Minted[k]]
    BY <1>4
  <2> DEFINE m == Minted
  <2>2. m = [k \in 1..n |-> m[k]] /\ \A k \in 1..n : m[k] \in Node
    BY <1>5, <2>1
  <2> HIDE DEF m
  <2>3. m \in [1..n -> Node]
    BY <2>2
  <2>4. m \in Seq(Node) /\ Len(m) = n
    BY <1>1, <2>3
  <2> QED BY <2>4 DEF m
<1> QED BY <1>1, <1>5, <1>6 DEF n

\* createFlowLocked plans a job for every node, and then the flow.
LEMMA CreateStep ==
  ASSUME Typed, Create
  PROVE  /\ mem' \in Flow /\ Fits(mem') /\ mem'.nodes # <<>> /\ mem'.status # "none"
         /\ mem'.round = 0
         /\ Plan(writes')
         /\ \A w \in Range(writes') :
              /\ w.kind \in {"mint", "flow"}
              /\ w.kind = "mint" => \E i \in 1..Len(mem'.nodes) : w.node = mem'.nodes[i]
         /\ \A i \in 1..Len(mem'.nodes) :
              \E w \in Range(writes') : w.kind = "mint" /\ w.node = mem'.nodes[i]
         /\ \E w \in Range(writes') : w.kind = "flow"
<1> DEFINE n == Len(Path)
<1>1. n <= NodeMax /\ IdsLeft(n) /\ \A j \in JobIds : job[j].phase = "absent"
  BY DEF Create
<1>2. NextJob = 1
  BY <1>1 DEF NextJob
<1>3. n <= MaxJobs
  <2>1. n \in Nat /\ MaxJobs \in Nat
    BY FlowAssumption, LenProperties
  <2> QED BY <1>1, <1>2, <2>1 DEF IdsLeft
<1>4. /\ Minted \in Seq(Node) /\ Len(Minted) = n /\ n \in Nat \ {0}
      /\ \A k \in 1..n : Minted[k].job = k /\ Minted[k].id[2] = 0
  BY <1>3, MintedNodes
<1>5. mem' = [status |-> "queued", nodes |-> Minted, round |-> 0]
  BY DEF Create
<1>6. writes' = MintWrites(Minted) \o SaveFlow
  BY DEF Create
<1>7. mem' \in Flow /\ mem'.nodes = Minted /\ mem'.round = 0 /\ mem'.status = "queued"
  BY <1>4, <1>5 DEF Flow, Statuses
<1>8. Fits(mem') /\ mem'.nodes # <<>>
  <2>1. Minted # <<>>
    BY <1>4
  <2>2. \A k \in 1..n : Minted[k].id[2] <= 0
    BY <1>4
  <2> QED BY <1>1, <1>4, <1>7, <2>1, <2>2 DEF Fits
<1> DEFINE s == MintWrites(Minted)
           t == SaveFlow
<1>9. /\ Plan(s)
      /\ \A w \in Range(s) : w.kind = "mint" /\ \E i \in 1..n : w.node = Minted[i]
      /\ \A i \in 1..n : \E w \in Range(s) : w.kind = "mint" /\ w.node = Minted[i]
  BY <1>4, MintPlan, SMTT(30)
<1>10. /\ Plan(t) /\ \A w \in Range(t) : w.kind = "flow"
       /\ \E w \in Range(t) : w.kind = "flow"
  BY EndPlans
<1>11. writes' = s \o t
  BY <1>6
<1> HIDE DEF s, t
<1>12. Plan(s \o t) /\ Range(s \o t) = Range(s) \cup Range(t)
  <2>1. (\A w \in Range(t) : w.kind # "mint") /\ (\A w \in Range(t) : w.kind \in Ends)
    BY <1>10 DEF Ends
  <2> QED BY <1>9, <1>10, <2>1, PlanConcat
<1>13. Plan(writes') /\ Range(writes') = Range(s) \cup Range(t)
  BY <1>11, <1>12
<1>14. /\ \A w \in Range(writes') : w.kind \in {"mint", "flow"}
       /\ \E w \in Range(writes') : w.kind = "flow"
  BY <1>9, <1>10, <1>13
<1>15. \A w \in Range(writes') : w.kind = "mint" => \E i \in 1..n : w.node = Minted[i]
  BY <1>9, <1>10, <1>13
<1>16. \A i \in 1..n : \E w \in Range(writes') : w.kind = "mint" /\ w.node = Minted[i]
  BY <1>9, <1>13
<1>17. mem'.status # "none"
  BY <1>7
<1> QED BY <1>4, <1>7, <1>8, <1>13, <1>14, <1>15, <1>16, <1>17

\* A status alone.
LEMMA StatusFits ==
  ASSUME NEW f \in Flow, Fits(f), f.nodes # <<>>, NEW s \in Statuses \ {"none"},
         NEW g, g = [f EXCEPT !.status = s]
  PROVE  /\ g \in Flow /\ Fits(g) /\ g.nodes = f.nodes /\ g.round = f.round
         /\ g.status # "none"
<1>1. g \in Flow /\ g.nodes = f.nodes /\ g.round = f.round /\ g.status = s
  BY DEF Flow
<1>2. Fits(g)
  BY <1>1 DEF Fits
<1> QED BY <1>1, <1>2

\* An append request is an insertion, or mints what it could of a chain that
\* will be part of no flow, or nothing.
LEMMA SpoolStep ==
  ASSUME Typed, SpoolAppend
  PROVE  /\ Plan(writes')
         /\ \A w \in Range(writes') : w.kind \in {"mint", "gate", "save", "consume"}
         /\ \/ /\ mem' = mem /\ \A w \in Range(writes') : w.kind \in {"mint", "consume"}
               /\ \A w \in Range(writes') : w.kind = "mint" =>
                    /\ flow.status # "none" /\ job[w.node.job].phase = "absent"
                    /\ \E at \in Id : Follows(w.node, at, flow.round + 1)
            \/ /\ flow.status # "none" /\ flow.nodes # <<>>
               /\ \E at \in Id : Insertion(flow, mem', at, writes')
               /\ Len(mem'.nodes) <= NodeMax /\ mem'.status # "none"
<1>1. flow \in Flow /\ Fits(flow)
  BY DEF Typed, FlowsTyped
<1>2. CASE writes' = Consume /\ mem' = mem
  <2>1. Plan(Consume) /\ \A w \in Range(Consume) : w.kind = "consume"
    BY EndPlans
  <2>2. \A w \in Range(writes') : w.kind = "consume"
    BY <1>2, <2>1
  <2>3. Plan(writes')
    BY <1>2, <2>1
  <2> QED BY <1>2, <2>2, <2>3
<1> DEFINE at == AcceptanceID(flow)
           roles == AppendRoles
           k == Mintable(flow, roles)
           part == SubSeq(ChainNodes(flow, at, roles), 1, k)
<1>3. ASSUME flow.status # "none", IdsLeft(k)
      PROVE  /\ flow.nodes # <<>> /\ at \in Id /\ roles \in Seq(Roles) /\ roles # <<>>
             /\ Len(roles) \in Nat /\ k \in 0..Len(roles) /\ Len(flow.nodes) + k <= NodeMax
  <2>1. flow.nodes # <<>> /\ Len(flow.nodes) <= NodeMax
    BY <1>1, <1>3 DEF Fits
  <2>2. at \in Id
    <3>1. PICK i \in 1..Len(flow.nodes) : at = flow.nodes[i].id
      BY <1>1, <2>1, AcceptanceIsNode
    <3>2. flow.nodes[i] \in Node
      BY <1>1, ElementOfSeq DEF Flow
    <3> QED BY <3>1, <3>2 DEF Node
  <2>3. roles \in Seq(Roles) /\ roles # <<>> /\ Len(roles) \in Nat
    BY FlowAssumption, LenProperties
  <2>4. k \in 0..Len(roles) /\ Len(flow.nodes) + k <= NodeMax
    BY <1>1, <2>1, <2>3, MintableRoom
  <2> QED BY <2>1, <2>2, <2>3, <2>4
<1>4. CASE /\ flow.status # "none" /\ IdsLeft(k) /\ k = Len(roles)
           /\ mem' = Inserted(flow, at, roles)
           /\ writes' = InsertWrites(flow, at, roles) \o SaveOrLose \o Consume
  <2>1. /\ flow.nodes # <<>> /\ at \in Id /\ roles \in Seq(Roles) /\ roles # <<>>
        /\ Len(roles) \in Nat /\ k \in 0..Len(roles) /\ Len(flow.nodes) + k <= NodeMax
        /\ IdsLeft(Len(roles))
    BY <1>3, <1>4
  <2> DEFINE new == ChainNodes(flow, at, roles)
             s == InsertWrites(flow, at, roles)
             t == s \o SaveOrLose
             ws == t \o Consume
             g == Inserted(flow, at, roles)
  <2>2. mem' = g /\ writes' = ws /\ flow.status # "none"
    BY <1>4
  <2> HIDE DEF at, roles, k
  <2>3. Carries(s, flow, at, new) /\ \A w \in Range(s) : w.kind \in {"mint", "gate"}
    BY <1>1, <2>1, InsertWritesCarry
  <2> HIDE DEF new, s
  <2>4. /\ Plan(SaveOrLose) /\ Plan(Consume)
        /\ \A w \in Range(SaveOrLose) : w.kind = "save"
        /\ \A w \in Range(Consume) : w.kind = "consume"
    BY EndPlans
  <2>5. /\ \A w \in Range(SaveOrLose) : w.kind \notin {"mint", "gate"} /\ w.kind \in Ends
        /\ \A w \in Range(Consume) : w.kind \notin {"mint", "gate"} /\ w.kind \in Ends
    BY <2>4 DEF Ends
  <2>6. Carries(t, flow, at, new) /\ Range(t) = Range(s) \cup Range(SaveOrLose)
    BY <2>3, <2>4, <2>5, CarryMore
  <2> HIDE DEF t
  <2>7. Carries(ws, flow, at, new) /\ Range(ws) = Range(t) \cup Range(Consume)
    BY <2>4, <2>5, <2>6, CarryMore
  <2>8. \A w \in Range(ws) : w.kind \in {"mint", "gate", "save", "consume"}
    BY <2>3, <2>4, <2>6, <2>7
  <2> HIDE DEF ws, g
  <2>9. /\ Insertion(flow, g, at, ws) /\ Len(g.nodes) = Len(flow.nodes) + Len(roles)
        /\ g.status \in {flow.status, "running"}
    <3>1. /\ flow \in Flow /\ at \in Id /\ roles \in Seq(Roles) /\ roles # <<>>
          /\ IdsLeft(Len(roles)) /\ Carries(ws, flow, at, ChainNodes(flow, at, roles))
      BY <1>1, <2>1, <2>7 DEF new
    <3> QED BY ONLY <3>1, InsertedFlow DEF g
  <2>10. Len(g.nodes) <= NodeMax /\ g.status # "none"
    BY <1>4, <2>1, <2>2, <2>9
  <2>11. Plan(ws)
    BY <2>9 DEF Insertion
  <2> QED BY <2>1, <2>2, <2>8, <2>9, <2>10, <2>11
<1>5. CASE /\ flow.status # "none" /\ IdsLeft(k) /\ mem' = mem
           /\ writes' = MintWrites(part) \o Consume
  <2>1. /\ at \in Id /\ roles \in Seq(Roles) /\ k \in 0..Len(roles)
    BY <1>3, <1>5
  <2> HIDE DEF at, roles, k
  <2>2. RoundOf(flow, at, part) /\ Len(part) = k
    BY <1>1, <1>5, <2>1, ChainIsRound
  <2> DEFINE s == MintWrites(part)
             ws == s \o Consume
  <2>3. writes' = ws
    BY <1>5
  <2> HIDE DEF part
  <2>4. Carries(s, flow, at, part) /\ \A w \in Range(s) : w.kind = "mint"
    BY <1>5, <2>2, MintsCarry
  <2>5. Plan(Consume) /\ \A w \in Range(Consume) : w.kind = "consume"
    BY EndPlans
  <2>6. \A w \in Range(Consume) : w.kind \notin {"mint", "gate"} /\ w.kind \in Ends
    BY <2>5 DEF Ends
  <2>7. \A w \in Range(s) : \E i \in 1..k : w.node = part[i]
    <3>1. \A i, l \in 1..Len(part) : i # l => part[i].job # part[l].job
      BY <1>5, <2>2, RoundJobs
    <3>2. part \in Seq(Node)
      BY <2>2 DEF RoundOf
    <3> QED BY <2>2, <3>1, <3>2, MintPlan DEF s
  <2>8. \A i \in 1..k : job[part[i].job].phase = "absent"
    BY <1>5, <2>2, RoundJobs
  <2>9. \A i \in 1..k : Follows(part[i], at, flow.round + 1)
    BY <2>2 DEF RoundOf
  <2> HIDE DEF s
  <2>10. Carries(ws, flow, at, part) /\ Range(ws) = Range(s) \cup Range(Consume)
    BY <2>4, <2>5, <2>6, CarryMore
  <2>11. Plan(ws)
    BY <2>10 DEF Carries
  <2>12. \A w \in Range(ws) : w.kind \in {"mint", "consume"}
    BY <2>4, <2>5, <2>10
  <2>13. \A w \in Range(ws) : w.kind = "mint" =>
           /\ flow.status # "none" /\ job[w.node.job].phase = "absent"
           /\ \E up \in Id : Follows(w.node, up, flow.round + 1)
    <3> SUFFICES ASSUME NEW w \in Range(ws), w.kind = "mint"
                 PROVE  /\ flow.status # "none" /\ job[w.node.job].phase = "absent"
                        /\ \E up \in Id : Follows(w.node, up, flow.round + 1)
      OBVIOUS
    <3>1. w \in Range(s)
      BY <2>5, <2>10
    <3>2. PICK i \in 1..k : w.node = part[i]
      BY <2>7, <3>1
    <3> QED BY <1>5, <2>1, <2>8, <2>9, <3>2
  <2> QED BY <1>5, <2>3, <2>11, <2>12, <2>13
<1>6. \/ writes' = Consume /\ mem' = mem
      \/ /\ flow.status # "none" /\ IdsLeft(k) /\ k = Len(roles)
         /\ mem' = Inserted(flow, at, roles)
         /\ writes' = InsertWrites(flow, at, roles) \o SaveOrLose \o Consume
      \/ /\ flow.status # "none" /\ IdsLeft(k) /\ mem' = mem
         /\ writes' = MintWrites(part) \o Consume
  BY Zenon DEF SpoolAppend
<1> QED BY <1>2, <1>4, <1>5, <1>6

(***************************************************************************)
(* Types are kept.                                                          *)
(***************************************************************************)
LEMMA SessionsStay ==
  ASSUME Typed, [Next]_vars
  PROVE  SessionsTyped'
<1> DEFINE same == UNCHANGED <<report, emits, marks, unit, clock>>
<1>1. /\ report \in [JobIds -> Reports] /\ emits \in [JobIds -> Nat]
      /\ marks \in [JobIds -> SUBSET Marks] /\ unit \in [JobIds -> Units] /\ clock \in Clocks
      /\ cur \in 0..MaxJobs
  BY DEF Typed, SessionsTyped, LoopTyped
<1>2. CASE same
  BY <1>1, <1>2 DEF SessionsTyped
<1>3. ASSUME marks' \in [JobIds -> SUBSET Marks], UNCHANGED <<report, emits, unit, clock>>
      PROVE  SessionsTyped'
  BY <1>1, <1>3 DEF SessionsTyped
<1>4. ASSUME unit' \in [JobIds -> Units], UNCHANGED <<report, emits, marks, clock>>
      PROVE  SessionsTyped'
  BY <1>1, <1>4 DEF SessionsTyped
<1>5. ASSUME NEW j, DepSkip(j) PROVE marks' \in [JobIds -> SUBSET Marks]
  BY <1>1, <1>5 DEF DepSkip, Marks
<1>6. Create \/ Stop \/ RequestAppend \/ Crash \/ Writing => same
  BY DEF Create, Stop, RequestAppend, Crash, Writing, WriteMint, WriteGate, WriteReap,
         WriteFlow, WriteConsumed, files, outside, sessions
<1>7. SpoolAppend \/ ReconcileNothing \/ ReconcileDeadline \/ ReconcileBegin \/ Route
        \/ StatusPass \/ MarkStarted => same
  <2>1. Route => same
    BY DEF Route, RouteEnded, RouteEmit, RouteComplete, RouteBlocked, RouteNeedsWork,
           RouteUndecided, RouteProceed, Verdict, Routing, files, outside, sessions
  <2> QED BY <2>1 DEF SpoolAppend, ReconcileNothing, ReconcileDeadline, ReconcileBegin,
               StatusPass, MarkStarted, files, outside, sessions
<1>8. CASE Visit
  <2>1. VisitUngate \/ VisitPending \/ VisitsDone
          \/ (\E j \in JobIds : VisitHeld(j) \/ VisitGated(j)) => same
    BY DEF VisitUngate, VisitPending, VisitsDone, VisitHeld, VisitGated, Visited, files,
           outside, sessions
  <2>2. ASSUME NEW j \in JobIds, VisitUngated(j) PROVE SessionsTyped'
    <3>1. UNCHANGED <<report, emits, unit, clock>> /\ (DepSkip(j) \/ UNCHANGED marks)
      BY <2>2 DEF VisitUngated, outside, sessions
    <3> QED BY <1>1, <1>3, <1>5, <3>1
  <2>3. CASE VisitDepSkip
    <3>1. UNCHANGED <<report, emits, unit, clock>> /\ DepSkip(cur)
      BY <2>3 DEF VisitDepSkip, Visited, outside, sessions
    <3> QED BY <1>3, <1>5, <3>1
  <2> QED BY <1>2, <1>8, <2>1, <2>2, <2>3 DEF Visit
<1>9. CASE TickEnd
  <2>1. UNCHANGED <<report, emits, unit, clock>>
    BY <1>9 DEF TickEnd, outside, sessions
  <2>2. marks' \in [JobIds -> SUBSET Marks]
    <3>1. PICK found : marks' = [j \in JobIds |-> IF j \in found THEN marks[j] \cup {"watchdog"}
                                                  ELSE marks[j]]
      BY <1>9 DEF TickEnd
    <3>2. \A j \in JobIds : marks[j] \cup {"watchdog"} \in SUBSET Marks /\ marks[j] \in SUBSET Marks
      BY <1>1 DEF Marks
    <3> QED BY <3>1, <3>2
  <2> QED BY <1>3, <2>1, <2>2
<1>10. CASE DeadlineNears \/ MoveDeadline
  BY <1>1, <1>10 DEF DeadlineNears, MoveDeadline, files, sessions, SessionsTyped, Clocks
<1>11. ASSUME NEW j \in JobIds, Cancel(j) \/ Launch(j) PROVE SessionsTyped'
  <2>1. CASE Cancel(j)
    BY <1>2, <2>1 DEF Cancel, outside, sessions
  <2>2. CASE Launch(j)
    <3>1. unit' = [unit EXCEPT ![j] = "active"] /\ UNCHANGED <<report, emits, marks, clock>>
      BY <2>2 DEF Launch, files
    <3> QED BY <1>1, <1>4, <3>1 DEF Units
  <2> QED BY <1>11, <2>1, <2>2
<1>12. ASSUME NEW j \in JobIds, Session(j) PROVE SessionsTyped'
  <2>1. ASSUME job[j].id[1] \in DOMAIN Answers, NEW a \in Answers[job[j].id[1]],
               Report(j, a[1], a[2])
        PROVE  SessionsTyped'
    <3>1. a \in {"draft", "ok", "needs-work", "blocked", "complete"} \X Nat
      BY <2>1, FlowAssumption
    <3>2. a[1] \in Reports /\ a[2] \in Nat
      BY <3>1 DEF Reports
    <3>3. /\ report' = [report EXCEPT ![j] = a[1]] /\ emits' = [emits EXCEPT ![j] = a[2]]
          /\ unit' = unit \/ unit' = [unit EXCEPT ![j] = "dead"]
          /\ UNCHANGED <<marks, clock>>
      BY <2>1 DEF Report, files
    <3>4. report' \in [JobIds -> Reports] /\ emits' \in [JobIds -> Nat]
      BY ONLY <1>1, <3>2, <3>3
    <3>5. unit' \in [JobIds -> Units]
      BY <1>1, <3>3 DEF Units
    <3> QED BY <1>1, <3>3, <3>4, <3>5 DEF SessionsTyped
  <2>2. CASE AuthFail(j)
    <3>1. /\ report' = [report EXCEPT ![j] = "draft"]
          /\ marks' = [marks EXCEPT ![j] = @ \cup {"authfail"}]
          /\ unit' = [unit EXCEPT ![j] = "dead"] /\ UNCHANGED <<emits, clock>>
      BY <2>2 DEF AuthFail
    <3>2. report' \in [JobIds -> Reports] /\ unit' \in [JobIds -> Units]
      BY <1>1, <3>1 DEF Reports, Units
    <3>3. marks' \in [JobIds -> SUBSET Marks]
      BY <1>1, <3>1 DEF Marks
    <3> QED BY <1>1, <3>1, <3>2, <3>3 DEF SessionsTyped
  <2>3. CASE UnitExit(j)
    <3>1. unit' = [unit EXCEPT ![j] = "dead"] /\ UNCHANGED <<report, emits, marks, clock>>
      BY <2>3 DEF UnitExit, files
    <3> QED BY <1>1, <1>4, <3>1 DEF Units
  <2>4. CASE WindowPast(j)
    <3>1. /\ marks' = [marks EXCEPT ![j] = @ \cup {"over"}]
          /\ UNCHANGED <<report, emits, unit, clock>>
      BY <2>4 DEF WindowPast, outside, sessions
    <3> QED BY <1>1, <1>3, <3>1 DEF Marks
  <2> QED BY <1>12, <2>1, <2>2, <2>3, <2>4 DEF Session
<1>13. CASE UNCHANGED vars
  BY <1>2, <1>13 DEF vars, sessions
<1> QED BY <1>2, <1>6, <1>7, <1>8, <1>9, <1>10, <1>11, <1>12, <1>13 DEF Next, Tick

\* What the steps do to a job file.
LEMMA JobFileSteps ==
  ASSUME NEW x \in JobFile
  PROVE  /\ \A p \in Phases : [x EXCEPT !.phase = p] \in JobFile
         /\ [x EXCEPT !.phase = "skipped", !.gated = FALSE] \in JobFile
         /\ [x EXCEPT !.gated = FALSE, !.after = {}] \in JobFile
         /\ \A a \in SUBSET Id : [x EXCEPT !.after = a] \in JobFile
<1>1. \A p \in Phases : [x EXCEPT !.phase = p] \in JobFile
  BY DEF JobFile
<1>2. [x EXCEPT !.phase = "skipped", !.gated = FALSE] \in JobFile
  BY DEF JobFile, Phases
<1>3. [x EXCEPT !.gated = FALSE, !.after = {}] \in JobFile
  BY DEF JobFile
<1>4. \A a \in SUBSET Id : [x EXCEPT !.after = a] \in JobFile
  BY DEF JobFile
<1> QED BY <1>1, <1>2, <1>3, <1>4

LEMMA JobsStay ==
  ASSUME Typed, [Next]_vars
  PROVE  JobsTyped'
<1>1. job \in [JobIds -> JobFile] /\ Plan(writes)
  BY DEF Typed, JobsTyped
<1>2. CASE job' = job
  BY <1>1, <1>2 DEF JobsTyped
<1>3. ASSUME NEW j, NEW x \in JobFile, job' = [job EXCEPT ![j] = x] PROVE JobsTyped'
  BY <1>1, <1>3 DEF JobsTyped
<1>4. ASSUME NEW j, NEW p \in Phases, job' = [job EXCEPT ![j].phase = p] PROVE JobsTyped'
  <2>1. CASE j \in JobIds
    <3> DEFINE x == [job[j] EXCEPT !.phase = p]
    <3>1. x \in JobFile
      BY <1>1, <2>1, JobFileSteps
    <3>2. job' = [job EXCEPT ![j] = x]
      BY <1>4
    <3> HIDE DEF x
    <3> QED BY <1>3, <3>1, <3>2
  <2>2. CASE j \notin JobIds
    <3>1. job' = job
      BY <1>1, <1>4, <2>2
    <3> QED BY <1>2, <3>1
  <2> QED BY <2>1, <2>2
<1>5. ASSUME NEW j, DepSkip(j) PROVE JobsTyped'
  <2>1. CASE j \in JobIds
    <3> DEFINE x == [job[j] EXCEPT !.phase = "skipped", !.gated = FALSE]
    <3>1. x \in JobFile
      BY <1>1, <2>1, JobFileSteps
    <3>2. job' = [job EXCEPT ![j] = x]
      BY <1>1, <1>5, <2>1 DEF DepSkip
    <3> HIDE DEF x
    <3> QED BY <1>3, <3>1, <3>2
  <2>2. CASE j \notin JobIds
    <3>1. job' = job
      BY <1>1, <1>5, <2>2 DEF DepSkip
    <3> QED BY <1>2, <3>1
  <2> QED BY <2>1, <2>2
<1>6. ASSUME ~ Computing PROVE WellFormed(Head(writes))
  BY <1>1, <1>6, PlanTail DEF Computing
<1>7. CASE WriteMint
  <2> DEFINE w == Head(writes)
             x == [phase |-> "queued", gated |-> w.node.after # {},
                   after |-> w.node.after, id |-> w.node.id]
  <2>1. w.node \in Node
    BY <1>6, <1>7 DEF WriteMint, WellFormed
  <2>2. w.node.after \in SUBSET Id /\ w.node.id \in Id
    BY <2>1 DEF Node
  <2>3. x \in JobFile
    <3> DEFINE a == w.node.after
               i == w.node.id
    <3>1. a \in SUBSET Id /\ i \in Id
      BY <2>2
    <3> HIDE DEF a, i
    <3>2. [phase |-> "queued", gated |-> a # {}, after |-> a, id |-> i] \in JobFile
      BY <3>1 DEF JobFile, Phases
    <3> QED BY <3>2 DEF a, i
  <2>4. job' = [j \in JobIds |-> IF j \in w.jobs THEN x ELSE job[j]]
    BY <1>7 DEF WriteMint
  <2> HIDE DEF x
  <2> QED BY <1>1, <2>3, <2>4 DEF JobsTyped
<1>8. CASE WriteGate
  <2> DEFINE w == Head(writes)
  <2>1. w.node \in Node
    BY <1>6, <1>8 DEF WriteGate, WellFormed
  <2>2. w.node.after \in SUBSET Id
    BY <2>1 DEF Node
  <2>3. job' = [j \in JobIds |-> IF j \in w.jobs THEN [job[j] EXCEPT !.after = w.node.after]
                                 ELSE job[j]]
    BY <1>8 DEF WriteGate
  <2>4. \A j \in JobIds : [job[j] EXCEPT !.after = w.node.after] \in JobFile
    BY <1>1, <2>2, JobFileSteps
  <2> QED BY <1>1, <2>3, <2>4 DEF JobsTyped
<1>9. CASE WriteReap
  <2>1. PICK j : job' = [job EXCEPT ![j].phase = "gone"]
    BY <1>9 DEF WriteReap
  <2> QED BY <1>4, <2>1 DEF Phases
<1>10. CASE MarkStarted
  BY <1>4, <1>10 DEF MarkStarted, Phases
<1>11. CASE VisitUngate
  <2> DEFINE x == [job[cur] EXCEPT !.gated = FALSE, !.after = {}]
  <2>1. job' = [job EXCEPT ![cur].gated = FALSE, ![cur].after = {}]
    BY <1>11 DEF VisitUngate
  <2>2. CASE cur \in JobIds
    <3>1. x \in JobFile
      BY <1>1, <2>2, JobFileSteps
    <3>2. job' = [job EXCEPT ![cur] = x]
      BY <1>1, <2>1, <2>2
    <3> HIDE DEF x
    <3> QED BY <1>3, <3>1, <3>2
  <2>3. CASE cur \notin JobIds
    <3>1. job' = job
      BY <1>1, <2>1, <2>3
    <3> QED BY <1>2, <3>1
  <2> QED BY <2>2, <2>3
<1>12. CASE VisitDepSkip
  BY <1>5, <1>12 DEF VisitDepSkip
<1>13. ASSUME NEW j \in JobIds, VisitUngated(j) PROVE JobsTyped'
  BY <1>2, <1>5, <1>13 DEF VisitUngated
<1>14. ASSUME NEW j \in JobIds, Cancel(j) PROVE JobsTyped'
  BY <1>4, <1>14 DEF Cancel, Phases
<1>15. Create \/ Stop \/ RequestAppend \/ DeadlineNears \/ MoveDeadline \/ Crash
         \/ WriteFlow \/ WriteConsumed => job' = job
  BY DEF Create, Stop, RequestAppend, DeadlineNears, MoveDeadline, Crash, WriteFlow,
         WriteConsumed, files
<1>16. SpoolAppend \/ ReconcileNothing \/ ReconcileDeadline \/ ReconcileBegin \/ Route
         \/ StatusPass \/ TickEnd => job' = job
  <2>1. Route => job' = job
    BY DEF Route, RouteEnded, RouteEmit, RouteComplete, RouteBlocked, RouteNeedsWork,
           RouteUndecided, RouteProceed, Verdict, Routing, files
  <2> QED BY <2>1 DEF SpoolAppend, ReconcileNothing, ReconcileDeadline, ReconcileBegin,
               StatusPass, TickEnd, files
<1>17. VisitPending \/ VisitsDone \/ (\E j \in JobIds : VisitHeld(j) \/ VisitGated(j))
         => job' = job
  BY DEF VisitPending, VisitsDone, VisitHeld, VisitGated, files
<1>18. ASSUME NEW j \in JobIds, Launch(j) \/ Session(j) PROVE job' = job
  BY <1>18 DEF Launch, Session, Report, AuthFail, UnitExit, WindowPast, files
<1>19. UNCHANGED vars => job' = job
  BY DEF vars
<1> QED BY <1>2, <1>7, <1>8, <1>9, <1>10, <1>11, <1>12, <1>13, <1>14, <1>15, <1>16, <1>17,
           <1>18, <1>19 DEF Next, Tick, Visit, Writing

LEMMA LiveHasNodes ==
  ASSUME NEW f \in Flow, Fits(f)
  PROVE  f.status # "none" <=> f.nodes # <<>>
BY DEF Fits

LEMMA StatusPassStep ==
  ASSUME Typed, StatusPass
  PROVE  /\ mem' \in Flow /\ Fits(mem') /\ mem'.nodes = mem.nodes /\ mem'.round = mem.round
         /\ mem'.status # "none" /\ mem.nodes # <<>>
         /\ \/ writes' = <<>> /\ mem' = flow
            \/ writes' = SaveOrLose
<1>1. mem \in Flow /\ Fits(mem) /\ mem.nodes # <<>> /\ mem.status # "none"
  BY LiveHasNodes DEF Typed, FlowsTyped, LoopTyped, StatusPass
<1>2. mem.status \in Statuses \ {"none"} /\ {"blocked", "running"} \subseteq Statuses \ {"none"}
  BY <1>1 DEF Flow, Statuses
<1>3. PICK s \in Statuses \ {"none"} : mem' = [mem EXCEPT !.status = s]
  <2> DEFINE jobs == Owned(mem)
             last == CHOOSE n \in Nodes(mem) : n.id = AcceptanceID(mem)
             Skip(j) == marks[j] \cap {"depskip", "authfail"} # {} \/ job[j].phase = "skipped"
             progressed == \E j \in jobs : ReportExists(j) \/ job[j].phase = "started"
             dead == \/ Exists(last.job) /\ Skip(last.job)
                     \/ (\E j \in jobs : Exists(j) /\ Skip(j)) /\ ~ progressed
             s == IF mem.status \in {"blocked", "complete"} THEN mem.status
                  ELSE IF dead THEN "blocked"
                  ELSE IF progressed THEN "running" ELSE mem.status
  <2>1. mem' = [mem EXCEPT !.status = s]
    BY DEF StatusPass
  <2> HIDE DEF dead, progressed
  <2>2. s \in Statuses \ {"none"}
    BY <1>2
  <2> HIDE DEF s
  <2> QED BY <2>1, <2>2
<1>4. writes' = IF mem' = flow THEN <<>> ELSE SaveOrLose
  BY Zenon DEF StatusPass
<1> QED BY <1>1, <1>3, <1>4, StatusFits

\* The flow that is ended: stopped by hand, or at its deadline.
LEMMA EndStep ==
  ASSUME Typed, Stop \/ ReconcileDeadline
  PROVE  /\ mem' \in Flow /\ Fits(mem') /\ mem'.nodes = flow.nodes /\ mem'.round = flow.round
         /\ mem'.status # "none" /\ flow.nodes # <<>> /\ flow.status # "none"
         /\ Plan(writes') /\ \A w \in Range(writes') : w.kind \in {"reap", "save"}
<1>1. flow \in Flow /\ Fits(flow)
  BY DEF Typed, FlowsTyped
<1>2. PICK s \in Statuses \ {"none"} : mem' = [flow EXCEPT !.status = s]
  <2>1. {"stopped", "deadline"} \subseteq Statuses \ {"none"}
    BY DEF Statuses
  <2>2. mem' = [flow EXCEPT !.status = "stopped"] \/ mem' = [flow EXCEPT !.status = "deadline"]
    BY DEF Stop, ReconcileDeadline
  <2> QED BY <2>1, <2>2
<1>3. PICK J \in SUBSET JobIds : writes' = Reap(J) \o SaveOrLose
  <2>1. Unreported(flow) \in SUBSET JobIds /\ Owned(flow) \in SUBSET JobIds
    BY <1>1, UnreportedJobs
  <2>2. {j \in Owned(flow) : Unstarted(j)} \in SUBSET JobIds
    BY <2>1
  <2> QED BY <2>1, <2>2 DEF Stop, ReconcileDeadline
<1>4. flow.nodes # <<>> /\ flow.status # "none"
  BY <1>1, LiveHasNodes DEF Stop, ReconcileDeadline
<1>5. Plan(writes') /\ \A w \in Range(writes') : w.kind \in {"reap", "save"}
  BY <1>3, ReapSavePlan
<1> QED BY <1>1, <1>2, <1>4, <1>5, StatusFits

LEMMA RouteFits ==
  ASSUME Typed, Route
  PROVE  mem' \in Flow /\ Fits(mem') /\ mem'.nodes # <<>> /\ Plan(writes')
<1>1. Acts(At) /\ Routing
  BY RouteActs
<1>2. mem \in Flow /\ Fits(mem) /\ mem.nodes # <<>>
  BY <1>1, HereIsNode
<1> DEFINE at == mem.nodes[At].id
<1>3. Insertion(mem, mem', at, writes') /\ Len(mem'.nodes) <= NodeMax /\ mem'.status # "none"
  BY <1>1 DEF Acts
<1> HIDE DEF at
<1> QED BY <1>2, <1>3, InsertionFits

LEMMA SpoolFits ==
  ASSUME Typed, SpoolAppend
  PROVE  mem' \in Flow /\ Fits(mem')
<1>1. flow \in Flow /\ Fits(flow) /\ mem \in Flow /\ Fits(mem)
  BY DEF Typed, FlowsTyped
<1>2. CASE mem' = mem
  BY <1>1, <1>2
<1>3. ASSUME NEW at \in Id, Insertion(flow, mem', at, writes'), flow.nodes # <<>>,
             Len(mem'.nodes) <= NodeMax, mem'.status # "none"
      PROVE  mem' \in Flow /\ Fits(mem')
  BY <1>1, <1>3, InsertionFits
<1> QED BY <1>2, <1>3, SpoolStep

LEMMA FlowsStay ==
  ASSUME Typed, [Next]_vars
  PROVE  FlowsTyped'
<1>1. flow \in Flow /\ Fits(flow) /\ mem \in Flow /\ Fits(mem)
  BY DEF Typed, FlowsTyped
<1>2. ASSUME flow' = flow, mem' \in Flow, Fits(mem') PROVE FlowsTyped'
  BY <1>1, <1>2 DEF FlowsTyped, Fits
<1>3. ASSUME flow' = flow, mem' = mem PROVE FlowsTyped'
  BY <1>1, <1>3 DEF FlowsTyped, Fits
<1>4. ASSUME flow' = flow, mem' = NoFlow PROVE FlowsTyped'
  BY <1>2, <1>4, NoFlowFits
<1>5. CASE WriteFlow
  <2>1. mem' = mem /\ (flow' = mem \/ flow' = flow)
    BY <1>5 DEF WriteFlow
  <2> QED BY <1>1, <2>1 DEF FlowsTyped, Fits
<1>6. CASE WriteMint \/ WriteGate \/ WriteReap \/ WriteConsumed
  BY <1>3, <1>6 DEF WriteMint, WriteGate, WriteReap, WriteConsumed
<1>7. CASE Create
  BY <1>2, <1>7, CreateStep DEF Create, files
<1>8. CASE Stop \/ ReconcileDeadline
  <2>1. flow' = flow
    BY <1>8 DEF Stop, ReconcileDeadline, files
  <2> QED BY <1>2, <1>8, <2>1, EndStep
<1>9. CASE SpoolAppend
  BY <1>2, <1>9, SpoolFits DEF SpoolAppend, files
<1>10. CASE ReconcileBegin
  <2>1. flow' = flow /\ mem' = flow
    BY <1>10 DEF ReconcileBegin, files
  <2> QED BY <1>1, <2>1 DEF FlowsTyped, Fits
<1>11. CASE Route
  <2>1. flow' = flow
    BY <1>11, RouteActs DEF Routing, files
  <2> QED BY <1>2, <1>11, <2>1, RouteFits
<1>12. CASE StatusPass
  BY <1>2, <1>12, StatusPassStep DEF StatusPass, files
<1>13. CASE VisitsDone \/ Crash
  BY <1>4, <1>13 DEF VisitsDone, Crash, files
<1>14. CASE RequestAppend \/ DeadlineNears \/ MoveDeadline \/ ReconcileNothing \/ MarkStarted
            \/ TickEnd
  BY <1>3, <1>14 DEF RequestAppend, DeadlineNears, MoveDeadline, ReconcileNothing, MarkStarted,
                     TickEnd, files, Inside
<1>15. CASE VisitUngate \/ VisitDepSkip \/ VisitPending
  BY <1>3, <1>15 DEF VisitUngate, VisitDepSkip, VisitPending, Visited
<1>16. ASSUME NEW j \in JobIds, VisitHeld(j) \/ VisitGated(j) \/ VisitUngated(j)
       PROVE  FlowsTyped'
  BY <1>3, <1>16 DEF VisitHeld, VisitGated, VisitUngated, files
<1>17. ASSUME NEW j \in JobIds, Cancel(j) \/ Launch(j) \/ Session(j) PROVE FlowsTyped'
  BY <1>3, <1>17 DEF Cancel, Launch, Session, Report, AuthFail, UnitExit, WindowPast, files,
                     Inside
<1>18. CASE UNCHANGED vars
  BY <1>3, <1>18 DEF vars
<1> QED BY <1>5, <1>6, <1>7, <1>8, <1>9, <1>10, <1>11, <1>12, <1>13, <1>14, <1>15, <1>16,
           <1>17, <1>18 DEF Next, Tick, Visit, Writing

LEMMA PlanStays ==
  ASSUME Typed, [Next]_vars
  PROVE  Plan(writes)'
<1>1. Plan(writes) /\ flow \in Flow /\ Fits(flow)
  BY DEF Typed, FlowsTyped
<1>2. ASSUME writes' = writes PROVE Plan(writes')
  BY <1>1, <1>2
<1>3. ASSUME ~ Computing, writes' = Tail(writes) PROVE Plan(writes')
  BY <1>1, <1>3, PlanTail DEF Computing
<1>4. CASE WriteMint \/ WriteGate \/ WriteFlow \/ WriteConsumed
  BY <1>3, <1>4 DEF WriteMint, WriteGate, WriteFlow, WriteConsumed
<1>5. CASE WriteReap
  <2>1. PICK j \in Head(writes).jobs :
          writes' = IF Head(writes).jobs = {j} THEN Tail(writes) ELSE Shrunk(writes, j)
    BY <1>5 DEF WriteReap, Shrunk
  <2>2. ~ Computing /\ Head(writes).kind = "reap"
    BY <1>5 DEF WriteReap
  <2> QED BY <1>1, <1>3, <2>1, <2>2, PlanShrunk DEF Computing
<1>6. CASE Create
  BY <1>6, CreateStep
<1>7. CASE Stop \/ ReconcileDeadline
  BY <1>7, EndStep
<1>8. CASE SpoolAppend
  BY <1>8, SpoolStep
<1>9. CASE ReconcileBegin
  <2>1. Orphans(flow) \in SUBSET JobIds
    BY DEF Orphans
  <2>2. writes' = Reap(Orphans(flow))
    BY <1>9 DEF ReconcileBegin
  <2> QED BY <2>1, <2>2, ReapPlan
<1>10. CASE Route
  BY <1>10, RouteFits
<1>11. CASE StatusPass
  BY <1>11, StatusPassStep, ShortPlans, EndPlans
<1>12. CASE Crash
  BY <1>12, ShortPlans DEF Crash
<1>13. CASE RequestAppend \/ DeadlineNears \/ MoveDeadline \/ ReconcileNothing \/ MarkStarted
            \/ TickEnd \/ VisitsDone
  BY <1>2, <1>13 DEF RequestAppend, DeadlineNears, MoveDeadline, ReconcileNothing, MarkStarted,
                     TickEnd, VisitsDone, Inside
<1>14. CASE VisitUngate \/ VisitDepSkip \/ VisitPending
  BY <1>2, <1>14 DEF VisitUngate, VisitDepSkip, VisitPending, Visited
<1>15. ASSUME NEW j \in JobIds, VisitHeld(j) \/ VisitGated(j) \/ VisitUngated(j)
       PROVE  Plan(writes')
  BY <1>2, <1>15 DEF VisitHeld, VisitGated, VisitUngated
<1>16. ASSUME NEW j \in JobIds, Cancel(j) \/ Launch(j) \/ Session(j) PROVE Plan(writes')
  BY <1>2, <1>16 DEF Cancel, Launch, Session, Report, AuthFail, UnitExit, WindowPast, Inside
<1>17. CASE UNCHANGED vars
  BY <1>2, <1>17 DEF vars
<1>18. Plan(writes')
  BY <1>4, <1>5, <1>6, <1>7, <1>8, <1>9, <1>10, <1>11, <1>12, <1>13, <1>14, <1>15, <1>16,
     <1>17 DEF Next, Tick, Visit, Writing
<1> QED BY <1>18 DEF Plan, WellFormed, Write, Node, Id, Kinds, Ends, Stamps

LEMMA LoopStays ==
  ASSUME Typed, [Next]_vars
  PROVE  LoopTyped'
<1>1. flow \in Flow /\ Fits(flow) /\ mem \in Flow /\ LoopTyped
  BY DEF Typed, FlowsTyped
<1>2. Len(flow.nodes) \in Nat /\ Len(mem.nodes) \in Nat
  BY <1>1 DEF Flow
<1>3. ASSUME flow' = flow, mem' = mem, UNCHANGED <<pc, loop>> PROVE LoopTyped'
  BY <1>1, <1>3 DEF LoopTyped, loop
<1>4. ASSUME idx' \in {0, idx}, total' \in {0, total}, left' \in {{}, left, JobIds},
             cur' \in {0, cur}, pc' \in Pcs \ {"route"}
      PROVE  LoopTyped'
  <2>1. idx' \in Nat /\ total' \in Nat
    BY <1>1, <1>4 DEF LoopTyped
  <2>2. left' \subseteq JobIds
    BY <1>1, <1>4 DEF LoopTyped
  <2>3. cur' \in 0..MaxJobs
    BY <1>1, <1>4, FlowAssumption DEF LoopTyped
  <2>4. pc' \in Pcs /\ pc' # "route"
    BY <1>4
  <2> QED BY <2>1, <2>2, <2>3, <2>4 DEF LoopTyped
<1>5. CASE WriteFlow
  <2>1. mem' = mem /\ (flow' = mem \/ flow' = flow) /\ UNCHANGED <<pc, loop>>
    BY <1>5 DEF WriteFlow
  <2>2. Len(flow'.nodes) \in {Len(flow.nodes), Len(mem.nodes)} /\ mem'.nodes = mem.nodes
    BY <2>1
  <2>3. pc = "route" => total <= Len(flow'.nodes) /\ Len(flow'.nodes) <= Len(mem'.nodes)
    <3> DEFINE a == Len(flow.nodes)
               b == Len(mem.nodes)
    <3>1. a \in Nat /\ b \in Nat /\ total \in Nat /\ (pc = "route" => total <= a /\ a <= b)
      BY <1>1, <1>2 DEF LoopTyped
    <3>2. Len(flow'.nodes) \in {a, b} /\ Len(mem'.nodes) = b
      BY <2>2
    <3> HIDE DEF a, b
    <3> QED BY <3>1, <3>2
  <2> QED BY <1>1, <2>1, <2>2, <2>3 DEF LoopTyped, loop
<1>6. CASE WriteMint \/ WriteGate \/ WriteReap \/ WriteConsumed
  BY <1>3, <1>6 DEF WriteMint, WriteGate, WriteReap, WriteConsumed
<1>7. CASE Create \/ Stop
  BY <1>4, <1>7 DEF Create, Stop, loop, Pcs
<1>8. CASE SpoolAppend \/ ReconcileNothing \/ ReconcileDeadline
  BY <1>4, <1>8 DEF SpoolAppend, ReconcileNothing, ReconcileDeadline, loop, Pcs
<1>9. CASE ReconcileBegin
  <2>1. flow' = flow /\ mem' = flow /\ pc' = "route" /\ idx' = 1 /\ total' = Len(flow.nodes)
        /\ left' = left /\ cur' = cur /\ flow.status # "none"
    BY <1>9 DEF ReconcileBegin, files
  <2>2. flow.nodes # <<>>
    BY <1>1, <2>1, LiveHasNodes
  <2> QED BY <1>1, <1>2, <2>1, <2>2 DEF LoopTyped, Pcs
<1>10. CASE Route
  <2>1. Acts(At) /\ Routing /\ idx' = At + 1
    BY <1>10, RouteActs
  <2>2. At \in 1..total /\ pc = "route"
    BY <2>1 DEF Acts, Routing
  <2>3. flow' = flow /\ pc' = pc /\ total' = total /\ left' = left /\ cur' = cur
    BY <2>1 DEF Routing, files
  <2>4. mem' \in Flow /\ mem'.nodes # <<>>
    BY <1>10, RouteFits
  <2>5. Len(mem.nodes) <= Len(mem'.nodes)
    BY <2>1 DEF Acts, Insertion, Extends
  <2>6. idx' \in Nat \ {0}
    BY <1>1, <2>1, <2>2 DEF LoopTyped
  <2>7. Len(flow'.nodes) <= Len(mem'.nodes)
    <3> DEFINE a == Len(flow.nodes)
               b == Len(mem.nodes)
               c == Len(mem'.nodes)
    <3>1. a \in Nat /\ b \in Nat /\ c \in Nat /\ a <= b /\ b <= c
      BY <1>1, <1>2, <2>2, <2>4, <2>5 DEF LoopTyped, Flow
    <3> HIDE DEF a, b, c
    <3>2. a <= c
      BY <3>1
    <3> QED BY <2>3, <3>2 DEF a, c
  <2> QED BY <1>1, <2>2, <2>3, <2>4, <2>6, <2>7 DEF LoopTyped
<1>11. CASE StatusPass
  BY <1>4, <1>11 DEF StatusPass, Pcs
<1>12. CASE VisitsDone \/ Crash
  BY <1>4, <1>12 DEF VisitsDone, Crash, Pcs
<1>13. CASE RequestAppend \/ DeadlineNears \/ MoveDeadline
  BY <1>3, <1>13 DEF RequestAppend, DeadlineNears, MoveDeadline, files, Inside
<1>14. CASE MarkStarted \/ TickEnd
  BY <1>4, <1>14 DEF MarkStarted, TickEnd, Pcs, loop
<1>15. CASE VisitUngate \/ VisitDepSkip \/ VisitPending
  BY <1>4, <1>15 DEF VisitUngate, VisitDepSkip, VisitPending, Visited, Pcs
<1>16. ASSUME NEW j \in JobIds, VisitHeld(j) \/ VisitGated(j) \/ VisitUngated(j)
       PROVE  LoopTyped'
  <2>1. /\ idx' = idx /\ total' = total /\ left' = left \ {j} /\ cur' \in {cur, j}
        /\ pc' \in {"gate", "ready"}
    BY <1>16 DEF VisitHeld, VisitGated, VisitUngated, Visiting
  <2>2. JobIds \subseteq 0..MaxJobs
    BY FlowAssumption DEF JobIds
  <2> QED BY <1>1, <2>1, <2>2 DEF LoopTyped, Pcs
<1>17. ASSUME NEW j \in JobIds, Cancel(j) \/ Session(j) PROVE LoopTyped'
  BY <1>3, <1>17 DEF Cancel, Session, Report, AuthFail, UnitExit, WindowPast, files, Inside, loop
<1>18. ASSUME NEW j \in JobIds, Launch(j) PROVE LoopTyped'
  <2>1. idx' = idx /\ total' = total /\ left' = left /\ cur' = j /\ pc' = "mark"
    BY <1>18 DEF Launch
  <2>2. JobIds \subseteq 0..MaxJobs
    BY FlowAssumption DEF JobIds
  <2> QED BY <1>1, <2>1, <2>2 DEF LoopTyped, Pcs
<1>19. CASE UNCHANGED vars
  BY <1>3, <1>19 DEF vars
<1> QED BY <1>5, <1>6, <1>7, <1>8, <1>9, <1>10, <1>11, <1>12, <1>13, <1>14, <1>15, <1>16,
           <1>17, <1>18, <1>19 DEF Next, Tick, Visit, Writing

LEMMA TypedStays ==
  ASSUME Typed, [Next]_vars
  PROVE  Typed'
BY FlowsStay, JobsStay, SessionsStay, PlanStays, LoopStays DEF Typed

(***************************************************************************)
(* No session is ever started for a job the saved flow does not know, and   *)
(* the nodes and the sessions of a run stay within its lifetime budget, for *)
(* every path, edge, fan-out and budget, whatever crashes or fails to save. *)
(*                                                                          *)
(* A job that is queued and is no node of the saved flow is an orphan: of a *)
(* handler that has not saved yet, or of one that never did.  The argument  *)
(* is that every orphan is kept back by a gate of its own, until it is a    *)
(* node, is reaped or is skipped.                                           *)
(***************************************************************************)
Ids(f) == {n.id : n \in Nodes(f)}
Pending == Range(writes)
Saving == \E w \in Pending : w.kind \in {"flow", "save"}
Unseen(n) == n.seen = ""
Queued(j) == job[j].phase = "queued"
Orphan(j) == Queued(j) /\ j \notin Owned(flow)
Backed(n) == job[n.job].phase # "absent" /\ job[n.job].id = n.id
Owed(n) == \E w \in Pending : w.kind = "mint" /\ w.node.job = n.job /\ w.node.id = n.id
Reaped(j) == \E w \in Pending : w.kind = "reap" /\ j \in w.jobs

Unheard(up) == \E n \in Nodes(flow) : n.id = up /\ Unseen(n) /\ ReportExists(n.job)
Waits(after) == \E up \in after : up \notin Ids(flow) \/ Unheard(up)

Quiet ==
  /\ pc \in {"ready", "launch", "mark", "watch"} => writes = <<>>
  /\ pc = "gate" => \A w \in Pending : w.kind \in {"reap", "save"}

Reported == \A j \in JobIds : ReportExists(j) => unit[j] # "none"

FlowBacked == \A n \in Nodes(flow) : Backed(n)

MemBacked == pc = "route" \/ Saving =>
  /\ mem.status # "none" /\ Extends(flow, mem)
  /\ \A n \in Nodes(mem) : Backed(n) \/ Owed(n)

MintsNew == \A w \in Pending : w.kind = "mint" =>
  /\ job[w.node.job].phase = "absent"
  /\ w.node.after # {} \/ flow.status = "none"

Creating == flow.status = "none" =>
  /\ pc # "route"
  /\ pc \in {"spool", "gate"} => \A w \in Pending : w.kind = "consume"
  /\ pc = "idle" /\ Pending # {} =>
       /\ \E w \in Pending : w.kind = "flow"
       /\ \A w \in Pending : w.kind \in {"mint", "flow"}
       /\ \A w \in Pending : w.kind = "mint" => w.node.job \in Owned(mem)
       /\ \A j \in JobIds : job[j].phase # "absent" => j \in Owned(mem)

UngatedOwned == \A j \in JobIds : Orphan(j) /\ ~ job[j].gated =>
  /\ flow.status = "none" /\ pc # "launch"
  /\ pc \in {"gate", "ready"} => j \in left

Routed == pc = "route" =>
  /\ \A i \in 1..Len(flow.nodes) : Unseen(mem.nodes[i]) => Unseen(flow.nodes[i])
  /\ \A j \in JobIds : Queued(j) => j \in Owned(mem) \/ Reaped(j)
  /\ \A j \in JobIds : Orphan(j) /\ j \in Owned(mem) => Waits(job[j].after)
  /\ \A w \in Pending : w.kind = "mint" => w.node.job \in Owned(mem)
  /\ \A w \in Pending : w.kind \in {"mint", "gate"} =>
       w.node.job \in Owned(flow) \/ Waits(w.node.after)

Holds ==
  /\ pc \in {"gate", "ready"} => \A j \in JobIds : Orphan(j) /\ job[j].gated =>
       flow.status = "none" \/ FlowTerminal(flow) \/ clock # "open" \/ Waits(job[j].after)
  /\ pc = "gate" /\ Saving => clock = "past" \/ \A j \in JobIds : Queued(j) => j \in Owned(mem)
  /\ pc = "ready" /\ cur \in JobIds /\ Orphan(cur) =>
       flow.status = "none" \/ clock # "open" \/ \E up \in job[cur].after : up \notin Ids(flow)

Gates == UngatedOwned /\ Routed /\ Holds
Files == FlowBacked /\ MemBacked /\ MintsNew /\ Creating
Safe == Typed /\ Quiet /\ Reported /\ SessionsOwned /\ Files /\ Gates

(***************************************************************************)
(* Facts the steps share.                                                   *)
(***************************************************************************)
LEMMA NodesOf ==
  ASSUME NEW f \in Flow
  PROVE  /\ Nodes(f) = {f.nodes[i] : i \in 1..Len(f.nodes)}
         /\ \A n \in Nodes(f) : n \in Node /\ n.job \in JobIds /\ n.id \in Id
<1>1. f.nodes \in Seq(Node)
  BY DEF Flow
<1>2. DOMAIN f.nodes = 1..Len(f.nodes) /\ \A i \in 1..Len(f.nodes) : f.nodes[i] \in Node
  BY <1>1
<1>3. \A n \in Node : n.job \in JobIds /\ n.id \in Id
  BY DEF Node
<1> QED BY <1>2, <1>3 DEF Nodes

\* What a job waits for it still waits for when more reports are there.
LEMMA WaitsStays ==
  ASSUME flow' = flow, flow \in Flow, \A j \in JobIds : ReportExists(j) => ReportExists(j)'
  PROVE  \A after : Waits(after) => Waits(after)'
<1>1. \A n \in Nodes(flow) : n.job \in JobIds
  BY NodesOf
<1>2. \A up : Unheard(up) => Unheard(up)'
  <2> SUFFICES ASSUME NEW up, Unheard(up) PROVE Unheard(up)'
    OBVIOUS
  <2>1. PICK n \in Nodes(flow) : n.id = up /\ Unseen(n) /\ ReportExists(n.job)
    BY DEF Unheard
  <2>2. ReportExists(n.job)' /\ n \in Nodes(flow)'
    BY <1>1, <2>1
  <2>3. Unseen(n)' <=> Unseen(n)
    BY DEF Unseen
  <2> QED BY <2>1, <2>2, <2>3 DEF Unheard
<1>3. Ids(flow)' = Ids(flow)
  OBVIOUS
<1> QED BY <1>2, <1>3 DEF Waits

(***************************************************************************)
(* Sessions, the clock and the spool: more reports, and nothing else that   *)
(* the files and the gates depend on.                                       *)
(***************************************************************************)
Elsewhere ==
  /\ UNCHANGED <<flow, mem, job, pc, writes, left, cur>>
  /\ clock' = clock \/ pc = "idle"
  /\ \A j \in JobIds : /\ ReportExists(j) => ReportExists(j)'
                       /\ ReportExists(j)' => unit'[j] # "none"
                       /\ unit'[j] # "none" <=> unit[j] # "none"

LEMMA ElsewhereSteps ==
  ASSUME Safe,
         \/ RequestAppend \/ DeadlineNears \/ MoveDeadline \/ UNCHANGED vars
         \/ \E j \in JobIds : Session(j)
  PROVE  Elsewhere
<1>1. /\ report \in [JobIds -> Reports] /\ unit \in [JobIds -> Units] /\ Reported
  BY DEF Safe, Typed, SessionsTyped
<1>2. ASSUME UNCHANGED <<flow, mem, job, pc, writes, left, cur, report, unit>>,
             clock' = clock \/ pc = "idle"
      PROVE  Elsewhere
  BY <1>1, <1>2 DEF Elsewhere, Reported, ReportExists
<1>3. RequestAppend \/ DeadlineNears \/ MoveDeadline \/ UNCHANGED vars => Elsewhere
  BY <1>2 DEF RequestAppend, DeadlineNears, MoveDeadline, vars, Inside, files, outside, sessions,
              loop
<1>4. ASSUME NEW j \in JobIds, WindowPast(j) PROVE Elsewhere
  BY <1>2, <1>4 DEF WindowPast, Inside, outside, sessions, loop
<1>5. ASSUME NEW j \in JobIds, UnitExit(j) PROVE Elsewhere
  BY <1>1, <1>5 DEF UnitExit, Inside, files, loop, Elsewhere, Reported, ReportExists
<1>6. ASSUME NEW j \in JobIds, AuthFail(j) PROVE Elsewhere
  BY <1>1, <1>6 DEF AuthFail, Inside, loop, Elsewhere, Reported, ReportExists
<1>7. ASSUME NEW j \in JobIds, NEW role \in DOMAIN Answers, NEW a \in Answers[role],
             Report(j, a[1], a[2])
      PROVE  Elsewhere
  <2>1. a[1] # "none"
    BY FlowAssumption
  <2>2. report' = [report EXCEPT ![j] = a[1]] /\ unit[j] = "active"
        /\ (unit' = unit \/ unit' = [unit EXCEPT ![j] = "dead"])
    BY <1>7 DEF Report
  <2>3. UNCHANGED <<flow, mem, job, pc, writes, left, cur, clock>>
    BY <1>7 DEF Report, files, Inside, loop
  <2> QED BY <1>1, <2>1, <2>2, <2>3 DEF Elsewhere, Reported, ReportExists
<1> QED BY <1>3, <1>4, <1>5, <1>6, <1>7 DEF Session

LEMMA ElsewhereSafe ==
  ASSUME Safe, Elsewhere
  PROVE  Quiet' /\ Reported' /\ SessionsOwned' /\ Files' /\ Gates'
<1> USE DEF Elsewhere
<1>1. flow \in Flow
  BY DEF Safe, Typed, FlowsTyped
<1>2. \A after : Waits(after) => Waits(after)'
  BY <1>1, WaitsStays
<1>3. Quiet'
  BY DEF Safe, Quiet, Pending
<1>4. Reported'
  BY DEF Reported
<1>5. SessionsOwned'
  BY DEF Safe, SessionsOwned
<1>6. Files'
  <2>1. FlowBacked'
    BY DEF Safe, Files, FlowBacked, Backed
  <2>2. MemBacked'
    BY DEF Safe, Files, MemBacked, Backed, Owed, Pending, Saving
  <2>3. MintsNew' /\ Creating'
    BY DEF Safe, Files, MintsNew, Creating, Pending
  <2> QED BY <2>1, <2>2, <2>3 DEF Files
<1>7. Gates'
  <2>1. UngatedOwned'
    BY DEF Safe, Gates, UngatedOwned, Orphan, Queued
  <2>2. Routed'
    BY <1>2 DEF Safe, Gates, Routed, Orphan, Queued, Pending, Reaped
  <2>3. Holds'
    BY <1>2 DEF Safe, Gates, Holds, Orphan, Queued, Pending, Saving
  <2> QED BY <2>1, <2>2, <2>3 DEF Gates
<1> QED BY <1>3, <1>4, <1>5, <1>6, <1>7

(***************************************************************************)
(* Steps that leave no write pending, outside the verdict pass: only the    *)
(* jobs and the gates can be disturbed.                                     *)
(***************************************************************************)
LEMMA CalmSafe ==
  ASSUME writes' = <<>>, pc' # "route"
  PROVE  Quiet' /\ MemBacked' /\ MintsNew' /\ Creating' /\ Routed'
<1>1. Pending' = {} /\ ~ Saving'
  BY ShortPlans DEF Pending, Saving
<1>2. Quiet'
  BY <1>1 DEF Quiet
<1>3. MemBacked' /\ MintsNew'
  BY <1>1 DEF MemBacked, MintsNew
<1>4. Creating'
  BY <1>1 DEF Creating
<1>5. Routed'
  BY DEF Routed
<1> QED BY <1>2, <1>3, <1>4, <1>5

LEMMA SessionsKept ==
  ASSUME Safe, UNCHANGED <<flow, report, unit>>
  PROVE  Reported' /\ SessionsOwned'
BY DEF Safe, Reported, SessionsOwned, ReportExists

LEMMA BackedKept ==
  ASSUME Safe, flow' = flow,
         \A i \in JobIds : /\ job'[i].id = job[i].id
                           /\ job'[i].phase = "absent" => job[i].phase = "absent"
  PROVE  FlowBacked'
<1>1. flow \in Flow /\ FlowBacked
  BY DEF Safe, Typed, FlowsTyped, Files
<1>2. ASSUME NEW n \in Nodes(flow)' PROVE Backed(n)'
  <2>1. n \in Nodes(flow) /\ n.job \in JobIds
    BY <1>1, NodesOf
  <2>2. Backed(n)
    BY <1>1, <2>1 DEF FlowBacked
  <2> QED BY <2>1, <2>2 DEF Backed
<1> QED BY <1>2 DEF FlowBacked

\* One job j is looked at: it is taken out of the queue, or was no orphan, or
\* keeps its gate.
LEMMA VisitSafe ==
  ASSUME Safe, NEW j, writes' = <<>>, UNCHANGED <<flow, report, unit, clock>>,
         pc' \notin {"route", "ready", "launch"},
         pc' = "gate" => pc \in {"gate", "ready"} /\ left' \in {left, left \ {j}},
         \A i \in JobIds : /\ job'[i].id = job[i].id
                           /\ job'[i].phase = "absent" => job[i].phase = "absent",
         \A i \in JobIds : i # j => job'[i] = job[i],
         j \in JobIds => \/ ~ Queued(j)'
                         \/ ~ Orphan(j) /\ (Queued(j)' => Queued(j))
                         \/ job'[j] = job[j] /\ (pc' = "gate" => left' = left \/ job[j].gated)
  PROVE  Quiet' /\ Reported' /\ SessionsOwned' /\ Files' /\ Gates'
<1>1. Quiet' /\ MemBacked' /\ MintsNew' /\ Creating' /\ Routed'
  BY CalmSafe
<1>2. Reported' /\ SessionsOwned'
  BY SessionsKept
<1>3. FlowBacked'
  BY BackedKept
<1>4. flow \in Flow /\ UngatedOwned /\ Holds
  BY DEF Safe, Typed, FlowsTyped, Gates
<1>5. \A after : Waits(after) => Waits(after)'
  <2>1. \A i \in JobIds : ReportExists(i) => ReportExists(i)'
    BY DEF ReportExists
  <2> QED BY <1>4, <2>1, WaitsStays
<1>6. \A i \in JobIds : Orphan(i)' =>
        /\ Orphan(i) /\ job'[i] = job[i]
        /\ i = j => (pc' = "gate" => left' = left \/ job[j].gated)
  <2>1. \A i \in JobIds : i \notin Owned(flow)' => i \notin Owned(flow)
    OBVIOUS
  <2> QED BY <2>1 DEF Orphan, Queued
<1>7. UngatedOwned'
  BY <1>4, <1>6 DEF UngatedOwned
<1>8. Holds'
  <2>1. ~ Saving'
    BY ShortPlans DEF Saving, Pending
  <2>2. pc' \in {"gate", "ready"} => pc \in {"gate", "ready"}
    OBVIOUS
  <2>3. FlowTerminal(flow)' <=> FlowTerminal(flow)
    OBVIOUS
  <2> QED BY <1>4, <1>5, <1>6, <2>1, <2>2, <2>3 DEF Holds
<1> QED BY <1>1, <1>2, <1>3, <1>7, <1>8 DEF Files, Gates

\* An upstream that counts as done is a node of the saved flow: the report it
\* takes is of a session, and sessions are of nodes.
LEMMA ReadyIsKnown ==
  ASSUME Safe, NEW j, GatedReadiness(j) = "success"
  PROVE  \A up \in job[j].after : up \in Ids(flow)
<1> SUFFICES ASSUME NEW up \in job[j].after PROVE up \in Ids(flow)
  OBVIOUS
<1> DEFINE Waves(s) == {x \in job[j].after : UpstreamWaveStatus(x) = s}
           Quorum == {x \in job[j].after : \E n \in Named(flow, x) : n.by # None}
<1>1. Quorum \subseteq Ids(flow)
  BY DEF Named, Ids
<1>2. Waves("failed") \subseteq Quorum /\ Waves("pending") = {}
  <2> DEFINE F == Waves("failed")
             P == Waves("pending")
             S == Waves("success")
             Q == Quorum
             R == GatedReadiness(j)
  <2>1. R = CASE ~ F \subseteq Q -> "failed"
              [] F # {} /\ S = {} /\ P = {} -> "failed"
              [] F \subseteq Q /\ P # {} -> "pending"
              [] OTHER -> "success"
    BY DEF GatedReadiness
  <2>2. R = "success"
    OBVIOUS
  <2> HIDE DEF F, P, S, Q, R
  <2>3. F \subseteq Q /\ P = {}
    BY <2>1, <2>2
  <2> QED BY <2>3 DEF F, P, Q
<1>3. UpstreamWaveStatus(up) \in {"success", "failed", "pending"}
  <2> DEFINE here == {i \in JobIds : Exists(i) /\ job[i].id = up}
             A == \E i \in here : ReportExists(i)
             B == here # {} /\ \A i \in here : ~ ReportExists(i) /\ JobTerminalNoReport(i)
  <2>1. UpstreamWaveStatus(up) = CASE A -> "success" [] B -> "failed" [] OTHER -> "pending"
    BY DEF UpstreamWaveStatus
  <2> HIDE DEF A, B
  <2> QED BY <2>1
<1>4. CASE UpstreamWaveStatus(up) = "success"
  <2>1. PICK i \in JobIds : job[i].id = up /\ ReportExists(i)
    <3> DEFINE here == {i \in JobIds : Exists(i) /\ job[i].id = up}
               A == \E i \in here : ReportExists(i)
               B == here # {} /\ \A i \in here : ~ ReportExists(i) /\ JobTerminalNoReport(i)
    <3>1. UpstreamWaveStatus(up) = CASE A -> "success" [] B -> "failed" [] OTHER -> "pending"
      BY DEF UpstreamWaveStatus
    <3>2. ~ A => UpstreamWaveStatus(up) # "success"
      <4> HIDE DEF A, B
      <4> QED BY <3>1
    <3>3. A
      BY <1>4, <3>2
    <3> QED BY <3>3
  <2>2. i \in Owned(flow)
    BY <2>1 DEF Safe, Reported, SessionsOwned
  <2>3. PICK n \in Nodes(flow) : n.job = i
    BY <2>2 DEF Owned
  <2>4. n.id = up
    BY <2>1, <2>3 DEF Safe, Files, FlowBacked, Backed
  <2> QED BY <2>3, <2>4 DEF Ids
<1> QED BY <1>1, <1>2, <1>3, <1>4

LEMMA SkipSafe ==
  ASSUME Safe, NEW j, DepSkip(j), writes' = <<>>, UNCHANGED <<flow, report, unit, clock>>,
         pc' = "gate", pc \in {"gate", "ready"}, left' \in {left, left \ {j}}
  PROVE  Quiet' /\ Reported' /\ SessionsOwned' /\ Files' /\ Gates'
<1>1. job \in [JobIds -> JobFile]
  BY DEF Safe, Typed, JobsTyped
<1>2. job' = [job EXCEPT ![j].phase = "skipped", ![j].gated = FALSE]
  BY DEF DepSkip
<1>3. \A i \in JobIds : job[i] \in JobFile
  BY <1>1
<1>4. \A i \in JobIds : job'[i].id = job[i].id
                        /\ (job'[i].phase = "absent" => job[i].phase = "absent")
  BY <1>1, <1>2, <1>3 DEF JobFile
<1>5. \A i \in JobIds : i # j => job'[i] = job[i]
  BY <1>1, <1>2
<1>6. j \in JobIds => ~ Queued(j)'
  BY <1>1, <1>2, <1>3 DEF Queued, JobFile
<1> QED BY <1>4, <1>5, <1>6, VisitSafe

LEMMA PhaseSafe ==
  ASSUME Safe, NEW j, NEW p \in {"gone", "started"}, job' = [job EXCEPT ![j].phase = p],
         writes' = <<>>, UNCHANGED <<flow, report, unit, clock>>, pc' \in {"idle", "watch"}
  PROVE  Quiet' /\ Reported' /\ SessionsOwned' /\ Files' /\ Gates'
<1>1. job \in [JobIds -> JobFile]
  BY DEF Safe, Typed, JobsTyped
<1>2. \A i \in JobIds : job[i] \in JobFile
  BY <1>1
<1>3. \A i \in JobIds : job'[i].id = job[i].id
                        /\ (job'[i].phase = "absent" => job[i].phase = "absent")
  BY <1>1, <1>2 DEF JobFile
<1>4. \A i \in JobIds : i # j => job'[i] = job[i]
  BY <1>1
<1>5. j \in JobIds => ~ Queued(j)'
  BY <1>1, <1>2 DEF Queued, JobFile
<1> QED BY <1>3, <1>4, <1>5, VisitSafe

LEMMA UngateSafe ==
  ASSUME Safe, VisitUngate
  PROVE  Quiet' /\ Reported' /\ SessionsOwned' /\ Files' /\ Gates'
<1>1. job \in [JobIds -> JobFile] /\ Holds /\ Quiet
  BY DEF Safe, Typed, JobsTyped, Gates
<1>2. \A i \in JobIds : job[i] \in JobFile
  BY <1>1
<1>3. job' = [job EXCEPT ![cur].gated = FALSE, ![cur].after = {}]
  BY DEF VisitUngate
<1>4. pc = "ready" /\ clock = "open" /\ flow.status # "none"
  BY DEF VisitUngate
<1>5. ~ (cur \in JobIds /\ Orphan(cur))
  BY <1>1, <1>4, ReadyIsKnown DEF Holds, VisitUngate
<1>6. \A i \in JobIds : job'[i].id = job[i].id /\ job'[i].phase = job[i].phase
  BY <1>1, <1>2, <1>3 DEF JobFile
<1>7. \A i \in JobIds : i # cur => job'[i] = job[i]
  BY <1>1, <1>3
<1>8. /\ writes' = <<>> /\ UNCHANGED <<flow, report, unit, clock>> /\ pc' = "gate"
      /\ left' = left
  BY <1>1, <1>4 DEF VisitUngate, Visited, outside, sessions, Quiet
<1>9. PICK j : j = cur
  OBVIOUS
<1>10. \A i \in JobIds : i # j => job'[i] = job[i]
  BY <1>7, <1>9
<1>11. j \in JobIds => ~ Orphan(j) /\ (Queued(j)' => Queued(j))
  BY <1>5, <1>6, <1>9 DEF Queued
<1> QED BY <1>4, <1>6, <1>8, <1>10, <1>11, VisitSafe

\* A gated job the verdict hold lets through to the readiness check.
LEMMA GatedSafe ==
  ASSUME Safe, NEW j \in JobIds, VisitGated(j)
  PROVE  Quiet' /\ Reported' /\ SessionsOwned' /\ Files' /\ Gates'
<1>1. /\ writes' = <<>> /\ UNCHANGED <<flow, report, unit, clock, job>> /\ pc' = "ready"
      /\ left' = left \ {j} /\ cur' = j /\ pc = "gate"
  BY DEF VisitGated, Visiting, Computing, files, outside, sessions
<1>2. Quiet' /\ MemBacked' /\ MintsNew' /\ Creating' /\ Routed'
  BY <1>1, CalmSafe
<1>3. Reported' /\ SessionsOwned' /\ FlowBacked'
  BY <1>1, SessionsKept, BackedKept
<1>4. flow \in Flow /\ UngatedOwned /\ Holds
  BY DEF Safe, Typed, FlowsTyped, Gates
<1>5. \A after : Waits(after) => Waits(after)'
  <2>1. \A i \in JobIds : ReportExists(i) => ReportExists(i)'
    BY <1>1 DEF ReportExists
  <2> QED BY <1>1, <1>4, <2>1, WaitsStays
<1>6. \A i \in JobIds : Orphan(i)' <=> Orphan(i)
  BY <1>1 DEF Orphan, Queued
<1>7. job[j].gated /\ ~ FlowGateHold(j)
  BY DEF VisitGated
<1>8. UngatedOwned'
  BY <1>1, <1>4, <1>6, <1>7 DEF UngatedOwned
<1>9. Orphan(j) => \/ flow.status = "none" \/ clock # "open"
                   \/ \E up \in job[j].after : up \notin Ids(flow)
  <2>1. SUFFICES ASSUME Orphan(j), flow.status # "none", clock = "open"
                 PROVE  \E up \in job[j].after : up \notin Ids(flow)
    OBVIOUS
  <2>2. ~ FlowTerminal(flow) /\ \A up \in job[j].after : ~ Unheard(up)
    BY <1>7, <2>1, Zenon DEF FlowGateHold, Unheard, Unseen, Named
  <2>3. Waits(job[j].after)
    BY <1>1, <1>4, <1>7, <2>1, <2>2 DEF Holds
  <2> QED BY <2>2, <2>3 DEF Waits
<1>10. Holds'
  <2>1. ~ Saving'
    BY <1>1, ShortPlans DEF Saving, Pending
  <2>2. FlowTerminal(flow)' <=> FlowTerminal(flow)
    BY <1>1
  <2> QED BY <1>1, <1>4, <1>5, <1>6, <1>9, <2>1, <2>2 DEF Holds
<1> QED BY <1>2, <1>3, <1>8, <1>10 DEF Files, Gates

\* The maintenance loop is over, or the tick, or the control plane died.
LEMMA DoneSafe ==
  ASSUME Safe, VisitsDone \/ TickEnd \/ Crash
  PROVE  Quiet' /\ Reported' /\ SessionsOwned' /\ Files' /\ Gates'
<1>1. writes' = <<>> /\ UNCHANGED <<flow, report, unit, clock, job>> /\ pc' \in {"idle", "launch"}
  BY DEF Safe, Quiet, VisitsDone, TickEnd, Crash, Computing, files, outside, sessions
<1>2. Quiet' /\ MemBacked' /\ MintsNew' /\ Creating' /\ Routed'
  BY <1>1, CalmSafe
<1>3. Reported' /\ SessionsOwned' /\ FlowBacked'
  BY <1>1, SessionsKept, BackedKept
<1>4. Holds'
  BY <1>1 DEF Holds
<1>5. \A i \in JobIds : Orphan(i)' <=> Orphan(i)
  BY <1>1 DEF Orphan, Queued
<1>6. UngatedOwned'
  <2>1. CASE pc' = "idle"
    BY <1>1, <1>5, <2>1 DEF Safe, Gates, UngatedOwned
  <2>2. CASE pc' = "launch"
    <3>1. VisitsDone
      BY <2>2 DEF TickEnd, Crash
    <3>2. pc = "gate" /\ ToVisit = {}
      BY <3>1 DEF VisitsDone
    <3>3. \A i \in JobIds : Orphan(i) => i \notin left
      BY <3>2 DEF ToVisit, Orphan, Queued
    <3> QED BY <1>1, <1>5, <3>2, <3>3 DEF Safe, Gates, UngatedOwned
  <2> QED BY <1>1, <2>1, <2>2
<1> QED BY <1>2, <1>3, <1>4, <1>6 DEF Files, Gates

\* A launch is of a job whose gate was opened: a node of the saved flow.
LEMMA LaunchSafe ==
  ASSUME Safe, NEW j \in JobIds, Launch(j)
  PROVE  Quiet' /\ Reported' /\ SessionsOwned' /\ Files' /\ Gates'
<1>1. /\ writes' = <<>> /\ UNCHANGED <<flow, report, clock, job>> /\ pc' = "mark"
      /\ unit' = [unit EXCEPT ![j] = "active"] /\ pc = "launch"
  BY DEF Safe, Quiet, Launch, Computing, files
<1>2. Quiet' /\ MemBacked' /\ MintsNew' /\ Creating' /\ Routed'
  BY <1>1, CalmSafe
<1>3. FlowBacked'
  BY <1>1, BackedKept
<1>4. unit \in [JobIds -> Units]
  BY DEF Safe, Typed, SessionsTyped
<1>5. Reported'
  BY <1>1, <1>4 DEF Safe, Reported, ReportExists
<1>6. j \in Owned(flow)
  BY <1>1 DEF Safe, Gates, UngatedOwned, Orphan, Queued, Launch
<1>7. SessionsOwned'
  BY <1>1, <1>4, <1>6 DEF Safe, SessionsOwned
<1>8. \A i \in JobIds : Orphan(i)' <=> Orphan(i)
  BY <1>1 DEF Orphan, Queued
<1>9. UngatedOwned' /\ Holds'
  BY <1>1, <1>8 DEF Safe, Gates, UngatedOwned, Holds
<1> QED BY <1>2, <1>3, <1>5, <1>7, <1>9 DEF Files, Gates

LEMMA VisitsSafe ==
  ASSUME Safe, Visit \/ MarkStarted \/ TickEnd \/ Crash \/ \E j \in JobIds : Cancel(j) \/ Launch(j)
  PROVE  Quiet' /\ Reported' /\ SessionsOwned' /\ Files' /\ Gates'
<1> DEFINE Goal == Quiet' /\ Reported' /\ SessionsOwned' /\ Files' /\ Gates'
<1>1. Quiet /\ UngatedOwned
  BY DEF Safe, Gates
<1>2. VisitUngate => Goal
  BY UngateSafe
<1>3. VisitsDone \/ TickEnd \/ Crash => Goal
  BY DoneSafe
<1>4. ASSUME VisitDepSkip PROVE Goal
  BY <1>1, <1>4, SkipSafe DEF VisitDepSkip, Visited, outside, sessions, Quiet
<1>5. ASSUME VisitPending PROVE Goal
  <2>1. UNCHANGED <<job, flow, report, unit, clock, left>> /\ pc = "ready" /\ pc' = "gate"
        /\ writes' = <<>>
    BY <1>1, <1>5 DEF VisitPending, Visited, outside, sessions, Quiet
  <2> QED BY <2>1, VisitSafe
<1>6. ASSUME MarkStarted PROVE Goal
  <2>1. UNCHANGED <<flow, report, unit, clock>> /\ writes' = <<>> /\ pc' = "watch"
        /\ job' = [job EXCEPT ![cur].phase = "started"]
    BY <1>1, <1>6 DEF MarkStarted, outside, sessions, Quiet
  <2> QED BY <2>1, PhaseSafe
<1>7. ASSUME NEW j \in JobIds, Cancel(j) PROVE Goal
  <2>1. UNCHANGED <<flow, report, unit, clock>> /\ writes' = <<>> /\ pc' = "idle"
        /\ job' = [job EXCEPT ![j].phase = "gone"]
    BY <1>7 DEF Cancel, Computing, outside, sessions
  <2> QED BY <2>1, PhaseSafe
<1>8. ASSUME NEW j \in JobIds, Launch(j) PROVE Goal
  BY <1>8, LaunchSafe
<1>9. ASSUME NEW j \in JobIds, VisitHeld(j) PROVE Goal
  <2>1. UNCHANGED <<job, flow, report, unit, clock>> /\ pc = "gate" /\ pc' = "gate"
        /\ writes' = <<>> /\ left' = left \ {j} /\ job[j].gated
    BY <1>9 DEF VisitHeld, Visiting, Computing, files, outside, sessions
  <2> QED BY <2>1, VisitSafe
<1>10. ASSUME NEW j \in JobIds, VisitGated(j) PROVE Goal
  BY <1>10, GatedSafe
<1>11. ASSUME NEW j \in JobIds, VisitUngated(j) PROVE Goal
  <2>1. UNCHANGED <<flow, report, unit, clock>> /\ pc = "gate" /\ pc' = "gate"
        /\ writes' = <<>> /\ left' = left \ {j} /\ ~ job[j].gated
    BY <1>11 DEF VisitUngated, Visiting, Computing, outside, sessions
  <2>2. CASE DepSkip(j)
    BY <2>1, <2>2, SkipSafe
  <2>3. CASE flow.status # "none" /\ job' = job
    <3>1. ~ Orphan(j)
      BY <1>1, <2>1, <2>3 DEF UngatedOwned
    <3> QED BY <2>1, <2>3, <3>1, VisitSafe DEF Queued
  <2> QED BY <1>11, <2>2, <2>3 DEF VisitUngated
<1> QED BY <1>2, <1>3, <1>4, <1>5, <1>6, <1>7, <1>8, <1>9, <1>10, <1>11 DEF Visit

(***************************************************************************)
(* One pending write is done.                                               *)
(***************************************************************************)
\* The first pending write; jobs are minted before anything else is written.
LEMMA HeadIs ==
  ASSUME Safe, writes # <<>>, NEW h, h = Head(writes)
  PROVE  /\ WellFormed(h) /\ h \in Pending
         /\ h.kind # "mint" => \A w \in Pending : w.kind # "mint"
         /\ h.kind \in Ends => \A w \in Pending : w.kind \in Ends
         /\ pc \notin {"ready", "launch", "mark", "watch"}
         /\ pc = "gate" => h.kind \in {"reap", "save"}
         /\ writes' = Tail(writes) =>
              /\ Pending' \subseteq Pending /\ Pending \subseteq {h} \cup Pending'
              /\ h.kind = "mint" => \A w \in Pending' :
                                       w.kind = "mint" => w.node.job # h.node.job
<1>1. Plan(writes) /\ Quiet
  BY DEF Safe, Typed
<1>2. /\ WellFormed(h)
      /\ Range(writes) = {h} \cup Range(Tail(writes))
      /\ \A w \in Range(Tail(writes)) : w.kind = "mint" =>
           h.kind = "mint" /\ h.node.job # w.node.job
      /\ h.kind \in Ends => \A w \in Range(Tail(writes)) : w.kind \in Ends
  BY <1>1, PlanTail
<1>3. writes' = Tail(writes) => Pending' = Range(Tail(writes))
  BY DEF Pending
<1> QED BY <1>1, <1>2, <1>3 DEF Pending, Quiet

LEMMA MintSafe ==
  ASSUME Safe, WriteMint
  PROVE  Quiet' /\ Reported' /\ SessionsOwned' /\ Files' /\ Gates'
<1> DEFINE h == Head(writes)
           n == h.node
           x == [phase |-> "queued", gated |-> n.after # {}, after |-> n.after, id |-> n.id]
<1>1. /\ writes # <<>> /\ h.kind = "mint" /\ writes' = Tail(writes)
      /\ job' = [j \in JobIds |-> IF j \in h.jobs THEN x ELSE job[j]]
      /\ UNCHANGED <<flow, mem, report, unit, clock, pc, left, cur>>
  BY DEF WriteMint, Computing, outside, sessions, loop
<1>2. /\ WellFormed(h) /\ h \in Pending
      /\ Pending' \subseteq Pending /\ Pending \subseteq {h} \cup Pending'
      /\ \A w \in Pending' : w.kind = "mint" => w.node.job # n.job
      /\ pc \notin {"ready", "launch", "mark", "watch", "gate"}
  BY <1>1, HeadIs
<1>3. h.jobs = {n.job} /\ n \in Node /\ n.job \in JobIds
  BY <1>1, <1>2 DEF WellFormed, Node
<1>4. /\ flow \in Flow /\ mem \in Flow /\ FlowBacked /\ MemBacked /\ MintsNew /\ Creating
      /\ UngatedOwned /\ Routed /\ Quiet
  BY DEF Safe, Typed, FlowsTyped, Files, Gates
<1>5. /\ job'[n.job].phase = "queued" /\ job'[n.job].id = n.id /\ job'[n.job].after = n.after
      /\ job'[n.job].gated <=> n.after # {}
  BY <1>1, <1>3
<1>6. \A j \in JobIds : j # n.job => job'[j] = job[j]
  BY <1>1, <1>3
<1>7. job[n.job].phase = "absent" /\ (n.after # {} \/ flow.status = "none")
  BY <1>1, <1>2, <1>4 DEF MintsNew
<1> HIDE DEF h, n, x
<1>8. \A m : m.job \in JobIds /\ Backed(m) => Backed(m)'
  BY <1>6, <1>7 DEF Backed
<1>9. Reported' /\ SessionsOwned'
  BY <1>1, SessionsKept
<1>10. Quiet'
  BY <1>1, <1>2, <1>4 DEF Quiet
<1>11. FlowBacked'
  BY <1>1, <1>4, <1>8, NodesOf DEF FlowBacked
<1>12. MemBacked'
  <2> SUFFICES ASSUME pc' = "route" \/ Saving'
               PROVE  /\ mem.status # "none" /\ Extends(flow, mem)
                      /\ \A m \in Nodes(mem) : Backed(m)' \/ Owed(m)'
    BY <1>1 DEF MemBacked
  <2>1. /\ mem.status # "none" /\ Extends(flow, mem)
        /\ \A m \in Nodes(mem) : Backed(m) \/ Owed(m)
    BY <1>1, <1>2, <1>4 DEF MemBacked, Saving
  <2>2. ASSUME NEW m \in Nodes(mem), Owed(m) PROVE Backed(m)' \/ Owed(m)'
    <3>1. PICK w \in Pending : w.kind = "mint" /\ w.node.job = m.job /\ w.node.id = m.id
      BY <2>2 DEF Owed
    <3>2. CASE w \in Pending'
      BY <3>1, <3>2 DEF Owed
    <3>3. CASE w = h
      BY <1>5, <3>1, <3>3 DEF Backed, n
    <3> QED BY <1>2, <3>2, <3>3
  <2> QED BY <1>4, <1>8, <2>1, <2>2, NodesOf
<1>13. MintsNew'
  <2>1. \A w \in Pending' : w.kind = "mint" => w.node.job \in JobIds
    <3>1. \A w \in Pending : WellFormed(w)
      BY DEF Safe, Typed, Plan, Pending, Range
    <3> QED BY <1>2, <3>1 DEF WellFormed, Node
  <2> QED BY <1>1, <1>2, <1>4, <1>6, <2>1 DEF MintsNew
<1>14. Creating'
  <2>1. h.kind = "mint" /\ h.node.job = n.job
    BY <1>1 DEF h, n
  <2> QED BY <1>1, <1>2, <1>4, <1>6, <2>1 DEF Creating
<1>15. \A j \in JobIds : Orphan(j)' => j = n.job \/ Orphan(j)
  BY <1>1, <1>6 DEF Orphan, Queued
<1>16. UngatedOwned'
  BY <1>1, <1>2, <1>4, <1>5, <1>6, <1>7, <1>15 DEF UngatedOwned
<1>17. Routed'
  <2> SUFFICES ASSUME pc = "route" PROVE Routed'
    BY <1>1 DEF Routed
  <2>1. h.kind = "mint" /\ h.node.job = n.job /\ h.node.after = n.after
    BY <1>1 DEF h, n
  <2>2. n.job \in Owned(mem) /\ (n.job \in Owned(flow) \/ Waits(n.after))
    BY <1>2, <1>4, <2>1 DEF Routed
  <2>3. \A after : Waits(after) => Waits(after)'
    <3>1. \A i \in JobIds : ReportExists(i) => ReportExists(i)'
      BY <1>1 DEF ReportExists
    <3> QED BY <1>1, <1>4, <3>1, WaitsStays
  <2>4. \A i \in 1..Len(flow.nodes) : Unseen(mem.nodes[i])' => Unseen(flow.nodes[i])'
    BY <1>1, <1>4 DEF Routed, Unseen
  <2>5. \A j \in JobIds : Queued(j)' => j \in Owned(mem) \/ Reaped(j)'
    <3>1. \A j \in JobIds : Reaped(j) => Reaped(j)'
      BY <1>2, <2>1 DEF Reaped
    <3>2. \A j \in JobIds : Queued(j)' => j = n.job \/ Queued(j)
      BY <1>6 DEF Queued
    <3> QED BY <1>4, <2>2, <3>1, <3>2 DEF Routed
  <2>6. \A j \in JobIds : Orphan(j)' /\ j \in Owned(mem) => Waits(job[j].after)'
    <3> SUFFICES ASSUME NEW j \in JobIds, Orphan(j)', j \in Owned(mem)
                 PROVE  Waits(job[j].after)'
      OBVIOUS
    <3>1. CASE j = n.job
      <4>1. j \notin Owned(flow)
        BY <1>1 DEF Orphan
      <4> QED BY <1>5, <2>2, <2>3, <3>1, <4>1
    <3>2. CASE j # n.job
      BY <1>4, <1>6, <1>15, <2>3, <3>2 DEF Routed
    <3> QED BY <3>1, <3>2
  <2>7. \A w \in Pending' : w.kind = "mint" => w.node.job \in Owned(mem)
    BY <1>2, <1>4 DEF Routed
  <2>8. \A w \in Pending' : w.kind \in {"mint", "gate"} =>
          w.node.job \in Owned(flow) \/ Waits(w.node.after)'
    BY <1>2, <1>4, <2>3 DEF Routed
  <2> QED BY <1>1, <2>4, <2>5, <2>6, <2>7, <2>8 DEF Routed
<1>18. Holds'
  BY <1>1, <1>2 DEF Holds
<1> QED BY <1>9, <1>10, <1>11, <1>12, <1>13, <1>14, <1>16, <1>17, <1>18 DEF Files, Gates

\* A write that mints nothing and leaves the flow file as it is.
LEMMA LesserSafe ==
  ASSUME Safe, writes # <<>>, UNCHANGED <<flow, mem, report, unit, clock, pc, left, cur>>,
         \A w \in Pending : w.kind # "mint",
         \A w \in Pending' : \/ w \in Pending
                             \/ w.kind = "reap" /\ \E v \in Pending : v.kind = "reap",
         \A w \in Pending : w.kind = "flow" => w \in Pending',
         \A i \in JobIds : /\ job'[i].id = job[i].id /\ (job'[i].gated <=> job[i].gated)
                           /\ job'[i].phase = "absent" => job[i].phase = "absent"
                           /\ \/ job[i].phase = "absent" => job'[i].phase = "absent"
                              \/ \E v \in Pending : v.kind = "reap"
                           /\ Queued(i)' => Queued(i) /\ (Reaped(i) => Reaped(i)')
                           /\ \/ job'[i].after = job[i].after
                              \/ pc # "gate" /\ (i \notin Owned(flow) /\ pc = "route"
                                                   => Waits(job'[i].after))
  PROVE  Quiet' /\ Reported' /\ SessionsOwned' /\ Files' /\ Gates'
<1>1. /\ flow \in Flow /\ mem \in Flow /\ FlowBacked /\ MemBacked /\ MintsNew /\ Creating
      /\ UngatedOwned /\ Routed /\ Holds /\ Quiet
  BY DEF Safe, Typed, FlowsTyped, Files, Gates
<1>2. pc \notin {"ready", "launch", "mark", "watch"}
  BY <1>1 DEF Quiet
<1>3. Reported' /\ SessionsOwned' /\ FlowBacked'
  BY SessionsKept, BackedKept
<1>4. \A w \in Pending' : w.kind # "mint" /\ (w.kind # "reap" => w \in Pending)
  OBVIOUS
<1>5. Quiet'
  BY <1>1, <1>2 DEF Quiet
<1>6. MemBacked'
  <2>1. pc' = "route" \/ Saving' => pc = "route" \/ Saving
    BY <1>4 DEF Saving
  <2>2. \A m \in Nodes(mem) : ~ Owed(m)
    BY DEF Owed
  <2>3. \A m \in Nodes(mem) : Backed(m) => Backed(m)'
    BY <1>1, NodesOf DEF Backed
  <2> QED BY <1>1, <2>1, <2>2, <2>3 DEF MemBacked
<1>7. MintsNew'
  BY <1>4 DEF MintsNew
<1>8. Creating'
  BY <1>1, <1>4 DEF Creating
<1>9. \A i \in JobIds : Orphan(i)' => Orphan(i)
  BY DEF Orphan
<1>10. UngatedOwned'
  BY <1>1, <1>9 DEF UngatedOwned
<1>11. \A after : Waits(after) => Waits(after)'
  <2>1. \A i \in JobIds : ReportExists(i) => ReportExists(i)'
    BY DEF ReportExists
  <2> QED BY <1>1, <2>1, WaitsStays
<1>12. Routed'
  <2> SUFFICES ASSUME pc = "route" PROVE Routed'
    BY DEF Routed
  <2>1. \A i \in 1..Len(flow.nodes) : Unseen(mem.nodes[i])' => Unseen(flow.nodes[i])'
    BY <1>1 DEF Routed, Unseen
  <2>2. \A j \in JobIds : Queued(j)' => j \in Owned(mem) \/ Reaped(j)'
    BY <1>1 DEF Routed
  <2>3. \A j \in JobIds : Orphan(j)' /\ j \in Owned(mem) => Waits(job[j].after)'
    <3> SUFFICES ASSUME NEW j \in JobIds, Orphan(j)', j \in Owned(mem)
                 PROVE  Waits(job[j].after)'
      OBVIOUS
    <3>1. j \notin Owned(flow) /\ Waits(job[j].after)
      BY <1>1, <1>9 DEF Routed, Orphan
    <3>2. Waits(job'[j].after)
      BY <3>1
    <3> QED BY <1>11, <3>2
  <2>4. \A w \in Pending' : w.kind \in {"mint", "gate"} =>
          w.node.job \in Owned(flow) \/ Waits(w.node.after)'
    BY <1>1, <1>4, <1>11 DEF Routed
  <2> QED BY <1>4, <2>1, <2>2, <2>3, <2>4 DEF Routed
<1>13. Holds'
  <2>1. Saving' => Saving
    BY <1>4 DEF Saving
  <2>2. FlowTerminal(flow)' <=> FlowTerminal(flow)
    OBVIOUS
  <2>3. pc = "gate" => \A i \in JobIds : job'[i].after = job[i].after
    OBVIOUS
  <2> QED BY <1>1, <1>2, <1>9, <1>11, <2>1, <2>2, <2>3 DEF Holds
<1> QED BY <1>3, <1>5, <1>6, <1>7, <1>8, <1>10, <1>12, <1>13 DEF Files, Gates

LEMMA GateSafe ==
  ASSUME Safe, WriteGate
  PROVE  Quiet' /\ Reported' /\ SessionsOwned' /\ Files' /\ Gates'
<1> DEFINE h == Head(writes)
           n == h.node
<1>1. /\ writes # <<>> /\ h.kind = "gate" /\ writes' = Tail(writes)
      /\ job' = [j \in JobIds |-> IF j \in h.jobs THEN [job[j] EXCEPT !.after = n.after]
                                  ELSE job[j]]
      /\ UNCHANGED <<flow, mem, report, unit, clock, pc, left, cur>>
  BY DEF WriteGate, Computing, outside, sessions, loop
<1>2. /\ WellFormed(h) /\ h \in Pending /\ \A w \in Pending : w.kind # "mint"
      /\ Pending' \subseteq Pending /\ Pending \subseteq {h} \cup Pending'
      /\ pc # "gate"
  BY <1>1, HeadIs
<1>3. h.jobs = {n.job} /\ n \in Node /\ n.job \in JobIds
  BY <1>1, <1>2 DEF WellFormed, Node
<1>4. job \in [JobIds -> JobFile] /\ Routed
  BY DEF Safe, Typed, JobsTyped, Gates
<1>5. \A i \in JobIds : /\ job'[i].id = job[i].id /\ job'[i].phase = job[i].phase
                        /\ job'[i].gated <=> job[i].gated
                        /\ job'[i].after = IF i = n.job THEN n.after ELSE job[i].after
  BY <1>1, <1>3, <1>4 DEF JobFile
<1>6. pc = "route" => n.job \in Owned(flow) \/ Waits(n.after)
  BY <1>1, <1>2, <1>4 DEF Routed
<1>7. h.kind = "gate"
  BY <1>1
<1> HIDE DEF h, n
<1>8. \A i \in JobIds : (Queued(i)' => Queued(i)) /\ (Reaped(i) => Reaped(i)')
  BY <1>2, <1>5, <1>7 DEF Queued, Reaped
<1>9. \A w \in Pending : w.kind = "flow" => w \in Pending'
  BY <1>2, <1>7
<1>10. \A i \in JobIds :
        /\ job'[i].id = job[i].id /\ (job'[i].gated <=> job[i].gated)
        /\ job'[i].phase = "absent" => job[i].phase = "absent"
        /\ \/ job[i].phase = "absent" => job'[i].phase = "absent"
           \/ \E v \in Pending : v.kind = "reap"
        /\ Queued(i)' => Queued(i) /\ (Reaped(i) => Reaped(i)')
        /\ \/ job'[i].after = job[i].after
           \/ pc # "gate" /\ (i \notin Owned(flow) /\ pc = "route" => Waits(job'[i].after))
  BY <1>2, <1>5, <1>6, <1>8
<1>11. \A w \in Pending' : w \in Pending \/ (w.kind = "reap" /\ \E v \in Pending : v.kind = "reap")
  BY <1>2
<1> QED BY <1>1, <1>2, <1>9, <1>10, <1>11, LesserSafe

LEMMA ReapSafe ==
  ASSUME Safe, WriteReap
  PROVE  Quiet' /\ Reported' /\ SessionsOwned' /\ Files' /\ Gates'
<1> DEFINE h == Head(writes)
<1>1. /\ writes # <<>> /\ h.kind = "reap"
      /\ UNCHANGED <<flow, mem, report, unit, clock, pc, left, cur>>
  BY DEF WriteReap, Computing, outside, sessions, loop
<1>2. PICK j \in h.jobs :
        /\ job' = [job EXCEPT ![j].phase = "gone"]
        /\ writes' = IF h.jobs = {j} THEN Tail(writes) ELSE Shrunk(writes, j)
  BY DEF WriteReap, Shrunk
<1>3. /\ WellFormed(h) /\ h \in Pending /\ \A w \in Pending : w.kind # "mint"
  BY <1>1, HeadIs
<1>4. j \in JobIds
  BY <1>3 DEF WellFormed, Write
<1>5. job \in [JobIds -> JobFile] /\ Plan(writes) /\ Creating /\ FlowBacked /\ MintsNew
  BY DEF Safe, Typed, JobsTyped, Files
<1>6. Pending = {h} \cup Range(Tail(writes))
  BY <1>1, <1>5, PlanTail DEF Pending
<1>7. \/ h.jobs = {j} /\ Pending' = Range(Tail(writes))
      \/ \E v : /\ v.kind = "reap" /\ v.jobs = h.jobs \ {j}
                /\ Pending' = {v} \cup Range(Tail(writes))
  <2>1. CASE h.jobs = {j}
    BY <1>2, <2>1 DEF Pending
  <2>2. CASE h.jobs # {j}
    <3>1. writes' = Shrunk(writes, j)
      BY <1>2, <2>2
    <3>2. \E v : /\ v.kind = "reap" /\ v.jobs = h.jobs \ {j}
                 /\ Range(Shrunk(writes, j)) = {v} \cup Range(Tail(writes))
      BY <1>1, <1>5, <2>2, PlanShrunk
    <3> QED BY <3>1, <3>2 DEF Pending
  <2> QED BY <2>1, <2>2
<1>8. h.kind = "reap"
  BY <1>1
<1> HIDE DEF h
<1>9. \A i \in JobIds : i # j => job'[i] = job[i]
  BY <1>2, <1>5
<1>10. /\ job'[j].phase = "gone" /\ job'[j].id = job[j].id /\ job'[j].after = job[j].after
       /\ job'[j].gated <=> job[j].gated
  BY <1>2, <1>4, <1>5 DEF JobFile
<1>11. \A w \in Pending' : w \in Pending \/ (w.kind = "reap" /\ \E v \in Pending : v.kind = "reap")
  BY <1>3, <1>6, <1>7, <1>8
<1>12. \A w \in Pending : w.kind = "flow" => w \in Pending'
  BY <1>6, <1>7, <1>8
<1>13. \A i \in JobIds : i # j /\ Reaped(i) => Reaped(i)'
  BY <1>6, <1>7, <1>8 DEF Reaped
<1>14. ~ Queued(j)'
  BY <1>10 DEF Queued
<1>15. \A i \in JobIds :
        /\ job'[i].id = job[i].id /\ (job'[i].gated <=> job[i].gated)
        /\ job'[i].phase = "absent" => job[i].phase = "absent"
        /\ \/ job[i].phase = "absent" => job'[i].phase = "absent"
           \/ \E v \in Pending : v.kind = "reap"
        /\ Queued(i)' => Queued(i) /\ (Reaped(i) => Reaped(i)')
        /\ \/ job'[i].after = job[i].after
           \/ pc # "gate" /\ (i \notin Owned(flow) /\ pc = "route" => Waits(job'[i].after))
  <2>1. ASSUME NEW i \in JobIds, i # j PROVE Queued(i)' => Queued(i)
    BY <1>9, <2>1 DEF Queued
  <2> QED BY <1>3, <1>8, <1>9, <1>10, <1>13, <1>14, <2>1
<1> QED BY <1>1, <1>3, <1>11, <1>12, <1>15, LesserSafe

\* The last writes of a plan when the flow file stays as it is: a save that is
\* lost, and the request that is done.
LEMMA LoseSafe ==
  ASSUME Safe, writes # <<>>, Head(writes).kind \in {"save", "consume"}, writes' = Tail(writes),
         UNCHANGED <<flow, mem, job, report, unit, clock, pc, left, cur>>
  PROVE  Quiet' /\ Reported' /\ SessionsOwned' /\ Files' /\ Gates'
<1> DEFINE h == Head(writes)
<1>1. h.kind \in {"save", "consume"}
  OBVIOUS
<1>2. /\ \A w \in Pending : w.kind # "mint"
      /\ Pending' \subseteq Pending /\ Pending \subseteq {h} \cup Pending'
      /\ \A w \in Pending : w.kind \in Ends
  BY <1>1, HeadIs DEF Ends
<1> HIDE DEF h
<1>3. \A w \in Pending : w.kind = "flow" => w \in Pending'
  BY <1>1, <1>2
<1>4. \A i \in JobIds : (Queued(i)' => Queued(i)) /\ (Reaped(i) => Reaped(i)')
  BY <1>2 DEF Queued, Reaped, Ends
<1>5. \A i \in JobIds :
        /\ job'[i].id = job[i].id /\ (job'[i].gated <=> job[i].gated)
        /\ job'[i].phase = "absent" => job[i].phase = "absent"
        /\ \/ job[i].phase = "absent" => job'[i].phase = "absent"
           \/ \E v \in Pending : v.kind = "reap"
        /\ Queued(i)' => Queued(i) /\ (Reaped(i) => Reaped(i)')
        /\ \/ job'[i].after = job[i].after
           \/ pc # "gate" /\ (i \notin Owned(flow) /\ pc = "route" => Waits(job'[i].after))
  BY <1>4
<1>6. \A w \in Pending' : \/ w \in Pending
                          \/ w.kind = "reap" /\ \E v \in Pending : v.kind = "reap"
  BY <1>2
<1> QED BY <1>2, <1>3, <1>5, <1>6, LesserSafe

\* Every node a flow has is one of the flow that extends it.
LEMMA ExtendsOwned ==
  ASSUME NEW f \in Flow, NEW g \in Flow, Extends(f, g)
  PROVE  Owned(f) \subseteq Owned(g) /\ Ids(f) \subseteq Ids(g)
<1>1. \A i \in 1..Len(f.nodes) : /\ i \in 1..Len(g.nodes)
                                 /\ g.nodes[i].id = f.nodes[i].id /\ g.nodes[i].job = f.nodes[i].job
  BY DEF Extends, Flow
<1>2. Nodes(f) = {f.nodes[i] : i \in 1..Len(f.nodes)} /\ Nodes(g) = {g.nodes[i] : i \in 1..Len(g.nodes)}
  BY NodesOf
<1> QED BY <1>1, <1>2 DEF Owned, Ids

\* The flow is saved: the nodes it then has are all backed by a job file, and a
\* job that still is no node of it was an orphan before.
LEMMA SaveSafe ==
  ASSUME Safe, writes # <<>>, Head(writes).kind \in {"flow", "save"}, writes' = Tail(writes),
         flow' = mem, UNCHANGED <<mem, job, report, unit, clock, pc, left, cur>>
  PROVE  Quiet' /\ Reported' /\ SessionsOwned' /\ Files' /\ Gates'
<1> DEFINE h == Head(writes)
<1>1. h.kind \in {"flow", "save"}
  OBVIOUS
<1>2. /\ h \in Pending /\ \A w \in Pending : w.kind # "mint"
      /\ Pending' \subseteq Pending
      /\ \A w \in Pending : w.kind \in Ends
      /\ pc \notin {"ready", "launch", "mark", "watch"}
  BY <1>1, HeadIs DEF Ends
<1> HIDE DEF h
<1>3. /\ flow \in Flow /\ mem \in Flow /\ MemBacked /\ Creating /\ UngatedOwned /\ Routed /\ Holds
      /\ Quiet /\ Reported /\ SessionsOwned
  BY DEF Safe, Typed, FlowsTyped, Files, Gates
<1>4. Saving
  BY <1>1, <1>2 DEF Saving
<1>5. mem.status # "none" /\ Extends(flow, mem) /\ \A m \in Nodes(mem) : Backed(m)
  BY <1>2, <1>3, <1>4 DEF MemBacked, Owed
<1>6. Owned(flow) \subseteq Owned(mem)
  BY <1>3, <1>5, ExtendsOwned
<1>7. Reported' /\ SessionsOwned'
  BY <1>3, <1>6 DEF Reported, ReportExists, SessionsOwned
<1>8. Quiet'
  BY <1>2, <1>3 DEF Quiet
<1>9. FlowBacked'
  BY <1>5 DEF FlowBacked, Backed
<1>10. MemBacked'
  <2>1. Extends(mem, mem)
    BY <1>3 DEF Extends, Flow
  <2>2. \A m \in Nodes(mem) : Backed(m)'
    BY <1>5 DEF Backed
  <2> QED BY <1>5, <2>1, <2>2 DEF MemBacked
<1>11. MintsNew'
  BY <1>2 DEF MintsNew
<1>12. Creating'
  BY <1>5 DEF Creating
<1>13. \A i \in JobIds : Orphan(i)' => Orphan(i) /\ Queued(i) /\ i \notin Owned(mem)
  BY <1>6 DEF Orphan, Queued
<1>14. ~ \E i \in JobIds : Orphan(i)' /\ ~ job'[i].gated
  <2> SUFFICES ASSUME NEW i \in JobIds, Orphan(i)', ~ job[i].gated PROVE FALSE
    OBVIOUS
  <2>1. Orphan(i) /\ i \notin Owned(mem) /\ job[i].phase = "queued"
    BY <1>13 DEF Queued
  <2>2. flow.status = "none"
    BY <1>3, <2>1 DEF UngatedOwned
  <2>3. pc \notin {"route", "spool", "gate"}
    BY <1>1, <1>2, <1>3, <2>2 DEF Creating
  <2>4. pc = "idle"
    BY <1>2, <2>3 DEF Safe, Typed, LoopTyped, Pcs
  <2> QED BY <1>2, <1>3, <2>1, <2>2, <2>4 DEF Creating
<1>15. UngatedOwned'
  BY <1>14 DEF UngatedOwned
<1>16. Routed'
  <2> SUFFICES ASSUME pc = "route" PROVE Routed'
    BY DEF Routed
  <2>1. \A i \in 1..Len(mem.nodes) : Unseen(mem.nodes[i])' => Unseen(mem.nodes[i])'
    OBVIOUS
  <2>2. \A j \in JobIds : Queued(j)' => j \in Owned(mem)
    BY <1>2, <1>3 DEF Routed, Reaped, Ends, Queued
  <2>3. \A j \in JobIds : ~ (Orphan(j)' /\ j \in Owned(mem))
    BY <1>13
  <2>4. \A w \in Pending' : w.kind \notin {"mint", "gate"}
    BY <1>2 DEF Ends
  <2> QED BY <2>2, <2>3, <2>4 DEF Routed, Unseen
<1>17. Holds'
  <2>1. pc = "gate" => clock = "past" \/ \A j \in JobIds : Queued(j) => j \in Owned(mem)
    BY <1>3, <1>4 DEF Holds
  <2>2. \A j \in JobIds : Queued(j)' <=> Queued(j)
    BY DEF Queued
  <2> QED BY <1>2, <1>13, <2>1, <2>2 DEF Holds
<1> QED BY <1>7, <1>8, <1>9, <1>10, <1>11, <1>12, <1>15, <1>16, <1>17 DEF Files, Gates

LEMMA WritingSafe ==
  ASSUME Safe, Writing
  PROVE  Quiet' /\ Reported' /\ SessionsOwned' /\ Files' /\ Gates'
<1>1. CASE WriteFlow
  <2>1. /\ writes # <<>> /\ Head(writes).kind \in {"flow", "save"} /\ writes' = Tail(writes)
        /\ UNCHANGED <<mem, job, report, unit, clock, pc, left, cur>>
        /\ flow' = mem \/ (flow' = flow /\ Head(writes).kind = "save")
    BY <1>1 DEF WriteFlow, Computing, outside, sessions, loop
  <2> QED BY <2>1, SaveSafe, LoseSafe
<1>2. CASE WriteConsumed
  <2>1. /\ writes # <<>> /\ Head(writes).kind = "consume" /\ writes' = Tail(writes)
        /\ UNCHANGED <<flow, mem, job, report, unit, clock, pc, left, cur>>
    BY <1>2 DEF WriteConsumed, Computing, outside, sessions, loop
  <2> QED BY <2>1, LoseSafe
<1> QED BY <1>1, <1>2, MintSafe, GateSafe, ReapSafe DEF Writing

(***************************************************************************)
(* A handler begins: it plans writes, and no file has changed yet.          *)
(***************************************************************************)
LEMMA BeginSafe ==
  ASSUME Safe, UNCHANGED <<flow, job, report, unit, clock>>,
         pc' \notin {"launch", "ready", "mark", "watch"},
         pc' = "gate" => left' = JobIds /\ \A w \in Pending' : w.kind \in {"reap", "save"}
  PROVE  /\ Quiet' /\ Reported' /\ SessionsOwned' /\ FlowBacked' /\ UngatedOwned'
         /\ \A i \in JobIds : Orphan(i)' <=> Orphan(i)
         /\ \A after : Waits(after) => Waits(after)'
<1>1. Quiet'
  BY DEF Quiet
<1>2. Reported' /\ SessionsOwned' /\ FlowBacked'
  BY SessionsKept, BackedKept
<1>3. \A i \in JobIds : Orphan(i)' <=> Orphan(i)
  BY DEF Orphan, Queued
<1>4. UngatedOwned'
  BY <1>3 DEF Safe, Gates, UngatedOwned
<1>5. \A after : Waits(after) => Waits(after)'
  <2>1. flow \in Flow /\ \A i \in JobIds : ReportExists(i) => ReportExists(i)'
    BY DEF Safe, Typed, FlowsTyped, ReportExists
  <2> QED BY <2>1, WaitsStays
<1> QED BY <1>1, <1>2, <1>3, <1>4, <1>5

\* The nodes an insertion makes: those there were, and those it mints.
LEMMA InsertionBacked ==
  ASSUME NEW f \in Flow, NEW at, Insertion(f, mem', at, writes'), job' = job,
         \A n \in Nodes(f) : Backed(n)
  PROVE  \A n \in Nodes(mem') : Backed(n)' \/ Owed(n)'
<1> DEFINE g == mem'
           ws == writes'
<1>1. g \in Flow /\ Extends(f, g)
  BY DEF Insertion
<1>2. \A i \in 1..Len(g.nodes) : i > Len(f.nodes) =>
        \E w \in Range(ws) : w.kind = "mint" /\ w.node = g.nodes[i]
  BY DEF Insertion
<1>3. Pending' = Range(ws)
  BY DEF Pending
<1> HIDE DEF g, ws
<1>4. SUFFICES ASSUME NEW n \in Nodes(g) PROVE Backed(n)' \/ Owed(n)'
  BY DEF g
<1>5. PICK i \in 1..Len(g.nodes) : n = g.nodes[i]
  BY <1>1, NodesOf
<1>6. CASE i > Len(f.nodes)
  BY <1>2, <1>3, <1>5, <1>6 DEF Owed
<1>7. CASE ~ (i > Len(f.nodes))
  <2>1. i \in 1..Len(f.nodes)
    BY <1>1, <1>7 DEF Flow
  <2>2. n.id = f.nodes[i].id /\ n.job = f.nodes[i].job /\ f.nodes[i] \in Nodes(f)
    BY <1>1, <1>5, <2>1, NodesOf DEF Extends
  <2>3. Backed(n)
    BY <2>2 DEF Backed
  <2> QED BY <2>3 DEF Backed
<1> QED BY <1>6, <1>7

LEMMA ExtendsMore ==
  ASSUME NEW f \in Flow, NEW g \in Flow, NEW h \in Flow, Extends(f, g), Extends(g, h)
  PROVE  Extends(f, h)
<1> DEFINE a == Len(f.nodes)
           b == Len(g.nodes)
           c == Len(h.nodes)
<1>1. a \in Nat /\ b \in Nat /\ c \in Nat /\ f.round \in Nat /\ g.round \in Nat /\ h.round \in Nat
  BY DEF Flow
<1>2. a <= b /\ b <= c /\ f.round <= g.round /\ g.round <= h.round
      /\ (\A i \in 1..a : g.nodes[i].id = f.nodes[i].id /\ g.nodes[i].job = f.nodes[i].job)
      /\ (\A i \in 1..b : h.nodes[i].id = g.nodes[i].id /\ h.nodes[i].job = g.nodes[i].job)
  BY DEF Extends
<1>3. a <= c /\ f.round <= h.round
      /\ \A i \in 1..a : h.nodes[i].id = f.nodes[i].id /\ h.nodes[i].job = f.nodes[i].job
  <2> HIDE DEF a, b, c
  <2>1. a <= c /\ f.round <= h.round /\ \A i \in 1..a : i \in 1..b
    BY <1>1, <1>2
  <2> QED BY <1>2, <2>1
<1> QED BY <1>3 DEF Extends

LEMMA CreateSafe ==
  ASSUME Safe, Create
  PROVE  Quiet' /\ Reported' /\ SessionsOwned' /\ Files' /\ Gates'
<1> DEFINE g == mem'
           ws == writes'
<1>1. /\ UNCHANGED <<flow, job, report, unit, clock>> /\ pc' = "idle"
      /\ flow.status = "none" /\ \A j \in JobIds : job[j].phase = "absent"
  BY DEF Create, files, outside, sessions
<1>2. flow \in Flow /\ Fits(flow) /\ Typed
  BY DEF Safe, Typed, FlowsTyped
<1>3. /\ g \in Flow /\ g.status # "none" /\ g.round = 0
      /\ \A w \in Range(ws) :
           /\ w.kind \in {"mint", "flow"}
           /\ w.kind = "mint" => \E i \in 1..Len(g.nodes) : w.node = g.nodes[i]
      /\ \A i \in 1..Len(g.nodes) : \E w \in Range(ws) : w.kind = "mint" /\ w.node = g.nodes[i]
      /\ \E w \in Range(ws) : w.kind = "flow"
  BY <1>2, CreateStep
<1>4. Pending' = Range(ws)
  BY DEF Pending
<1>5. Nodes(g) = {g.nodes[i] : i \in 1..Len(g.nodes)} /\ \A n \in Nodes(g) : n.job \in JobIds
  BY <1>3, NodesOf
<1>6. mem' = g
  OBVIOUS
<1>7. Len(g.nodes) \in Nat
  BY <1>3 DEF Flow
<1> HIDE DEF g, ws
<1>8. \A w \in Pending' : w.kind = "mint" => w.node \in Nodes(g)
  BY <1>3, <1>4, <1>5
<1>9. Quiet' /\ Reported' /\ SessionsOwned' /\ FlowBacked' /\ UngatedOwned'
  BY <1>1, BeginSafe
<1>10. MemBacked'
  <2>1. Extends(flow, g)
    <3>1. flow.nodes = <<>> /\ flow.round = 0
      BY <1>1, <1>2 DEF Fits
    <3> QED BY <1>3, <1>7, <3>1 DEF Extends
  <2>2. ASSUME NEW n \in Nodes(g) PROVE Owed(n)'
    <3>1. PICK i \in 1..Len(g.nodes) : n = g.nodes[i]
      BY <1>5
    <3>2. PICK w \in Range(ws) : w.kind = "mint" /\ w.node = n
      BY <1>3, <3>1
    <3>3. w \in Pending' /\ w.kind = "mint" /\ w.node.job = n.job /\ w.node.id = n.id
      BY <1>4, <3>2
    <3> QED BY <3>3 DEF Owed
  <2> QED BY <1>1, <1>3, <1>6, <2>1, <2>2 DEF MemBacked
<1>11. MintsNew'
  BY <1>1, <1>5, <1>8 DEF MintsNew
<1>12. Creating'
  <2>1. \A w \in Pending' : w.kind = "mint" => w.node.job \in Owned(mem')
    BY <1>6, <1>8 DEF Owned
  <2> QED BY <1>1, <1>3, <1>4, <2>1 DEF Creating
<1>13. Routed' /\ Holds'
  BY <1>1 DEF Routed, Holds
<1> QED BY <1>9, <1>10, <1>11, <1>12, <1>13 DEF Files, Gates

\* The flow is ended: a status for the nodes there are, and jobs to delete.
LEMMA EndSafe ==
  ASSUME Safe, Stop \/ ReconcileDeadline
  PROVE  Quiet' /\ Reported' /\ SessionsOwned' /\ Files' /\ Gates'
<1> DEFINE g == mem'
           ws == writes'
<1>1. /\ UNCHANGED <<flow, job, report, unit, clock>>
      /\ pc' = "idle" \/ (pc' = "gate" /\ left' = JobIds /\ clock = "past")
  BY DEF Stop, ReconcileDeadline, files, outside, sessions
<1>2. flow \in Flow /\ Typed /\ FlowBacked
  BY DEF Safe, Typed, FlowsTyped, Files
<1>3. /\ g \in Flow /\ g.nodes = flow.nodes /\ g.round = flow.round
      /\ g.status # "none" /\ flow.status # "none"
      /\ \A w \in Range(ws) : w.kind \in {"reap", "save"}
  BY <1>2, EndStep
<1>4. Pending' = Range(ws) /\ mem' = g
  BY DEF Pending
<1> HIDE DEF g, ws
<1>5. Quiet' /\ Reported' /\ SessionsOwned' /\ FlowBacked' /\ UngatedOwned'
  BY <1>1, <1>3, <1>4, BeginSafe
<1>6. MemBacked'
  <2>1. Extends(flow, g)
    BY <1>2, <1>3 DEF Extends, Flow
  <2>2. \A n \in Nodes(g) : Backed(n)'
    BY <1>1, <1>2, <1>3 DEF FlowBacked, Backed, Nodes
  <2> QED BY <1>1, <1>3, <1>4, <2>1, <2>2 DEF MemBacked
<1>7. MintsNew' /\ Creating'
  BY <1>1, <1>3, <1>4 DEF MintsNew, Creating
<1>8. Routed' /\ Holds'
  BY <1>1 DEF Routed, Holds
<1> QED BY <1>5, <1>6, <1>7, <1>8 DEF Files, Gates

\* A decided flow is left alone: its jobs are kept back by its status.
LEMMA NothingSafe ==
  ASSUME Safe, ReconcileNothing
  PROVE  Quiet' /\ Reported' /\ SessionsOwned' /\ Files' /\ Gates'
<1>1. /\ UNCHANGED <<flow, job, report, unit, clock>> /\ pc' = "gate" /\ left' = JobIds
      /\ writes' = <<>> /\ (flow.status = "none" \/ FlowTerminal(flow))
  BY DEF ReconcileNothing, Begins, Computing, files, outside, sessions
<1>2. Quiet' /\ MemBacked' /\ MintsNew' /\ Creating' /\ Routed'
  BY <1>1, CalmSafe
<1>3. Pending' = {} /\ ~ Saving'
  BY <1>1, ShortPlans DEF Pending, Saving
<1>4. Reported' /\ SessionsOwned' /\ FlowBacked' /\ UngatedOwned'
  BY <1>1, <1>3, BeginSafe
<1>5. Holds'
  <2>1. flow'.status = "none" \/ FlowTerminal(flow)'
    BY <1>1
  <2> QED BY <1>1, <1>3, <2>1 DEF Holds
<1> QED BY <1>2, <1>4, <1>5 DEF Files, Gates

LEMMA AppendSafe ==
  ASSUME Safe, SpoolAppend
  PROVE  Quiet' /\ Reported' /\ SessionsOwned' /\ Files' /\ Gates'
<1> DEFINE g == mem'
           ws == writes'
<1>1. UNCHANGED <<flow, job, report, unit, clock>> /\ pc' = "spool"
  BY DEF SpoolAppend, files, outside, sessions
<1>2. flow \in Flow /\ Typed /\ FlowBacked
  BY DEF Safe, Typed, FlowsTyped, Files
<1>3. Pending' = Range(ws) /\ mem' = g
  BY DEF Pending
<1>4. Quiet' /\ Reported' /\ SessionsOwned' /\ FlowBacked' /\ UngatedOwned'
  BY <1>1, BeginSafe
<1>5. Routed' /\ Holds'
  BY <1>1 DEF Routed, Holds
<1>6. \/ /\ \A w \in Range(ws) : w.kind \in {"mint", "consume"}
         /\ \A w \in Range(ws) : w.kind = "mint" =>
              /\ flow.status # "none" /\ job[w.node.job].phase = "absent"
              /\ \E at \in Id : Follows(w.node, at, flow.round + 1)
      \/ /\ flow.status # "none" /\ g.status # "none"
         /\ \E at \in Id : Insertion(flow, g, at, ws)
  BY <1>2, SpoolStep
<1>7. ASSUME \A w \in Range(ws) : w.kind \in {"mint", "consume"},
             \A w \in Range(ws) : w.kind = "mint" =>
               /\ flow.status # "none" /\ job[w.node.job].phase = "absent"
               /\ \E at \in Id : Follows(w.node, at, flow.round + 1)
      PROVE  MemBacked' /\ MintsNew' /\ Creating'
  <2> HIDE DEF g, ws
  <2>1. MemBacked'
    BY <1>1, <1>3, <1>7 DEF MemBacked, Saving
  <2>2. MintsNew'
    BY <1>1, <1>3, <1>7 DEF MintsNew, Follows
  <2>3. Creating'
    BY <1>1, <1>3, <1>7 DEF Creating
  <2> QED BY <2>1, <2>2, <2>3
<1>8. ASSUME flow.status # "none", g.status # "none", NEW at \in Id, Insertion(flow, g, at, ws)
      PROVE  MemBacked' /\ MintsNew' /\ Creating'
  <2>1. \A n \in Nodes(g) : Backed(n)' \/ Owed(n)'
    BY <1>1, <1>2, <1>8, InsertionBacked DEF FlowBacked
  <2> HIDE DEF g, ws
  <2>2. /\ Extends(flow, g)
        /\ \A w \in Range(ws) : w.kind = "mint" => job[w.node.job].phase = "absent"
        /\ \A w \in Range(ws) : w.kind = "mint" => Follows(w.node, at, flow.round + 1)
    BY <1>8 DEF Insertion
  <2>3. MemBacked'
    BY <1>1, <1>3, <1>8, <2>1, <2>2 DEF MemBacked
  <2>4. MintsNew'
    BY <1>1, <1>3, <2>2 DEF MintsNew, Follows
  <2>5. Creating'
    BY <1>1, <1>8 DEF Creating
  <2> QED BY <2>3, <2>4, <2>5
<1> QED BY <1>4, <1>5, <1>6, <1>7, <1>8 DEF Files, Gates

\* The verdict pass begins on a copy of the flow, and reaps what the flow does
\* not know: a job with a report is of a session, and so of a node.
LEMMA PassSafe ==
  ASSUME Safe, ReconcileBegin
  PROVE  Quiet' /\ Reported' /\ SessionsOwned' /\ Files' /\ Gates'
<1> DEFINE ws == writes'
<1>1. /\ UNCHANGED <<flow, job, report, unit, clock>> /\ pc' = "route"
      /\ flow.status # "none" /\ mem' = flow /\ ws = Reap(Orphans(flow))
  BY DEF ReconcileBegin, files, outside, sessions
<1>2. flow \in Flow /\ FlowBacked /\ Reported /\ SessionsOwned
  BY DEF Safe, Typed, FlowsTyped, Files
<1>3. Pending' = Range(ws)
  BY DEF Pending
<1> HIDE DEF ws
<1>4. /\ \A w \in Pending' : w.kind = "reap"
      /\ \A j \in Orphans(flow) : Reaped(j)'
  <2>1. Orphans(flow) \in SUBSET JobIds
    BY DEF Orphans
  <2>2. /\ \A w \in Range(ws) : w.kind = "reap" /\ w.jobs = Orphans(flow)
        /\ Orphans(flow) # {} => \E w \in Range(ws) : w.kind = "reap" /\ w.jobs = Orphans(flow)
    BY <1>1, <2>1, ReapPlan
  <2> QED BY <1>3, <2>2 DEF Reaped
<1>5. /\ Quiet' /\ Reported' /\ SessionsOwned' /\ FlowBacked' /\ UngatedOwned'
      /\ \A i \in JobIds : Orphan(i)' <=> Orphan(i)
  BY <1>1, BeginSafe
<1>6. MemBacked'
  <2>1. Extends(flow, flow)
    BY <1>2 DEF Extends, Flow
  <2>2. \A n \in Nodes(flow) : Backed(n)'
    BY <1>1, <1>2 DEF FlowBacked, Backed
  <2> QED BY <1>1, <2>1, <2>2 DEF MemBacked
<1>7. MintsNew' /\ Creating'
  BY <1>1, <1>4 DEF MintsNew, Creating
<1>8. Routed'
  <2>1. \A j \in JobIds : Queued(j)' => j \in Owned(flow) \/ Reaped(j)'
    <3> SUFFICES ASSUME NEW j \in JobIds, Queued(j), j \notin Owned(flow) PROVE Reaped(j)'
      BY <1>1 DEF Queued
    <3>1. ~ ReportExists(j)
      BY <1>2 DEF Reported, SessionsOwned
    <3>2. j \in Orphans(flow)
      BY <3>1 DEF Orphans, Unstarted, Queued
    <3> QED BY <1>4, <3>2
  <2>2. \A j \in JobIds : ~ (Orphan(j)' /\ j \in Owned(flow))
    BY <1>5 DEF Orphan
  <2>3. mem' = flow /\ flow' = flow
    BY <1>1
  <2> QED BY <1>4, <2>1, <2>2, <2>3 DEF Routed, Unseen
<1>9. Holds'
  BY <1>1 DEF Holds
<1> QED BY <1>5, <1>6, <1>7, <1>8, <1>9 DEF Files, Gates

\* A round put behind a node with news keeps its jobs back while the saved flow
\* has not heard of it: they wait on that node, or on one of their round.
LEMMA RoundWaits ==
  ASSUME NEW f \in Flow, NEW i \in 1..Len(flow.nodes), flow \in Flow, Fits(flow),
         Extends(flow, f), Unseen(flow.nodes[i]), ReportExists(flow.nodes[i].job),
         NEW n, Follows(n, f.nodes[i].id, f.round + 1)
  PROVE  Waits(n.after)
<1>1. PICK up \in n.after : up = f.nodes[i].id \/ up[2] = f.round + 1
  BY DEF Follows
<1>2. CASE up = f.nodes[i].id
  <2>1. flow.nodes[i] \in Nodes(flow) /\ flow.nodes[i].id = up
    BY <1>2, NodesOf DEF Extends
  <2>2. Unheard(up)
    BY <2>1 DEF Unheard
  <2> QED BY <2>2 DEF Waits
<1>3. CASE up[2] = f.round + 1
  <2>1. flow.round \in Nat /\ f.round \in Nat /\ flow.round <= f.round
    BY DEF Flow, Extends
  <2>2. \A m \in Nodes(flow) : m.id \in Id /\ m.id[2] <= flow.round
    BY NodesOf DEF Fits
  <2>3. up \notin Ids(flow)
    <3> SUFFICES ASSUME NEW m \in Nodes(flow), m.id = up PROVE FALSE
      BY DEF Ids
    <3>1. up[2] <= flow.round /\ up[2] \in Nat
      BY <2>2 DEF Id
    <3> QED BY <1>3, <2>1, <3>1
  <2> QED BY <2>3 DEF Waits
<1> QED BY <1>1, <1>2, <1>3

LEMMA RouteSafe ==
  ASSUME Safe, Route
  PROVE  Quiet' /\ Reported' /\ SessionsOwned' /\ Files' /\ Gates'
<1> DEFINE g == mem'
           ws == writes'
<1>1. Acts(At) /\ Routing /\ Typed
  BY RouteActs DEF Safe
<1>2. PICK k : k = At
  OBVIOUS
<1>3. /\ UNCHANGED <<flow, job, report, unit, clock>> /\ pc = "route" /\ pc' = "route"
      /\ writes = <<>>
  BY <1>1 DEF Routing, Computing, files, outside, sessions
<1>4. /\ flow \in Flow /\ mem \in Flow /\ Fits(flow) /\ MemBacked /\ Creating /\ Routed
  BY DEF Safe, Typed, FlowsTyped, Files, Gates
<1>5. Pending = {} /\ ~ Saving /\ Pending' = Range(ws) /\ mem' = g
  BY <1>3, ShortPlans DEF Pending, Saving
<1>6. /\ Insertion(mem, g, mem.nodes[k].id, ws) /\ Restamped(mem, g) /\ g.status # "none"
      /\ \A w \in Range(ws) : w.kind \in {"mint", "gate"} => ReportExists(mem.nodes[k].job)
  BY <1>1, <1>2 DEF Acts
<1>7. k \in 1..Len(flow.nodes) /\ Unseen(mem.nodes[k])
  BY <1>1, <1>2, HereIsNode, HereIsUnseen DEF Here, Unseen
<1>8. Extends(flow, mem) /\ \A m \in Nodes(mem) : Backed(m)
  BY <1>3, <1>4, <1>5 DEF MemBacked, Owed
<1>9. \A m \in Nodes(g) : Backed(m)' \/ Owed(m)'
  BY <1>3, <1>4, <1>6, <1>8, InsertionBacked
<1> HIDE DEF g, ws
<1>10. /\ g \in Flow /\ Extends(mem, g)
       /\ \A w \in Range(ws) : w.kind = "mint" =>
            /\ job[w.node.job].phase = "absent"
            /\ \E i \in 1..Len(g.nodes) : w.node = g.nodes[i]
       /\ \A w \in Range(ws) : w.kind \in {"mint", "gate"} =>
            Follows(w.node, mem.nodes[k].id, mem.round + 1)
       /\ \A i \in 1..Len(g.nodes) : i > Len(mem.nodes) =>
            \E w \in Range(ws) : w.kind = "mint" /\ w.node = g.nodes[i]
  BY <1>6 DEF Insertion
<1>11. /\ Quiet' /\ Reported' /\ SessionsOwned' /\ FlowBacked' /\ UngatedOwned'
       /\ \A i \in JobIds : Orphan(i)' <=> Orphan(i)
       /\ \A after : Waits(after) => Waits(after)'
  BY <1>3, BeginSafe
<1>12. Extends(flow, g)
  BY <1>4, <1>8, <1>10, ExtendsMore
<1>13. MemBacked'
  BY <1>3, <1>5, <1>6, <1>9, <1>12 DEF MemBacked
<1>14. MintsNew'
  <2>1. \A w \in Pending' : w.kind = "mint" => w.node.after # {}
    BY <1>5, <1>10 DEF Follows
  <2> QED BY <1>3, <1>5, <1>10, <2>1 DEF MintsNew
<1>15. Creating'
  BY <1>3, <1>4 DEF Creating
<1>16. Routed'
  <2>1. \A i \in 1..Len(flow.nodes) : Unseen(g.nodes[i]) => Unseen(flow.nodes[i])
    <3> SUFFICES ASSUME NEW i \in 1..Len(flow.nodes), Unseen(g.nodes[i])
                 PROVE  Unseen(flow.nodes[i])
      OBVIOUS
    <3>1. i \in 1..Len(mem.nodes)
      BY <1>4, <1>8 DEF Extends, Flow
    <3>2. Unseen(mem.nodes[i])
      BY <1>6, <3>1, Zenon DEF Restamped, Unseen
    <3> QED BY <1>3, <1>4, <3>2 DEF Routed
  <2>2. Owned(mem) \subseteq Owned(g)
    BY <1>4, <1>10, ExtendsOwned
  <2>3. \A j \in JobIds : Queued(j)' => j \in Owned(g)
    <3>1. \A j \in JobIds : Queued(j) => j \in Owned(mem)
      BY <1>3, <1>4, <1>5 DEF Routed, Reaped
    <3> QED BY <1>3, <2>2, <3>1 DEF Queued
  <2>4. \A j \in JobIds : Orphan(j)' => Waits(job[j].after)'
    <3> SUFFICES ASSUME NEW j \in JobIds, Orphan(j) PROVE Waits(job[j].after)'
      BY <1>11
    <3>1. j \in Owned(mem)
      BY <1>3, <1>4, <1>5 DEF Routed, Reaped, Orphan
    <3>2. Waits(job[j].after)
      BY <1>3, <1>4, <3>1 DEF Routed
    <3> QED BY <1>3, <1>11, <3>2
  <2>5. \A w \in Pending' : w.kind = "mint" => w.node.job \in Owned(g)
    <3> SUFFICES ASSUME NEW w \in Range(ws), w.kind = "mint" PROVE w.node.job \in Owned(g)
      BY <1>5
    <3>1. PICK i \in 1..Len(g.nodes) : w.node = g.nodes[i]
      BY <1>10
    <3>2. g.nodes[i] \in Nodes(g)
      BY <1>10, NodesOf
    <3> QED BY <3>1, <3>2 DEF Owned
  <2>6. \A w \in Pending' : w.kind \in {"mint", "gate"} => Waits(w.node.after)'
    <3> SUFFICES ASSUME NEW w \in Range(ws), w.kind \in {"mint", "gate"}
                 PROVE  Waits(w.node.after)'
      BY <1>5
    <3>1. Unseen(flow.nodes[k])
      BY <1>3, <1>4, <1>7 DEF Routed
    <3>2. flow.nodes[k].job = mem.nodes[k].job
      BY <1>7, <1>8 DEF Extends
    <3>3. ReportExists(flow.nodes[k].job)
      BY <1>6, <3>2
    <3>4. Waits(w.node.after)
      <4> DEFINE n == w.node
      <4>1. Follows(n, mem.nodes[k].id, mem.round + 1)
        BY <1>10
      <4> HIDE DEF n
      <4>2. Waits(n.after)
        BY <1>4, <1>7, <1>8, <3>1, <3>3, <4>1, RoundWaits
      <4> QED BY <4>2 DEF n
    <3> QED BY <1>11, <3>4
  <2>7. \A i \in 1..Len(flow'.nodes) : Unseen(mem.nodes[i])' => Unseen(flow.nodes[i])'
    BY <1>3, <1>5, <2>1 DEF Unseen
  <2> QED BY <1>3, <1>5, <2>3, <2>4, <2>5, <2>6, <2>7 DEF Routed
<1>17. Holds'
  BY <1>3 DEF Holds
<1> QED BY <1>11, <1>13, <1>14, <1>15, <1>16, <1>17 DEF Files, Gates

\* The verdict pass is over: every job that is queued is a node of the flow it
\* made, or was reaped.
LEMMA StatusSafe ==
  ASSUME Safe, StatusPass
  PROVE  Quiet' /\ Reported' /\ SessionsOwned' /\ Files' /\ Gates'
<1> DEFINE g == mem'
           ws == writes'
<1>1. /\ UNCHANGED <<flow, job, report, unit, clock>> /\ pc = "route" /\ pc' = "gate"
      /\ writes = <<>> /\ left' = JobIds /\ Typed
  BY DEF Safe, StatusPass, Computing, files, outside, sessions
<1>2. /\ flow \in Flow /\ mem \in Flow /\ MemBacked /\ Creating /\ Routed
  BY DEF Safe, Typed, FlowsTyped, Files, Gates
<1>3. /\ g \in Flow /\ g.nodes = mem.nodes /\ g.round = mem.round /\ g.status # "none"
      /\ \A w \in Range(ws) : w.kind = "save"
  BY <1>1, StatusPassStep, ShortPlans, EndPlans
<1>4. Pending = {} /\ Pending' = Range(ws) /\ mem' = g
  BY <1>1, ShortPlans DEF Pending
<1> HIDE DEF g, ws
<1>5. Extends(flow, mem) /\ \A m \in Nodes(mem) : Backed(m)
  BY <1>1, <1>2, <1>4 DEF MemBacked, Owed
<1>6. /\ Quiet' /\ Reported' /\ SessionsOwned' /\ FlowBacked' /\ UngatedOwned'
      /\ \A i \in JobIds : Orphan(i)' <=> Orphan(i)
      /\ \A after : Waits(after) => Waits(after)'
  BY <1>1, <1>3, <1>4, BeginSafe
<1>7. Nodes(g) = Nodes(mem) /\ Owned(g) = Owned(mem)
  BY <1>3 DEF Nodes, Owned
<1>8. MemBacked'
  <2>1. Extends(flow, g)
    BY <1>3, <1>5 DEF Extends
  <2>2. \A m \in Nodes(g) : Backed(m)'
    BY <1>1, <1>5, <1>7 DEF Backed
  <2> QED BY <1>1, <1>3, <1>4, <2>1, <2>2 DEF MemBacked
<1>9. MintsNew'
  BY <1>3, <1>4 DEF MintsNew
<1>10. Creating'
  BY <1>1, <1>2 DEF Creating
<1>11. Routed'
  BY <1>1 DEF Routed
<1>12. \A j \in JobIds : Queued(j) => j \in Owned(mem)
  BY <1>1, <1>2, <1>4 DEF Routed, Reaped
<1>13. Holds'
  <2>1. \A j \in JobIds : Orphan(j)' => Waits(job[j].after)'
    <3> SUFFICES ASSUME NEW j \in JobIds, Orphan(j) PROVE Waits(job[j].after)'
      BY <1>6
    <3>1. Waits(job[j].after)
      BY <1>1, <1>2, <1>12 DEF Routed, Orphan
    <3> QED BY <1>1, <1>6, <3>1
  <2>2. \A j \in JobIds : Queued(j)' => j \in Owned(mem')
    BY <1>1, <1>4, <1>7, <1>12 DEF Queued
  <2> QED BY <1>1, <2>1, <2>2 DEF Holds
<1> QED BY <1>6, <1>8, <1>9, <1>10, <1>11, <1>13 DEF Files, Gates

(***************************************************************************)
(* The theorems.                                                            *)
(***************************************************************************)
LEMMA InitSafe == Init => Safe
<1> SUFFICES ASSUME Init PROVE Safe
  OBVIOUS
<1>1. /\ flow.nodes = <<>> /\ flow.status = "none" /\ pc = "idle" /\ writes = <<>>
      /\ \A j \in JobIds : job[j].phase = "absent" /\ ~ ReportExists(j) /\ unit[j] = "none"
  BY DEF Init, NoFlow, ReportExists
<1>2. Pending = {} /\ ~ Saving
  BY <1>1, ShortPlans DEF Pending, Saving
<1>3. Nodes(flow) = {}
  BY <1>1 DEF Nodes
<1>4. Quiet /\ Reported /\ SessionsOwned
  BY <1>1, <1>2 DEF Quiet, Reported, SessionsOwned
<1>5. Files
  BY <1>1, <1>2, <1>3 DEF Files, FlowBacked, MemBacked, MintsNew, Creating
<1>6. Gates
  BY <1>1, <1>2 DEF Gates, UngatedOwned, Routed, Holds, Orphan, Queued
<1> QED BY <1>4, <1>5, <1>6, InitTyped DEF Safe

LEMMA SafeStays ==
  ASSUME Safe, [Next]_vars
  PROVE  Safe'
<1> DEFINE Goal == Quiet' /\ Reported' /\ SessionsOwned' /\ Files' /\ Gates'
<1>1. Typed'
  BY TypedStays DEF Safe
<1>2. Create \/ Stop \/ ReconcileDeadline \/ SpoolAppend \/ ReconcileNothing \/ ReconcileBegin
        => Goal
  BY CreateSafe, EndSafe, AppendSafe, NothingSafe, PassSafe
<1>3. Route \/ StatusPass => Goal
  BY RouteSafe, StatusSafe
<1>4. Writing => Goal
  BY WritingSafe
<1>5. Visit \/ MarkStarted \/ TickEnd \/ Crash \/ (\E j \in JobIds : Cancel(j) \/ Launch(j)) => Goal
  BY VisitsSafe
<1>6. RequestAppend \/ DeadlineNears \/ MoveDeadline \/ UNCHANGED vars
        \/ (\E j \in JobIds : Session(j)) => Goal
  BY ElsewhereSteps, ElsewhereSafe
<1>7. Goal
  BY <1>2, <1>3, <1>4, <1>5, <1>6 DEF Next, Tick
<1> QED BY <1>1, <1>7 DEF Safe

\* In every reachable state each node of the saved flow has its job file, every
\* plan mints before it saves, and every orphan is kept back.
THEOREM FlowRunSafe == Spec => []Safe
<1>1. Safe /\ [Next]_vars => Safe'
  BY SafeStays
<1> QED BY InitSafe, <1>1, PTL DEF Spec

\* A session is only ever started for a job the flow file knows as a node.
THEOREM EverySessionOwned == Spec => []SessionsOwned
<1>1. Safe => SessionsOwned
  BY DEF Safe
<1> QED BY FlowRunSafe, <1>1, PTL

\* There are no more sessions than nodes, and no more nodes than the budget.
LEMMA SafeWithinBudget == Safe => BudgetHolds
<1> SUFFICES ASSUME Safe PROVE BudgetHolds
  OBVIOUS
<1> DEFINE a == Len(flow.nodes)
           U == {j \in JobIds : unit[j] # "none"}
           O == {flow.nodes[i].job : i \in 1..a}
<1>1. flow \in Flow /\ Fits(flow) /\ SessionsOwned
  BY DEF Safe, Typed, FlowsTyped
<1>2. a \in Nat /\ a <= NodeMax /\ NodeMax \in Nat
  BY <1>1, FlowAssumption DEF Flow, Fits
<1>3. U \subseteq O
  BY <1>1, NodesOf DEF SessionsOwned, Owned
<1>4. IsFiniteSet(1..a) /\ Cardinality(1..a) = a
  BY <1>2, FS_Interval
<1> HIDE DEF a, U
<1>5. IsFiniteSet(O) /\ Cardinality(O) <= a
  <2> DEFINE f == [i \in 1..a |-> flow.nodes[i].job]
  <2>1. f \in Surjection(1..a, O)
    BY DEF Surjection
  <2> HIDE DEF f
  <2>2. IsFiniteSet(O) /\ Cardinality(O) <= Cardinality(1..a)
    BY <1>4, <2>1, FS_Surjection
  <2> QED BY <1>4, <2>2
<1>6. IsFiniteSet(U) /\ Cardinality(U) <= Cardinality(O)
  BY <1>3, <1>5, FS_Subset
<1>7. Cardinality(U) \in Nat /\ Cardinality(O) \in Nat
  BY <1>5, <1>6, FS_CardinalityType
<1>8. Cardinality(U) <= NodeMax
  BY <1>2, <1>5, <1>6, <1>7
<1> QED BY <1>2, <1>8 DEF BudgetHolds, a, U

\* The lifetime budget bounds the nodes of a run and the sessions it starts.
THEOREM EveryBudgetHolds == Spec => []BudgetHolds
BY FlowRunSafe, SafeWithinBudget, PTL
=============================================================================
