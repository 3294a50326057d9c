---------------------------- MODULE FlowRunPlans ----------------------------
(***************************************************************************)
(* What the operators of FlowRun compute: the next job id is one no file    *)
(* ever had, an insertion keeps every node there was and adds a round of    *)
(* new ones, and the file writes a handler plans come in an order in which  *)
(* a job file is always there before the flow that names it.                *)
(***************************************************************************)
EXTENDS FlowRun, SubsequenceProofs

Id == Roles \X Nat \X Nat
Stamps == {"", "none", "ok", "needs-work", "blocked", "complete", "terminal-no-report"}
Node == [id : Id, after : SUBSET Id, seen : Stamps, by : Id \cup {None}, job : JobIds]
Flow == [status : Statuses, nodes : Seq(Node), round : Nat]
Kinds == {"mint", "gate", "reap", "flow", "save", "consume"}
Write == [kind : Kinds, jobs : SUBSET JobIds, node : Node \cup {None}]
Phases == {"absent", "queued", "started", "skipped", "gone"}
JobFile == [phase : Phases, gated : BOOLEAN, after : SUBSET Id, id : Id \cup {None}]

(***************************************************************************)
(* The operators that choose.                                               *)
(***************************************************************************)
\* Highest is the greatest of a bounded set of numbers.
LEMMA HighestOf ==
  ASSUME NEW n \in Nat, NEW S \in SUBSET (1..n), S # {}
  PROVE  Highest(S) \in S /\ \A k \in S : k <= Highest(S)
BY Extremes DEF Highest

\* No job file had the next id, or one after it.
LEMMA NextJobFresh ==
  /\ NextJob \in Nat \ {0}
  /\ \A j \in JobIds : j >= NextJob => job[j].phase = "absent"
  /\ \A n \in Nat : IdsLeft(n) => \A i \in 1..n : NextJob + i - 1 \in JobIds
<1> DEFINE used == {j \in JobIds : job[j].phase # "absent"}
<1>1. MaxJobs \in Nat
  BY FlowAssumption
<1>2. CASE used = {}
  <2>1. NextJob = 1
    BY <1>2 DEF NextJob
  <2> QED BY <1>1, <1>2, <2>1 DEF IdsLeft, JobIds
<1>3. CASE used # {}
  <2>1. Highest(used) \in used /\ \A k \in used : k <= Highest(used)
    BY <1>1, <1>3, HighestOf DEF JobIds
  <2>2. NextJob = Highest(used) + 1
    BY <1>3 DEF NextJob
  <2> DEFINE h == Highest(used)
  <2>3. NextJob = h + 1 /\ h \in 1..MaxJobs /\ \A k \in JobIds : job[k].phase # "absent" => k <= h
    BY <2>1, <2>2 DEF JobIds
  <2> HIDE DEF h, used
  <2>4. NextJob \in Nat \ {0}
    BY <1>1, <2>3
  <2>5. \A j \in JobIds : j >= NextJob => job[j].phase = "absent"
    BY <1>1, <2>3 DEF JobIds
  <2>6. \A n \in Nat : IdsLeft(n) => \A i \in 1..n : NextJob + i - 1 \in JobIds
    BY <1>1, <2>4 DEF IdsLeft, JobIds
  <2> QED BY <2>4, <2>5, <2>6
<1> QED BY <1>2, <1>3

(***************************************************************************)
(* Nodes: those moved to a new upstream, a chain, a fan-out group.          *)
(***************************************************************************)
\* A node that waited on `at` waits on `tail`, and nothing else of it changes.
LEMMA RegatedNodes ==
  ASSUME NEW nodes \in Seq(Node), NEW at \in Id, NEW tail \in Id
  PROVE  /\ Regated(nodes, at, tail) \in Seq(Node)
         /\ Len(Regated(nodes, at, tail)) = Len(nodes)
         /\ DOMAIN Regated(nodes, at, tail) = DOMAIN nodes
         /\ \A i \in DOMAIN nodes :
              /\ Regated(nodes, at, tail)[i].id = nodes[i].id
              /\ Regated(nodes, at, tail)[i].job = nodes[i].job
              /\ Regated(nodes, at, tail)[i].seen = nodes[i].seen
              /\ Regated(nodes, at, tail)[i].by = nodes[i].by
              /\ at \in nodes[i].after =>
                   Regated(nodes, at, tail)[i].after = (nodes[i].after \ {at}) \cup {tail}
              /\ at \notin nodes[i].after =>
                   Regated(nodes, at, tail)[i].after = nodes[i].after
<1> DEFINE moved == Regated(nodes, at, tail)
<1>1. DOMAIN nodes = 1..Len(nodes) /\ Len(nodes) \in Nat
  BY LenProperties
<1>2. ASSUME NEW i \in DOMAIN nodes
      PROVE  /\ moved[i] \in Node
             /\ moved[i].id = nodes[i].id /\ moved[i].job = nodes[i].job
             /\ moved[i].seen = nodes[i].seen /\ moved[i].by = nodes[i].by
             /\ at \in nodes[i].after => moved[i].after = (nodes[i].after \ {at}) \cup {tail}
             /\ at \notin nodes[i].after => moved[i].after = nodes[i].after
  <2>1. nodes[i] \in Node
    BY <1>1, ElementOfSeq
  <2>2. moved[i] = IF at \in nodes[i].after
                   THEN [nodes[i] EXCEPT !.after = (@ \ {at}) \cup {tail}]
                   ELSE nodes[i]
    BY DEF Regated
  <2> HIDE DEF moved
  <2> QED BY <2>1, <2>2 DEF Node
<1>3. moved = [i \in 1..Len(nodes) |-> moved[i]]
  BY <1>1 DEF Regated
<1>4. moved \in Seq(Node) /\ Len(moved) = Len(nodes)
  <2> DEFINE n == Len(nodes)
  <2>1. moved \in [1..n -> Node] /\ n \in Nat
    <3> HIDE DEF moved
    <3>1. \A i \in 1..n : moved[i] \in Node
      BY <1>1, <1>2
    <3> QED BY <1>1, <1>3, <3>1
  <2> HIDE DEF moved, n
  <2>2. moved \in Seq(Node) /\ Len(moved) = n
    BY <2>1
  <2> QED BY <2>2 DEF n
<1>5. DOMAIN moved = DOMAIN nodes
  BY DEF Regated
<1> HIDE DEF moved
<1> QED BY <1>2, <1>4, <1>5 DEF moved

\* A new node is what it is made of.
LEMMA NewNodeFields ==
  ASSUME NEW n, NEW x, NEW up, NEW from, NEW mine, n = NewNode(x, up, from, mine)
  PROVE  n.id = x /\ n.after = up /\ n.by = from /\ n.job = mine
BY DEF NewNode

LEMMA NewNodeSeen ==
  ASSUME NEW n, NEW x, NEW up, NEW from, NEW mine, n = NewNode(x, up, from, mine)
  PROVE  n.seen = ""
BY DEF NewNode

LEMMA NewNodeType ==
  ASSUME NEW n, NEW x \in Id, NEW up \in SUBSET Id, NEW from \in Id \cup {None},
         NEW mine \in JobIds, n = NewNode(x, up, from, mine)
  PROVE  n \in Node
BY DEF NewNode, Node, Stamps

\* The ids of a chain are of its round.
LEMMA ChainIdsOfRound ==
  ASSUME NEW roles \in Seq(Roles), NEW round \in Nat, NEW i \in 1..Len(roles)
  PROVE  ChainIds(roles, round)[i] \in Id /\ ChainIds(roles, round)[i][2] = round
<1> DEFINE before == {h \in 1..i : roles[h] = roles[i]}
<1>1. Len(roles) \in Nat /\ DOMAIN roles = 1..Len(roles) /\ roles[i] \in Roles
  BY LenProperties, ElementOfSeq
<1>2. IsFiniteSet(1..i)
  <2>1. 1 \in Int /\ i \in Int
    BY <1>1
  <2> QED BY <2>1, FS_Interval
<1>3. Cardinality(before) \in Nat
  <2>1. IsFiniteSet(before)
    BY <1>2, FS_Subset, before \in SUBSET (1..i)
  <2> QED BY <2>1, FS_CardinalityType
<1>4. ChainIds(roles, round)[i] = <<roles[i], round, Cardinality(before)>>
  BY <1>1 DEF ChainIds
<1> HIDE DEF before
<1> QED BY <1>1, <1>3, <1>4 DEF Id

\* A chain waits on `at`, each node on the one before, with jobs of its own.
LEMMA ChainLength ==
  ASSUME NEW f \in Flow, NEW at \in Id, NEW roles \in Seq(Roles)
  PROVE  /\ DOMAIN ChainNodes(f, at, roles) = 1..Len(roles)
         /\ Len(ChainNodes(f, at, roles)) = Len(roles)
         /\ Len(roles) \in Nat
<1>1. Len(roles) \in Nat /\ DOMAIN roles = 1..Len(roles)
  BY LenProperties
<1> QED BY <1>1 DEF ChainNodes

LEMMA ChainNodeIs ==
  ASSUME NEW f \in Flow, NEW at \in Id, NEW roles \in Seq(Roles), NEW i \in 1..Len(roles)
  PROVE  /\ ChainIds(roles, f.round + 1)[i] \in Id
         /\ ChainIds(roles, f.round + 1)[i][2] = f.round + 1
         /\ {IF i = 1 THEN at ELSE ChainIds(roles, f.round + 1)[i - 1]} \in SUBSET Id
         /\ ChainNodes(f, at, roles)[i] =
              NewNode(ChainIds(roles, f.round + 1)[i],
                      {IF i = 1 THEN at ELSE ChainIds(roles, f.round + 1)[i - 1]},
                      None, NextJob + i - 1)
<1> DEFINE ids == ChainIds(roles, f.round + 1)
<1>1. Len(roles) \in Nat /\ DOMAIN roles = 1..Len(roles) /\ f.round + 1 \in Nat
  BY LenProperties DEF Flow
<1>2. \A k \in 1..Len(roles) : ids[k] \in Id /\ ids[k][2] = f.round + 1
  BY <1>1, ChainIdsOfRound
<1>3. ChainNodes(f, at, roles)[i] =
        NewNode(ids[i], {IF i = 1 THEN at ELSE ids[i - 1]}, None, NextJob + i - 1)
  BY <1>1 DEF ChainNodes
<1> HIDE DEF ids
<1>4. i # 1 => i - 1 \in 1..Len(roles)
  BY <1>1
<1>5. {IF i = 1 THEN at ELSE ids[i - 1]} \in SUBSET Id
  BY <1>2, <1>4
<1> QED BY <1>2, <1>3, <1>5 DEF ids

LEMMA ChainUnseen ==
  ASSUME NEW f \in Flow, NEW at \in Id, NEW roles \in Seq(Roles), NEW i \in 1..Len(roles)
  PROVE  ChainNodes(f, at, roles)[i].seen = ""
<1> DEFINE x == ChainIds(roles, f.round + 1)[i]
           ups == {IF i = 1 THEN at ELSE ChainIds(roles, f.round + 1)[i - 1]}
           mine == NextJob + i - 1
<1>1. ChainNodes(f, at, roles)[i] = NewNode(x, ups, None, mine)
  BY ChainNodeIs, Zenon
<1> HIDE DEF x, ups, mine
<1> QED BY ONLY <1>1, NewNodeSeen

LEMMA ChainNodeFields ==
  ASSUME NEW f \in Flow, NEW at \in Id, NEW roles \in Seq(Roles), NEW i \in 1..Len(roles)
  PROVE  /\ ChainNodes(f, at, roles)[i].id \in Id
         /\ ChainNodes(f, at, roles)[i].id[2] = f.round + 1
         /\ ChainNodes(f, at, roles)[i].after =
              {IF i = 1 THEN at ELSE ChainNodes(f, at, roles)[i - 1].id}
         /\ ChainNodes(f, at, roles)[i].job = NextJob + i - 1
         /\ ChainNodes(f, at, roles)[i].by = None
         /\ NextJob + i - 1 \in JobIds => ChainNodes(f, at, roles)[i] \in Node
<1> DEFINE new == ChainNodes(f, at, roles)
           ids == ChainIds(roles, f.round + 1)
           ups == {IF i = 1 THEN at ELSE ids[i - 1]}
           mine == NextJob + i - 1
<1>1. Len(roles) \in Nat
  BY LenProperties
<1>2. /\ ids[i] \in Id /\ ids[i][2] = f.round + 1 /\ ups \in SUBSET Id
      /\ new[i] = NewNode(ids[i], ups, None, mine)
  <2>1. new[i] = NewNode(ids[i], ups, None, mine)
    BY ChainNodeIs, Zenon
  <2>2. ids[i] \in Id /\ ids[i][2] = f.round + 1
    <3>1. f.round + 1 \in Nat
      BY DEF Flow
    <3> QED BY <3>1, ChainIdsOfRound
  <2>3. ups \in SUBSET Id
    BY ChainNodeIs
  <2> QED BY <2>1, <2>2, <2>3
<1>3. i # 1 => new[i - 1].id = ids[i - 1]
  <2>1. i # 1 => i - 1 \in 1..Len(roles)
    BY <1>1
  <2> SUFFICES ASSUME i - 1 \in 1..Len(roles) PROVE new[i - 1].id = ids[i - 1]
    BY <2>1
  <2> DEFINE h == i - 1
             up2 == {IF h = 1 THEN at ELSE ids[h - 1]}
             his == NextJob + h - 1
  <2>2. new[h] = NewNode(ids[h], up2, None, his)
    <3>1. h \in 1..Len(roles)
      OBVIOUS
    <3> HIDE DEF h
    <3> QED BY <3>1, ChainNodeIs, Zenon
  <2> HIDE DEF up2, his, h, new, ids
  <2>3. new[h].id = ids[h]
    BY ONLY <2>2, NewNodeFields
  <2> QED BY <2>3 DEF h
<1>4. ups = {IF i = 1 THEN at ELSE new[i - 1].id}
  BY <1>3
<1> HIDE DEF new, ids, ups, mine
<1>5. None \in Id \cup {None} /\ ids[i] \in Id
  BY <1>2
<1>6. mine \in JobIds => new[i] \in Node
  BY ONLY <1>2, <1>5, NewNodeType
<1>7. new[i].id = ids[i] /\ new[i].after = ups /\ new[i].by = None /\ new[i].job = mine
  BY ONLY <1>2, NewNodeFields
<1>8. new[i].id \in Id /\ new[i].id[2] = f.round + 1
  BY <1>2, <1>7
<1> QED BY <1>4, <1>6, <1>7, <1>8 DEF new, mine

(***************************************************************************)
(* The nodes of one round: they follow `at` or one another.                 *)
(***************************************************************************)
Follows(n, at, round) == \E up \in n.after : up = at \/ up[2] = round

RoundOf(f, at, new) ==
  /\ new \in Seq(Node)
  /\ \A i \in 1..Len(new) : new[i].id[2] = f.round + 1
  /\ \A i \in 1..Len(new) : new[i].job = NextJob + i - 1
  /\ \A i \in 1..Len(new) : Follows(new[i], at, f.round + 1)
  /\ \A i \in 1..Len(new) : new[i].seen = ""

\* The first k of a chain are a round, and the whole of it is.
LEMMA ChainIsRound ==
  ASSUME NEW f \in Flow, NEW at \in Id, NEW roles \in Seq(Roles),
         NEW k \in 0..Len(roles), IdsLeft(k)
  PROVE  /\ RoundOf(f, at, SubSeq(ChainNodes(f, at, roles), 1, k))
         /\ Len(SubSeq(ChainNodes(f, at, roles), 1, k)) = k
         /\ k = Len(roles) => /\ RoundOf(f, at, ChainNodes(f, at, roles))
                              /\ Len(ChainNodes(f, at, roles)) = k
<1> DEFINE all == ChainNodes(f, at, roles)
           new == SubSeq(all, 1, k)
<1>1. Len(roles) \in Nat /\ k \in Nat /\ k <= Len(roles) /\ f.round \in Nat
  BY LenProperties DEF Flow
<1>2. \A i \in 1..k : all[i] \in Node
  <2>1. \A i \in 1..k : NextJob + i - 1 \in JobIds
    BY <1>1, NextJobFresh
  <2>2. \A i \in 1..k : i \in 1..Len(roles)
    BY <1>1
  <2> QED BY <2>1, <2>2, ChainNodeFields
<1>3. /\ new \in Seq(Node) /\ Len(new) = k
      /\ \A i \in 1..k : new[i] = all[i]
  <2> HIDE DEF all
  <2>1. /\ new \in Seq(Node) /\ Len(new) = IF 1 <= k THEN k - 1 + 1 ELSE 0
        /\ \A i \in 1..k-1+1 : new[i] = all[1+i-1]
    BY <1>1, <1>2, SubSeqProperties
  <2> HIDE DEF new
  <2>2. \A i \in 1..k : 1 + i - 1 = i /\ i \in 1..k-1+1
    BY <1>1
  <2> QED BY <1>1, <2>1, <2>2
<1>4. \A i \in 1..k : /\ all[i].id[2] = f.round + 1 /\ all[i].job = NextJob + i - 1
                      /\ i \in 1..Len(roles)
  BY <1>1, ChainNodeFields
<1>5. ASSUME NEW i \in 1..k PROVE Follows(all[i], at, f.round + 1)
  <2>1. all[i].after = {IF i = 1 THEN at ELSE all[i - 1].id}
    BY <1>4, ChainNodeFields
  <2>2. i # 1 => i - 1 \in 1..k
    BY <1>1
  <2>3. i # 1 => all[i - 1].id[2] = f.round + 1
    BY <2>2, <1>4
  <2> HIDE DEF all
  <2> QED BY <2>1, <2>3 DEF Follows
<1>6. \A i \in 1..k : all[i].seen = ""
  BY <1>4, ChainUnseen
<1>7. RoundOf(f, at, new) /\ Len(new) = k
  <2> HIDE DEF all, new
  <2>1. \A i \in 1..k : new[i].id[2] = f.round + 1 /\ new[i].job = NextJob + i - 1
    BY <1>3, <1>4
  <2>2. \A i \in 1..k : Follows(new[i], at, f.round + 1)
    BY <1>3, <1>5
  <2>3. \A i \in 1..k : new[i].seen = ""
    BY <1>3, <1>6
  <2> QED BY <1>3, <2>1, <2>2, <2>3 DEF RoundOf
<1>8. ASSUME k = Len(roles) PROVE all = new
  <2>1. DOMAIN all = 1..k /\ Len(all) = k
    BY <1>8, ChainLength
  <2>2. all \in Seq(Node)
    <3>1. all = [i \in 1..k |-> all[i]]
      BY <1>8, <1>1, LenProperties DEF ChainNodes
    <3> HIDE DEF all
    <3>2. all \in [1..k -> Node]
      BY <1>2, <3>1
    <3> QED BY <1>1, <3>2
  <2> HIDE DEF all
  <2> QED BY <1>3, <2>1, <2>2, SeqEqual
<1> QED BY <1>7, <1>8

\* A fan-out group is a round: the children follow the emitter, the fan-in them.
LEMMA GroupIsRound ==
  ASSUME NEW f \in Flow, NEW n \in Node, n.id[1] \in DOMAIN Emitters,
         emits[n.job] \in Nat \ {0}, IdsLeft(emits[n.job] + 1)
  PROVE  /\ RoundOf(f, n.id, GroupNodes(f, n))
         /\ Len(GroupNodes(f, n)) = emits[n.job] + 1
         /\ FanInID(f, n) \in Id /\ FanInID(f, n)[2] = f.round + 1
<1> DEFINE e == emits[n.job]
           r == f.round + 1
           child == Emitters[n.id[1]].child
           ids == [i \in 1..e |-> <<child, r, i>>]
           attempts == [i \in 1..e |-> NewNode(ids[i], {n.id}, n.id, NextJob + i - 1)]
           fanIn == FanInID(f, n)
           ups == {ids[i] : i \in 1..e}
           last == NewNode(fanIn, ups, None, NextJob + e)
<1>1. e \in Nat \ {0} /\ r \in Nat /\ n.id \in Id /\ NextJob \in Nat
  BY NextJobFresh DEF Flow, Node
<1>2. child \in Roles /\ fanIn \in Id /\ fanIn[2] = r
  <2>1. Emitters[n.id[1]].child \in Roles /\ Emitters[n.id[1]].fanIn \in Roles
    BY FlowAssumption
  <2> QED BY <1>1, <2>1 DEF FanInID, Id
<1>3. GroupNodes(f, n) = attempts \o <<last>>
  BY DEF GroupNodes, FanInID
<1>4. \A i \in 1..e+1 : NextJob + i - 1 \in JobIds
  <2> HIDE DEF e
  <2>1. IdsLeft(e + 1) /\ e + 1 \in Nat
    BY <1>1 DEF e
  <2> QED BY <2>1, NextJobFresh
<1>5. \A i \in 1..e : ids[i] \in Id /\ ids[i][2] = r
  <2> HIDE DEF e, r, child
  <2> QED BY <1>1, <1>2 DEF Id
<1>6. ups \in SUBSET Id /\ \E up \in ups : up[2] = r
  <2>1. 1 \in 1..e /\ ids[1] \in ups
    <3> HIDE DEF e
    <3> QED BY <1>1
  <2> HIDE DEF ids, e, r
  <2> QED BY <1>5, <2>1
<1>7. \A i \in 1..e : attempts[i] = NewNode(ids[i], {n.id}, n.id, NextJob + i - 1)
  BY DEF attempts
<1>8. attempts = [i \in 1..e |-> attempts[i]]
  OBVIOUS
<1> HIDE DEF e, r, child, ids, fanIn, ups, last, attempts
<1>9. ASSUME NEW i \in 1..e
      PROVE  /\ ids[i] \in Id /\ {n.id} \in SUBSET Id /\ n.id \in Id \cup {None}
             /\ NextJob + i - 1 \in JobIds
             /\ attempts[i] = NewNode(ids[i], {n.id}, n.id, NextJob + i - 1)
  <2>1. i \in 1..e+1
    BY <1>1
  <2>2. NextJob + i - 1 \in JobIds
    BY <1>4, <2>1
  <2> QED BY <1>1, <1>5, <1>7, <2>2
<1>10. ASSUME NEW i \in 1..e
       PROVE  /\ attempts[i] \in Node
              /\ attempts[i].id = ids[i] /\ attempts[i].after = {n.id}
              /\ attempts[i].job = NextJob + i - 1
  <2> DEFINE mine == NextJob + i - 1
             ups1 == {n.id}
  <2>1. /\ ids[i] \in Id /\ ups1 \in SUBSET Id /\ n.id \in Id \cup {None} /\ mine \in JobIds
        /\ attempts[i] = NewNode(ids[i], ups1, n.id, mine)
    BY <1>9
  <2> HIDE DEF mine, ups1
  <2>2. attempts[i] \in Node
    BY ONLY <2>1, NewNodeType
  <2>3. attempts[i].id = ids[i] /\ attempts[i].after = ups1 /\ attempts[i].job = mine
    BY ONLY <2>1, NewNodeFields
  <2> QED BY <2>2, <2>3 DEF mine, ups1
<1>11. ASSUME NEW i \in 1..e PROVE attempts[i].seen = ""
  <2> DEFINE mine == NextJob + i - 1
             ups1 == {n.id}
  <2>1. attempts[i] = NewNode(ids[i], ups1, n.id, mine)
    BY <1>9
  <2> HIDE DEF mine, ups1
  <2> QED BY ONLY <2>1, NewNodeSeen
<1> DEFINE hers == NextJob + e
<1>12. hers \in JobIds /\ hers = NextJob + (e + 1) - 1
  <2>1. e + 1 \in 1..e+1 /\ NextJob + (e + 1) - 1 = hers
    BY <1>1
  <2> QED BY <1>4, <2>1
<1>13. last = NewNode(fanIn, ups, None, hers)
  BY DEF last
<1> HIDE DEF hers
<1>14. last \in Node /\ last.id = fanIn /\ last.after = ups /\ last.job = hers
  <2>1. None \in Id \cup {None}
    OBVIOUS
  <2>2. last \in Node
    BY ONLY <1>2, <1>6, <1>12, <1>13, <2>1, NewNodeType
  <2>3. last.id = fanIn /\ last.after = ups /\ last.job = hers
    BY ONLY <1>13, NewNodeFields
  <2> QED BY <2>2, <2>3
<1>15. last.seen = ""
  BY ONLY <1>13, NewNodeSeen
<1>16. attempts \in Seq(Node) /\ Len(attempts) = e
  <2>1. attempts \in [1..e -> Node]
    BY <1>8, <1>10
  <2> QED BY <1>1, <2>1
<1> DEFINE s == <<last>>
           new == attempts \o s
<1>17. s \in Seq(Node) /\ Len(s) = 1 /\ s[1] = last
  <2>1. last \in Node
    BY <1>14
  <2> QED BY ONLY <2>1
<1>18. /\ new \in Seq(Node) /\ Len(new) = e + 1
       /\ \A i \in 1..e : new[i] = attempts[i]
       /\ new[e + 1] = last
  <2> HIDE DEF s
  <2>1. /\ new \in Seq(Node) /\ Len(new) = Len(attempts) + Len(s)
        /\ \A i \in 1..Len(attempts)+Len(s) :
             new[i] = IF i <= Len(attempts) THEN attempts[i] ELSE s[i - Len(attempts)]
    BY <1>16, <1>17, ConcatProperties
  <2> HIDE DEF new
  <2>2. \A i \in 1..e+1 : new[i] = IF i <= e THEN attempts[i] ELSE s[i - e]
    BY <1>16, <1>17, <2>1
  <2>3. \A i \in 1..e : i \in 1..e+1 /\ i <= e
    BY <1>1
  <2>4. e + 1 \in 1..e+1 /\ ~ (e + 1 <= e) /\ (e + 1) - e = 1
    BY <1>1
  <2> QED BY <1>16, <1>17, <2>1, <2>2, <2>3, <2>4
<1>19. \A i \in 1..e+1 : i \in 1..e \/ i = e + 1
  BY <1>1
<1> HIDE DEF new
<1>20. \A i \in 1..e+1 : new[i].id[2] = r
  <2>1. \A i \in 1..e : new[i].id = ids[i]
    BY <1>10, <1>18
  <2>2. new[e + 1].id = fanIn
    BY <1>18, <1>14
  <2> QED BY <1>2, <1>5, <1>19, <2>1, <2>2
<1>21. \A i \in 1..e+1 : new[i].job = NextJob + i - 1
  <2>1. \A i \in 1..e : new[i].job = NextJob + i - 1
    BY <1>10, <1>18
  <2>2. new[e + 1].job = NextJob + (e + 1) - 1
    BY <1>18, <1>12, <1>14
  <2> QED BY <1>19, <2>1, <2>2
<1>22. \A i \in 1..e+1 : Follows(new[i], n.id, r)
  BY <1>6, <1>10, <1>18, <1>19, <1>14 DEF Follows
<1>23. \A i \in 1..e+1 : new[i].seen = ""
  <2>1. \A i \in 1..e : attempts[i].seen = ""
    BY <1>11
  <2> QED BY <1>18, <1>19, <1>15, <2>1
<1>24. RoundOf(f, n.id, new)
  BY <1>18, <1>20, <1>21, <1>22, <1>23 DEF RoundOf, r
<1> QED BY <1>2, <1>3, <1>18, <1>24 DEF new, s, e, r, fanIn

(***************************************************************************)
(* The file writes a handler plans.  Jobs are minted before anything else   *)
(* is written, and the flow file and the spool come last.                   *)
(***************************************************************************)
Ends == {"flow", "save", "consume"}

WellFormed(w) ==
  /\ w \in Write
  /\ w.kind \in {"mint", "gate"} => w.node \in Node /\ w.jobs = {w.node.job}
  /\ w.kind = "reap" => w.jobs # {}

Plan(ws) ==
  /\ ws \in Seq(Write)
  /\ \A i \in 1..Len(ws) : WellFormed(ws[i])
  /\ \A i, k \in 1..Len(ws) : i < k =>
       /\ ws[k].kind = "mint" => ws[i].kind = "mint" /\ ws[i].node.job # ws[k].node.job
       /\ ws[i].kind \in Ends => ws[k].kind \in Ends

\* One plan after another.
LEMMA PlanConcat ==
  ASSUME NEW s, NEW t, Plan(s), Plan(t),
         \A w \in Range(t) : w.kind # "mint",
         (\A w \in Range(s) : w.kind \notin Ends) \/ (\A w \in Range(t) : w.kind \in Ends)
  PROVE  Plan(s \o t) /\ Range(s \o t) = Range(s) \cup Range(t)
<1>1. s \in Seq(Write) /\ t \in Seq(Write) /\ Len(s) \in Nat /\ Len(t) \in Nat
  BY LenProperties DEF Plan
<1>2. /\ s \o t \in Seq(Write) /\ Len(s \o t) = Len(s) + Len(t)
      /\ \A i \in 1..Len(s)+Len(t) :
           (s \o t)[i] = IF i <= Len(s) THEN s[i] ELSE t[i - Len(s)]
      /\ Range(s \o t) = Range(s) \cup Range(t)
  BY <1>1, ConcatProperties, RangeConcatenation
<1> DEFINE n == Len(s)
           m == Len(t)
           both == s \o t
<1>3. /\ both \in Seq(Write) /\ Len(both) = n + m
      /\ \A i \in 1..n+m : \/ i \in 1..n /\ both[i] = s[i]
                           \/ i - n \in 1..m /\ both[i] = t[i - n]
      /\ n \in Nat /\ m \in Nat
  <2>1. \A i \in 1..n+m : IF i <= n THEN i \in 1..n ELSE i - n \in 1..m
    BY <1>1
  <2> QED BY <1>1, <1>2, <2>1
<1>4. /\ \A i \in 1..n : s[i] \in Range(s) /\ WellFormed(s[i])
      /\ \A i \in 1..m : t[i] \in Range(t) /\ WellFormed(t[i])
  BY <1>1, LenProperties DEF Plan, Range
<1> HIDE DEF both
<1>5. \A i \in 1..n+m : WellFormed(both[i])
  BY <1>3, <1>4
<1>6. ASSUME NEW i \in 1..n+m, NEW k \in 1..n+m, i < k
      PROVE  /\ both[k].kind = "mint" =>
                  both[i].kind = "mint" /\ both[i].node.job # both[k].node.job
             /\ both[i].kind \in Ends => both[k].kind \in Ends
  <2>1. CASE k \in 1..n /\ both[k] = s[k]
    <3>1. i \in 1..n /\ ~ (i - n \in 1..m)
      BY <1>3, <1>6, <2>1
    <3>2. both[i] = s[i]
      BY <1>3, <3>1
    <3> QED BY <1>6, <2>1, <3>1, <3>2 DEF Plan, n
  <2>2. CASE k - n \in 1..m /\ both[k] = t[k - n]
    <3>1. CASE i \in 1..n /\ both[i] = s[i]
      BY <1>4, <2>2, <3>1
    <3>2. CASE i - n \in 1..m /\ both[i] = t[i - n]
      <4>1. i - n < k - n
        BY <1>3, <1>6
      <4> QED BY <2>2, <3>2, <4>1 DEF Plan, m
    <3> QED BY <1>3, <3>1, <3>2
  <2> QED BY <1>3, <2>1, <2>2
<1>7. Plan(both)
  BY <1>3, <1>5, <1>6 DEF Plan
<1> QED BY <1>2, <1>7 DEF both

\* What is left of a plan when its first write is done.
LEMMA PlanTail ==
  ASSUME NEW ws, Plan(ws), ws # <<>>
  PROVE  /\ WellFormed(Head(ws)) /\ Plan(Tail(ws))
         /\ Range(ws) = {Head(ws)} \cup Range(Tail(ws))
         /\ \A w \in Range(Tail(ws)) : w.kind = "mint" =>
              Head(ws).kind = "mint" /\ Head(ws).node.job # w.node.job
         /\ Head(ws).kind \in Ends => \A w \in Range(Tail(ws)) : w.kind \in Ends
<1> DEFINE n == Len(ws)
           rest == Tail(ws)
<1>1. ws \in Seq(Write) /\ n \in Nat \ {0} /\ DOMAIN ws = 1..n
  BY LenProperties, EmptySeq DEF Plan
<1>2. /\ rest \in Seq(Write) /\ Len(rest) = n - 1
      /\ \A i \in 1..n-1 : rest[i] = ws[i + 1]
      /\ Head(ws) = ws[1]
  BY <1>1, HeadTailProperties
<1>3. DOMAIN rest = 1..n-1
  BY <1>2, LenProperties
<1> HIDE DEF n, rest
<1>4. \A i \in 1..n-1 : i + 1 \in 1..n /\ 1 < i + 1
  BY <1>1
<1>5. Range(ws) = {ws[1]} \cup Range(rest)
  <2>1. Range(ws) \subseteq {ws[1]} \cup Range(rest)
    <3> SUFFICES ASSUME NEW i \in 1..n PROVE ws[i] = ws[1] \/ ws[i] \in Range(rest)
      BY <1>1 DEF Range
    <3>1. i = 1 \/ (i - 1 \in 1..n-1 /\ i = (i - 1) + 1)
      BY <1>1
    <3> QED BY <1>2, <1>3, <3>1 DEF Range
  <2>2. ws[1] \in Range(ws)
    BY <1>1 DEF Range
  <2>3. Range(rest) \subseteq Range(ws)
    BY <1>1, <1>2, <1>3, <1>4 DEF Range
  <2> QED BY <2>1, <2>2, <2>3
<1>6. Plan(rest)
  <2>1. \A i \in 1..n-1 : WellFormed(rest[i])
    BY <1>2, <1>4 DEF Plan, n
  <2>2. ASSUME NEW i \in 1..n-1, NEW k \in 1..n-1, i < k
        PROVE  /\ rest[k].kind = "mint" =>
                    rest[i].kind = "mint" /\ rest[i].node.job # rest[k].node.job
               /\ rest[i].kind \in Ends => rest[k].kind \in Ends
    <3>1. i + 1 < k + 1
      BY <1>1, <2>2
    <3>2. rest[i] = ws[i + 1] /\ rest[k] = ws[k + 1]
      BY <1>2
    <3>3. /\ ws[k + 1].kind = "mint" =>
               ws[i + 1].kind = "mint" /\ ws[i + 1].node.job # ws[k + 1].node.job
          /\ ws[i + 1].kind \in Ends => ws[k + 1].kind \in Ends
      BY <1>4, <3>1 DEF Plan, n
    <3> QED BY <3>2, <3>3
  <2> QED BY <1>2, <2>1, <2>2 DEF Plan
<1>7. \A w \in Range(rest) : /\ w.kind = "mint" => ws[1].kind = "mint" /\ ws[1].node.job # w.node.job
                             /\ ws[1].kind \in Ends => w.kind \in Ends
  <2> SUFFICES ASSUME NEW i \in 1..n-1
               PROVE  /\ ws[i+1].kind = "mint" =>
                           ws[1].kind = "mint" /\ ws[1].node.job # ws[i+1].node.job
                      /\ ws[1].kind \in Ends => ws[i+1].kind \in Ends
    BY <1>2, <1>3 DEF Range
  <2> QED BY <1>1, <1>4 DEF Plan, n
<1>8. WellFormed(ws[1])
  BY <1>1 DEF Plan, n
<1> QED BY <1>2, <1>5, <1>6, <1>7, <1>8 DEF rest

\* A deletion of several files done in part.
Shrunk(ws, j) == [ws EXCEPT ![1].jobs = @ \ {j}]

LEMMA PlanShrunk ==
  ASSUME NEW ws, Plan(ws), ws # <<>>, Head(ws).kind = "reap",
         NEW j \in Head(ws).jobs, Head(ws).jobs # {j}
  PROVE  /\ Plan(Shrunk(ws, j))
         /\ \E w : /\ w.kind = "reap" /\ w.jobs = Head(ws).jobs \ {j}
                   /\ Range(Shrunk(ws, j)) = {w} \cup Range(Tail(ws))
<1> DEFINE n == Len(ws)
           x == ws[1]
           y == [x EXCEPT !.jobs = @ \ {j}]
           new == [ws EXCEPT ![1] = y]
<1>1. ws \in Seq(Write) /\ n \in Nat \ {0} /\ DOMAIN ws = 1..n /\ Head(ws) = x
  BY LenProperties, EmptySeq, HeadTailProperties DEF Plan
<1>2. WellFormed(x) /\ x \in Write /\ x.kind = "reap" /\ j \in x.jobs /\ x.jobs # {j}
  BY <1>1 DEF Plan, WellFormed
<1>3. Shrunk(ws, j) = new
  BY DEF Shrunk
<1> HIDE DEF x, n
<1>4. /\ y \in Write /\ y.kind = "reap" /\ y.jobs = x.jobs \ {j} /\ y.jobs # {}
  <2>1. x.jobs \ {j} \in SUBSET JobIds
    BY <1>2 DEF Write
  <2>2. y \in Write /\ y.kind = x.kind /\ y.jobs = x.jobs \ {j}
    BY ONLY <1>2, <2>1 DEF Write
  <2> HIDE DEF y
  <2> QED BY <1>2, <2>2
<1>5. WellFormed(y)
  <2> HIDE DEF y
  <2> QED BY <1>4 DEF WellFormed
<1> HIDE DEF y
<1>6. /\ new \in Seq(Write) /\ Len(new) = n /\ new[1] = y
      /\ \A i \in 1..n : i # 1 => new[i] = ws[i]
  <2>1. 1 \in 1..Len(ws) /\ ws \in Seq(Write) /\ y \in Write
    BY <1>1, <1>4 DEF n
  <2>2. /\ new \in Seq(Write) /\ Len(new) = Len(ws)
        /\ \A i \in 1..Len(ws) : new[i] = IF i = 1 THEN y ELSE ws[i]
    BY ONLY <2>1, ExceptSeq DEF new
  <2> HIDE DEF new
  <2> QED BY <2>1, <2>2 DEF n
<1>7. DOMAIN new = 1..n
  BY <1>6, LenProperties
<1> HIDE DEF new
<1>8. \A i \in 1..n : WellFormed(new[i])
  <2>1. \A i \in 1..n : WellFormed(ws[i])
    BY DEF Plan, n
  <2> QED BY <1>5, <1>6, <2>1
<1>9. \A i, k \in 1..n : i < k =>
        /\ new[k].kind = "mint" => new[i].kind = "mint" /\ new[i].node.job # new[k].node.job
        /\ new[i].kind \in Ends => new[k].kind \in Ends
  <2> SUFFICES ASSUME NEW i \in 1..n, NEW k \in 1..n, i < k
               PROVE  /\ new[k].kind = "mint" =>
                           new[i].kind = "mint" /\ new[i].node.job # new[k].node.job
                      /\ new[i].kind \in Ends => new[k].kind \in Ends
    OBVIOUS
  <2>1. new[k] = ws[k] /\ 1 \in 1..n
    BY <1>1, <1>6
  <2>2. /\ ws[k].kind = "mint" => ws[i].kind = "mint" /\ ws[i].node.job # ws[k].node.job
        /\ ws[i].kind \in Ends => ws[k].kind \in Ends
    BY DEF Plan, n
  <2>3. CASE i = 1
    <3>1. ws[k].kind # "mint"
      BY <1>2, <2>2, <2>3 DEF x
    <3> QED BY <1>4, <1>6, <2>1, <2>3, <3>1 DEF Ends
  <2>4. CASE i # 1
    BY <1>6, <2>1, <2>2, <2>4
  <2> QED BY <2>3, <2>4
<1>10. Plan(new)
  BY <1>6, <1>8, <1>9 DEF Plan
<1>11. Range(new) = {y} \cup Range(Tail(ws))
  <2> DEFINE rest == Tail(ws)
  <2>1. /\ rest \in Seq(Write) /\ Len(rest) = n - 1
        /\ \A i \in 1..n-1 : rest[i] = ws[i + 1]
    BY <1>1, HeadTailProperties DEF n
  <2>2. DOMAIN rest = 1..n-1
    BY <2>1, LenProperties
  <2> HIDE DEF rest
  <2>3. \A i \in 1..n-1 : i + 1 \in 1..n /\ i + 1 # 1
    BY <1>1
  <2>4. \A i \in 1..n : i = 1 \/ (i - 1 \in 1..n-1 /\ i = (i - 1) + 1)
    BY <1>1
  <2>5. Range(new) \subseteq {y} \cup Range(rest)
    <3> SUFFICES ASSUME NEW i \in 1..n PROVE new[i] = y \/ new[i] \in Range(rest)
      BY <1>7 DEF Range
    <3>1. CASE i = 1
      BY <1>6, <3>1
    <3>2. CASE i # 1
      <4>1. i - 1 \in 1..n-1 /\ new[i] = ws[i] /\ ws[i] = ws[(i - 1) + 1]
        BY <1>6, <2>4, <3>2
      <4>2. rest[i - 1] = ws[(i - 1) + 1]
        BY <2>1, <4>1
      <4>3. new[i] = rest[i - 1]
        BY <4>1, <4>2
      <4> QED BY <2>2, <4>1, <4>3 DEF Range
    <3> QED BY <3>1, <3>2
  <2>6. Range(rest) \subseteq Range(new)
    BY <1>6, <1>7, <2>1, <2>2, <2>3 DEF Range
  <2>7. y \in Range(new)
    BY <1>1, <1>6, <1>7 DEF Range
  <2> QED BY <2>5, <2>6, <2>7 DEF rest
<1> QED BY <1>1, <1>3, <1>4, <1>10, <1>11

\* A plan of no write, and of one.
LEMMA ShortPlans ==
  /\ Plan(<<>>) /\ Range(<<>>) = {}
  /\ \A w : WellFormed(w) => Plan(<<w>>) /\ Range(<<w>>) = {w}
<1>1. Plan(<<>>) /\ Range(<<>>) = {}
  BY DEF Plan, Range
<1>2. ASSUME NEW w, WellFormed(w) PROVE Plan(<<w>>) /\ Range(<<w>>) = {w}
  <2> DEFINE s == <<w>>
  <2>1. s \in Seq(Write) /\ Len(s) = 1 /\ s[1] = w
    BY <1>2 DEF WellFormed
  <2>2. DOMAIN s = 1..1
    BY <2>1, LenProperties
  <2> HIDE DEF s
  <2>3. \A i \in 1..1 : s[i] = w
    BY <2>1
  <2>4. Plan(s)
    BY <1>2, <2>1, <2>3 DEF Plan
  <2>5. Range(s) = {w}
    BY <2>1, <2>2 DEF Range
  <2> QED BY <2>4, <2>5 DEF s
<1> QED BY <1>1, <1>2

LEMMA EndPlans ==
  /\ Plan(SaveFlow) /\ Plan(SaveOrLose) /\ Plan(Consume)
  /\ \A w \in Range(SaveFlow) : w.kind = "flow"
  /\ \A w \in Range(SaveOrLose) : w.kind = "save"
  /\ \A w \in Range(Consume) : w.kind = "consume"
  /\ Put("flow", {}, None) \in Range(SaveFlow) /\ Put("save", {}, None) \in Range(SaveOrLose)
<1>1. \A kind \in Ends : /\ WellFormed(Put(kind, {}, None))
                         /\ Put(kind, {}, None).kind = kind
  BY DEF WellFormed, Put, Write, Kinds, Ends
<1>2. \A kind \in Ends : /\ Plan(<<Put(kind, {}, None)>>)
                         /\ Range(<<Put(kind, {}, None)>>) = {Put(kind, {}, None)}
  BY <1>1, ShortPlans
<1>3. {"flow", "save", "consume"} \subseteq Ends
  BY DEF Ends
<1> QED BY <1>1, <1>2, <1>3 DEF SaveFlow, SaveOrLose, Consume

LEMMA ReapPlan ==
  ASSUME NEW jobs \in SUBSET JobIds
  PROVE  /\ Plan(Reap(jobs))
         /\ \A w \in Range(Reap(jobs)) : w.kind = "reap" /\ w.jobs = jobs
         /\ jobs # {} => \E w \in Range(Reap(jobs)) : w.kind = "reap" /\ w.jobs = jobs
<1>1. CASE jobs = {}
  BY <1>1, ShortPlans DEF Reap
<1>2. CASE jobs # {}
  <2> DEFINE w == Put("reap", jobs, None)
  <2>1. WellFormed(w) /\ w.kind = "reap" /\ w.jobs = jobs
    BY <1>2 DEF WellFormed, Put, Write, Kinds
  <2>2. Reap(jobs) = <<w>>
    BY <1>2 DEF Reap
  <2> HIDE DEF w
  <2> QED BY <2>1, <2>2, ShortPlans
<1> QED BY <1>1, <1>2

\* The mints of a round: one for each of its nodes, each with a job of its own.
LEMMA MintPlan ==
  ASSUME NEW new \in Seq(Node),
         \A i, k \in 1..Len(new) : i # k => new[i].job # new[k].job
  PROVE  /\ Plan(MintWrites(new))
         /\ \A w \in Range(MintWrites(new)) :
              w.kind = "mint" /\ \E i \in 1..Len(new) : w.node = new[i]
         /\ \A i \in 1..Len(new) :
              \E w \in Range(MintWrites(new)) : w.kind = "mint" /\ w.node = new[i]
<1> DEFINE n == Len(new)
           ws == MintWrites(new)
<1>1. n \in Nat /\ DOMAIN new = 1..n /\ \A i \in 1..n : new[i] \in Node
  BY LenProperties, ElementOfSeq
<1>2. ws = [i \in 1..n |-> Put("mint", {new[i].job}, new[i])]
  BY <1>1 DEF MintWrites
<1>3. ASSUME NEW x \in Node
      PROVE  LET w == Put("mint", {x.job}, x)
             IN  WellFormed(w) /\ w \in Write /\ w.kind = "mint" /\ w.node = x
  <2>1. x.job \in JobIds
    BY DEF Node
  <2> HIDE DEF Node
  <2> QED BY <2>1 DEF WellFormed, Put, Write, Kinds
<1>4. \A i \in 1..n : /\ ws[i] = Put("mint", {new[i].job}, new[i])
                      /\ ws[i] \in Write
  <2> HIDE DEF ws
  <2> QED BY <1>1, <1>2, <1>3
<1>5. \A i \in 1..n : WellFormed(ws[i]) /\ ws[i].kind = "mint" /\ ws[i].node = new[i]
  <2> HIDE DEF ws
  <2> SUFFICES ASSUME NEW i \in 1..n
               PROVE  WellFormed(ws[i]) /\ ws[i].kind = "mint" /\ ws[i].node = new[i]
    OBVIOUS
  <2> DEFINE w == Put("mint", {new[i].job}, new[i])
  <2>1. WellFormed(w) /\ w.kind = "mint" /\ w.node = new[i]
    BY <1>1, <1>3
  <2>2. ws[i] = w
    BY <1>4
  <2> HIDE DEF w
  <2> QED BY <2>1, <2>2
<1>6. ws \in Seq(Write) /\ Len(ws) = n /\ DOMAIN ws = 1..n
  <2>1. ws \in [1..n -> Write]
    <3>1. ws = [i \in 1..n |-> ws[i]]
      BY <1>2
    <3> HIDE DEF ws
    <3> QED BY <1>4, <3>1
  <2> HIDE DEF ws, n
  <2> QED BY <1>1, <2>1
<1> HIDE DEF ws
<1>7. Plan(ws)
  BY <1>5, <1>6 DEF Plan, Ends
<1> QED BY <1>5, <1>6, <1>7 DEF ws, Range

\* The gates: successors of `at` are put behind `tail`.
LEMMA GatePlan ==
  ASSUME NEW f \in Flow, NEW at \in Id, NEW tail \in Id
  PROVE  /\ Plan(GateWrites(f, at, tail))
         /\ \A w \in Range(GateWrites(f, at, tail)) :
              w.kind = "gate" /\ w.node.job \in Owned(f) /\ tail \in w.node.after
<1> DEFINE S == {n \in Nodes(f) : at \in n.after /\ Unstarted(n.job)}
           nodes == Kept(f.nodes, S)
           moved == Regated(nodes, at, tail)
           c == Len(nodes)
           ws == [i \in DOMAIN moved |-> Put("gate", {moved[i].job}, moved[i])]
<1>1. f.nodes \in Seq(Node)
  BY DEF Flow
<1>2. /\ nodes \in Seq(Node)
      /\ \E place \in Bijection(1..c, Places(f.nodes, S)) :
           \A k \in DOMAIN place : nodes[k] = f.nodes[place[k]]
  <2> HIDE DEF S
  <2> QED BY <1>1, KeptInOrder
<1>3. \A k \in 1..c : nodes[k] \in S
  <2>1. PICK place \in Bijection(1..c, Places(f.nodes, S)) :
          \A k \in DOMAIN place : nodes[k] = f.nodes[place[k]]
    BY <1>2
  <2> HIDE DEF S, nodes
  <2>2. place \in [1..c -> Places(f.nodes, S)]
    BY <2>1, Fun_BijectionProperties
  <2> QED BY <2>1, <2>2 DEF Places
<1>4. \A k \in 1..c : at \in nodes[k].after /\ nodes[k].job \in Owned(f)
  <2> HIDE DEF nodes
  <2> QED BY <1>3 DEF Owned
<1> HIDE DEF nodes
<1>5. /\ moved \in Seq(Node) /\ Len(moved) = c /\ DOMAIN moved = 1..c /\ c \in Nat
      /\ \A k \in 1..c : moved[k].job \in Owned(f) /\ tail \in moved[k].after
  <2>1. DOMAIN nodes = 1..c /\ c \in Nat
    BY <1>2, LenProperties
  <2>2. moved \in Seq(Node) /\ Len(moved) = c /\ DOMAIN moved = DOMAIN nodes
    BY <1>2, RegatedNodes
  <2>3. \A k \in 1..c :
          /\ moved[k].job = nodes[k].job
          /\ at \in nodes[k].after => tail \in moved[k].after
    BY <1>2, <2>1, RegatedNodes
  <2> HIDE DEF moved
  <2> QED BY <1>4, <2>1, <2>2, <2>3
<1> HIDE DEF moved
<1>6. ws = [i \in 1..c |-> Put("gate", {moved[i].job}, moved[i])]
  BY <1>5
<1>7. ASSUME NEW x \in Node
      PROVE  LET w == Put("gate", {x.job}, x)
             IN  WellFormed(w) /\ w \in Write /\ w.kind = "gate" /\ w.node = x
  <2>1. x.job \in JobIds
    BY DEF Node
  <2> HIDE DEF Node
  <2> QED BY <2>1 DEF WellFormed, Put, Write, Kinds
<1>8. \A i \in 1..c : moved[i] \in Node
  BY <1>5, ElementOfSeq
<1>9. \A i \in 1..c : ws[i] = Put("gate", {moved[i].job}, moved[i]) /\ ws[i] \in Write
  <2> HIDE DEF ws
  <2> QED BY <1>6, <1>7, <1>8
<1>10. \A i \in 1..c : WellFormed(ws[i]) /\ ws[i].kind = "gate" /\ ws[i].node = moved[i]
  <2> SUFFICES ASSUME NEW i \in 1..c
               PROVE  WellFormed(ws[i]) /\ ws[i].kind = "gate" /\ ws[i].node = moved[i]
    OBVIOUS
  <2> DEFINE w == Put("gate", {moved[i].job}, moved[i])
  <2>1. WellFormed(w) /\ w.kind = "gate" /\ w.node = moved[i]
    BY <1>7, <1>8
  <2>2. ws[i] = w
    BY <1>9
  <2> HIDE DEF w, ws
  <2> QED BY <2>1, <2>2
<1>11. ws \in Seq(Write) /\ Len(ws) = c /\ DOMAIN ws = 1..c
  <2>1. ws \in [1..c -> Write]
    <3>1. ws = [i \in 1..c |-> ws[i]]
      BY <1>6
    <3> HIDE DEF ws
    <3> QED BY <1>9, <3>1
  <2> HIDE DEF ws, c
  <2> QED BY <1>5, <2>1
<1>12. ws = GateWrites(f, at, tail)
  BY DEF GateWrites, nodes, moved
<1> HIDE DEF ws
<1>13. Plan(ws)
  BY <1>10, <1>11 DEF Plan, Ends
<1>14. \A w \in Range(ws) : \E i \in 1..c : w = ws[i]
  BY <1>11 DEF Range
<1> QED BY <1>5, <1>10, <1>12, <1>13, <1>14

(***************************************************************************)
(* What a handler makes of a flow: g has every node f has, in its place,    *)
(* and perhaps a round of new nodes.  The writes ws put their jobs there.   *)
(***************************************************************************)
Extends(f, g) ==
  /\ Len(f.nodes) <= Len(g.nodes) /\ f.round <= g.round
  /\ \A i \in 1..Len(f.nodes) :
       g.nodes[i].id = f.nodes[i].id /\ g.nodes[i].job = f.nodes[i].job

Insertion(f, g, at, ws) ==
  /\ g \in Flow /\ Plan(ws) /\ Extends(f, g)
  /\ \A i \in 1..Len(g.nodes) : i > Len(f.nodes) =>
       /\ g.nodes[i].id[2] = f.round + 1 /\ g.round = f.round + 1
       /\ \E w \in Range(ws) : w.kind = "mint" /\ w.node = g.nodes[i]
  /\ \A w \in Range(ws) : w.kind = "mint" =>
       /\ job[w.node.job].phase = "absent"
       /\ \E i \in 1..Len(g.nodes) : w.node = g.nodes[i]
  /\ \A w \in Range(ws) : w.kind = "gate" => w.node.job \in Owned(f)
  /\ \A w \in Range(ws) : w.kind \in {"mint", "gate"} => Follows(w.node, at, f.round + 1)

\* A node that has no verdict in g had none in f.
Restamped(f, g) ==
  \A i \in 1..Len(f.nodes) : g.nodes[i].seen = "" => f.nodes[i].seen = ""

\* The jobs of a round are new and distinct.
LEMMA RoundJobs ==
  ASSUME NEW f, NEW at, NEW new, RoundOf(f, at, new), IdsLeft(Len(new))
  PROVE  /\ \A i \in 1..Len(new) : new[i].job \in JobIds /\ job[new[i].job].phase = "absent"
         /\ \A i, k \in 1..Len(new) : i # k => new[i].job # new[k].job
         /\ Plan(MintWrites(new))
<1>1. Len(new) \in Nat /\ \A i \in 1..Len(new) : new[i].job = NextJob + i - 1
  BY LenProperties DEF RoundOf
<1>2. \A i \in 1..Len(new) : NextJob + i - 1 \in JobIds /\ NextJob + i - 1 >= NextJob
  <2>1. \A i \in 1..Len(new) : NextJob + i - 1 \in JobIds
    BY <1>1, NextJobFresh
  <2>2. NextJob \in Nat
    BY NextJobFresh
  <2>3. \A i \in 1..Len(new) : NextJob + i - 1 >= NextJob
    BY <1>1, <2>2
  <2> QED BY <2>1, <2>3
<1>3. \A i \in 1..Len(new) : new[i].job \in JobIds /\ job[new[i].job].phase = "absent"
  BY <1>1, <1>2, NextJobFresh
<1>4. \A i, k \in 1..Len(new) : i # k => new[i].job # new[k].job
  BY <1>1, NextJobFresh
<1>5. Plan(MintWrites(new))
  BY <1>4, MintPlan DEF RoundOf
<1> QED BY <1>3, <1>4, <1>5

\* The writes ws mint the new nodes, and move only jobs of f behind them.
Carries(ws, f, at, new) ==
  /\ Plan(ws)
  /\ Range(MintWrites(new)) \subseteq Range(ws)
  /\ \A w \in Range(ws) : w.kind = "mint" => w \in Range(MintWrites(new))
  /\ \A w \in Range(ws) : w.kind = "gate" =>
        w.node.job \in Owned(f) /\ Follows(w.node, at, f.round + 1)

\* A flow with these nodes after this round.
Grown(g, nodes, round) == g \in [status : Statuses, nodes : {nodes}, round : {round}]

\* A round put behind the nodes there were is an insertion.
LEMMA AddRound ==
  ASSUME NEW f \in Flow, NEW g, NEW at \in Id, NEW ws, NEW moved \in Seq(Node), NEW new,
         RoundOf(f, at, new), IdsLeft(Len(new)), Carries(ws, f, at, new),
         Grown(g, moved \o new, f.round + 1), Len(moved) = Len(f.nodes),
         \A i \in 1..Len(moved) : moved[i].id = f.nodes[i].id /\ moved[i].job = f.nodes[i].job
  PROVE  /\ Insertion(f, g, at, ws) /\ Len(g.nodes) = Len(f.nodes) + Len(new)
         /\ \A i \in 1..Len(f.nodes) : g.nodes[i] = moved[i]
<1> DEFINE n == Len(f.nodes)
           m == Len(new)
<1>1. n \in Nat /\ m \in Nat /\ f.round \in Nat /\ new \in Seq(Node)
  <2>1. f.nodes \in Seq(Node) /\ f.round \in Nat
    BY DEF Flow
  <2> QED BY <2>1, LenProperties DEF RoundOf
<1>2. g.status \in Statuses /\ g.nodes = moved \o new /\ g.round = f.round + 1
  BY DEF Grown
<1>3. /\ g.nodes \in Seq(Node) /\ Len(g.nodes) = n + m
      /\ \A i \in 1..n+m : g.nodes[i] = IF i <= n THEN moved[i] ELSE new[i - n]
  <2>1. moved \in Seq(Node) /\ new \in Seq(Node)
    BY <1>1
  <2>2. /\ moved \o new \in Seq(Node) /\ Len(moved \o new) = Len(moved) + Len(new)
        /\ \A i \in 1..Len(moved)+Len(new) :
             (moved \o new)[i] = IF i <= Len(moved) THEN moved[i] ELSE new[i - Len(moved)]
    BY ONLY <2>1, ConcatProperties
  <2>3. Len(moved) = n
    OBVIOUS
  <2> HIDE DEF n
  <2> QED BY <1>2, <2>2, <2>3
<1>4. \A i \in 1..n : i \in 1..n+m /\ i <= n
  BY <1>1
<1>5. \A i \in 1..n+m : i > n => ~ (i <= n) /\ i - n \in 1..m
  BY <1>1
<1>6. \A i \in 1..m : n + i \in 1..n+m /\ ~ (n + i <= n) /\ (n + i) - n = i
  BY <1>1
<1> HIDE DEF n, m
<1>7. g \in Flow
  <2>1. f.round + 1 \in Nat /\ moved \o new \in Seq(Node)
    BY <1>1, <1>2, <1>3
  <2> QED BY <2>1 DEF Flow, Grown
<1>8. Extends(f, g)
  <2>1. n <= n + m /\ f.round <= g.round
    BY <1>1, <1>2
  <2>2. \A i \in 1..n : g.nodes[i].id = f.nodes[i].id /\ g.nodes[i].job = f.nodes[i].job
    BY <1>3, <1>4 DEF n
  <2> QED BY <1>3, <2>1, <2>2 DEF Extends, n
<1>9. \A i, k \in 1..Len(new) : i # k => new[i].job # new[k].job
  BY RoundJobs
<1>10. \A i \in 1..m : \E w \in Range(MintWrites(new)) : w.kind = "mint" /\ w.node = new[i]
  BY <1>1, <1>9, MintPlan DEF m
<1>11. \A i \in 1..n+m : i > n =>
        /\ g.nodes[i].id[2] = f.round + 1 /\ g.round = f.round + 1
        /\ \E w \in Range(ws) : w.kind = "mint" /\ w.node = g.nodes[i]
  <2> SUFFICES ASSUME NEW i \in 1..n+m, i > n
               PROVE  /\ g.nodes[i].id[2] = f.round + 1 /\ g.round = f.round + 1
                      /\ \E w \in Range(ws) : w.kind = "mint" /\ w.node = g.nodes[i]
    OBVIOUS
  <2>1. i - n \in 1..m /\ g.nodes[i] = new[i - n]
    BY <1>3, <1>5
  <2>2. new[i - n].id[2] = f.round + 1
    BY <2>1 DEF RoundOf, m
  <2>3. \E w \in Range(ws) : w.kind = "mint" /\ w.node = new[i - n]
    BY <1>10, <2>1 DEF Carries
  <2> QED BY <1>2, <2>1, <2>2, <2>3
<1>12. \A w \in Range(MintWrites(new)) : \E i \in 1..m : w.node = new[i]
  BY <1>1, <1>9, MintPlan DEF m
<1>13. \A w \in Range(ws) : w.kind = "mint" =>
         /\ job[w.node.job].phase = "absent"
         /\ \E i \in 1..n+m : w.node = g.nodes[i]
         /\ Follows(w.node, at, f.round + 1)
  <2> SUFFICES ASSUME NEW w \in Range(ws), w.kind = "mint"
               PROVE  /\ job[w.node.job].phase = "absent"
                      /\ \E i \in 1..n+m : w.node = g.nodes[i]
                      /\ Follows(w.node, at, f.round + 1)
    OBVIOUS
  <2>1. PICK i \in 1..m : w.node = new[i]
    BY <1>12 DEF Carries
  <2>2. job[new[i].job].phase = "absent"
    BY ONLY RoundOf(f, at, new), IdsLeft(Len(new)), i \in 1..m, RoundJobs DEF m
  <2>3. Follows(new[i], at, f.round + 1)
    BY DEF RoundOf, m
  <2>4. new[i] = g.nodes[n + i] /\ n + i \in 1..n+m
    BY <1>3, <1>6
  <2> QED BY <2>1, <2>2, <2>3, <2>4
<1>14. \A w \in Range(ws) : w.kind = "gate" =>
         w.node.job \in Owned(f) /\ Follows(w.node, at, f.round + 1)
  BY DEF Carries
<1>15. Plan(ws)
  BY DEF Carries
<1>16. Insertion(f, g, at, ws)
  BY <1>3, <1>7, <1>8, <1>11, <1>13, <1>14, <1>15 DEF Insertion, n, m
<1>17. \A i \in 1..n : g.nodes[i] = moved[i]
  BY <1>3, <1>4
<1> QED BY <1>3, <1>16, <1>17 DEF n, m

(***************************************************************************)
(* Handlers that insert nothing: a stamp, a status.                         *)
(***************************************************************************)
Verdicts == Stamps \ {""}
Endings == {"blocked", "complete"}
Stamp(f, i, v) == [f EXCEPT !.nodes[i].seen = v]
WithStatus(f, s) == [f EXCEPT !.status = s]

LEMMA StampedFlow ==
  ASSUME NEW f \in Flow, NEW i \in 1..Len(f.nodes), NEW v \in Verdicts,
         NEW g, g = Stamp(f, i, v)
  PROVE  /\ g \in Flow /\ g.status = f.status /\ g.round = f.round
         /\ Len(g.nodes) = Len(f.nodes)
         /\ \A k \in 1..Len(f.nodes) :
              /\ g.nodes[k].id = f.nodes[k].id /\ g.nodes[k].job = f.nodes[k].job
              /\ g.nodes[k].after = f.nodes[k].after /\ g.nodes[k].by = f.nodes[k].by
         /\ g.nodes[i].seen \in Verdicts
         /\ \A k \in 1..Len(f.nodes) : k # i => g.nodes[k] = f.nodes[k]
<1> DEFINE n == Len(f.nodes)
           x == f.nodes[i]
           y == [x EXCEPT !.seen = v]
           nodes == [f.nodes EXCEPT ![i] = y]
           made == [f EXCEPT !.nodes = nodes]
<1>1. f.nodes \in Seq(Node) /\ n \in Nat /\ x \in Node /\ DOMAIN f.nodes = 1..n
  BY LenProperties, ElementOfSeq DEF Flow
<1>2. /\ y \in Node /\ y.id = x.id /\ y.job = x.job /\ y.after = x.after /\ y.by = x.by
      /\ y.seen \in Verdicts
  <2> HIDE DEF x
  <2> QED BY <1>1 DEF Node, Verdicts
<1>3. /\ nodes \in Seq(Node) /\ Len(nodes) = n /\ nodes[i] = y
      /\ \A k \in 1..n : k # i => nodes[k] = f.nodes[k]
  <2> DEFINE old == f.nodes
  <2>1. old \in Seq(Node) /\ Len(old) = n /\ DOMAIN old = 1..n /\ i \in 1..n /\ y \in Node
    BY <1>1, <1>2
  <2> HIDE DEF old, y, n
  <2>2. /\ [old EXCEPT ![i] = y] \in Seq(Node) /\ Len([old EXCEPT ![i] = y]) = n
        /\ [old EXCEPT ![i] = y][i] = y
        /\ \A k \in 1..n : k # i => [old EXCEPT ![i] = y][k] = old[k]
    BY ONLY <2>1, ExceptSeq
  <2> QED BY <2>2 DEF old
<1>4. made \in Flow /\ made.status = f.status /\ made.round = f.round /\ made.nodes = nodes
  <2> HIDE DEF nodes
  <2> QED BY <1>3 DEF Flow
<1>5. g = made
  BY DEF Stamp
<1> HIDE DEF made, nodes, y
<1>6. \A k \in 1..n : /\ nodes[k].id = f.nodes[k].id /\ nodes[k].job = f.nodes[k].job
                      /\ nodes[k].after = f.nodes[k].after /\ nodes[k].by = f.nodes[k].by
  BY <1>2, <1>3
<1> QED BY <1>2, <1>3, <1>4, <1>5, <1>6

LEMMA StatusFlow ==
  ASSUME NEW f \in Flow, NEW s \in Statuses, NEW g, g = WithStatus(f, s)
  PROVE  g \in Flow /\ g.status = s /\ g.nodes = f.nodes /\ g.round = f.round
BY DEF Flow, WithStatus

\* The same nodes, and no jobs to mint or to move.
LEMMA SameNodes ==
  ASSUME NEW f \in Flow, NEW g \in Flow, NEW at, NEW ws, Plan(ws),
         g.round = f.round, Len(g.nodes) = Len(f.nodes),
         \A i \in 1..Len(f.nodes) :
           g.nodes[i].id = f.nodes[i].id /\ g.nodes[i].job = f.nodes[i].job,
         \A w \in Range(ws) : w.kind \notin {"mint", "gate"}
  PROVE  Insertion(f, g, at, ws)
<1>1. Len(f.nodes) \in Nat /\ f.round \in Nat
  BY LenProperties DEF Flow
<1>2. Extends(f, g)
  BY <1>1 DEF Extends
<1> QED BY <1>1, <1>2 DEF Insertion

(***************************************************************************)
(* The plans of the handlers that insert: the mints of a round, perhaps the *)
(* gates, and what comes last.                                              *)
(***************************************************************************)
LEMMA MintsCarry ==
  ASSUME NEW f, NEW at, NEW new, RoundOf(f, at, new), IdsLeft(Len(new))
  PROVE  /\ Carries(MintWrites(new), f, at, new)
         /\ \A w \in Range(MintWrites(new)) : w.kind = "mint"
<1>1. \A i, k \in 1..Len(new) : i # k => new[i].job # new[k].job
  BY RoundJobs
<1>2. new \in Seq(Node)
  BY DEF RoundOf
<1>3. Plan(MintWrites(new)) /\ \A w \in Range(MintWrites(new)) : w.kind = "mint"
  BY <1>1, <1>2, MintPlan
<1> QED BY <1>3 DEF Carries

LEMMA CarryMore ==
  ASSUME NEW f, NEW at, NEW new, NEW ws, Carries(ws, f, at, new), NEW t, Plan(t),
         \A w \in Range(t) : w.kind \notin {"mint", "gate"},
         (\A w \in Range(ws) : w.kind \notin Ends) \/ (\A w \in Range(t) : w.kind \in Ends)
  PROVE  Carries(ws \o t, f, at, new) /\ Range(ws \o t) = Range(ws) \cup Range(t)
<1>1. Plan(ws) /\ \A w \in Range(t) : w.kind # "mint"
  BY DEF Carries
<1>2. Plan(ws \o t) /\ Range(ws \o t) = Range(ws) \cup Range(t)
  BY <1>1, PlanConcat
<1> DEFINE both == ws \o t
<1>3. Plan(both) /\ Range(both) = Range(ws) \cup Range(t)
  BY <1>2
<1> HIDE DEF both
<1>4. Carries(both, f, at, new)
  BY <1>3 DEF Carries
<1> QED BY <1>3, <1>4 DEF both

\* The last of a round is of that round, so what waits on it follows it.
LEMMA GatesCarry ==
  ASSUME NEW f \in Flow, NEW at \in Id, NEW new, RoundOf(f, at, new), IdsLeft(Len(new)),
         NEW h \in Flow, Owned(h) \subseteq Owned(f),
         NEW tail \in Id, tail[2] = f.round + 1
  PROVE  LET ws == MintWrites(new) \o GateWrites(h, at, tail)
         IN  /\ Carries(ws, f, at, new)
             /\ \A w \in Range(ws) : w.kind \in {"mint", "gate"}
<1> DEFINE s == MintWrites(new)
           t == GateWrites(h, at, tail)
           ws == s \o t
<1>1. Carries(s, f, at, new) /\ \A w \in Range(s) : w.kind = "mint"
  BY MintsCarry
<1>2. /\ Plan(t)
      /\ \A w \in Range(t) : w.kind = "gate" /\ w.node.job \in Owned(h) /\ tail \in w.node.after
  BY GatePlan
<1>3. \A w \in Range(t) : Follows(w.node, at, f.round + 1)
  BY <1>2 DEF Follows
<1>4. Range(s) = Range(MintWrites(new)) /\ Plan(s)
  BY <1>1 DEF Carries
<1> HIDE DEF s, t
<1>5. Plan(ws) /\ Range(ws) = Range(s) \cup Range(t)
  <2>1. \A w \in Range(t) : w.kind # "mint"
    BY <1>2
  <2>2. \A w \in Range(s) : w.kind \notin Ends
    BY <1>1 DEF Ends
  <2> QED BY <1>2, <1>4, <2>1, <2>2, PlanConcat
<1> HIDE DEF ws
<1>6. Carries(ws, f, at, new)
  BY <1>1, <1>2, <1>3, <1>4, <1>5 DEF Carries
<1>7. \A w \in Range(ws) : w.kind \in {"mint", "gate"}
  BY <1>1, <1>2, <1>5
<1> QED BY <1>6, <1>7 DEF ws, s, t

(***************************************************************************)
(* The flows the handlers make.                                             *)
(***************************************************************************)
\* The same flow but for stamps and gates: an insertion there is one here.
LEMMA InsertionFrom ==
  ASSUME NEW f \in Flow, NEW h \in Flow, NEW g, NEW at, NEW ws, Insertion(h, g, at, ws),
         h.round = f.round, Len(h.nodes) = Len(f.nodes),
         \A i \in 1..Len(f.nodes) :
           h.nodes[i].id = f.nodes[i].id /\ h.nodes[i].job = f.nodes[i].job
  PROVE  Insertion(f, g, at, ws)
<1>1. Owned(h) = Owned(f)
  <2>1. DOMAIN h.nodes = 1..Len(f.nodes) /\ DOMAIN f.nodes = 1..Len(f.nodes)
    BY LenProperties DEF Flow
  <2>2. \A i \in 1..Len(f.nodes) : h.nodes[i].job = f.nodes[i].job
    OBVIOUS
  <2> QED BY ONLY <2>1, <2>2 DEF Owned, Nodes
<1>2. Extends(f, g)
  BY DEF Insertion, Extends
<1> QED BY <1>1, <1>2 DEF Insertion

\* A chain behind `at`, with what waited on `at` now behind its last node.
LEMMA InsertChain ==
  ASSUME NEW h \in Flow, NEW at \in Id, NEW roles \in Seq(Roles), roles # <<>>,
         IdsLeft(Len(roles)), NEW new, new = ChainNodes(h, at, roles)
  PROVE  /\ RoundOf(h, at, new) /\ Len(new) = Len(roles)
         /\ new[Len(new)].id \in Id /\ new[Len(new)].id[2] = h.round + 1
         /\ Regated(h.nodes, at, new[Len(new)].id) \in Seq(Node)
         /\ Len(Regated(h.nodes, at, new[Len(new)].id)) = Len(h.nodes)
         /\ \A i \in 1..Len(h.nodes) :
              /\ Regated(h.nodes, at, new[Len(new)].id)[i].id = h.nodes[i].id
              /\ Regated(h.nodes, at, new[Len(new)].id)[i].job = h.nodes[i].job
<1>1. Len(roles) \in Nat \ {0} /\ Len(roles) \in 0..Len(roles)
  BY LenProperties, EmptySeq
<1>2. IdsLeft(Len(roles))
  OBVIOUS
<1>3. \A i \in 1..Len(roles) : NextJob + i - 1 \in JobIds
  BY <1>1, NextJobFresh
<1>4. RoundOf(h, at, new) /\ Len(new) = Len(roles)
  BY <1>1, <1>2, <1>3, ChainIsRound, ChainLength
<1>5. new[Len(new)].id \in Id /\ new[Len(new)].id[2] = h.round + 1
  <2>1. Len(new) \in 1..Len(roles)
    BY <1>1, <1>4
  <2> QED BY <2>1, ChainNodeFields
<1>6. h.nodes \in Seq(Node) /\ DOMAIN h.nodes = 1..Len(h.nodes)
  BY LenProperties DEF Flow
<1> DEFINE tail == new[Len(new)].id
           nodes == h.nodes
<1>7. tail \in Id /\ nodes \in Seq(Node) /\ DOMAIN nodes = 1..Len(nodes)
  BY <1>5, <1>6
<1> HIDE DEF tail, nodes
<1>8. /\ Regated(nodes, at, tail) \in Seq(Node)
      /\ Len(Regated(nodes, at, tail)) = Len(nodes)
      /\ \A i \in 1..Len(nodes) : /\ Regated(nodes, at, tail)[i].id = nodes[i].id
                                  /\ Regated(nodes, at, tail)[i].job = nodes[i].job
  BY <1>7, RegatedNodes
<1> QED BY <1>4, <1>5, <1>8 DEF tail, nodes

LEMMA InsertWritesCarry ==
  ASSUME NEW h \in Flow, NEW at \in Id, NEW roles \in Seq(Roles), roles # <<>>,
         IdsLeft(Len(roles))
  PROVE  /\ Carries(InsertWrites(h, at, roles), h, at, ChainNodes(h, at, roles))
         /\ \A w \in Range(InsertWrites(h, at, roles)) : w.kind \in {"mint", "gate"}
<1> DEFINE new == ChainNodes(h, at, roles)
           tail == new[Len(new)].id
<1>1. /\ RoundOf(h, at, new) /\ Len(new) = Len(roles)
      /\ tail \in Id /\ tail[2] = h.round + 1
  BY InsertChain
<1>2. InsertWrites(h, at, roles) = MintWrites(new) \o GateWrites(h, at, tail)
  BY DEF InsertWrites
<1> HIDE DEF new, tail
<1>3. IdsLeft(Len(new)) /\ Owned(h) \subseteq Owned(h)
  BY <1>1
<1>4. LET ws == MintWrites(new) \o GateWrites(h, at, tail)
      IN  /\ Carries(ws, h, at, new)
          /\ \A w \in Range(ws) : w.kind \in {"mint", "gate"}
  BY <1>1, <1>3, GatesCarry
<1> QED BY <1>2, <1>4 DEF new

\* insertAfterNode when all its roles could be minted.
LEMMA InsertedFlow ==
  ASSUME NEW h \in Flow, NEW at \in Id, NEW roles \in Seq(Roles), roles # <<>>,
         IdsLeft(Len(roles)), NEW ws, Carries(ws, h, at, ChainNodes(h, at, roles)),
         NEW g, \/ g = Inserted(h, at, roles)
                \/ g = [Inserted(h, at, roles) EXCEPT !.status = "running"]
  PROVE  /\ Insertion(h, g, at, ws) /\ Len(g.nodes) = Len(h.nodes) + Len(roles)
         /\ Restamped(h, g) /\ g.status \in {h.status, "running"}
<1> DEFINE new == ChainNodes(h, at, roles)
           tail == new[Len(new)].id
           moved == Regated(h.nodes, at, tail)
<1>1. /\ RoundOf(h, at, new) /\ Len(new) = Len(roles) /\ tail \in Id
      /\ moved \in Seq(Node) /\ Len(moved) = Len(h.nodes)
      /\ \A i \in 1..Len(h.nodes) : /\ moved[i].id = h.nodes[i].id
                                    /\ moved[i].job = h.nodes[i].job
  BY InsertChain
<1>2. Inserted(h, at, roles) = [h EXCEPT !.round = @ + 1, !.nodes = moved \o new]
  BY DEF Inserted
<1>3. \A i \in 1..Len(h.nodes) : moved[i].seen = h.nodes[i].seen
  <2>1. h.nodes \in Seq(Node) /\ DOMAIN h.nodes = 1..Len(h.nodes)
    BY LenProperties DEF Flow
  <2> HIDE DEF tail
  <2> QED BY ONLY <1>1, <2>1, at \in Id, RegatedNodes, SMTT(30) DEF moved
<1>4. Carries(ws, h, at, new)
  OBVIOUS
<1>5. IdsLeft(Len(new))
  BY <1>1
<1> HIDE DEF new, tail, moved
<1>6. Grown(g, moved \o new, h.round + 1) /\ g.status \in {h.status, "running"}
  BY <1>2 DEF Flow, Statuses, Grown
<1>7. /\ Insertion(h, g, at, ws) /\ Len(g.nodes) = Len(h.nodes) + Len(new)
      /\ \A i \in 1..Len(h.nodes) : g.nodes[i] = moved[i]
  <2>1. /\ h \in Flow /\ at \in Id /\ Carries(ws, h, at, new) /\ IdsLeft(Len(new))
        /\ Grown(g, moved \o new, h.round + 1)
        /\ \A i \in 1..Len(moved) : /\ moved[i].id = h.nodes[i].id
                                    /\ moved[i].job = h.nodes[i].job
    BY <1>1, <1>4, <1>5, <1>6
  <2> QED BY ONLY <1>1, <2>1, AddRound
<1>8. Restamped(h, g)
  BY <1>3, <1>7 DEF Restamped
<1> QED BY <1>1, <1>6, <1>7, <1>8

\* A chain of which only a part could be minted: it is a node of the flow, which
\* then is blocked, and nothing waits on it.
Partly(f, new) ==
  [[f EXCEPT !.round = @ + 1, !.nodes = @ \o new] EXCEPT !.status = "blocked"]

LEMMA PartFlow ==
  ASSUME NEW h \in Flow, NEW at \in Id, NEW new, RoundOf(h, at, new), IdsLeft(Len(new)),
         NEW ws, Carries(ws, h, at, new), NEW g, g = Partly(h, new)
  PROVE  /\ Insertion(h, g, at, ws) /\ Len(g.nodes) = Len(h.nodes) + Len(new)
         /\ Restamped(h, g) /\ g.status = "blocked"
<1>1. RoundOf(h, at, new)
  OBVIOUS
<1>2. h.nodes \in Seq(Node)
  BY DEF Flow
<1>3. Grown(g, h.nodes \o new, h.round + 1) /\ g.status = "blocked"
  BY DEF Flow, Statuses, Grown, Partly
<1> DEFINE moved == h.nodes
<1>4. /\ moved \in Seq(Node) /\ Len(moved) = Len(h.nodes) /\ IdsLeft(Len(new))
      /\ \A i \in 1..Len(moved) : /\ moved[i].id = h.nodes[i].id
                                  /\ moved[i].job = h.nodes[i].job
      /\ Grown(g, moved \o new, h.round + 1)
  BY <1>1, <1>2, <1>3
<1>5. /\ Insertion(h, g, at, ws) /\ Len(g.nodes) = Len(h.nodes) + Len(new)
      /\ \A i \in 1..Len(h.nodes) : g.nodes[i] = moved[i]
  <2> HIDE DEF moved
  <2>1. /\ h \in Flow /\ at \in Id /\ RoundOf(h, at, new) /\ Carries(ws, h, at, new)
        /\ \A i \in 1..Len(moved) : /\ moved[i].id = h.nodes[i].id
                                    /\ moved[i].job = h.nodes[i].job
    BY <1>1, <1>4
  <2> QED BY ONLY <1>4, <2>1, AddRound
<1>6. Restamped(h, g)
  BY <1>5 DEF Restamped
<1> QED BY <1>1, <1>3, <1>5, <1>6

\* A fan-out group behind its emitter, which is stamped with it.
LEMMA EmittedFlow ==
  ASSUME NEW f \in Flow, NEW i \in 1..Len(f.nodes), NEW n, n = f.nodes[i],
         n.id[1] \in DOMAIN Emitters, emits[n.job] \in Nat \ {0}, IdsLeft(emits[n.job] + 1),
         NEW ws, Carries(ws, f, n.id, GroupNodes(f, n)), NEW g, g = Emitted(f, i)
  PROVE  /\ Insertion(f, g, n.id, ws) /\ Len(g.nodes) = Len(f.nodes) + emits[n.job] + 1
         /\ Restamped(f, g) /\ g.status = f.status
<1> DEFINE new == GroupNodes(f, n)
           tail == FanInID(f, n)
           at == n.id
           nodes == f.nodes
           moved == Regated(nodes, at, tail)
           x == moved[i]
           y == [x EXCEPT !.seen = "ok"]
           stamped == [moved EXCEPT ![i] = y]
<1>1. nodes \in Seq(Node) /\ n \in Node /\ at \in Id /\ DOMAIN nodes = 1..Len(nodes)
  <2>1. f.nodes \in Seq(Node)
    BY DEF Flow
  <2>2. n \in Node
    BY <2>1, ElementOfSeq
  <2>3. n.id \in Id
    BY <2>2 DEF Node
  <2> QED BY <2>1, <2>2, <2>3, LenProperties
<1>2. /\ RoundOf(f, at, new) /\ Len(new) = emits[n.job] + 1 /\ tail \in Id
  BY <1>1, GroupIsRound
<1>3. /\ moved \in Seq(Node) /\ Len(moved) = Len(nodes) /\ DOMAIN moved = 1..Len(nodes)
      /\ \A k \in 1..Len(nodes) : /\ moved[k].id = nodes[k].id /\ moved[k].job = nodes[k].job
                                  /\ moved[k].seen = nodes[k].seen
  <2> HIDE DEF nodes, at, tail
  <2> QED BY ONLY <1>1, <1>2, RegatedNodes, SMTT(30) DEF moved
<1>4. Emitted(f, i) = [f EXCEPT !.round = @ + 1, !.nodes = stamped \o new]
  BY DEF Emitted
<1>5. Carries(ws, f, at, new)
  OBVIOUS
<1>6. i \in 1..Len(nodes) /\ IdsLeft(Len(new))
  BY <1>2
<1> HIDE DEF new, tail, at, moved
<1>7. Grown(g, stamped \o new, f.round + 1) /\ g.status = f.status
  <2> HIDE DEF stamped
  <2> QED BY <1>4 DEF Flow, Grown
<1> HIDE DEF nodes
<1>8. x \in Node
  BY <1>3, <1>6, ElementOfSeq
<1>9. y \in Node /\ y.id = x.id /\ y.job = x.job /\ y.seen = "ok"
  <2> HIDE DEF x
  <2> QED BY ONLY <1>8 DEF Node, Stamps
<1> HIDE DEF x, y
<1>10. /\ stamped \in Seq(Node) /\ Len(stamped) = Len(nodes) /\ stamped[i] = y
       /\ \A k \in 1..Len(nodes) : k # i => stamped[k] = moved[k]
  <2>1. moved \in Seq(Node) /\ i \in 1..Len(moved) /\ y \in Node
    BY <1>3, <1>6, <1>9
  <2>2. /\ stamped \in Seq(Node) /\ Len(stamped) = Len(moved) /\ stamped[i] = y
        /\ \A k \in 1..Len(moved) : k # i => stamped[k] = moved[k]
    BY ONLY <2>1, ExceptSeq DEF stamped
  <2> QED BY ONLY <1>3, <2>2
<1> HIDE DEF stamped
<1>11. \A k \in 1..Len(nodes) : stamped[k].id = nodes[k].id /\ stamped[k].job = nodes[k].job
  BY ONLY <1>3, <1>6, <1>9, <1>10 DEF x
<1>12. /\ Insertion(f, g, at, ws) /\ Len(g.nodes) = Len(nodes) + Len(new)
       /\ \A k \in 1..Len(nodes) : g.nodes[k] = stamped[k]
  <2>1. /\ f \in Flow /\ at \in Id /\ Carries(ws, f, at, new) /\ IdsLeft(Len(new))
        /\ Grown(g, stamped \o new, f.round + 1) /\ RoundOf(f, at, new)
        /\ stamped \in Seq(Node) /\ Len(stamped) = Len(f.nodes)
        /\ \A k \in 1..Len(stamped) : /\ stamped[k].id = f.nodes[k].id
                                      /\ stamped[k].job = f.nodes[k].job
    BY <1>1, <1>2, <1>5, <1>6, <1>7, <1>10, <1>11 DEF nodes
  <2> QED BY ONLY <2>1, AddRound DEF nodes
<1>13. g.nodes[i].seen = "ok"
  BY ONLY <1>6, <1>9, <1>10, <1>12
<1>14. \A k \in 1..Len(nodes) : k # i => g.nodes[k].seen = nodes[k].seen
  BY ONLY <1>3, <1>10, <1>12
<1>15. Restamped(f, g)
  BY ONLY <1>13, <1>14 DEF Restamped, nodes
<1>16. Len(g.nodes) = Len(nodes) + emits[n.job] + 1
  <2>1. Len(nodes) \in Nat
    BY ONLY <1>1, LenProperties
  <2> QED BY <1>2, <1>12, <2>1
<1> QED BY <1>7, <1>12, <1>15, <1>16 DEF at, nodes

\* The plan of an emission: the group, the gates behind its fan-in, the flow.
LEMMA EmitPlan ==
  ASSUME NEW f \in Flow, NEW n \in Node, n.id[1] \in DOMAIN Emitters,
         emits[n.job] \in Nat \ {0}, IdsLeft(emits[n.job] + 1), NEW ws,
         ws = MintWrites(GroupNodes(f, n)) \o GateWrites(f, n.id, FanInID(f, n)) \o SaveFlow
  PROVE  /\ Carries(ws, f, n.id, GroupNodes(f, n))
         /\ \A w \in Range(ws) : w.kind \in {"mint", "gate", "flow"}
<1> DEFINE new == GroupNodes(f, n)
           tail == FanInID(f, n)
           s == MintWrites(new) \o GateWrites(f, n.id, tail)
<1>1. n.id \in Id
  BY DEF Node
<1>2. /\ RoundOf(f, n.id, new) /\ Len(new) = emits[n.job] + 1
      /\ tail \in Id /\ tail[2] = f.round + 1
  BY <1>1, GroupIsRound
<1>3. ws = s \o SaveFlow /\ IdsLeft(Len(new)) /\ Owned(f) \subseteq Owned(f)
  BY <1>2
<1> HIDE DEF new, tail
<1>4. Carries(s, f, n.id, new) /\ \A w \in Range(s) : w.kind \in {"mint", "gate"}
  BY <1>1, <1>2, <1>3, GatesCarry
<1> HIDE DEF s
<1>5. Carries(s \o SaveFlow, f, n.id, new) /\ Range(s \o SaveFlow) = Range(s) \cup Range(SaveFlow)
  <2>1. Plan(SaveFlow) /\ \A w \in Range(SaveFlow) : w.kind \notin {"mint", "gate"}
    BY EndPlans
  <2>2. \A w \in Range(SaveFlow) : w.kind \in Ends
    BY EndPlans DEF Ends
  <2> QED BY <1>4, <2>1, <2>2, CarryMore
<1>6. \A w \in Range(ws) : w.kind \in {"mint", "gate", "flow"}
  BY <1>3, <1>4, <1>5, EndPlans
<1> QED BY <1>3, <1>5, <1>6 DEF new

\* A stamp, perhaps with a status, and jobs to delete.
LEMMA StampedStep ==
  ASSUME NEW f \in Flow, NEW i \in 1..Len(f.nodes), NEW v \in Verdicts, NEW at,
         NEW ws, Plan(ws), \A w \in Range(ws) : w.kind = "reap",
         NEW h, h = Stamp(f, i, v),
         NEW g, g = h \/ \E s \in Endings : g = WithStatus(h, s)
  PROVE  /\ Insertion(f, g, at, ws) /\ Len(g.nodes) = Len(f.nodes) /\ Restamped(f, g)
         /\ g.status \in {f.status} \cup Endings
<1>1. /\ h \in Flow /\ h.status = f.status /\ h.round = f.round
      /\ Len(h.nodes) = Len(f.nodes)
      /\ \A k \in 1..Len(f.nodes) :
           h.nodes[k].id = f.nodes[k].id /\ h.nodes[k].job = f.nodes[k].job
      /\ h.nodes[i].seen \in Verdicts
      /\ \A k \in 1..Len(f.nodes) : k # i => h.nodes[k] = f.nodes[k]
  BY StampedFlow
<1>2. /\ g \in Flow /\ g.nodes = h.nodes /\ g.round = h.round
      /\ g.status \in {h.status} \cup Endings
  <2>1. Endings \subseteq Statuses
    BY DEF Statuses, Endings
  <2>2. CASE g = h
    BY <1>1, <2>2
  <2>3. ASSUME NEW s \in Endings, g = WithStatus(h, s)
        PROVE  /\ g \in Flow /\ g.nodes = h.nodes /\ g.round = h.round /\ g.status = s
    BY <1>1, <2>1, <2>3, StatusFlow
  <2> QED BY <2>2, <2>3
<1>3. /\ g.round = f.round /\ Len(g.nodes) = Len(f.nodes)
      /\ \A k \in 1..Len(f.nodes) :
           g.nodes[k].id = f.nodes[k].id /\ g.nodes[k].job = f.nodes[k].job
  BY ONLY <1>1, <1>2
<1>4. Insertion(f, g, at, ws)
  <2>1. \A w \in Range(ws) : w.kind \notin {"mint", "gate"}
    OBVIOUS
  <2> QED BY <1>2, <1>3, <2>1, SameNodes
<1>5. Restamped(f, g)
  <2>1. g.nodes[i].seen \in Verdicts
    BY ONLY <1>1, <1>2
  <2>2. \A k \in 1..Len(f.nodes) : k # i => g.nodes[k].seen = f.nodes[k].seen
    BY ONLY <1>1, <1>2
  <2> QED BY ONLY <2>1, <2>2 DEF Restamped, Verdicts
<1> QED BY <1>1, <1>2, <1>3, <1>4, <1>5

(***************************************************************************)
(* The budget, the node a step is at, the node that decides.                *)
(***************************************************************************)
\* A stamp alone, with jobs to delete.
LEMMA StampedAlone ==
  ASSUME NEW f \in Flow, NEW i \in 1..Len(f.nodes), NEW v \in Verdicts, NEW at,
         NEW ws, Plan(ws), \A w \in Range(ws) : w.kind = "reap",
         NEW h, h = Stamp(f, i, v)
  PROVE  Insertion(f, h, at, ws) /\ Len(h.nodes) = Len(f.nodes) /\ Restamped(f, h)
<1>1. \E g : /\ g = h
             /\ Insertion(f, g, at, ws) /\ Len(g.nodes) = Len(f.nodes) /\ Restamped(f, g)
  <2> DEFINE g == h
  <2>1. g = h
    OBVIOUS
  <2> HIDE DEF g
  <2>2. Insertion(f, g, at, ws) /\ Len(g.nodes) = Len(f.nodes) /\ Restamped(f, g)
    BY <2>1, StampedStep, SMTT(60)
  <2> QED BY <2>1, <2>2, SMTT(60)
<1> QED BY <1>1, SMTT(60)

LEMMA MintableRoom ==
  ASSUME NEW f \in Flow, Len(f.nodes) <= NodeMax, NEW roles \in Seq(Roles)
  PROVE  /\ Mintable(f, roles) \in 0..Len(roles)
         /\ Len(f.nodes) + Mintable(f, roles) <= NodeMax
<1>1. Len(f.nodes) \in Nat /\ Len(roles) \in Nat /\ NodeMax \in Nat
  BY FlowAssumption, LenProperties DEF Flow
<1>2. Room(f) \in Nat /\ Len(f.nodes) + Room(f) = NodeMax
  BY <1>1 DEF Room
<1> QED BY <1>1, <1>2 DEF Mintable

LEMMA AtIsNews ==
  ASSUME idx \in Nat \ {0}, total \in Nat, News # {}
  PROVE  At \in News /\ At \in idx..total
<1>1. News \in SUBSET (1..total) /\ News \subseteq idx..total
  <2>1. News \subseteq idx..total
    BY Zenon DEF News
  <2>2. idx..total \subseteq 1..total
    OBVIOUS
  <2> HIDE DEF News
  <2> QED BY <2>1, <2>2
<1>2. \E i \in News : \A k \in News : i <= k
  <2> HIDE DEF News
  <2> QED BY <1>1, Extremes
<1>3. At \in News
  BY <1>2 DEF At
<1> QED BY <1>1, <1>3

LEMMA AcceptanceIsNode ==
  ASSUME NEW f \in Flow, f.nodes # <<>>
  PROVE  \E i \in 1..Len(f.nodes) : AcceptanceID(f) = f.nodes[i].id
<1> DEFINE tails == {i \in DOMAIN f.nodes : \A m \in Nodes(f) : f.nodes[i].id \notin m.after}
           n == Len(f.nodes)
<1>1. n \in Nat \ {0} /\ DOMAIN f.nodes = 1..n
  BY LenProperties, EmptySeq DEF Flow
<1>2. tails \in SUBSET (1..n)
  BY <1>1
<1>3. AcceptanceID(f) = f.nodes[IF tails = {} THEN n ELSE Highest(tails)].id
  BY DEF AcceptanceID
<1> HIDE DEF tails, n
<1>4. tails # {} => Highest(tails) \in 1..n
  BY <1>1, <1>2, HighestOf
<1>5. (IF tails = {} THEN n ELSE Highest(tails)) \in 1..n
  BY <1>1, <1>4
<1> QED BY <1>3, <1>5 DEF n
=============================================================================
