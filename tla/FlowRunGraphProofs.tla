------------------------- MODULE FlowRunGraphProofs -------------------------
(***************************************************************************)
(* The graph of a run, for every path, edge, fan-out and budget, whatever   *)
(* crashes or fails to save: no two nodes share an id and none waits on     *)
(* what is no node; the run is complete only when the last node that no     *)
(* other waits on says so; every round of nodes is owed to a verdict, an    *)
(* emission or a request; a run is blocked for a cause, and one that is     *)
(* over leaves nothing that could still start.                              *)
(*                                                                          *)
(* Node ids are distinct where fan-in and child roles differ (FanInApart).  *)
(* A failed authentication skips a job behind the pass's back: the causes   *)
(* and the leftovers are those of a behaviour without one.                  *)
(***************************************************************************)
EXTENDS FlowRunProofs

(***************************************************************************)
(* The graph of a run.  Every round of nodes, minted at creation, inserted, *)
(* appended or emitted, has ids of its own and waits on nodes there are.    *)
(***************************************************************************)
Distinct(nodes) == \A i, k \in 1..Len(nodes) : nodes[i].id = nodes[k].id => i = k
Known(up, nodes) == \E k \in 1..Len(nodes) : up = nodes[k].id
Closed(nodes) == \A i \in 1..Len(nodes) : \A up \in nodes[i].after : Known(up, nodes)
Graph(nodes) == Distinct(nodes) /\ Closed(nodes)

\* The nodes of a round wait on one another or on `at`.
Behind(new, at) ==
  Distinct(new) /\ \A i \in 1..Len(new) : \A up \in new[i].after : up = at \/ Known(up, new)

\* A round put behind a graph, where what was there may wait on the round, is a graph.
LEMMA GraphGrows ==
  ASSUME NEW nodes \in Seq(Node), Graph(nodes), NEW round \in Nat,
         \A i \in 1..Len(nodes) : nodes[i].id[2] < round,
         NEW at, Known(at, nodes),
         NEW new \in Seq(Node), Behind(new, at), \A i \in 1..Len(new) : new[i].id[2] = round,
         NEW moved \in Seq(Node), Len(moved) = Len(nodes),
         \A i \in 1..Len(moved) : moved[i].id = nodes[i].id,
         \A i \in 1..Len(moved) : \A up \in moved[i].after : up \in nodes[i].after \/ Known(up, new)
  PROVE  Graph(moved \o new)
<1> DEFINE all == moved \o new
           a == Len(nodes)
           b == Len(new)
           c == Len(all)
<1>1. a \in Nat /\ b \in Nat
  BY LenProperties
<1>2. all \in Seq(Node) /\ c = a + b
      /\ \A i \in 1..a+b : all[i] = IF i <= a THEN moved[i] ELSE new[i - a]
  <2>1. /\ moved \o new \in Seq(Node) /\ Len(moved \o new) = Len(moved) + Len(new)
        /\ \A i \in 1 .. (Len(moved) + Len(new)) :
             (moved \o new)[i] = IF i <= Len(moved) THEN moved[i] ELSE new[i - Len(moved)]
    BY ConcatProperties
  <2> QED BY <2>1
<1> HIDE DEF all, a, b, c
<1>3. /\ \A i \in 1..a : i \in 1..c /\ all[i] = moved[i]
      /\ \A k \in 1..b : a + k \in 1..c /\ all[a + k] = new[k]
      /\ \A i \in 1..c : i \in 1..a \/ (i - a \in 1..b /\ all[i] = new[i - a] /\ a + (i - a) = i)
  BY <1>1, <1>2
<1>4. /\ \A i \in 1..a : all[i].id = nodes[i].id /\ nodes[i].id \in Id /\ nodes[i].id[2] < round
      /\ \A i \in 1..a : \A up \in all[i].after : up \in nodes[i].after \/ Known(up, new)
      /\ \A k \in 1..b : new[k].id[2] = round
  <2>1. \A i \in 1..a : nodes[i].id \in Id
    <3>1. \A i \in 1..a : nodes[i] \in Node
      BY ElementOfSeq DEF a
    <3> QED BY <3>1 DEF Node
  <2> QED BY <1>3, <2>1 DEF a, b
<1>5. \A up : Known(up, nodes) \/ Known(up, new) => Known(up, all)
  <2> SUFFICES ASSUME NEW up, Known(up, nodes) \/ Known(up, new) PROVE Known(up, all)
    OBVIOUS
  <2>1. CASE Known(up, nodes)
    <3>1. PICK k \in 1..a : up = nodes[k].id
      BY <2>1 DEF Known, a
    <3> QED BY <1>3, <1>4, <3>1 DEF Known, c
  <2>2. CASE Known(up, new)
    <3>1. PICK k \in 1..b : up = new[k].id
      BY <2>2 DEF Known, b
    <3> QED BY <1>3, <3>1 DEF Known, c
  <2> QED BY <2>1, <2>2
<1>6. Distinct(all)
  <2>1. \A i, k \in 1..a : nodes[i].id = nodes[k].id => i = k
    BY DEF Graph, Distinct, a
  <2>2. \A i, k \in 1..b : new[i].id = new[k].id => i = k
    BY DEF Behind, Distinct, b
  <2> SUFFICES ASSUME NEW i \in 1..c, NEW k \in 1..c, all[i].id = all[k].id PROVE i = k
    BY DEF Distinct, c
  <2>3. CASE i \in 1..a /\ k \in 1..a
    BY <1>4, <2>1, <2>3
  <2>4. CASE i \in 1..a /\ k \notin 1..a
    <3>1. all[i].id[2] < round
      BY <1>4, <2>4
    <3>2. all[k].id[2] = round
      BY <1>3, <1>4, <2>4
    <3> QED BY <3>1, <3>2
  <2>5. CASE i \notin 1..a /\ k \in 1..a
    <3>1. all[k].id[2] < round
      BY <1>4, <2>5
    <3>2. all[i].id[2] = round
      BY <1>3, <1>4, <2>5, SMTT(30)
    <3> QED BY <3>1, <3>2
  <2>6. CASE i \notin 1..a /\ k \notin 1..a
    <3> DEFINE x == i - a
               y == k - a
    <3>1. x \in 1..b /\ y \in 1..b /\ new[x].id = new[y].id
      BY <1>3, <2>6
    <3>2. x = y
      BY <2>2, <3>1
    <3> QED BY <1>1, <3>2
  <2> QED BY <2>3, <2>4, <2>5, <2>6
<1>7. Closed(all)
  <2> SUFFICES ASSUME NEW i \in 1..c, NEW up \in all[i].after PROVE Known(up, all)
    BY DEF Closed, c
  <2>1. CASE i \in 1..a
    <3>1. up \in nodes[i].after => Known(up, nodes)
      BY <2>1 DEF Graph, Closed, a
    <3> QED BY <1>4, <1>5, <2>1, <3>1
  <2>2. CASE i \notin 1..a
    <3> DEFINE x == i - a
    <3>1. x \in 1..b /\ up \in new[x].after
      BY <1>3, <2>2
    <3>2. up = at \/ Known(up, new)
      BY <3>1 DEF Behind, b
    <3> QED BY <1>5, <3>2
  <2> QED BY <2>1, <2>2
<1> QED BY <1>6, <1>7 DEF Graph, all

\* The occurrences of a role up to one of its places tell the places apart.
LEMMA OccurrencesDiffer ==
  ASSUME NEW T, NEW s \in Seq(T), NEW i \in 1..Len(s), NEW k \in 1..Len(s), s[i] = s[k],
         Cardinality({h \in 1..i : s[h] = s[i]}) = Cardinality({h \in 1..k : s[h] = s[k]})
  PROVE  i = k
<1>1. ASSUME NEW x \in 1..Len(s)
      PROVE  x \in Places(s, {s[i]}) => UpTo(s, {s[i]}, x) = {h \in 1..x : s[h] = s[i]}
  BY DEF UpTo, Places
<1>2. i \in Places(s, {s[i]}) /\ k \in Places(s, {s[i]})
  BY DEF Places
<1> DEFINE S == {s[i]}
           m == Cardinality(UpTo(s, S, i))
           n == Cardinality(UpTo(s, S, k))
<1>3. m = n
  BY <1>1, <1>2
<1> HIDE DEF S
<1>4. i \in Places(s, S) /\ k \in Places(s, S)
  BY <1>2 DEF S
<1>5. (i < k => m < n) /\ (k < i => n < m) /\ IsFiniteSet(Places(s, S)) /\ m \in 1..Cardinality(Places(s, S))
  BY <1>4, UpToGrows
<1>6. m \in Nat
  <2>1. Cardinality(Places(s, S)) \in Nat
    BY <1>5, FS_CardinalityType
  <2> QED BY <1>5, <2>1
<1> HIDE DEF m, n
<1> QED BY <1>3, <1>5, <1>6

\* A node id is its parts.
LEMMA TripleParts ==
  ASSUME NEW a, NEW b, NEW c, NEW x, NEW y, NEW z, <<a, b, c>> = <<x, y, z>>
  PROVE  a = x /\ c = z
OBVIOUS

\* A chain of roles, or the first of it, is a round behind `at`.
LEMMA ChainBehind ==
  ASSUME NEW f \in Flow, NEW at \in Id, NEW roles \in Seq(Roles),
         NEW k \in 0..Len(roles), NEW new, Len(new) = k,
         \A i \in 1..k : new[i] = ChainNodes(f, at, roles)[i]
  PROVE  Behind(new, at)
<1> DEFINE r == f.round + 1
<1>1. Len(roles) \in Nat /\ DOMAIN roles = 1..Len(roles)
  BY LenProperties
<1>2. \A i \in 1..k : i \in 1..Len(roles) /\ (i # 1 => i - 1 \in 1..k)
  BY <1>1
<1>3. ASSUME NEW i \in 1..k
      PROVE  new[i].id = <<roles[i], r, Cardinality({h \in 1..i : roles[h] = roles[i]})>>
  <2> DEFINE x == ChainIds(roles, r)[i]
             ups == {IF i = 1 THEN at ELSE ChainIds(roles, f.round + 1)[i - 1]}
             mine == NextJob + i - 1
  <2>1. new[i] = NewNode(x, ups, None, mine)
    BY <1>2, ChainNodeIs, Zenon
  <2>2. x = <<roles[i], r, Cardinality({h \in 1..i : roles[h] = roles[i]})>>
    BY <1>1, <1>2 DEF ChainIds
  <2> HIDE DEF x, ups, mine
  <2>3. new[i].id = x
    BY ONLY <2>1, NewNodeFields
  <2> QED BY <2>2, <2>3
<1>4. Distinct(new)
  <2> SUFFICES ASSUME NEW i \in 1..k, NEW l \in 1..k, new[i].id = new[l].id PROVE i = l
    BY DEF Distinct
  <2> DEFINE m == Cardinality({h \in 1..i : roles[h] = roles[i]})
             n == Cardinality({h \in 1..l : roles[h] = roles[l]})
  <2>1. roles[i] = roles[l] /\ m = n
    <3>1. new[i].id = <<roles[i], r, m>> /\ new[l].id = <<roles[l], r, n>>
      BY <1>3
    <3>2. <<roles[i], r, m>> = <<roles[l], r, n>>
      BY <3>1
    <3> HIDE DEF m, n, r
    <3> QED BY ONLY <3>2, TripleParts
  <2> QED BY <1>2, <2>1, OccurrencesDiffer
<1>5. ASSUME NEW i \in 1..k, NEW up \in new[i].after PROVE up = at \/ Known(up, new)
  <2>1. up = IF i = 1 THEN at ELSE ChainNodes(f, at, roles)[i - 1].id
    <3>1. new[i].after = {IF i = 1 THEN at ELSE ChainNodes(f, at, roles)[i - 1].id}
      BY <1>2, ChainNodeFields
    <3> QED BY <1>5, <3>1
  <2>2. i # 1 => up = new[i - 1].id
    BY <1>2, <2>1
  <2> QED BY <1>2, <2>1, <2>2 DEF Known
<1> QED BY <1>4, <1>5 DEF Behind

\* The code does not ask that a fan-in be another role than the attempts it waits
\* for; with one role for both the first attempt and the fan-in share an id.
FanInApart == \A role \in DOMAIN Emitters : Emitters[role].child # Emitters[role].fanIn

\* A fan-out group is a round behind its emitter: the attempts, then their fan-in.
LEMMA GroupBehind ==
  ASSUME FanInApart, NEW f \in Flow, NEW n \in Node, n.id[1] \in DOMAIN Emitters,
         emits[n.job] \in Nat \ {0}, NEW new, new = GroupNodes(f, n)
  PROVE  /\ Behind(new, n.id) /\ Known(FanInID(f, n), new)
<1> DEFINE e == emits[n.job]
           r == f.round + 1
           child == Emitters[n.id[1]].child
           joined == Emitters[n.id[1]].fanIn
           ids == [i \in 1..e |-> <<child, r, i>>]
           attempts == [i \in 1..e |-> NewNode(ids[i], {n.id}, n.id, NextJob + i - 1)]
           fanIn == FanInID(f, n)
           ups == {ids[i] : i \in DOMAIN ids}
           hers == NextJob + e
           last == NewNode(fanIn, ups, None, hers)
           y == n.id
<1>1. e \in Nat \ {0} /\ child # joined
  BY DEF FanInApart
<1>2. fanIn = <<joined, r, 1>>
  BY DEF FanInID
<1>3. GroupNodes(f, n) = attempts \o <<last>>
  BY DEF GroupNodes, FanInID
<1>4. \A i \in 1..e : ids[i] = <<child, r, i>> /\ attempts[i] = NewNode(ids[i], {y}, y, NextJob + i - 1)
  OBVIOUS
<1>5. Len(attempts) = e /\ attempts \in Seq({attempts[i] : i \in 1..e})
  <2> HIDE DEF e, ids, y
  <2> QED BY <1>1
<1>6. ups = {ids[i] : i \in 1..e}
  OBVIOUS
<1> HIDE DEF attempts, ids, e, r, child, joined, fanIn, ups, hers, last, y
<1>7. last.id = fanIn /\ last.after = ups
  <2>1. last = NewNode(fanIn, ups, None, hers)
    BY DEF last
  <2> QED BY ONLY <2>1, NewNodeFields
<1>8. ASSUME NEW i \in 1..e PROVE attempts[i].id = ids[i] /\ attempts[i].after = {y}
  <2> DEFINE s == {y}
             mine == NextJob + i - 1
  <2>1. attempts[i] = NewNode(ids[i], s, y, mine)
    BY <1>4
  <2> HIDE DEF s, mine
  <2>2. attempts[i].id = ids[i] /\ attempts[i].after = s
    BY ONLY <2>1, NewNodeFields
  <2> QED BY <2>2 DEF s
<1>9. Len(new) = e + 1 /\ new[e + 1] = last /\ \A i \in 1..e : new[i] = attempts[i]
  BY <1>1, <1>3, <1>5
<1>10. /\ \A i \in 1..e : new[i].id = <<child, r, i>> /\ new[i].after = {y}
       /\ new[e + 1].id = <<joined, r, 1>> /\ new[e + 1].after = ups
       /\ \A i \in 1..e+1 : i \in 1..e \/ i = e + 1
       /\ \A i \in 1..e : i \in 1..e+1
       /\ e + 1 \in 1..e+1
  BY <1>1, <1>2, <1>4, <1>7, <1>8, <1>9, SMTT(30)
<1>11. Distinct(new)
  <2> SUFFICES ASSUME NEW i \in 1..e+1, NEW k \in 1..e+1, new[i].id = new[k].id PROVE i = k
    BY <1>9 DEF Distinct
  <2> QED BY <1>1, <1>10
<1>12. \A up \in ups : Known(up, new)
  BY <1>4, <1>6, <1>9, <1>10 DEF Known
<1>13. \A i \in 1..e+1 : \A up \in new[i].after : up = y \/ Known(up, new)
  BY <1>10, <1>12
<1>14. Known(fanIn, new)
  BY <1>2, <1>9, <1>10 DEF Known
<1> QED BY <1>9, <1>11, <1>13, <1>14 DEF Behind, y, fanIn

\* The nodes of the happy path.
LEMMA MintedGraph == Graph(Minted)
<1> DEFINE n == Len(Path)
           s == [i \in 1..n |-> Path[i][1]]
           ups(k) == {StageId(i) : i \in {i \in DOMAIN Path : Path[i][2] = Path[k][2] - 1}}
<1>1. n \in Nat /\ DOMAIN Path = 1..n
  BY FlowAssumption, LenProperties
<1>2. Minted = [k \in 1..n |-> NewNode(StageId(k), ups(k), None, k)]
  BY <1>1 DEF Minted
<1>3. s \in Seq(Roles) /\ Len(s) = n
  <2>1. \A i \in 1..n : Path[i] \in Roles \X Nat
    BY FlowAssumption, ElementOfSeq
  <2>2. s \in [1..n -> Roles]
    BY <2>1
  <2> HIDE DEF s, n
  <2> QED BY <1>1, <2>2
<1>4. ASSUME NEW k \in 1..n
      PROVE  StageId(k) = <<s[k], 0, Cardinality({h \in 1..k : s[h] = s[k]})>>
  <2>1. \A h \in 1..k : s[h] = Path[h][1]
    BY <1>1
  <2>2. {h \in 1..k : s[h] = s[k]} = {h \in 1..k : Path[h][1] = Path[k][1]}
    BY <2>1
  <2> QED BY <2>2 DEF StageId
<1>5. \A k \in 1..n : \A up \in ups(k) : \E i \in 1..n : up = StageId(i)
  BY <1>1
<1>6. Len(Minted) = n
  BY <1>1, <1>2
<1> HIDE DEF n, s, ups
<1>7. ASSUME NEW k \in 1..n PROVE Minted[k].id = StageId(k) /\ Minted[k].after = ups(k)
  <2>1. Minted[k] = NewNode(StageId(k), ups(k), None, k)
    BY <1>2
  <2> QED BY ONLY <2>1, NewNodeFields
<1>8. Distinct(Minted)
  <2> SUFFICES ASSUME NEW i \in 1..n, NEW k \in 1..n, StageId(i) = StageId(k) PROVE i = k
    BY <1>6, <1>7 DEF Distinct
  <2> DEFINE x == Cardinality({h \in 1..i : s[h] = s[i]})
             y == Cardinality({h \in 1..k : s[h] = s[k]})
  <2>1. s[i] = s[k] /\ x = y
    <3>1. StageId(i) = <<s[i], 0, x>> /\ StageId(k) = <<s[k], 0, y>>
      BY <1>4
    <3>2. <<s[i], 0, x>> = <<s[k], 0, y>>
      BY <3>1
    <3> HIDE DEF x, y
    <3> QED BY ONLY <3>2, TripleParts
  <2> QED BY <1>3, <2>1, OccurrencesDiffer
<1>9. Closed(Minted)
  <2> SUFFICES ASSUME NEW k \in 1..n, NEW up \in ups(k) PROVE Known(up, Minted)
    BY <1>6, <1>7 DEF Closed
  <2>1. PICK i \in 1..n : up = StageId(i)
    BY <1>5
  <2> QED BY <1>6, <1>7, <2>1 DEF Known
<1> QED BY <1>8, <1>9 DEF Graph

\* The graph of the nodes, and none of a round later than the last.
Laid(f) == Graph(f.nodes) /\ \A i \in 1..Len(f.nodes) : f.nodes[i].id[2] <= f.round

\* The graph is in the ids and in what the nodes wait on.
LEMMA SameGraph ==
  ASSUME NEW nodes, NEW same, Graph(nodes), Len(same) = Len(nodes),
         \A i \in 1..Len(nodes) : same[i].id = nodes[i].id /\ same[i].after = nodes[i].after
  PROVE  Graph(same)
BY DEF Graph, Distinct, Closed, Known

\* A stamp keeps the graph.
LEMMA StampedGraph ==
  ASSUME NEW f \in Flow, Laid(f), NEW i \in 1..Len(f.nodes), NEW v \in Verdicts,
         NEW g, g = Stamp(f, i, v)
  PROVE  g \in Flow /\ Laid(g) /\ \A up : Known(up, f.nodes) => Known(up, g.nodes)
<1>1. /\ g \in Flow /\ g.round = f.round /\ Len(g.nodes) = Len(f.nodes)
      /\ \A k \in 1..Len(f.nodes) :
           g.nodes[k].id = f.nodes[k].id /\ g.nodes[k].after = f.nodes[k].after
  BY StampedFlow
<1>2. Graph(g.nodes)
  BY <1>1, SameGraph DEF Laid
<1> QED BY <1>1, <1>2 DEF Laid, Known

\* A chain put behind a node, and what waited on that node behind the chain.
LEMMA InsertedGraph ==
  ASSUME NEW f \in Flow, Laid(f), NEW at \in Id, Known(at, f.nodes),
         NEW roles \in Seq(Roles), roles # <<>>, IdsLeft(Len(roles))
  PROVE  Graph(Inserted(f, at, roles).nodes)
<1> DEFINE new == ChainNodes(f, at, roles)
           tail == new[Len(new)].id
           nodes == f.nodes
           moved == Regated(nodes, at, tail)
           r == f.round + 1
<1>1. RoundOf(f, at, new) /\ Len(new) = Len(roles) /\ tail \in Id /\ Len(roles) \in Nat \ {0}
  BY InsertChain, LenProperties, EmptySeq
<1>2. Inserted(f, at, roles).nodes = moved \o new
  BY DEF Inserted, Flow
<1>3. Behind(new, at)
  <2>1. Len(roles) \in 0..Len(roles) /\ \A i \in 1..Len(roles) : new[i] = ChainNodes(f, at, roles)[i]
    BY <1>1
  <2> QED BY <1>1, <2>1, ChainBehind
<1>4. nodes \in Seq(Node) /\ DOMAIN nodes = 1..Len(nodes) /\ r \in Nat
  BY LenProperties DEF Flow
<1>5. new \in Seq(Node) /\ \A i \in 1..Len(new) : new[i].id[2] = r
  BY <1>1 DEF RoundOf
<1>6. Known(tail, new)
  BY <1>1 DEF Known
<1>7. Graph(nodes) /\ \A i \in 1..Len(nodes) : nodes[i].id[2] < r
  <2>1. \A i \in 1..Len(nodes) : nodes[i].id[2] <= f.round /\ nodes[i].id[2] \in Nat
    <3>1. \A i \in 1..Len(nodes) : nodes[i] \in Node
      BY <1>4, ElementOfSeq
    <3> QED BY <3>1 DEF Laid, Node, Id
  <2>2. f.round \in Nat
    BY DEF Flow
  <2> QED BY <2>1, <2>2 DEF Laid
<1> HIDE DEF new, nodes, tail, moved, r
<1>8. /\ moved \in Seq(Node) /\ Len(moved) = Len(nodes)
      /\ \A i \in 1..Len(nodes) :
           /\ moved[i].id = nodes[i].id
           /\ at \in nodes[i].after => moved[i].after = (nodes[i].after \ {at}) \cup {tail}
           /\ at \notin nodes[i].after => moved[i].after = nodes[i].after
  BY <1>1, <1>4, RegatedNodes, SMTT(30) DEF moved
<1>9. \A i \in 1..Len(moved) : \A up \in moved[i].after : up \in nodes[i].after \/ Known(up, new)
  BY <1>6, <1>8
<1>10. /\ \A i \in 1..Len(moved) : moved[i].id = nodes[i].id
       /\ Known(at, nodes)
  BY <1>8 DEF nodes
<1> QED BY <1>2, <1>3, <1>4, <1>5, <1>7, <1>8, <1>9, <1>10, GraphGrows

\* A chain of which a part was minted, behind the nodes there were.
LEMMA PartGraph ==
  ASSUME NEW f \in Flow, Laid(f), NEW at \in Id, Known(at, f.nodes),
         NEW roles \in Seq(Roles), NEW k \in 0..Len(roles), IdsLeft(k)
  PROVE  Graph(f.nodes \o SubSeq(ChainNodes(f, at, roles), 1, k))
<1> DEFINE all == ChainNodes(f, at, roles)
           new == SubSeq(all, 1, k)
           nodes == f.nodes
           r == f.round + 1
<1>1. RoundOf(f, at, new) /\ Len(new) = k
  BY ChainIsRound
<1>2. Behind(new, at)
  <2>1. \A i \in 1..k : new[i] = all[i]
    BY LenProperties
  <2> QED BY <1>1, <2>1, ChainBehind
<1>3. nodes \in Seq(Node) /\ r \in Nat
  BY DEF Flow
<1>4. new \in Seq(Node) /\ \A i \in 1..Len(new) : new[i].id[2] = r
  BY <1>1 DEF RoundOf
<1>5. Graph(nodes) /\ \A i \in 1..Len(nodes) : nodes[i].id[2] < r
  <2>1. \A i \in 1..Len(nodes) : nodes[i].id[2] <= f.round /\ nodes[i].id[2] \in Nat
    <3>1. \A i \in 1..Len(nodes) : nodes[i] \in Node
      BY <1>3, ElementOfSeq
    <3> QED BY <3>1 DEF Laid, Node, Id
  <2>2. f.round \in Nat
    BY DEF Flow
  <2> QED BY <2>1, <2>2 DEF Laid
<1>6. Known(at, nodes)
  OBVIOUS
<1> HIDE DEF all, new, nodes, r
<1>7. Graph(nodes \o new)
  <2> DEFINE moved == nodes
  <2>1. /\ moved \in Seq(Node) /\ Len(moved) = Len(nodes)
        /\ \A i \in 1..Len(moved) : moved[i].id = nodes[i].id
        /\ \A i \in 1..Len(moved) : \A up \in moved[i].after :
             up \in nodes[i].after \/ Known(up, new)
    BY <1>3
  <2> HIDE DEF moved
  <2>2. Graph(moved \o new)
    BY <1>2, <1>3, <1>4, <1>5, <1>6, <2>1, GraphGrows
  <2> QED BY <2>2 DEF moved
<1> QED BY <1>7 DEF nodes, new, all

\* A fan-out group behind its emitter.
LEMMA EmittedGraph ==
  ASSUME FanInApart, NEW f \in Flow, Laid(f), NEW i \in 1..Len(f.nodes), NEW n, n = f.nodes[i],
         n.id[1] \in DOMAIN Emitters, emits[n.job] \in Nat \ {0}, IdsLeft(emits[n.job] + 1)
  PROVE  Graph(Emitted(f, i).nodes)
<1> DEFINE new == GroupNodes(f, n)
           tail == FanInID(f, n)
           at == n.id
           nodes == f.nodes
           moved == Regated(nodes, at, tail)
           x == moved[i]
           y == [x EXCEPT !.seen = "ok"]
           stamped == [moved EXCEPT ![i] = y]
           r == f.round + 1
<1>1. nodes \in Seq(Node) /\ n \in Node /\ at \in Id /\ DOMAIN nodes = 1..Len(nodes) /\ r \in Nat
  <2>1. f.nodes \in Seq(Node) /\ f.round \in Nat
    BY DEF Flow
  <2>2. n \in Node
    BY <2>1, ElementOfSeq
  <2>3. n.id \in Id
    BY <2>2 DEF Node
  <2> QED BY <2>1, <2>2, <2>3, LenProperties
<1>2. RoundOf(f, at, new) /\ tail \in Id
  BY <1>1, GroupIsRound
<1>3. Behind(new, at) /\ Known(tail, new)
  BY <1>1, GroupBehind
<1>4. new \in Seq(Node) /\ \A k \in 1..Len(new) : new[k].id[2] = r
  BY <1>2 DEF RoundOf
<1>5. Emitted(f, i).nodes = stamped \o new
  BY DEF Emitted, Flow
<1>6. Graph(nodes) /\ (\A k \in 1..Len(nodes) : nodes[k].id[2] < r) /\ Known(at, nodes)
  <2>1. \A k \in 1..Len(nodes) : nodes[k].id[2] <= f.round /\ nodes[k].id[2] \in Nat
    <3>1. \A k \in 1..Len(nodes) : nodes[k] \in Node
      BY <1>1, ElementOfSeq
    <3> QED BY <3>1 DEF Laid, Node, Id
  <2>2. f.round \in Nat
    BY DEF Flow
  <2> QED BY <2>1, <2>2 DEF Laid, Known
<1>7. i \in 1..Len(nodes)
  OBVIOUS
<1> HIDE DEF new, nodes, tail, at, moved, r, stamped, x, y
<1>8. /\ moved \in Seq(Node) /\ Len(moved) = Len(nodes)
      /\ \A k \in 1..Len(nodes) :
           /\ moved[k].id = nodes[k].id
           /\ at \in nodes[k].after => moved[k].after = (nodes[k].after \ {at}) \cup {tail}
           /\ at \notin nodes[k].after => moved[k].after = nodes[k].after
  BY <1>1, <1>2, RegatedNodes, SMTT(30) DEF moved
<1>9. x \in Node
  BY <1>7, <1>8, ElementOfSeq DEF x
<1>10. y \in Node /\ y.id = x.id /\ y.after = x.after
  BY ONLY <1>9 DEF y, Node, Stamps
<1>11. /\ stamped \in Seq(Node) /\ Len(stamped) = Len(nodes) /\ stamped[i] = y
       /\ \A k \in 1..Len(nodes) : k # i => stamped[k] = moved[k]
  <2>1. moved \in Seq(Node) /\ i \in 1..Len(moved) /\ y \in Node
    BY <1>7, <1>8, <1>10
  <2>2. /\ stamped \in Seq(Node) /\ Len(stamped) = Len(moved) /\ stamped[i] = y
        /\ \A k \in 1..Len(moved) : k # i => stamped[k] = moved[k]
    BY ONLY <2>1, ExceptSeq DEF stamped
  <2> QED BY <1>8, <2>2
<1>12. \A k \in 1..Len(stamped) : stamped[k].id = moved[k].id /\ stamped[k].after = moved[k].after
  BY <1>10, <1>11 DEF x
<1>13. /\ \A k \in 1..Len(stamped) : stamped[k].id = nodes[k].id
       /\ \A k \in 1..Len(stamped) : \A up \in stamped[k].after :
            up \in nodes[k].after \/ Known(up, new)
  BY <1>3, <1>8, <1>11, <1>12
<1> QED BY <1>1, <1>3, <1>4, <1>5, <1>6, <1>11, <1>13, GraphGrows

\* The verdict pass stands at a node of the copy it works on.
LEMMA HereIsLaid ==
  ASSUME Typed, Routing, Graph(mem.nodes)
  PROVE  /\ mem \in Flow /\ Laid(mem) /\ At \in 1..Len(mem.nodes) /\ Here = mem.nodes[At]
         /\ Here \in Node /\ Here.id \in Id /\ Here.job \in JobIds /\ Known(Here.id, mem.nodes)
<1>1. /\ mem \in Flow /\ Fits(mem) /\ At \in 1..Len(mem.nodes) /\ Here = mem.nodes[At]
      /\ Here \in Node /\ Here.id \in Id /\ Here.job \in JobIds
  BY HereIsNode DEF Here
<1> QED BY <1>1 DEF Laid, Fits, Known

\* Verdicts that only stamp a node leave the graph as it is.
LEMMA StampRoutesGraph ==
  ASSUME Typed, Graph(mem.nodes),
         \/ RouteEnded \/ RouteComplete \/ RouteBlocked
         \/ \E v \in {"draft", "ok", "blocked"} : RouteUndecided(v)
         \/ \E v \in {"draft", "ok", "complete"} : RouteProceed(v)
  PROVE  Graph(mem'.nodes)
<1>1. ASSUME Routing, NEW v \in Verdicts,
             mem' \in {Stamped(v), Blocked(Stamped(v)), [Stamped(v) EXCEPT !.status = "complete"]}
      PROVE  Graph(mem'.nodes)
  <2> DEFINE h == Stamped(v)
  <2>1. h = Stamp(mem, At, v)
    BY DEF Stamped, Stamp
  <2>2. mem' \in {h, [h EXCEPT !.status = "blocked"], [h EXCEPT !.status = "complete"]}
    BY <1>1 DEF Blocked
  <2> HIDE DEF h
  <2>3. h \in Flow /\ Laid(h)
    BY <1>1, <2>1, HereIsLaid, StampedGraph
  <2>4. mem'.nodes = h.nodes
    BY <2>2, <2>3 DEF Flow
  <2> QED BY <2>3, <2>4 DEF Laid
<1>2. {"terminal-no-report", "complete", "blocked", "ok", "none"} \subseteq Verdicts
  BY DEF Verdicts, Stamps
<1>3. CASE RouteEnded
  <2> DEFINE v == "terminal-no-report"
  <2>1. Routing /\ v \in Verdicts
    BY <1>2, <1>3 DEF RouteEnded
  <2>2. mem' = Stamped(v) \/ mem' = Blocked(Stamped(v))
    BY <1>3, Zenon DEF RouteEnded, Onward
  <2> HIDE DEF v
  <2> QED BY <1>1, <2>1, <2>2
<1>4. CASE RouteComplete
  <2> DEFINE v == "complete"
  <2>1. Routing /\ v \in Verdicts /\ mem' = [Stamped(v) EXCEPT !.status = "complete"]
    BY <1>2, <1>4, Zenon DEF RouteComplete, Verdict, Onward
  <2> HIDE DEF v
  <2> QED BY <1>1, <2>1
<1>5. CASE RouteBlocked
  <2> DEFINE v == "blocked"
  <2>1. Routing /\ v \in Verdicts
    BY <1>2, <1>5 DEF RouteBlocked, Verdict
  <2>2. mem' = Stamped(v) \/ mem' = Blocked(Stamped(v))
    BY <1>5, Zenon DEF RouteBlocked, Onward
  <2> HIDE DEF v
  <2> QED BY <1>1, <2>1, <2>2
<1>6. ASSUME NEW u \in {"draft", "ok", "blocked"}, RouteUndecided(u) PROVE Graph(mem'.nodes)
  <2> DEFINE v == Seen(u)
  <2>1. Routing /\ v \in Verdicts
    BY <1>2, <1>6 DEF RouteUndecided, Verdict, Seen
  <2>2. mem' = Blocked(Stamped(v))
    BY <1>6, Zenon DEF RouteUndecided, Onward
  <2> HIDE DEF v
  <2> QED BY <1>1, <2>1, <2>2
<1>7. ASSUME NEW u \in {"draft", "ok", "complete"}, RouteProceed(u) PROVE Graph(mem'.nodes)
  <2> DEFINE v == Seen(u)
  <2>1. Routing /\ v \in Verdicts
    BY <1>2, <1>7 DEF RouteProceed, Verdict, Seen
  <2>2. mem' = Stamped(v)
    BY <1>7, Zenon DEF RouteProceed, Onward
  <2> HIDE DEF v
  <2> QED BY <1>1, <2>1, <2>2
<1> QED BY <1>3, <1>4, <1>5, <1>6, <1>7

\* needs-work keeps the graph.
LEMMA NeedsWorkGraph ==
  ASSUME Typed, Graph(mem.nodes), RouteNeedsWork
  PROVE  Graph(mem'.nodes)
<1> DEFINE v == "needs-work"
           f == Stamped(v)
           at == Here.id
           roles == Exception
           k == Mintable(mem, roles)
           part == SubSeq(ChainNodes(f, at, roles), 1, k)
           failed == Blocked([f EXCEPT !.round = @ + 1, !.nodes = @ \o part])
           g == Inserted(f, at, roles)
<1>1. Routing /\ v \in Verdicts
  BY DEF RouteNeedsWork, Verdict, Verdicts, Stamps
<1>2. /\ IdsLeft(k)
      /\ \/ mem' = f
         \/ k < Len(roles) /\ mem' = failed
         \/ roles # <<>> /\ ~ (k < Len(roles)) /\ mem' \in {g, [g EXCEPT !.status = "running"]}
  <2> HIDE DEF v
  <2> QED BY Zenon DEF RouteNeedsWork, Onward, v
<1>3. /\ mem \in Flow /\ Laid(mem) /\ At \in 1..Len(mem.nodes) /\ at \in Id /\ Known(at, mem.nodes)
  BY <1>1, HereIsLaid
<1>4. f = Stamp(mem, At, v)
  BY DEF Stamped, Stamp
<1> HIDE DEF v, f
<1>5. f \in Flow /\ Laid(f) /\ Known(at, f.nodes)
  BY <1>1, <1>3, <1>4, StampedGraph
<1>6. roles \in Seq(Roles) /\ Len(roles) \in Nat
  BY ExceptionRoles, LenProperties
<1>7. k \in 0..Len(roles)
  <2>1. Len(mem.nodes) <= NodeMax
    BY <1>1, HereIsNode DEF Fits
  <2> QED BY <1>3, <1>6, <2>1, MintableRoom
<1> HIDE DEF at, roles, k
<1>8. CASE mem' = f
  BY <1>5, <1>8 DEF Laid
<1>9. CASE k < Len(roles) /\ mem' = failed
  <2>1. Graph(f.nodes \o part)
    BY <1>2, <1>3, <1>5, <1>6, <1>7, PartGraph
  <2> HIDE DEF part
  <2>2. failed.nodes = f.nodes \o part
    BY <1>5 DEF Blocked, Flow
  <2> QED BY <1>9, <2>1, <2>2
<1>10. CASE roles # <<>> /\ ~ (k < Len(roles)) /\ mem' \in {g, [g EXCEPT !.status = "running"]}
  <2>1. k = Len(roles) /\ IdsLeft(Len(roles)) /\ roles # <<>>
    BY <1>2, <1>6, <1>7, <1>10
  <2>2. Graph(g.nodes)
    BY <1>3, <1>5, <1>6, <2>1, InsertedGraph
  <2>3. [g EXCEPT !.status = "running"].nodes = g.nodes
    BY <1>5 DEF Inserted, Flow
  <2> HIDE DEF g
  <2>4. mem'.nodes = g.nodes
    BY <1>10, <2>3
  <2> QED BY <2>2, <2>4
<1> QED BY <1>2, <1>8, <1>9, <1>10

\* A fan-out keeps the graph, where fan-in and child roles differ.
LEMMA EmitGraph ==
  ASSUME FanInApart, Typed, Graph(mem.nodes), RouteEmit
  PROVE  Graph(mem'.nodes)
<1> DEFINE n == Here
<1>1. /\ Routing /\ EmissionFits(mem, n) /\ IdsLeft(emits[n.job] + 1) /\ mem' = Emitted(mem, At)
  BY DEF RouteEmit, Onward
<1>2. /\ mem \in Flow /\ Laid(mem) /\ At \in 1..Len(mem.nodes) /\ n = mem.nodes[At]
      /\ n \in Node /\ n.job \in JobIds
  BY <1>1, HereIsLaid
<1>3. n.id[1] \in DOMAIN Emitters /\ emits[n.job] \in Nat \ {0}
  <2>1. emits \in [JobIds -> Nat]
    BY DEF Typed, SessionsTyped
  <2>2. emits[n.job] \in Nat
    BY <1>2, <2>1
  <2>3. n.id[1] \in DOMAIN Emitters /\ emits[n.job] \in 1..Emitters[n.id[1]].max
    BY <1>1 DEF EmissionFits
  <2> QED BY <2>2, <2>3
<1> HIDE DEF n
<1>4. Graph(Emitted(mem, At).nodes)
  BY <1>1, <1>2, <1>3, EmittedGraph
<1> QED BY <1>1, <1>4

\* An append keeps the graph.
LEMMA SpoolGraph ==
  ASSUME Typed, Graph(flow.nodes), Graph(mem.nodes), SpoolAppend
  PROVE  Graph(mem'.nodes)
<1> DEFINE at == AcceptanceID(flow)
           roles == AppendRoles
           k == Mintable(flow, roles)
<1>1. \/ mem' = mem
      \/ /\ flow.status # "none" /\ IdsLeft(k) /\ k = Len(roles)
         /\ mem' = Inserted(flow, at, roles)
  BY Zenon DEF SpoolAppend
<1>2. flow \in Flow /\ Fits(flow) /\ Laid(flow)
  BY DEF Typed, FlowsTyped, Laid, Fits
<1>3. CASE flow.status # "none" /\ IdsLeft(k) /\ k = Len(roles) /\ mem' = Inserted(flow, at, roles)
  <2>1. flow.nodes # <<>>
    BY <1>2, <1>3, LiveHasNodes
  <2>2. PICK i \in 1..Len(flow.nodes) : at = flow.nodes[i].id
    BY <1>2, <2>1, AcceptanceIsNode
  <2>3. at \in Id /\ Known(at, flow.nodes)
    <3>1. flow.nodes[i] \in Node
      BY <1>2, ElementOfSeq DEF Flow
    <3> QED BY <2>2, <3>1 DEF Node, Known
  <2>4. roles \in Seq(Roles) /\ roles # <<>>
    BY FlowAssumption
  <2>5. IdsLeft(Len(roles))
    BY <1>3
  <2> HIDE DEF at, roles, k
  <2>6. Graph(Inserted(flow, at, roles).nodes)
    BY <1>2, <2>3, <2>4, <2>5, InsertedGraph
  <2> QED BY <1>3, <2>6
<1> QED BY <1>1, <1>3

\* The graphs of the saved flow and of the handler's copy.
Wired == Graph(flow.nodes) /\ Graph(mem.nodes)

\* The graph of no flow.
LEMMA NoGraph == Graph(NoFlow.nodes)
BY DEF NoFlow, Graph, Distinct, Closed

\* Every step keeps both graphs: flow and mem only ever take one another's, or grow.
LEMMA WiredStays ==
  ASSUME FanInApart, Typed, Wired, [Next]_vars
  PROVE  Wired'
<1>1. ASSUME flow' = flow, Graph(mem'.nodes) PROVE Wired'
  BY <1>1 DEF Wired
<1>2. ASSUME flow' = flow, mem' = mem PROVE Wired'
  BY <1>2 DEF Wired
<1>3. ASSUME flow' = flow, mem'.nodes \in {mem.nodes, flow.nodes, NoFlow.nodes} PROVE Wired'
  BY <1>3, NoGraph DEF Wired
<1>4. CASE WriteFlow
  <2>1. mem' = mem /\ (flow' = mem \/ flow' = flow)
    BY <1>4 DEF WriteFlow
  <2> QED BY <2>1 DEF Wired
<1>5. CASE Create
  <2>1. flow' = flow /\ mem'.nodes = Minted
    BY <1>5 DEF Create, files
  <2> QED BY <1>1, <2>1, MintedGraph
<1>6. CASE Stop \/ ReconcileDeadline
  <2>1. flow' = flow
    BY <1>6 DEF Stop, ReconcileDeadline, files
  <2> QED BY <1>3, <1>6, <2>1, EndStep
<1>7. CASE SpoolAppend
  BY <1>1, <1>7, SpoolGraph DEF SpoolAppend, files, Wired
<1>8. CASE ReconcileBegin \/ VisitsDone \/ Crash
  BY <1>3, <1>8 DEF ReconcileBegin, VisitsDone, Crash, files
<1>9. CASE Route
  <2>1. flow' = flow
    BY <1>9, RouteActs DEF Routing, files
  <2>2. Graph(mem'.nodes)
    BY <1>9, StampRoutesGraph, NeedsWorkGraph, EmitGraph DEF Route, Wired
  <2> QED BY <1>1, <2>1, <2>2
<1>10. CASE StatusPass
  BY <1>3, <1>10, StatusPassStep DEF StatusPass, files
<1>11. CASE WriteMint \/ WriteGate \/ WriteReap \/ WriteConsumed
  BY <1>2, <1>11 DEF WriteMint, WriteGate, WriteReap, WriteConsumed
<1>12. CASE RequestAppend \/ DeadlineNears \/ MoveDeadline \/ ReconcileNothing \/ MarkStarted
            \/ TickEnd
  BY <1>2, <1>12 DEF RequestAppend, DeadlineNears, MoveDeadline, ReconcileNothing, MarkStarted,
                     TickEnd, files, Inside
<1>13. CASE VisitUngate \/ VisitDepSkip \/ VisitPending
  BY <1>2, <1>13 DEF VisitUngate, VisitDepSkip, VisitPending, Visited
<1>14. ASSUME NEW j \in JobIds, VisitHeld(j) \/ VisitGated(j) \/ VisitUngated(j)
       PROVE  Wired'
  BY <1>2, <1>14 DEF VisitHeld, VisitGated, VisitUngated, files
<1>15. ASSUME NEW j \in JobIds, Cancel(j) \/ Launch(j) \/ Session(j) PROVE Wired'
  BY <1>2, <1>15 DEF Cancel, Launch, Session, Report, AuthFail, UnitExit, WindowPast, files,
                     Inside
<1>16. CASE UNCHANGED vars
  BY <1>2, <1>16 DEF vars
<1> QED BY <1>4, <1>5, <1>6, <1>7, <1>8, <1>9, <1>10, <1>11, <1>12, <1>13, <1>14, <1>15,
           <1>16 DEF Next, Tick, Visit, Writing

(***************************************************************************)
(* Events and requests: none is counted beyond its bound, and the spool is  *)
(* never asked to remove a request it does not hold.                        *)
(***************************************************************************)
\* Events are counted up to their bounds; a request that waits was counted, and
\* the write that removes one is the last of its plan and finds it there.
Removes(w) == w.kind = "consume"
RemovedLast(ws) == \A i \in 1..Len(ws) : Removes(ws[i]) => i = Len(ws)
Removing(ws) == \E i \in 1..Len(ws) : Removes(ws[i])
Counts ==
  /\ spent \in [Events -> Nat] /\ \A k \in Events : spent[k] <= Bound[k]
  /\ asks \in Nat /\ asks <= spent["append"]
Removal ==
  /\ RemovedLast(writes)
  /\ Removing(writes) => asks > 0

\* An event is counted, and within its bound.
LEMMA SpendCounts ==
  ASSUME Counts, NEW k \in Events, Spend(k)
  PROVE  /\ spent' \in [Events -> Nat] /\ \A e \in Events : spent'[e] <= Bound[e]
         /\ spent'["append"] = IF k = "append" THEN spent["append"] + 1 ELSE spent["append"]
<1>1. spent \in [Events -> Nat] /\ spent[k] < Bound[k] /\ Bound \in [Events -> Nat]
      /\ spent' = [spent EXCEPT ![k] = spent[k] + 1]
  BY FlowAssumption DEF Counts, Spend
<1>2. "append" \in Events
  BY DEF Events
<1>3. spent[k] + 1 <= Bound[k] /\ \A e \in Events : spent[e] <= Bound[e]
  BY <1>1 DEF Counts
<1> QED BY ONLY <1>1, <1>2, <1>3, k \in Events

\* Counts is inductive on top of the types.
LEMMA CountsStay ==
  ASSUME Typed, Counts, Removal, [Next]_vars
  PROVE  Counts'
<1>1. ASSUME asks' = asks, UNCHANGED spent PROVE Counts'
  BY <1>1 DEF Counts
<1>2. ASSUME asks' = asks, NEW k \in Events \ {"append"}, Spend(k) PROVE Counts'
  BY <1>2, SpendCounts DEF Counts
<1>3. {"error", "auth", "crash", "stop", "move", "cancel"} \subseteq Events \ {"append"}
  BY DEF Events
<1>4. CASE RequestAppend
  <2>1. asks' = asks + 1 /\ Spend("append") /\ "append" \in Events
    BY <1>4 DEF RequestAppend, Events
  <2>2. /\ spent' \in [Events -> Nat] /\ \A e \in Events : spent'[e] <= Bound[e]
        /\ spent'["append"] = spent["append"] + 1
    BY <2>1, SpendCounts
  <2>3. asks \in Nat /\ asks <= spent["append"] /\ spent["append"] \in Nat
    BY <2>1 DEF Counts
  <2> QED BY <2>1, <2>2, <2>3 DEF Counts
<1>5. CASE WriteConsumed
  <2>1. asks' = asks - 1 /\ UNCHANGED spent /\ writes # <<>> /\ Removes(Head(writes))
    BY <1>5 DEF WriteConsumed, Computing, Removes
  <2>2. 1 \in 1..Len(writes) /\ Head(writes) = writes[1]
    BY <2>1, EmptySeq, LenProperties DEF Typed, Plan
  <2>3. asks > 0
    BY <2>1, <2>2 DEF Removal, Removing
  <2>4. asks \in Nat /\ asks <= spent["append"] /\ spent["append"] \in Nat
    <3>1. "append" \in Events
      BY DEF Events
    <3> QED BY <3>1 DEF Counts
  <2>5. asks' \in Nat /\ asks' <= spent["append"]
    BY <2>1, <2>3, <2>4
  <2> QED BY <2>1, <2>5 DEF Counts
<1>6. CASE Create \/ DeadlineNears \/ WriteMint \/ WriteGate \/ WriteReap \/ SpoolAppend
           \/ ReconcileNothing \/ ReconcileDeadline \/ ReconcileBegin \/ StatusPass
           \/ MarkStarted \/ TickEnd \/ VisitsDone \/ VisitUngate \/ VisitPending
  BY <1>1, <1>6 DEF Create, DeadlineNears, WriteMint, WriteGate, WriteReap, SpoolAppend,
       ReconcileNothing, ReconcileDeadline, ReconcileBegin, StatusPass, MarkStarted, TickEnd,
       VisitsDone, VisitUngate, VisitPending, Visited, files
<1>7. CASE Stop
  BY <1>2, <1>3, <1>7 DEF Stop, files
<1>8. CASE MoveDeadline
  BY <1>2, <1>3, <1>8 DEF MoveDeadline, files
<1>9. CASE Crash
  BY <1>2, <1>3, <1>9 DEF Crash, files
<1>10. CASE WriteFlow
  BY <1>1, <1>2, <1>3, <1>10 DEF WriteFlow
<1>11. CASE Route
  <2>1. asks' = asks
    BY <1>11, RouteActs DEF Routing, files
  <2>2. ASSUME NEW v, Verdict(v) PROVE Spend("error") \/ UNCHANGED spent
    BY <2>2 DEF Verdict
  <2>3. Spend("error") \/ UNCHANGED spent
    BY <1>11, <2>2 DEF Route, RouteEnded, RouteEmit, RouteComplete, RouteBlocked,
         RouteNeedsWork, RouteUndecided, RouteProceed
  <2> QED BY <1>1, <1>2, <1>3, <2>1, <2>3
<1>12. CASE VisitDepSkip
  BY <1>1, <1>2, <1>3, <1>12 DEF VisitDepSkip, NoWorktree, Visited
<1>13. ASSUME NEW j \in JobIds, VisitHeld(j) \/ VisitGated(j) \/ Launch(j) PROVE Counts'
  BY <1>1, <1>13 DEF VisitHeld, VisitGated, Launch, files
<1>14. ASSUME NEW j \in JobIds, VisitUngated(j) PROVE Counts'
  BY <1>1, <1>2, <1>3, <1>14 DEF VisitUngated, NoWorktree
<1>15. ASSUME NEW j \in JobIds, Cancel(j) PROVE Counts'
  BY <1>2, <1>3, <1>15 DEF Cancel
<1>16. ASSUME NEW j \in JobIds, Session(j) PROVE Counts'
  <2>1. AuthFail(j) => Counts'
    BY <1>2, <1>3 DEF AuthFail
  <2>2. UnitExit(j) \/ WindowPast(j) => Counts'
    BY <1>1 DEF UnitExit, WindowPast, files
  <2>3. ASSUME NEW a, Report(j, a[1], a[2]) PROVE Counts'
    BY <1>1, <2>3 DEF Report, files
  <2> QED BY <1>16, <2>1, <2>2, <2>3 DEF Session
<1>17. CASE UNCHANGED vars
  BY <1>1, <1>17 DEF vars
<1> QED BY <1>4, <1>5, <1>6, <1>7, <1>8, <1>9, <1>10, <1>11, <1>12, <1>13, <1>14, <1>15,
           <1>16, <1>17 DEF Next, Tick, Visit, Writing

\* A plan without such a write, and one that ends with it.
LEMMA NoneRemoved ==
  ASSUME NEW ws, Plan(ws), \A w \in Range(ws) : ~ Removes(w)
  PROVE  \A i \in 1..Len(ws) : ~ Removes(ws[i])
<1>1. DOMAIN ws = 1..Len(ws)
  BY LenProperties DEF Plan
<1>2. \A i \in 1..Len(ws) : ws[i] \in Range(ws)
  BY <1>1 DEF Range
<1> QED BY <1>2

\* A plan without removals with one put behind it.
LEMMA RemovedAfter ==
  ASSUME NEW s, Plan(s), \A w \in Range(s) : ~ Removes(w)
  PROVE  RemovedLast(s \o Consume) /\ Removing(s \o Consume)
<1> DEFINE t == Consume
           all == s \o t
           n == Len(s)
<1>1. s \in Seq(Write) /\ t \in Seq(Write) /\ Len(t) = 1 /\ n \in Nat
  BY EndPlans, LenProperties DEF Plan, Consume
<1>2. \A i \in 1..n : ~ Removes(s[i])
  BY NoneRemoved
<1> HIDE DEF t
<1>3. /\ Len(all) = n + 1
      /\ \A i \in 1..n+1 : all[i] = IF i <= n THEN s[i] ELSE t[i - n]
  BY <1>1, ConcatProperties
<1> HIDE DEF all, n
<1>4. \A i \in 1..Len(all) : i = Len(all) \/ (i \in 1..n /\ all[i] = s[i])
  BY <1>1, <1>3
<1>5. RemovedLast(all)
  BY <1>2, <1>4 DEF RemovedLast
<1>6. Removing(all)
  <2>1. t[1].kind = "consume"
    BY DEF t, Consume, Put
  <2>2. n + 1 \in 1..Len(all) /\ all[n + 1] = t[1]
    BY <1>1, <1>3
  <2> QED BY <2>1, <2>2 DEF Removing, Removes
<1> QED BY <1>5, <1>6 DEF all, t

\* An append request is removed by the last write of its plan.
LEMMA SpoolRemoves ==
  ASSUME Typed, SpoolAppend
  PROVE  RemovedLast(writes') /\ Removing(writes')
<1> DEFINE at == AcceptanceID(flow)
           roles == AppendRoles
           k == Mintable(flow, roles)
           part == SubSeq(ChainNodes(flow, at, roles), 1, k)
<1>1. flow \in Flow /\ Fits(flow)
  BY DEF Typed, FlowsTyped
<1>2. \/ writes' = Consume
      \/ /\ flow.status # "none" /\ IdsLeft(k)
         /\ \/ /\ k = Len(roles)
               /\ writes' = InsertWrites(flow, at, roles) \o SaveOrLose \o Consume
            \/ writes' = MintWrites(part) \o Consume
  BY Zenon DEF SpoolAppend
<1>3. CASE writes' = Consume
  BY <1>3 DEF RemovedLast, Removing, Removes, Consume, Put
<1>4. ASSUME flow.status # "none"
      PROVE  /\ at \in Id /\ roles \in Seq(Roles) /\ roles # <<>> /\ k \in 0..Len(roles)
  <2>1. flow.nodes # <<>> /\ Len(flow.nodes) <= NodeMax
    BY <1>1, <1>4 DEF Fits
  <2>2. at \in Id
    <3>1. PICK i \in 1..Len(flow.nodes) : at = flow.nodes[i].id
      BY <1>1, <2>1, AcceptanceIsNode
    <3>2. flow.nodes[i] \in Node
      BY <1>1, ElementOfSeq DEF Flow
    <3> QED BY <3>1, <3>2 DEF Node
  <2>3. roles \in Seq(Roles) /\ roles # <<>>
    BY FlowAssumption
  <2> QED BY <1>1, <2>1, <2>2, <2>3, MintableRoom
<1>5. CASE /\ flow.status # "none" /\ IdsLeft(k) /\ k = Len(roles)
           /\ writes' = InsertWrites(flow, at, roles) \o SaveOrLose \o Consume
  <2> DEFINE s == InsertWrites(flow, at, roles)
             t == s \o SaveOrLose
  <2>1. at \in Id /\ roles \in Seq(Roles) /\ roles # <<>> /\ IdsLeft(Len(roles))
    BY <1>4, <1>5
  <2>2. writes' = t \o Consume
    BY <1>5
  <2> HIDE DEF at, roles, k
  <2>3. Plan(s) /\ \A w \in Range(s) : w.kind \in {"mint", "gate"}
    BY <1>1, <2>1, InsertWritesCarry DEF Carries
  <2>4. Plan(SaveOrLose) /\ \A w \in Range(SaveOrLose) : w.kind = "save"
    BY EndPlans
  <2> HIDE DEF s
  <2>5. Plan(t) /\ Range(t) = Range(s) \cup Range(SaveOrLose)
    <3>1. \A w \in Range(SaveOrLose) : w.kind # "mint" /\ w.kind \in Ends
      BY <2>4 DEF Ends
    <3> QED BY <2>3, <2>4, <3>1, PlanConcat
  <2> HIDE DEF t
  <2>6. \A w \in Range(t) : ~ Removes(w)
    BY <2>3, <2>4, <2>5 DEF Removes
  <2> QED BY <2>2, <2>5, <2>6, RemovedAfter
<1>6. CASE flow.status # "none" /\ IdsLeft(k) /\ writes' = MintWrites(part) \o Consume
  <2>1. at \in Id /\ roles \in Seq(Roles) /\ k \in 0..Len(roles)
    BY <1>4, <1>6
  <2>2. RoundOf(flow, at, part) /\ Len(part) = k
    <3> HIDE DEF at, roles, k
    <3> QED BY <1>1, <1>6, <2>1, ChainIsRound
  <2> DEFINE s == MintWrites(part)
  <2>3. writes' = s \o Consume
    BY <1>6
  <2> HIDE DEF part, at, roles, k
  <2>4. Plan(s) /\ \A w \in Range(s) : w.kind = "mint"
    BY <1>6, <2>2, MintsCarry DEF Carries
  <2> HIDE DEF s
  <2>5. \A w \in Range(s) : ~ Removes(w)
    BY <2>4 DEF Removes
  <2> QED BY <2>3, <2>4, <2>5, RemovedAfter
<1> QED BY <1>2, <1>3, <1>5, <1>6

\* The spool always holds what is to be removed.
LEMMA RemovalStays ==
  ASSUME Typed, Counts, Removal, [Next]_vars
  PROVE  Removal'
<1>1. ASSUME \A w \in Range(writes') : ~ Removes(w), Plan(writes') PROVE Removal'
  <2>1. \A i \in 1..Len(writes') : ~ Removes(writes'[i])
    BY <1>1, NoneRemoved
  <2>2. RemovedLast(writes)' /\ ~ Removing(writes)'
    BY <2>1 DEF RemovedLast, Removing, Removes
  <2> QED BY <2>2 DEF Removal
<1>2. ASSUME writes' = writes, asks' = asks PROVE Removal'
  BY <1>2 DEF Removal, RemovedLast, Removing, Removes
<1>3. Plan(writes')
  <2>1. Plan(writes)'
    BY PlanStays
  <2> QED BY <2>1 DEF Plan, WellFormed, Write, Node, Id, Kinds, Ends, Stamps
<1>4. ASSUME ~ Computing, writes' = Tail(writes), asks' = asks \/ Removes(Head(writes))
      PROVE  Removal'
  <2> DEFINE n == Len(writes)
  <2>1. writes \in Seq(Write) /\ writes # <<>> /\ n \in Nat \ {0}
    BY <1>4, EmptySeq, LenProperties DEF Typed, Plan, Computing
  <2>2. /\ Len(Tail(writes)) = n - 1 /\ Head(writes) = writes[1]
        /\ \A i \in 1..n-1 : Tail(writes)[i] = writes[i + 1]
    BY <2>1, HeadTailProperties
  <2>3. \A i \in 1..n : Removes(writes[i]) => i = n
    BY DEF Removal, RemovedLast
  <2> DEFINE ws == Tail(writes)
             m == Len(ws)
  <2> HIDE DEF n, ws, m
  <2>4. m = n - 1 /\ \A i \in 1..m : i + 1 \in 1..n /\ ws[i] = writes[i + 1]
    BY <2>1, <2>2 DEF ws, m
  <2>5. \A i \in 1..m : Removes(ws[i]) => i = m
    BY <2>1, <2>3, <2>4
  <2>6. (\E i \in 1..m : Removes(ws[i])) => asks' > 0
    <3> SUFFICES ASSUME NEW i \in 1..m, Removes(ws[i]) PROVE asks' > 0
      OBVIOUS
    <3>1. ~ Removes(writes[1])
      BY <2>1, <2>3, <2>4
    <3>2. asks' = asks
      BY <1>4, <2>2, <3>1
    <3>3. asks > 0
      BY <2>4 DEF Removal, Removing, n
    <3> QED BY <3>2, <3>3
  <2>7. writes' = ws
    BY <1>4 DEF ws
  <2>8. RemovedLast(ws) /\ ((\E i \in 1..Len(ws) : Removes(ws[i])) => asks' > 0)
    BY <2>5, <2>6 DEF RemovedLast, m
  <2>9. \A w : Removes(w)' <=> Removes(w)
    BY DEF Removes
  <2> QED BY <2>7, <2>8 DEF Removal, RemovedLast, Removing, Removes
<1>5. CASE WriteMint \/ WriteGate \/ WriteFlow
  BY <1>4, <1>5 DEF WriteMint, WriteGate, WriteFlow
<1>6. CASE WriteConsumed
  BY <1>4, <1>6 DEF WriteConsumed, Removes
<1>7. CASE WriteReap
  <2>1. PICK j \in Head(writes).jobs :
          writes' = IF Head(writes).jobs = {j} THEN Tail(writes) ELSE Shrunk(writes, j)
    BY <1>7 DEF WriteReap, Shrunk
  <2>2. ~ Computing /\ Head(writes).kind = "reap" /\ asks' = asks
    BY <1>7 DEF WriteReap
  <2>3. CASE writes' = Tail(writes)
    BY <1>4, <2>2, <2>3
  <2>4. CASE Head(writes).jobs # {j} /\ writes' = Shrunk(writes, j)
    <3>1. writes \in Seq(Write) /\ writes # <<>> /\ \A i \in 1..Len(writes) : writes[i] \in Write
      BY <2>2, ElementOfSeq DEF Typed, Plan, Computing
    <3>2. /\ Len(Shrunk(writes, j)) = Len(writes)
          /\ \A i \in 1..Len(writes) : Shrunk(writes, j)[i].kind = writes[i].kind
      BY <3>1 DEF Shrunk, Write
    <3> DEFINE ws == Shrunk(writes, j)
    <3> HIDE DEF ws
    <3>3. Len(ws) = Len(writes) /\ \A i \in 1..Len(writes) : Removes(ws[i]) <=> Removes(writes[i])
      BY <3>2 DEF ws, Removes
    <3>4. writes' = ws
      BY <2>4 DEF ws
    <3>5. RemovedLast(ws) /\ ((\E i \in 1..Len(ws) : Removes(ws[i])) => asks > 0)
      BY <3>3 DEF Removal, RemovedLast, Removing
    <3> QED BY <2>2, <3>4, <3>5 DEF Removal, RemovedLast, Removing, Removes
  <2> QED BY <2>1, <2>3, <2>4
<1>8. CASE Create
  <2>1. \A w \in Range(writes') : w.kind \in {"mint", "flow"}
    BY <1>8, CreateStep
  <2> QED BY <1>1, <1>3, <2>1 DEF Removes
<1>9. CASE Stop \/ ReconcileDeadline
  <2>1. \A w \in Range(writes') : w.kind \in {"reap", "save"}
    BY <1>9, EndStep
  <2> QED BY <1>1, <1>3, <2>1 DEF Removes
<1>10. CASE SpoolAppend
  <2>1. RemovedLast(writes') /\ asks' = asks /\ asks > 0
    BY <1>10, SpoolRemoves DEF SpoolAppend, files
  <2> QED BY <2>1 DEF Removal, RemovedLast, Removing, Removes
<1>11. CASE ReconcileBegin
  <2>1. Orphans(flow) \in SUBSET JobIds /\ writes' = Reap(Orphans(flow))
    BY <1>11 DEF ReconcileBegin, Orphans
  <2>2. \A w \in Range(writes') : w.kind = "reap"
    BY <2>1, ReapPlan
  <2> QED BY <1>1, <1>3, <2>2 DEF Removes
<1>12. CASE Route
  <2>1. \A w \in Range(writes') : w.kind \in {"mint", "gate", "reap", "flow"}
    BY <1>12, RouteActs DEF Acts
  <2> QED BY <1>1, <1>3, <2>1 DEF Removes
<1>13. CASE StatusPass
  <2>1. \A w \in Range(writes') : w.kind = "save"
    BY <1>13, StatusPassStep, ShortPlans, EndPlans
  <2> QED BY <1>1, <1>3, <2>1 DEF Removes
<1>14. CASE Crash
  <2>1. \A w \in Range(writes') : FALSE
    BY <1>14, ShortPlans DEF Crash
  <2> QED BY <1>1, <1>3, <2>1
<1>15. CASE RequestAppend
  <2>1. writes' = writes /\ writes = <<>>
    BY <1>15 DEF RequestAppend, Inside, Computing
  <2>2. \A w \in Range(writes') : FALSE
    BY <2>1, ShortPlans
  <2> QED BY <1>1, <1>3, <2>2
<1>16. CASE DeadlineNears \/ MoveDeadline \/ ReconcileNothing \/ MarkStarted \/ TickEnd \/ VisitsDone
  BY <1>2, <1>16 DEF DeadlineNears, MoveDeadline, ReconcileNothing, MarkStarted, TickEnd,
       VisitsDone, Inside, files
<1>17. CASE VisitUngate \/ VisitDepSkip \/ VisitPending
  BY <1>2, <1>17 DEF VisitUngate, VisitDepSkip, VisitPending, Visited
<1>18. ASSUME NEW j \in JobIds, VisitHeld(j) \/ VisitGated(j) \/ VisitUngated(j) PROVE Removal'
  BY <1>2, <1>18 DEF VisitHeld, VisitGated, VisitUngated, files
<1>19. ASSUME NEW j \in JobIds, Cancel(j) \/ Launch(j) \/ Session(j) PROVE Removal'
  BY <1>2, <1>19 DEF Cancel, Launch, Session, Report, AuthFail, UnitExit, WindowPast, Inside, files
<1>20. CASE UNCHANGED vars
  BY <1>2, <1>20 DEF vars
<1> QED BY <1>5, <1>6, <1>7, <1>8, <1>9, <1>10, <1>11, <1>12, <1>13, <1>14, <1>15, <1>16,
           <1>17, <1>18, <1>19, <1>20 DEF Next, Tick, Visit, Writing

Accounted == Typed /\ Counts /\ Removal

\* No event has been counted at the start.
LEMMA InitAccounted == Init => Accounted
<1> SUFFICES ASSUME Init PROVE Accounted
  OBVIOUS
<1>1. /\ spent = [k \in Events |-> 0] /\ asks = 0 /\ writes = <<>> /\ "append" \in Events
      /\ Bound \in [Events -> Nat]
  BY FlowAssumption DEF Init, Events
<1>2. Counts
  BY <1>1 DEF Counts
<1>3. Removal
  BY <1>1 DEF Removal, RemovedLast, Removing
<1> QED BY <1>2, <1>3, InitTyped DEF Accounted

\* Every event is counted and stays within its bound, an append request that waits
\* was counted, and a plan that removes one ends with that and finds it in the spool.
THEOREM FlowRunAccounted == Spec => []Accounted
<1>1. Accounted /\ [Next]_vars => Accounted'
  BY TypedStays, CountsStay, RemovalStays DEF Accounted
<1> QED BY InitAccounted, <1>1, PTL DEF Spec

\* There is no graph at the start.
LEMMA InitWired == Init => Wired
BY NoGraph DEF Init, Wired

\* The invariant says what TypeOK does.
LEMMA WiredIsTypeOK ==
  ASSUME Accounted, Wired
  PROVE  TypeOK
<1> DEFINE nodes == flow.nodes
           n == Len(nodes)
           ids == {nodes[i].id : i \in 1..n}
<1>1. flow \in Flow /\ mem \in Flow /\ JobsTyped /\ SessionsTyped /\ LoopTyped /\ Plan(writes)
      /\ Counts
  BY DEF Accounted, Typed, FlowsTyped
<1>2. flow.status \in Statuses /\ mem.status \in Statuses
  BY <1>1 DEF Flow
<1>3. Owned(flow) \cup Owned(mem) \subseteq JobIds
  BY <1>1, UnreportedJobs
<1>4. Nodes(flow) = {nodes[i] : i \in 1..n} /\ n \in Nat
  BY <1>1, NodesOf, LenProperties DEF Flow
<1>5. {m.id : m \in Nodes(flow)} = ids
  BY <1>4
<1>6. Cardinality({m.id : m \in Nodes(flow)}) = n
  <2> DEFINE f == [i \in 1..n |-> nodes[i].id]
  <2>1. \A i, k \in 1..n : nodes[i].id = nodes[k].id => i = k
    BY DEF Wired, Graph, Distinct
  <2> HIDE DEF n, nodes
  <2>2. f \in Bijection(1..n, ids)
    BY <2>1 DEF Bijection, Injection, IsInjective, Surjection
  <2> HIDE DEF f, ids
  <2>3. ExistsBijection(1..n, ids)
    BY <2>2 DEF ExistsBijection
  <2>4. IsFiniteSet(1..n) /\ Cardinality(1..n) = n
    BY <1>4, FS_Interval
  <2>5. Cardinality(ids) = n
    BY <2>3, <2>4, FS_Bijection
  <2> QED BY <1>5, <2>5
<1>7. UNION {m.after : m \in Nodes(flow)} \subseteq {m.id : m \in Nodes(flow)}
  <2>1. \A i \in 1..n : \A up \in nodes[i].after : up \in ids
    BY DEF Wired, Graph, Closed, Known
  <2> HIDE DEF n, nodes, ids
  <2> QED BY <1>4, <1>5, <2>1
<1>8. ASSUME NEW j \in JobIds
      PROVE  /\ job[j].phase \in {"absent", "queued", "started", "skipped", "gone"}
             /\ job[j].gated \in BOOLEAN
             /\ report[j] \in {"none", "draft", "ok", "needs-work", "blocked", "complete"}
             /\ emits[j] \in Nat
             /\ marks[j] \subseteq {"authfail", "depskip", "watchdog", "over"}
             /\ unit[j] \in {"none", "active", "dead"}
  <2>1. job[j] \in JobFile
    BY <1>1 DEF JobsTyped
  <2>2. report[j] \in Reports /\ emits[j] \in Nat /\ marks[j] \in SUBSET Marks /\ unit[j] \in Units
    BY <1>1 DEF SessionsTyped
  <2> QED BY <2>1, <2>2 DEF JobFile, Phases, Reports, Marks, Units
<1>9. clock \in {"open", "near", "past"} /\ pc \in Pcs /\ left \subseteq JobIds /\ cur \in 0..MaxJobs
  BY <1>1 DEF SessionsTyped, Clocks, LoopTyped
<1>10. \A i \in DOMAIN writes : writes[i].jobs \subseteq JobIds
  <2>1. writes \in Seq(Write) /\ DOMAIN writes = 1..Len(writes)
    BY <1>1, LenProperties DEF Plan
  <2>2. \A i \in DOMAIN writes : writes[i] \in Write
    BY <2>1, ElementOfSeq
  <2> QED BY <2>2 DEF Write
<1>11. asks \in 0..Bound["append"] /\ \A k \in Events : spent[k] \in 0..Bound[k]
  <2>1. "append" \in Events /\ Bound \in [Events -> Nat]
    BY FlowAssumption DEF Events
  <2>2. \A k \in Events : spent[k] \in Nat /\ Bound[k] \in Nat /\ spent[k] <= Bound[k]
    BY <1>1, <2>1 DEF Counts
  <2>3. asks \in Nat /\ asks <= spent["append"]
    BY <1>1 DEF Counts
  <2> QED BY <2>1, <2>2, <2>3
<1> HIDE DEF ids
<1> QED BY <1>2, <1>3, <1>6, <1>7, <1>8, <1>9, <1>10, <1>11, Zenon DEF TypeOK, Pcs, n, nodes

\* The types of the state, and the graph of the saved flow: no two nodes share an
\* id and none waits on what is no node.  It needs fan-in and child roles apart,
\* which the server does not ask for (emit.go compares a fan-in with the emitter).
THEOREM GraphAlwaysWellFormed == Spec => [](FanInApart => TypeOK)
<1> DEFINE Inv == FanInApart => Wired
<1>1. Init => Inv
  BY InitWired
<1>2. Inv /\ Accounted /\ [Next]_vars => Inv'
  BY WiredStays DEF Accounted, FanInApart
<1>3. Inv /\ Accounted => (FanInApart => TypeOK)
  BY WiredIsTypeOK
<1> HIDE DEF Inv
<1> QED BY <1>1, <1>2, <1>3, FlowRunAccounted, PTL DEF Spec

\* The nodes of f in g, the one at p stamped v.
Dressed(f, g, p, v) ==
  \A i \in 1..Len(f.nodes) :
    /\ g.nodes[i].id = f.nodes[i].id /\ g.nodes[i].job = f.nodes[i].job
    /\ g.nodes[i].by = f.nodes[i].by
    /\ g.nodes[i].seen = IF i = p THEN v ELSE f.nodes[i].seen

\* ... with new ones put behind them.
Adds(f, g, p, v, new) ==
  /\ Dressed(f, g, p, v) /\ new \in Seq(Node)
  /\ Len(g.nodes) = Len(f.nodes) + Len(new)
  /\ \A k \in 1..Len(new) : g.nodes[Len(f.nodes) + k] = new[k]

Still(f, g) == \A i \in 1..Len(f.nodes) : g.nodes[i].after = f.nodes[i].after
Moved(f, g, at, new) ==
  \A i \in 1..Len(f.nodes) :
    g.nodes[i].after = IF at \in f.nodes[i].after
                       THEN (f.nodes[i].after \ {at}) \cup {new[Len(new)].id}
                       ELSE f.nodes[i].after

ChainOf(new, at) ==
  \A k \in 1..Len(new) :
    new[k].by = None /\ new[k].after = {IF k = 1 THEN at ELSE new[k - 1].id}
GroupOf(new, at) ==
  /\ Len(new) > 1
  /\ \A k \in 1..Len(new) - 1 : new[k].by = at /\ new[k].after = {at}
  /\ new[Len(new)].by = None /\ new[Len(new)].after = {new[k].id : k \in 1..Len(new) - 1}

\* A stamp changes the verdict of one node, and neither who waits on whom nor how many there are.
LEMMA StampPut ==
  ASSUME NEW f \in Flow, NEW p \in 1..Len(f.nodes), NEW v \in Verdicts,
         NEW g, g = Stamp(f, p, v)
  PROVE  /\ g \in Flow /\ g.status = f.status /\ g.round = f.round
         /\ Len(g.nodes) = Len(f.nodes) /\ Dressed(f, g, p, v) /\ Still(f, g)
<1>1. /\ g \in Flow /\ g.status = f.status /\ g.round = f.round
      /\ Len(g.nodes) = Len(f.nodes)
      /\ \A k \in 1..Len(f.nodes) :
           /\ g.nodes[k].id = f.nodes[k].id /\ g.nodes[k].job = f.nodes[k].job
           /\ g.nodes[k].after = f.nodes[k].after /\ g.nodes[k].by = f.nodes[k].by
      /\ \A k \in 1..Len(f.nodes) : k # p => g.nodes[k] = f.nodes[k]
  BY StampedFlow
<1>2. g.nodes[p].seen = v
  <2> DEFINE nodes == f.nodes
             x == nodes[p]
             y == [x EXCEPT !.seen = v]
             made == [nodes EXCEPT ![p] = y]
  <2>1. nodes \in Seq(Node) /\ x \in Node
    BY ElementOfSeq DEF Flow
  <2>2. g.nodes = made
    BY DEF Stamp, Flow
  <2>3. y \in Node /\ y.seen = v
    <3> HIDE DEF x
    <3> QED BY <2>1 DEF Node, Verdicts
  <2>4. nodes \in Seq(Node) /\ p \in 1..Len(nodes) /\ y \in Node
    BY <2>1, <2>3
  <2> HIDE DEF nodes, y
  <2>5. made[p] = y
    BY ONLY <2>4, ExceptSeq
  <2> QED BY <2>2, <2>3, <2>5
<1> QED BY <1>1, <1>2 DEF Dressed, Still

\* What follows a stamped flow follows the flow.
LEMMA PutFrom ==
  ASSUME NEW f, NEW h, NEW g, NEW p, NEW v, NEW new,
         Dressed(f, h, p, v), Len(h.nodes) = Len(f.nodes), Still(f, h), Adds(h, g, 0, v, new),
         Len(f.nodes) \in Nat
  PROVE  /\ Adds(f, g, p, v, new)
         /\ Still(h, g) => Still(f, g)
         /\ \A at : Moved(h, g, at, new) => Moved(f, g, at, new)
<1>1. \A i \in 1..Len(f.nodes) : i # 0
  OBVIOUS
<1>2. Dressed(f, g, p, v)
  BY <1>1 DEF Dressed, Adds
<1> QED BY <1>2 DEF Adds, Still, Moved

\* A round behind the nodes there were.
LEMMA RoundPut ==
  ASSUME NEW row \in Seq(Node), NEW new \in Seq(Node)
  PROVE  /\ Len(row) \in Nat /\ Len(new) \in Nat
         /\ Len(row \o new) = Len(row) + Len(new)
         /\ \A i \in 1..Len(row) : (row \o new)[i] = row[i]
         /\ \A k \in 1..Len(new) : (row \o new)[Len(row) + k] = new[k]
<1> DEFINE n == Len(row)
           m == Len(new)
           whole == row \o new
<1>1. n \in Nat /\ m \in Nat
  BY LenProperties
<1>2. /\ whole \in Seq(Node) /\ Len(whole) = Len(row) + Len(new)
      /\ \A i \in 1..Len(row)+Len(new) :
           whole[i] = IF i <= Len(row) THEN row[i] ELSE new[i - Len(row)]
  BY ConcatProperties
<1> HIDE DEF whole
<1>3. \A i \in 1..n : whole[i] = row[i]
  <2>1. \A i \in 1..n+m : whole[i] = IF i <= n THEN row[i] ELSE new[i - n]
    BY <1>2
  <2> HIDE DEF n, m
  <2> QED BY <1>1, <2>1
<1>4. \A k \in 1..m : whole[n + k] = new[k]
  <2>1. \A i \in 1..n+m : whole[i] = IF i <= n THEN row[i] ELSE new[i - n]
    BY <1>2
  <2> HIDE DEF n, m
  <2>2. \A k \in 1..m : n + k \in 1..n+m /\ ~ (n + k <= n) /\ (n + k) - n = k
    BY <1>1
  <2> QED BY <2>1, <2>2
<1> QED BY <1>1, <1>2, <1>3, <1>4 DEF whole

\* ... in a stamped flow.
LEMMA DressedPut ==
  ASSUME NEW h \in Flow, NEW v, NEW new, NEW moved, NEW g,
         \A i \in 1..Len(h.nodes) :
           /\ moved[i].id = h.nodes[i].id /\ moved[i].job = h.nodes[i].job
           /\ moved[i].by = h.nodes[i].by /\ moved[i].seen = h.nodes[i].seen,
         /\ new \in Seq(Node) /\ Len(h.nodes) \in Nat /\ Len(new) \in Nat
         /\ Len(g.nodes) = Len(h.nodes) + Len(new)
         /\ \A i \in 1..Len(h.nodes) : g.nodes[i] = moved[i]
         /\ \A k \in 1..Len(new) : g.nodes[Len(h.nodes) + k] = new[k]
  PROVE  Adds(h, g, 0, v, new)
<1>1. \A i \in 1..Len(h.nodes) : i # 0
  OBVIOUS
<1>2. Dressed(h, g, 0, v)
  BY <1>1 DEF Dressed
<1> QED BY <1>2 DEF Adds

\* A chain inserted behind a node: the node's dependents wait on its last.
LEMMA ChainPut ==
  ASSUME NEW h \in Flow, NEW at \in Id, NEW v, NEW roles \in Seq(Roles), roles # <<>>,
         IdsLeft(Len(roles)), NEW g,
         \/ g = Inserted(h, at, roles) \/ g = [Inserted(h, at, roles) EXCEPT !.status = "running"],
         NEW new, new = ChainNodes(h, at, roles)
  PROVE  /\ Adds(h, g, 0, v, new) /\ Moved(h, g, at, new) /\ ChainOf(new, at)
         /\ RoundOf(h, at, new) /\ Len(new) \in Nat \ {0}
<1> DEFINE tail == new[Len(new)].id
           nodes == h.nodes
           moved == Regated(nodes, at, tail)
<1>1. RoundOf(h, at, new) /\ Len(new) = Len(roles) /\ tail \in Id /\ Len(roles) \in Nat \ {0}
  BY InsertChain, LenProperties, EmptySeq
<1>2. g.nodes = moved \o new
  BY DEF Inserted, Flow
<1>3. nodes \in Seq(Node) /\ DOMAIN nodes = 1..Len(nodes)
  BY LenProperties DEF Flow
<1>4. ChainOf(new, at)
  <2>1. \A k \in 1..Len(roles) :
          new[k].by = None /\ new[k].after = {IF k = 1 THEN at ELSE new[k - 1].id}
    BY ChainNodeFields
  <2> HIDE DEF tail, nodes, moved
  <2> QED BY <1>1, <2>1 DEF ChainOf
<1>5. new = new
  OBVIOUS
<1> HIDE DEF tail, nodes
<1>6. /\ moved \in Seq(Node) /\ Len(moved) = Len(nodes)
      /\ \A i \in 1..Len(nodes) :
           /\ moved[i].id = nodes[i].id /\ moved[i].job = nodes[i].job
           /\ moved[i].by = nodes[i].by /\ moved[i].seen = nodes[i].seen
           /\ at \in nodes[i].after => moved[i].after = (nodes[i].after \ {at}) \cup {tail}
           /\ at \notin nodes[i].after => moved[i].after = nodes[i].after
  BY <1>1, <1>3, RegatedNodes, SMTT(30)
<1> HIDE DEF moved
<1>7. /\ Adds(h, g, 0, v, new)
      /\ \A i \in 1..Len(h.nodes) : g.nodes[i] = moved[i]
  <2>1. /\ Len(moved) = Len(h.nodes)
        /\ \A i \in 1..Len(h.nodes) :
             /\ moved[i].id = h.nodes[i].id /\ moved[i].job = h.nodes[i].job
             /\ moved[i].by = h.nodes[i].by /\ moved[i].seen = h.nodes[i].seen
    BY <1>6 DEF nodes
  <2>3. /\ h \in Flow /\ new \in Seq(Node) /\ moved \in Seq(Node)
        /\ Len(moved) = Len(h.nodes) /\ g.nodes = moved \o new
    BY <1>1, <1>2, <1>6, <2>1 DEF RoundOf
  <2>2. /\ new \in Seq(Node) /\ Len(h.nodes) \in Nat /\ Len(new) \in Nat
        /\ Len(g.nodes) = Len(h.nodes) + Len(new)
        /\ \A i \in 1..Len(h.nodes) : g.nodes[i] = moved[i]
        /\ \A k \in 1..Len(new) : g.nodes[Len(h.nodes) + k] = new[k]
    <3>1. /\ Len(moved) \in Nat /\ Len(new) \in Nat
          /\ Len(moved \o new) = Len(moved) + Len(new)
          /\ \A i \in 1..Len(moved) : (moved \o new)[i] = moved[i]
          /\ \A i \in 1..Len(new) : (moved \o new)[Len(moved) + i] = new[i]
      BY ONLY <2>3, RoundPut
    <3> QED BY <2>1, <2>3, <3>1
  <2> QED BY ONLY <2>1, <2>2, h \in Flow, DressedPut
<1>8. Moved(h, g, at, new)
  BY <1>6, <1>7 DEF Moved, nodes, tail
<1> QED BY <1>1, <1>4, <1>7, <1>8

\* A role inserted at the end of the round it is cut to.
LEMMA PartPut ==
  ASSUME NEW h \in Flow, NEW at \in Id, NEW v, NEW roles \in Seq(Roles),
         NEW k \in 0..Len(roles), IdsLeft(k),
         NEW new, new = SubSeq(ChainNodes(h, at, roles), 1, k),
         NEW g, g.nodes = h.nodes \o new
  PROVE  Adds(h, g, 0, v, new) /\ Still(h, g) /\ ChainOf(new, at) /\ RoundOf(h, at, new)
<1> DEFINE all == ChainNodes(h, at, roles)
<1>1. RoundOf(h, at, new) /\ Len(new) = k
  BY ChainIsRound
<1>2. h.nodes \in Seq(Node)
  BY DEF Flow
<1> DEFINE moved == h.nodes
<1>3. /\ moved \in Seq(Node) /\ Len(moved) = Len(h.nodes)
      /\ \A i \in 1..Len(h.nodes) :
           /\ moved[i].id = h.nodes[i].id /\ moved[i].job = h.nodes[i].job
           /\ moved[i].by = h.nodes[i].by /\ moved[i].seen = h.nodes[i].seen
      /\ g.nodes = moved \o new
  BY <1>2
<1>4. \A i \in 1..Len(h.nodes) : moved[i] = h.nodes[i]
  OBVIOUS
<1> HIDE DEF moved
<1>5. Adds(h, g, 0, v, new) /\ \A i \in 1..Len(h.nodes) : g.nodes[i] = moved[i]
  <2>3. /\ h \in Flow /\ new \in Seq(Node) /\ moved \in Seq(Node)
        /\ Len(moved) = Len(h.nodes) /\ g.nodes = moved \o new
    BY <1>1, <1>3 DEF RoundOf
  <2>2. /\ new \in Seq(Node) /\ Len(h.nodes) \in Nat /\ Len(new) \in Nat
        /\ Len(g.nodes) = Len(h.nodes) + Len(new)
        /\ \A i \in 1..Len(h.nodes) : g.nodes[i] = moved[i]
        /\ \A i \in 1..Len(new) : g.nodes[Len(h.nodes) + i] = new[i]
    <3>1. /\ Len(moved) \in Nat /\ Len(new) \in Nat
          /\ Len(moved \o new) = Len(moved) + Len(new)
          /\ \A i \in 1..Len(moved) : (moved \o new)[i] = moved[i]
          /\ \A i \in 1..Len(new) : (moved \o new)[Len(moved) + i] = new[i]
      BY ONLY <2>3, RoundPut
    <3> QED BY <2>3, <3>1
  <2> QED BY ONLY <1>3, <2>2, h \in Flow, DressedPut
<1>6. Still(h, g)
  BY <1>4, <1>5 DEF Still
<1>7. ChainOf(new, at)
  <2>1. \A i \in 1..k : new[i] = all[i] /\ i \in 1..Len(roles) /\ (i # 1 => i - 1 \in 1..k)
    BY LenProperties
  <2>2. ASSUME NEW i \in 1..k
        PROVE  all[i].by = None /\ all[i].after = {IF i = 1 THEN at ELSE all[i - 1].id}
    <3>1. i \in 1..Len(roles)
      BY <2>1
    <3> QED BY <3>1, ChainNodeFields
  <2> HIDE DEF all
  <2>3. ASSUME NEW i \in 1..k
        PROVE  new[i].by = None /\ new[i].after = {IF i = 1 THEN at ELSE new[i - 1].id}
    <3>1. CASE i = 1
      BY <2>1, <2>2, <3>1
    <3>2. CASE i # 1
      <4>1. new[i - 1] = all[i - 1]
        BY <2>1, <3>2
      <4> QED BY <2>1, <2>2, <3>2, <4>1
    <3> QED BY <3>1, <3>2
  <2> QED BY <1>1, <2>3 DEF ChainOf
<1> QED BY <1>1, <1>5, <1>6, <1>7

\* A tuple written as a function is a sequence.
LEMMA RowOf ==
  ASSUME NEW e \in Nat, NEW row, row = [i \in 1..e |-> row[i]]
  PROVE  Len(row) = e /\ row \in Seq({row[i] : i \in 1..e})
<1>1. \A i \in 1..e : row[i] \in {row[k] : k \in 1..e}
  OBVIOUS
<1>2. row \in [1..e -> {row[k] : k \in 1..e}]
  BY <1>1
<1> QED BY <1>2

\* A fan-out: the children wait on the emitter, the fan-in on them.
LEMMA GroupPut ==
  ASSUME NEW f \in Flow, NEW p \in 1..Len(f.nodes), NEW n, n = f.nodes[p],
         n.id[1] \in DOMAIN Emitters, emits[n.job] \in Nat \ {0}, IdsLeft(emits[n.job] + 1),
         NEW new, new = GroupNodes(f, n), NEW g, g = Emitted(f, p)
  PROVE  /\ Adds(f, g, p, "ok", new) /\ Moved(f, g, n.id, new) /\ GroupOf(new, n.id)
         /\ RoundOf(f, n.id, new) /\ g.status = f.status
<1> DEFINE e == emits[n.job]
           ids == [i \in 1..e |-> <<Emitters[n.id[1]].child, f.round + 1, i>>]
           attempts == [i \in 1..e |-> NewNode(ids[i], {n.id}, n.id, NextJob + i - 1)]
           fanIn == FanInID(f, n)
           ups == {ids[i] : i \in DOMAIN ids}
           hers == NextJob + e
           last == NewNode(fanIn, ups, None, hers)
           y == n.id
<1>1. e \in Nat \ {0}
  BY SMTT(30)
<1>2. new = attempts \o <<last>>
  BY DEF GroupNodes, FanInID
<1>3. n \in Node /\ f.nodes \in Seq(Node) /\ y \in Id /\ DOMAIN f.nodes = 1..Len(f.nodes)
  <2>1. f.nodes \in Seq(Node)
    BY DEF Flow
  <2>2. n \in Node
    BY <2>1, ElementOfSeq
  <2>3. n.id \in Id
    BY <2>2 DEF Node
  <2> QED BY <2>1, <2>2, <2>3, LenProperties
<1>4. RoundOf(f, n.id, new) /\ fanIn \in Id
  BY <1>3, GroupIsRound
<1>5. \A i \in 1..e : attempts[i] = NewNode(ids[i], {y}, y, NextJob + i - 1)
  OBVIOUS
<1>6. Len(attempts) = e /\ attempts \in Seq({attempts[i] : i \in 1..e})
  <2>1. attempts = [i \in 1..e |-> attempts[i]]
    OBVIOUS
  <2> HIDE DEF attempts, e
  <2> QED BY ONLY <1>1, <2>1, RowOf
<1>7. ups = {ids[i] : i \in 1..e}
  OBVIOUS
<1>8. g = [f EXCEPT !.round = @ + 1,
             !.nodes = [Regated(@, n.id, fanIn) EXCEPT ![p].seen = "ok"] \o new]
  BY DEF Emitted
<1> HIDE DEF attempts, ids, e, fanIn, ups, hers, last, y
<1>9. last.id = fanIn /\ last.after = ups /\ last.by = None
  <2>1. last = NewNode(fanIn, ups, None, hers)
    BY DEF last
  <2> QED BY ONLY <2>1, NewNodeFields
<1>10. ASSUME NEW i \in 1..e
       PROVE  attempts[i].id = ids[i] /\ attempts[i].after = {y} /\ attempts[i].by = y
  <2> DEFINE s == {y}
             mine == NextJob + i - 1
  <2>1. attempts[i] = NewNode(ids[i], s, y, mine)
    BY <1>5
  <2> HIDE DEF s, mine
  <2>2. attempts[i].id = ids[i] /\ attempts[i].after = s /\ attempts[i].by = y
    BY ONLY <2>1, NewNodeFields
  <2> QED BY <2>2 DEF s
<1>11. Len(new) = e + 1 /\ new[e + 1] = last /\ \A i \in 1..e : new[i] = attempts[i]
  BY <1>1, <1>2, <1>6
<1>12. GroupOf(new, y)
  <2>1. Len(new) > 1 /\ Len(new) - 1 = e
    BY <1>1, <1>11
  <2>2. \A k \in 1..e : new[k].by = y /\ new[k].after = {y} /\ new[k].id = ids[k]
    BY <1>10, <1>11
  <2>3. new[Len(new)].by = None /\ new[Len(new)].after = {new[k].id : k \in 1..e}
    BY <1>7, <1>9, <1>11, <2>2
  <2> QED BY <2>1, <2>2, <2>3 DEF GroupOf
<1> DEFINE nodes == f.nodes
           moved == Regated(nodes, y, fanIn)
           x == moved[p]
           z == [x EXCEPT !.seen = "ok"]
           stamped == [moved EXCEPT ![p] = z]
           h == [f EXCEPT !.nodes = stamped]
<1>13. g.nodes = stamped \o new /\ g.status = f.status
  BY <1>8 DEF y, Flow
<1>14. nodes \in Seq(Node) /\ DOMAIN nodes = 1..Len(nodes) /\ p \in 1..Len(nodes)
  BY <1>3
<1> HIDE DEF nodes
<1>15. /\ moved \in Seq(Node) /\ Len(moved) = Len(nodes)
       /\ \A i \in 1..Len(nodes) :
            /\ moved[i].id = nodes[i].id /\ moved[i].job = nodes[i].job
            /\ moved[i].by = nodes[i].by /\ moved[i].seen = nodes[i].seen
            /\ y \in nodes[i].after => moved[i].after = (nodes[i].after \ {y}) \cup {fanIn}
            /\ y \notin nodes[i].after => moved[i].after = nodes[i].after
  BY ONLY <1>3, <1>4, <1>14, RegatedNodes, SMTT(30)
<1> HIDE DEF moved
<1>16. x \in Node
  BY <1>14, <1>15, ElementOfSeq
<1>17. /\ z \in Node /\ z.id = x.id /\ z.job = x.job /\ z.by = x.by /\ z.after = x.after
       /\ z.seen = "ok"
  <2> HIDE DEF x
  <2> QED BY ONLY <1>16 DEF z, Node, Stamps
<1> HIDE DEF z, x
<1>18. /\ stamped \in Seq(Node) /\ Len(stamped) = Len(nodes) /\ stamped[p] = z
       /\ \A k \in 1..Len(nodes) : k # p => stamped[k] = moved[k]
  <2>1. moved \in Seq(Node) /\ p \in 1..Len(moved) /\ z \in Node
    BY <1>14, <1>15, <1>17
  <2>2. /\ stamped \in Seq(Node) /\ Len(stamped) = Len(moved) /\ stamped[p] = z
        /\ \A k \in 1..Len(moved) : k # p => stamped[k] = moved[k]
    BY ONLY <2>1, ExceptSeq DEF stamped
  <2> QED BY <1>15, <2>2
<1> HIDE DEF stamped
<1>19. h \in Flow /\ h.nodes = stamped /\ h.round = f.round
  BY <1>18 DEF h, Flow
<1>20. \A k \in 1..Len(nodes) :
         /\ stamped[k].id = nodes[k].id /\ stamped[k].job = nodes[k].job
         /\ stamped[k].by = nodes[k].by
         /\ stamped[k].seen = IF k = p THEN "ok" ELSE nodes[k].seen
         /\ stamped[k].after = moved[k].after
  BY <1>15, <1>17, <1>18 DEF x
<1> HIDE DEF h
<1>21. RoundOf(h, n.id, new)
  BY <1>4, <1>19 DEF RoundOf
<1>22. Adds(h, g, 0, "ok", new) /\ \A i \in 1..Len(h.nodes) : g.nodes[i] = stamped[i]
  <2>1. /\ stamped \in Seq(Node) /\ Len(stamped) = Len(h.nodes) /\ g.nodes = stamped \o new
        /\ \A i \in 1..Len(h.nodes) :
             /\ stamped[i].id = h.nodes[i].id /\ stamped[i].job = h.nodes[i].job
             /\ stamped[i].by = h.nodes[i].by /\ stamped[i].seen = h.nodes[i].seen
    BY <1>13, <1>18, <1>19
  <2>3. new \in Seq(Node)
    BY <1>21 DEF RoundOf
  <2>2. /\ new \in Seq(Node) /\ Len(h.nodes) \in Nat /\ Len(new) \in Nat
        /\ Len(g.nodes) = Len(h.nodes) + Len(new)
        /\ \A i \in 1..Len(h.nodes) : g.nodes[i] = stamped[i]
        /\ \A k \in 1..Len(new) : g.nodes[Len(h.nodes) + k] = new[k]
    <3>1. /\ Len(stamped) \in Nat /\ Len(new) \in Nat
          /\ Len(stamped \o new) = Len(stamped) + Len(new)
          /\ \A i \in 1..Len(stamped) : (stamped \o new)[i] = stamped[i]
          /\ \A i \in 1..Len(new) : (stamped \o new)[Len(stamped) + i] = new[i]
      BY ONLY <2>3, <2>1, RoundPut
    <3> QED BY <1>19, <2>1, <2>3, <3>1
  <2> QED BY ONLY <1>19, <2>1, <2>2, DressedPut
<1>23. Dressed(f, g, p, "ok")
  BY <1>18, <1>19, <1>20, <1>22 DEF Dressed, nodes
<1>24. Adds(f, g, p, "ok", new)
  BY <1>18, <1>19, <1>22, <1>23 DEF Adds, nodes
<1>25. new[Len(new)].id = fanIn
  BY <1>9, <1>11
<1>26. Moved(f, g, y, new)
  <2>1. \A i \in 1..Len(nodes) : g.nodes[i].after = moved[i].after
    BY <1>18, <1>19, <1>20, <1>22
  <2> QED BY <1>15, <1>25, <2>1 DEF Moved, nodes
<1> QED BY <1>4, <1>12, <1>13, <1>24, <1>26 DEF y

(***************************************************************************)
(* The acceptance node: the last that nothing depends on.                   *)
(***************************************************************************)
\* Nothing in f depends on its node at k; the last such node decides the run.
Leaf(f, k) == \A i \in 1..Len(f.nodes) : f.nodes[k].id \notin f.nodes[i].after
Decider(f, k) ==
  /\ k \in 1..Len(f.nodes) /\ Leaf(f, k)
  /\ \A i \in 1..Len(f.nodes) : i > k => ~ Leaf(f, i)
HasLeaf(f) == \E k \in 1..Len(f.nodes) : Leaf(f, k)

\* New nodes of which all but the last are waited on, in their midst.
Tailed(new, at) ==
  /\ Len(new) \in Nat \ {0} /\ at \in new[1].after
  /\ \A k \in 1..Len(new) : \A up \in new[k].after :
       up = at \/ \E j \in 1..Len(new) - 1 : up = new[j].id
  /\ \A k \in 1..Len(new) - 1 : \E j \in 1..Len(new) : new[k].id \in new[j].after

\* All but the last of a chain are waited on.
LEMMA ChainTailed ==
  ASSUME NEW new, NEW at, ChainOf(new, at), Len(new) \in Nat \ {0}
  PROVE  Tailed(new, at)
<1> DEFINE m == Len(new)
<1>1. \A k \in 1..m : new[k].after = {IF k = 1 THEN at ELSE new[k - 1].id}
  BY DEF ChainOf
<1>2. m \in Nat \ {0}
  OBVIOUS
<1> HIDE DEF m
<1>3. at \in new[1].after
  BY <1>1, <1>2
<1>4. ASSUME NEW k \in 1..m, NEW up \in new[k].after
      PROVE  up = at \/ \E j \in 1..m - 1 : up = new[j].id
  <2>1. k # 1 => k - 1 \in 1..m - 1 /\ up = new[k - 1].id
    BY <1>1, <1>2
  <2>2. k = 1 => up = at
    BY <1>1
  <2> QED BY <2>1, <2>2
<1>5. ASSUME NEW k \in 1..m - 1 PROVE \E j \in 1..m : new[k].id \in new[j].after
  <2>1. k + 1 \in 1..m /\ k + 1 # 1 /\ (k + 1) - 1 = k
    BY <1>2
  <2>2. new[k].id \in new[k + 1].after
    BY <1>1, <2>1
  <2> QED BY <2>1, <2>2
<1> QED BY <1>2, <1>3, <1>4, <1>5 DEF Tailed, m

\* So are all but the fan-in of a group.
LEMMA GroupTailed ==
  ASSUME NEW new, NEW at, GroupOf(new, at), Len(new) \in Nat
  PROVE  Tailed(new, at)
<1> DEFINE m == Len(new)
<1>1. /\ m \in Nat /\ m > 1
      /\ \A k \in 1..m - 1 : new[k].after = {at}
      /\ new[m].after = {new[k].id : k \in 1..m - 1}
  BY DEF GroupOf
<1> HIDE DEF m
<1>2. at \in new[1].after
  BY <1>1
<1>3. ASSUME NEW k \in 1..m, NEW up \in new[k].after
      PROVE  up = at \/ \E j \in 1..m - 1 : up = new[j].id
  BY <1>1
<1>4. ASSUME NEW k \in 1..m - 1 PROVE \E j \in 1..m : new[k].id \in new[j].after
  BY <1>1
<1>5. m \in Nat \ {0}
  BY <1>1
<1> QED BY <1>2, <1>3, <1>4, <1>5 DEF Tailed, m

\* A stamp leaves the leaves as they are.
LEMMA LeavesStay ==
  ASSUME NEW f, NEW g, NEW p, NEW v, Dressed(f, g, p, v), Still(f, g), Len(g.nodes) = Len(f.nodes)
  PROVE  /\ \A k \in 1..Len(f.nodes) : Leaf(g, k) <=> Leaf(f, k)
         /\ \A k : Decider(g, k) <=> Decider(f, k)
         /\ HasLeaf(g) <=> HasLeaf(f)
<1>1. \A k \in 1..Len(f.nodes) : Leaf(g, k) <=> Leaf(f, k)
  BY DEF Dressed, Still, Leaf
<1> QED BY <1>1 DEF Decider, HasLeaf

\* The new nodes are put behind the one of f at q, and its leaves are g's but for it.
PutBehind(f, g, p, v, new, q) ==
  /\ q \in 1..Len(f.nodes) /\ Graph(f.nodes) /\ Distinct(g.nodes)
  /\ Adds(f, g, p, v, new) /\ Moved(f, g, f.nodes[q].id, new) /\ Tailed(new, f.nodes[q].id)
LeavesMoved(f, g, new, q) ==
  /\ Len(f.nodes) \in Nat /\ Len(new) \in Nat \ {0}
  /\ Len(g.nodes) = Len(f.nodes) + Len(new)
  /\ \A i \in 1..Len(f.nodes) : i # q => (Leaf(g, i) <=> Leaf(f, i))
  /\ ~ Leaf(g, q)
  /\ \A k \in 1..Len(new) - 1 : ~ Leaf(g, Len(f.nodes) + k)
  /\ Leaf(g, Len(f.nodes) + Len(new)) <=> Leaf(f, q)

\* Nodes put behind one of f take its place: where it was a leaf their last is one.
LEMMA LeavesMove ==
  ASSUME NEW f \in Flow, NEW g, NEW p, NEW v, NEW new, NEW q, PutBehind(f, g, p, v, new, q)
  PROVE  LeavesMoved(f, g, new, q)
<1> DEFINE n == Len(f.nodes)
           m == Len(new)
           at == f.nodes[q].id
           tail == new[m].id
<1>1. n \in Nat /\ m \in Nat \ {0}
  <2>1. f.nodes \in Seq(Node)
    BY DEF Flow
  <2> QED BY <2>1, LenProperties DEF PutBehind, Tailed
<1>2. /\ Len(g.nodes) = n + m
      /\ \A i \in 1..n : g.nodes[i].id = f.nodes[i].id
      /\ \A k \in 1..m : g.nodes[n + k] = new[k]
      /\ \A i \in 1..n : g.nodes[i].after = IF at \in f.nodes[i].after
                                            THEN (f.nodes[i].after \ {at}) \cup {tail}
                                            ELSE f.nodes[i].after
  BY DEF PutBehind, Adds, Dressed, Moved
<1>3. /\ at \in new[1].after
      /\ \A k \in 1..m : \A up \in new[k].after : up = at \/ \E j \in 1..m - 1 : up = new[j].id
      /\ \A k \in 1..m - 1 : \E j \in 1..m : new[k].id \in new[j].after
  BY DEF PutBehind, Tailed
<1>4. \A i, k \in 1..n + m : g.nodes[i].id = g.nodes[k].id => i = k
  BY <1>2 DEF PutBehind, Distinct
<1>5. \A i, k \in 1..n : f.nodes[i].id = f.nodes[k].id => i = k
  BY DEF PutBehind, Graph, Distinct
<1>6. \A i \in 1..n : \A up \in f.nodes[i].after : \E k \in 1..n : up = f.nodes[k].id
  BY DEF PutBehind, Graph, Closed, Known
<1>7. q \in 1..n /\ at = f.nodes[q].id
  BY DEF PutBehind
<1> HIDE DEF n, m, at
<1>8. \A k \in 1..m : n + k \in 1..n + m /\ ~ (n + k <= n)
  BY <1>1
<1>9. \A i \in 1..n : i \in 1..n + m /\ \A k \in 1..m : f.nodes[i].id # new[k].id
  <2>1. \A i \in 1..n : i \in 1..n + m /\ i <= n
    BY <1>1
  <2>2. ASSUME NEW i \in 1..n, NEW k \in 1..m, f.nodes[i].id = new[k].id PROVE FALSE
    <3>1. g.nodes[i].id = g.nodes[n + k].id
      BY <1>2, <2>2
    <3>2. i = n + k
      BY <1>4, <1>8, <2>1, <3>1
    <3> QED BY <1>8, <2>1, <3>2
  <2> QED BY <2>1, <2>2
<1>10. m \in 1..m /\ n + m \in 1..n+m /\ g.nodes[n + m] = new[m] /\ \A j \in 1..m - 1 : j \in 1..m
  BY <1>1, <1>2, <1>8
<1>11. \A x \in 1..n + m : x \in 1..n \/ \E k \in 1..m : x = n + k
  <2> SUFFICES ASSUME NEW x \in 1..n + m, x \notin 1..n PROVE \E k \in 1..m : x = n + k
    OBVIOUS
  <2>1. x - n \in 1..m /\ x = n + (x - n)
    BY <1>1
  <2> QED BY <2>1
<1>12. ASSUME NEW x PROVE Leaf(g, x) <=> \A i \in 1..n + m : g.nodes[x].id \notin g.nodes[i].after
  BY <1>2 DEF Leaf, n
<1>13. ASSUME NEW x PROVE Leaf(f, x) <=> \A i \in 1..n : f.nodes[x].id \notin f.nodes[i].after
  BY DEF Leaf, n
<1>14. ASSUME NEW k \in 1..m, NEW j \in 1..m, new[k].id = new[j].id PROVE k = j
  <2>1. n + k \in 1..n + m /\ n + j \in 1..n + m /\ g.nodes[n + k].id = g.nodes[n + j].id
    BY <1>2, <1>8, <1>14
  <2>2. n + k = n + j
    BY ONLY <1>4, <2>1
  <2> QED BY ONLY <1>1, <2>2, k \in 1..m, j \in 1..m
<1> HIDE DEF tail
<1>15. tail = new[m].id
  BY DEF tail
<1>16. ASSUME NEW i \in 1..n, i # q PROVE Leaf(g, i) <=> Leaf(f, i)
  <2> DEFINE y == f.nodes[i].id
  <2>1. y # at /\ y # tail /\ \A k \in 1..m : y # new[k].id
    BY <1>5, <1>7, <1>9, <1>10, <1>15, <1>16
  <2>2. \A k \in 1..m : y \notin new[k].after
    BY <1>3, <1>10, <2>1
  <2>3. \A k \in 1..n : y \in g.nodes[k].after <=> y \in f.nodes[k].after
    BY <1>2, <2>1
  <2>4. g.nodes[i].id = y
    BY <1>2
  <2> HIDE DEF y
  <2>5. (\A x \in 1..n + m : y \notin g.nodes[x].after) <=> (\A x \in 1..n : y \notin f.nodes[x].after)
    <3>1. ASSUME NEW x \in 1..n + m, y \in g.nodes[x].after
          PROVE  \E k \in 1..n : y \in f.nodes[k].after
      <4>1. CASE x \in 1..n
        BY <2>3, <3>1, <4>1
      <4>2. ASSUME NEW k \in 1..m, x = n + k PROVE FALSE
        BY <1>2, <2>2, <3>1, <4>2
      <4> QED BY <1>11, <4>1, <4>2
    <3>2. ASSUME NEW x \in 1..n, y \in f.nodes[x].after
          PROVE  \E k \in 1..n + m : y \in g.nodes[k].after
      BY <1>9, <2>3, <3>2
    <3> QED BY <3>1, <3>2
  <2> QED BY <1>12, <1>13, <2>4, <2>5 DEF y
<1>17. ~ Leaf(g, q)
  <2>1. 1 \in 1..m /\ n + 1 \in 1..n + m /\ g.nodes[n + 1] = new[1] /\ g.nodes[q].id = at
    BY <1>1, <1>2, <1>7, <1>8
  <2> QED BY <1>3, <1>12, <2>1
<1>18. ASSUME NEW k \in 1..m - 1 PROVE ~ Leaf(g, n + k)
  <2>1. PICK j \in 1..m : new[k].id \in new[j].after
    BY <1>3
  <2>2. k \in 1..m /\ g.nodes[n + k] = new[k] /\ g.nodes[n + j] = new[j] /\ n + j \in 1..n + m
    BY <1>2, <1>8, <1>10
  <2> QED BY <1>12, <2>1, <2>2
<1>19. Leaf(g, n + m) <=> Leaf(f, q)
  <2>1. tail # at /\ \A j \in 1..m - 1 : tail # new[j].id
    <3>1. \A j \in 1..m - 1 : j # m
      BY <1>1
    <3> QED BY <1>7, <1>9, <1>10, <1>14, <1>15, <3>1
  <2>2. \A k \in 1..m : tail \notin new[k].after
    BY <1>3, <2>1
  <2>3. \A k \in 1..n : tail \notin f.nodes[k].after
    BY <1>6, <1>9, <1>10, <1>15
  <2>4. \A k \in 1..n : tail \in g.nodes[k].after <=> at \in f.nodes[k].after
    BY <1>2, <2>3
  <2>5. (\A x \in 1..n + m : tail \notin g.nodes[x].after) <=> (\A x \in 1..n : at \notin f.nodes[x].after)
    <3>1. ASSUME NEW x \in 1..n + m, tail \in g.nodes[x].after
          PROVE  \E k \in 1..n : at \in f.nodes[k].after
      <4>1. CASE x \in 1..n
        BY <2>4, <3>1, <4>1
      <4>2. ASSUME NEW k \in 1..m, x = n + k PROVE FALSE
        BY <1>2, <2>2, <3>1, <4>2
      <4> QED BY <1>11, <4>1, <4>2
    <3>2. ASSUME NEW x \in 1..n, at \in f.nodes[x].after
          PROVE  \E k \in 1..n + m : tail \in g.nodes[k].after
      BY <1>9, <2>4, <3>2
    <3> QED BY <3>1, <3>2
  <2> QED BY <1>7, <1>10, <1>12, <1>13, <1>15, <2>5
<1> QED BY <1>1, <1>2, <1>16, <1>17, <1>18, <1>19 DEF LeavesMoved, n, m

\* So a flow with a leaf keeps one, and a decider that comes before the node put
\* behind goes on deciding.
LEMMA DeciderStays ==
  ASSUME NEW f \in Flow, NEW g, NEW p, NEW v, NEW new, NEW q, PutBehind(f, g, p, v, new, q)
  PROVE  /\ HasLeaf(f) => HasLeaf(g)
         /\ \A d : Decider(f, d) /\ d < q => Decider(g, d)
<1> DEFINE n == Len(f.nodes)
           m == Len(new)
<1>1. /\ n \in Nat /\ m \in Nat \ {0} /\ Len(g.nodes) = n + m
      /\ \A i \in 1..n : i # q => (Leaf(g, i) <=> Leaf(f, i))
      /\ ~ Leaf(g, q)
      /\ \A k \in 1..m - 1 : ~ Leaf(g, n + k)
      /\ Leaf(g, n + m) <=> Leaf(f, q)
  BY LeavesMove DEF LeavesMoved
<1>2. q \in 1..n
  BY DEF PutBehind
<1>3. HasLeaf(f) => HasLeaf(g)
  <2> SUFFICES ASSUME NEW k \in 1..n, Leaf(f, k) PROVE \E i \in 1..n + m : Leaf(g, i)
    BY <1>1 DEF HasLeaf
  <2> HIDE DEF n, m
  <2> QED BY <1>1
<1>4. ASSUME NEW d, Decider(f, d), d < q PROVE Decider(g, d)
  <2>1. d \in 1..n /\ Leaf(f, d) /\ \A i \in 1..n : i > d => ~ Leaf(f, i)
    BY <1>4 DEF Decider
  <2> HIDE DEF n, m
  <2>2. d \in 1..n + m /\ Leaf(g, d)
    BY <1>1, <1>4, <2>1
  <2>3. ASSUME NEW i \in 1..n + m, i > d PROVE ~ Leaf(g, i)
    <3>1. CASE i \in 1..n
      BY <1>1, <2>1, <2>3, <3>1
    <3>2. CASE i = n + m
      BY <1>1, <1>2, <1>4, <2>1, <3>2
    <3>3. CASE i \notin 1..n /\ i # n + m
      <4>1. i - n \in 1..m - 1 /\ n + (i - n) = i
        BY <1>1, <3>3
      <4> QED BY <1>1, <4>1
    <3> QED BY <3>1, <3>2, <3>3
  <2> QED BY <1>1, <2>2, <2>3 DEF Decider
<1> QED BY <1>3, <1>4

\* The acceptance node is the decider where there is one.
LEMMA AcceptanceIsDecider ==
  ASSUME NEW f \in Flow, HasLeaf(f)
  PROVE  \E d : Decider(f, d) /\ AcceptanceID(f) = f.nodes[d].id
<1> DEFINE n == Len(f.nodes)
           tails == {i \in DOMAIN f.nodes : \A m \in Nodes(f) : f.nodes[i].id \notin m.after}
           d == Highest(tails)
<1>1. f.nodes \in Seq(Node) /\ DOMAIN f.nodes = 1..n /\ n \in Nat
  BY LenProperties DEF Flow
<1>2. \A i \in 1..n : i \in tails <=> Leaf(f, i)
  BY <1>1 DEF Leaf, Nodes
<1>3. tails \in SUBSET (1..n) /\ tails # {}
  BY <1>1, <1>2 DEF HasLeaf
<1>4. AcceptanceID(f) = f.nodes[d].id
  BY <1>3 DEF AcceptanceID
<1> HIDE DEF tails
<1>5. d \in tails /\ \A k \in tails : k <= d
  BY <1>1, <1>3, HighestOf
<1> HIDE DEF d
<1>6. d \in 1..n /\ Leaf(f, d)
  BY <1>2, <1>3, <1>5
<1>7. \A i \in 1..n : i > d => ~ Leaf(f, i)
  BY <1>1, <1>2, <1>5, <1>6
<1> QED BY <1>4, <1>6, <1>7 DEF Decider

\* Of numbers one to a place some place has the greatest.
LEMMA GreatestAt ==
  ASSUME NEW n \in Nat \ {0}, NEW s, \A i \in 1..n : s[i] \in Nat
  PROVE  \E k \in 1..n : \A i \in 1..n : s[i] <= s[k]
<1> DEFINE above(k) == {i \in 1..n : s[i] >= s[k]}
           sizes == {Cardinality(above(k)) : k \in 1..n}
<1>1. ASSUME NEW k \in 1..n
      PROVE  IsFiniteSet(above(k)) /\ Cardinality(above(k)) \in 1..n
  <2>1. IsFiniteSet(1..n) /\ Cardinality(1..n) = n
    <3>1. 1 \in Int /\ n \in Int /\ 1 <= n
      OBVIOUS
    <3> QED BY <3>1, FS_Interval
  <2>2. above(k) \subseteq 1..n /\ k \in above(k)
    OBVIOUS
  <2>3. IsFiniteSet(above(k)) /\ Cardinality(above(k)) <= n
    BY <2>1, <2>2, FS_Subset
  <2>4. Cardinality(above(k)) \in Nat /\ Cardinality(above(k)) # 0
    BY <2>2, <2>3, FS_CardinalityType, FS_EmptySet
  <2> QED BY <2>3, <2>4
<1>2. sizes \in SUBSET (1..n) /\ sizes # {}
  <2> HIDE DEF above
  <2>1. 1 \in 1..n
    OBVIOUS
  <2> QED BY <1>1, <2>1
<1>3. PICK c \in sizes : \A e \in sizes : c <= e
  <2> HIDE DEF sizes
  <2> QED BY <1>2, Extremes
<1>4. PICK k \in 1..n : c = Cardinality(above(k))
  OBVIOUS
<1>5. ASSUME NEW i \in 1..n, s[i] > s[k] PROVE FALSE
  <2>1. above(i) \subseteq above(k) /\ k \in above(k) /\ k \notin above(i)
    BY <1>5
  <2>2. Cardinality(above(i)) < Cardinality(above(k))
    <3>1. above(i) # above(k) /\ IsFiniteSet(above(k))
      BY <1>1, <2>1
    <3> HIDE DEF above
    <3>2. /\ IsFiniteSet(above(i)) /\ Cardinality(above(i)) <= Cardinality(above(k))
          /\ Cardinality(above(i)) = Cardinality(above(k)) => above(i) = above(k)
      BY <2>1, <3>1, FS_Subset
    <3>3. Cardinality(above(i)) \in 1..n /\ Cardinality(above(k)) \in 1..n
      BY <1>1
    <3> QED BY <3>1, <3>2, <3>3
  <2>3. Cardinality(above(i)) \in sizes
    OBVIOUS
  <2>4. Cardinality(above(i)) \in 1..n /\ Cardinality(above(k)) \in 1..n
    BY <1>1
  <2> HIDE DEF above, sizes
  <2> QED BY <1>3, <1>4, <2>2, <2>3, <2>4
<1> QED BY <1>5

\* A node of the last stage is a leaf of the happy path.
LEMMA MintedLeaf ==
  ASSUME NEW f, f.nodes = Minted
  PROVE  HasLeaf(f)
<1> DEFINE n == Len(Path)
           s == [i \in 1..n |-> Path[i][2]]
           ups(k) == {StageId(i) : i \in {i \in DOMAIN Path : Path[i][2] = Path[k][2] - 1}}
<1>1. n \in Nat \ {0} /\ DOMAIN Path = 1..n
  BY FlowAssumption, LenProperties, EmptySeq
<1>2. Minted = [k \in 1..n |-> NewNode(StageId(k), ups(k), None, k)]
  BY <1>1 DEF Minted
<1>3. \A i \in 1..n : s[i] = Path[i][2] /\ s[i] \in Nat
  <2>1. \A i \in 1..n : Path[i] \in Roles \X Nat
    BY FlowAssumption, ElementOfSeq
  <2> QED BY <2>1
<1>4. Len(Minted) = n
  BY <1>1, <1>2
<1>5. ASSUME NEW k \in 1..n, NEW up \in ups(k)
      PROVE  \E i \in 1..n : up = StageId(i) /\ s[i] = s[k] - 1
  BY <1>1, <1>3
<1> HIDE DEF n, s, ups
<1>6. ASSUME NEW k \in 1..n PROVE Minted[k].id = StageId(k) /\ Minted[k].after = ups(k)
  <2>1. Minted[k] = NewNode(StageId(k), ups(k), None, k)
    BY <1>2
  <2> QED BY ONLY <2>1, NewNodeFields
<1>7. PICK k \in 1..n : \A i \in 1..n : s[i] <= s[k]
  BY <1>1, <1>3, GreatestAt
<1>8. ASSUME NEW i \in 1..n, Minted[k].id \in Minted[i].after PROVE FALSE
  <2>1. PICK j \in 1..n : StageId(k) = StageId(j) /\ s[j] = s[i] - 1
    BY <1>5, <1>6, <1>8
  <2>2. j = k
    BY <1>4, <1>6, <2>1, MintedGraph DEF Graph, Distinct
  <2> QED BY <1>3, <1>7, <2>1, <2>2
<1> QED BY <1>4, <1>8 DEF HasLeaf, Leaf

(***************************************************************************)
(* What a verdict and a request do to the flow: a stamp, and perhaps a      *)
(* chain behind a node, the first of one, or a group.                       *)
(***************************************************************************)
Stamping(f, g, p, v) == Len(g.nodes) = Len(f.nodes) /\ Dressed(f, g, p, v) /\ Still(f, g)
Chaining(f, g, p, v, at, new) ==
  /\ Adds(f, g, p, v, new) /\ Moved(f, g, at, new) /\ ChainOf(new, at) /\ RoundOf(f, at, new)
  /\ Len(new) \in Nat \ {0}
Grouping(f, g, p, v, at, new) ==
  /\ Adds(f, g, p, v, new) /\ Moved(f, g, at, new) /\ GroupOf(new, at) /\ RoundOf(f, at, new)
  /\ Len(new) \in Nat
Cutting(f, g, p, v, at, new) ==
  /\ Adds(f, g, p, v, new) /\ Still(f, g) /\ ChainOf(new, at) /\ RoundOf(f, at, new)

\* The node the pass is at has no verdict, and is not one it has gone by.
LEMMA HereIsNew ==
  ASSUME Typed, Routing, Graph(mem.nodes)
  PROVE  /\ mem \in Flow /\ Laid(mem) /\ At \in 1..Len(mem.nodes) /\ Here = mem.nodes[At]
         /\ Here \in Node /\ Here.id \in Id /\ Here.job \in JobIds
         /\ Here.seen = "" /\ idx <= At /\ mem.status # "none"
<1>1. At \in idx..total /\ idx \in Nat
  BY AtIsNews DEF Routing, Typed, LoopTyped
<1>2. idx <= At
  BY <1>1
<1>3. mem.status # "none"
  BY HereIsNode
<1> QED BY <1>2, <1>3, HereIsLaid, HereIsUnseen

\* A pass that only stamps leaves the deciders alone.
LEMMA StampMoves ==
  ASSUME Typed, Routing, Graph(mem.nodes), NEW v \in Verdicts, NEW s \in Statuses,
         mem' = Stamped(v) \/ mem' = [Stamped(v) EXCEPT !.status = s]
  PROVE  Stamping(mem, mem', At, v) /\ mem'.status \in {mem.status, s}
<1> DEFINE h == Stamped(v)
<1>1. h = Stamp(mem, At, v)
  BY DEF Stamped, Stamp
<1>2. mem' \in {h, [h EXCEPT !.status = s]}
  OBVIOUS
<1> HIDE DEF h
<1>3. /\ h \in Flow /\ h.status = mem.status
      /\ Len(h.nodes) = Len(mem.nodes) /\ Dressed(mem, h, At, v) /\ Still(mem, h)
  <2>1. mem \in Flow /\ At \in 1..Len(mem.nodes) /\ v \in Verdicts
    BY HereIsNew
  <2> QED BY ONLY <1>1, <2>1, StampPut
<1>4. mem'.nodes = h.nodes /\ mem'.status \in {h.status, s}
  BY <1>2, <1>3 DEF Flow
<1> QED BY <1>3, <1>4 DEF Stamping, Dressed, Still

\* What a verdict v that inserts nothing says: the run goes on, or is blocked for a
\* node of the plan, or by the acceptance node.
Plainly(v) ==
  /\ v = "terminal-no-report" \/ ReportExists(Here.job)
  /\ \/ /\ mem'.status = mem.status
        /\ IF v = "terminal-no-report" THEN Here.by # None ELSE ~ Deciding
     \/ /\ mem'.status = "blocked" /\ writes' = Reap(Unreported(Stamped(v)))
        /\ \/ Here.by = None /\ v \in {"blocked", "terminal-no-report"}
           \/ Deciding /\ v \in {"ok", "none", "blocked"}

\* The verdicts that insert nothing and do not complete the run.
LEMMA PlainMoves ==
  ASSUME Typed, Graph(mem.nodes),
         \/ RouteEnded \/ RouteBlocked
         \/ \E v \in {"draft", "ok", "blocked"} : RouteUndecided(v)
         \/ \E v \in {"draft", "ok", "complete"} : RouteProceed(v)
  PROVE  \E v \in Verdicts : /\ Stamping(mem, mem', At, v) /\ mem'.status \in {mem.status, "blocked"}
                             /\ Plainly(v)
<1>1. ASSUME Routing, NEW v \in Verdicts, mem' \in {Stamped(v), Blocked(Stamped(v))}
      PROVE  /\ Stamping(mem, mem', At, v) /\ mem'.status \in {mem.status, "blocked"}
             /\ mem' = Stamped(v) => mem'.status = mem.status
             /\ mem' = Blocked(Stamped(v)) => mem'.status = "blocked"
  <2>1. mem' = Stamped(v) \/ mem' = [Stamped(v) EXCEPT !.status = "blocked"]
    BY <1>1 DEF Blocked
  <2>2. "blocked" \in Statuses
    BY DEF Statuses
  <2> DEFINE h == Stamped(v)
  <2>3. h \in Flow /\ h.status = mem.status
    <3>1. h = Stamp(mem, At, v)
      BY DEF Stamped, Stamp
    <3>2. mem \in Flow /\ At \in 1..Len(mem.nodes)
      BY <1>1, HereIsNew
    <3> HIDE DEF h
    <3> QED BY <1>1, <3>1, <3>2, StampPut
  <2>4. Blocked(h).status = "blocked"
    <3> HIDE DEF h
    <3> QED BY <2>3 DEF Blocked, Flow
  <2> QED BY <1>1, <2>1, <2>2, <2>3, <2>4, StampMoves
<1>2. {"terminal-no-report", "complete", "blocked", "ok", "none"} \subseteq Verdicts
  BY DEF Verdicts, Stamps
<1>3. ASSUME NEW v, Verdict(v), v # "none" PROVE ReportExists(Here.job)
  BY <1>3 DEF Verdict, ReportExists
<1>4. CASE RouteEnded
  <2> DEFINE v == "terminal-no-report"
             by == Here.by
             Becomes(g) == mem' = g
             Cut(g) == mem' = Blocked(g) /\ writes' = Reap(Unreported(g))
  <2>1. Routing /\ v \in Verdicts
    BY <1>2, <1>4 DEF RouteEnded
  <2>2. (by = None /\ Cut(Stamped(v))) \/ (by # None /\ Becomes(Stamped(v)))
    BY <1>4, Zenon DEF RouteEnded, Onward
  <2>3. v = "terminal-no-report"
    OBVIOUS
  <2> HIDE DEF v, by
  <2>4. /\ Stamping(mem, mem', At, v) /\ mem'.status \in {mem.status, "blocked"}
        /\ mem' = Stamped(v) => mem'.status = mem.status
        /\ mem' = Blocked(Stamped(v)) => mem'.status = "blocked"
    BY <1>1, <2>1, <2>2
  <2>5. Plainly(v)
    BY <2>2, <2>3, <2>4 DEF Plainly, by
  <2> QED BY <2>1, <2>4, <2>5
<1>5. CASE RouteBlocked
  <2> DEFINE v == "blocked"
             by == Here.by
             Becomes(g) == mem' = g
             Cut(g) == mem' = Blocked(g) /\ writes' = Reap(Unreported(g))
  <2>1. Routing /\ v \in Verdicts /\ Verdict(v) /\ ~ Deciding
    BY <1>2, <1>5 DEF RouteBlocked, Verdict
  <2>2. (by = None /\ Cut(Stamped(v))) \/ (by # None /\ Becomes(Stamped(v)))
    BY <1>5, Zenon DEF RouteBlocked, Onward
  <2>3. v = "blocked"
    OBVIOUS
  <2> HIDE DEF v, by
  <2>4. /\ Stamping(mem, mem', At, v) /\ mem'.status \in {mem.status, "blocked"}
        /\ mem' = Stamped(v) => mem'.status = mem.status
        /\ mem' = Blocked(Stamped(v)) => mem'.status = "blocked"
    BY <1>1, <2>1, <2>2
  <2>5. Plainly(v)
    BY <1>3, <2>1, <2>2, <2>3, <2>4 DEF Plainly, by
  <2> QED BY <2>1, <2>4, <2>5
<1>6. ASSUME NEW u \in {"draft", "ok", "blocked"}, RouteUndecided(u)
      PROVE  \E v \in Verdicts : /\ Stamping(mem, mem', At, v) /\ mem'.status \in {mem.status, "blocked"}
                                 /\ Plainly(v)
  <2> DEFINE v == Seen(u)
  <2>1. Routing /\ v \in Verdicts /\ Verdict(u) /\ Deciding /\ v \in {"ok", "none", "blocked"}
    BY <1>2, <1>6 DEF RouteUndecided, Verdict, Seen
  <2>2. mem' = Blocked(Stamped(v)) /\ writes' = Reap(Unreported(Stamped(v)))
    BY <1>6, Zenon DEF RouteUndecided, Onward
  <2> HIDE DEF v
  <2>3. /\ Stamping(mem, mem', At, v) /\ mem'.status \in {mem.status, "blocked"}
        /\ mem'.status = "blocked"
    BY <1>1, <2>1, <2>2
  <2>4. Plainly(v)
    BY <1>3, <2>1, <2>2, <2>3 DEF Plainly
  <2> QED BY <2>1, <2>3, <2>4
<1>7. ASSUME NEW u \in {"draft", "ok", "complete"}, RouteProceed(u)
      PROVE  \E v \in Verdicts : /\ Stamping(mem, mem', At, v) /\ mem'.status \in {mem.status, "blocked"}
                                 /\ Plainly(v)
  <2> DEFINE v == Seen(u)
  <2>1. Routing /\ v \in Verdicts /\ Verdict(u) /\ ~ Deciding /\ v # "terminal-no-report"
    BY <1>2, <1>7 DEF RouteProceed, Verdict, Seen
  <2>2. mem' = Stamped(v)
    BY <1>7, Zenon DEF RouteProceed, Onward
  <2> HIDE DEF v
  <2>3. /\ Stamping(mem, mem', At, v) /\ mem'.status \in {mem.status, "blocked"}
        /\ mem'.status = mem.status
    BY <1>1, <2>1, <2>2
  <2>4. Plainly(v)
    BY <1>3, <2>1, <2>2, <2>3 DEF Plainly
  <2> QED BY <2>1, <2>3, <2>4
<1> QED BY <1>4, <1>5, <1>6, <1>7

\* complete, of the acceptance node.
LEMMA CompleteMoves ==
  ASSUME Typed, Graph(mem.nodes), RouteComplete
  PROVE  /\ Stamping(mem, mem', At, "complete") /\ mem'.status = "complete"
         /\ Routing /\ Deciding /\ report[Here.job] = "complete"
<1> DEFINE v == "complete"
           s == "complete"
           h == Stamped(v)
<1>1. /\ Routing /\ Deciding /\ report[Here.job] = v
      /\ mem' = [h EXCEPT !.status = s]
  BY Zenon DEF RouteComplete, Verdict, Onward
<1>2. v \in Verdicts /\ s \in Statuses
  BY DEF Verdicts, Stamps, Statuses
<1>3. Stamping(mem, mem', At, v)
  <2> HIDE DEF v, s
  <2> QED BY <1>1, <1>2, StampMoves
<1>4. mem'.status = s
  <2>1. h = Stamp(mem, At, v)
    BY DEF Stamped, Stamp
  <2>2. mem \in Flow /\ At \in 1..Len(mem.nodes)
    BY <1>1, HereIsNew
  <2> HIDE DEF h, v, s
  <2>3. h \in Flow
    BY <1>2, <2>1, <2>2, StampPut
  <2> QED BY <1>1, <2>3 DEF Flow
<1> QED BY <1>1, <1>3, <1>4

\* What an insertion that was cut short writes: what it minted goes, with the rest.
Undoing(new, ws) ==
  ws = MintWrites(new) \o Reap(Unreported(Stamped("needs-work")) \cup {new[i].job : i \in 1..Len(new)})

\* needs-work: a remediation, an escalation or a stop.
LEMMA NeedsWorkMoves ==
  ASSUME Typed, Graph(mem.nodes), RouteNeedsWork
  PROVE  /\ Routing /\ report[Here.job] = "needs-work"
         /\ \/ Stamping(mem, mem', At, "needs-work") /\ mem'.status = mem.status /\ ~ Deciding
            \/ /\ mem'.status = "blocked"
               /\ Deciding \/ Here.id[1] \in DOMAIN Edges
               /\ \E new : /\ Cutting(mem, mem', At, "needs-work", Here.id, new)
                           /\ Undoing(new, writes')
            \/ /\ mem'.status \in {mem.status, "running"} /\ (Deciding \/ mem'.status = mem.status)
               /\ \E new : Chaining(mem, mem', At, "needs-work", Here.id, new)
<1> DEFINE v == "needs-work"
           h == Stamped(v)
           at == Here.id
           roles == Exception
           k == Mintable(mem, roles)
           part == SubSeq(ChainNodes(h, at, roles), 1, k)
           failed == Blocked([h EXCEPT !.round = @ + 1, !.nodes = @ \o part])
           new == ChainNodes(h, at, roles)
           g == Inserted(h, at, roles)
           undone == MintWrites(part) \o Reap(Unreported(h) \cup {new[i].job : i \in 1..k})
<1>1. Routing /\ v \in Verdicts /\ report[Here.job] = v
  BY DEF RouteNeedsWork, Verdict, Verdicts, Stamps
<1>2. /\ IdsLeft(k)
      /\ \/ roles = <<>> /\ mem' = h
         \/ roles # <<>> /\ k < Len(roles) /\ mem' = failed /\ writes' = undone
         \/ /\ roles # <<>> /\ ~ (k < Len(roles))
            /\ mem' = g \/ (Deciding /\ mem' = [g EXCEPT !.status = "running"])
  <2> HIDE DEF v
  <2> QED BY Zenon DEF RouteNeedsWork, Onward, v
<1>12. /\ roles = <<>> => ~ Deciding
       /\ roles # <<>> => Deciding \/ Here.id[1] \in DOMAIN Edges
  <2> DEFINE d == <<"amend", "validate">>
  <2>1. d # <<>> /\ \A role \in DOMAIN Edges : Edges[role] # <<>>
    BY FlowAssumption
  <2> HIDE DEF d
  <2>2. roles = IF Here.id[1] \in DOMAIN Edges THEN Edges[Here.id[1]]
                ELSE IF Deciding THEN d ELSE <<>>
    BY DEF Exception, d
  <2> HIDE DEF roles
  <2> QED BY ONLY <2>1, <2>2, Zenon
<1>3. /\ mem \in Flow /\ Laid(mem) /\ At \in 1..Len(mem.nodes) /\ at \in Id
  BY <1>1, HereIsNew
<1>4. h = Stamp(mem, At, v)
  BY DEF Stamped, Stamp
<1> HIDE DEF h
<1>5. /\ h \in Flow /\ h.status = mem.status /\ h.round = mem.round
      /\ Len(h.nodes) = Len(mem.nodes) /\ Dressed(mem, h, At, v) /\ Still(mem, h)
  <2> HIDE DEF v
  <2> QED BY <1>1, <1>3, <1>4, StampPut
<1>6. roles \in Seq(Roles) /\ Len(roles) \in Nat
  BY ExceptionRoles, LenProperties
<1>7. k \in 0..Len(roles)
  <2>1. Len(mem.nodes) <= NodeMax
    BY <1>1, HereIsNode DEF Fits
  <2> QED BY <1>3, <1>6, <2>1, MintableRoom
<1>8. Len(mem.nodes) \in Nat
  <2>1. mem.nodes \in Seq(Node)
    BY <1>3 DEF Flow
  <2> QED BY <2>1, LenProperties
<1>13. undone = MintWrites(part) \o Reap(Unreported(h) \cup {part[i].job : i \in 1..Len(part)})
  <2>1. RoundOf(h, at, part) /\ Len(part) = k
    BY <1>2, <1>3, <1>5, <1>6, <1>7, ChainIsRound
  <2>2. \A i \in 1..k : i \in 1..Len(roles)
    BY <1>6, <1>7
  <2>3. \A i \in 1..k : new[i].job = NextJob + i - 1
    BY <1>3, <1>5, <1>6, <2>2, ChainNodeFields
  <2>4. \A i \in 1..k : part[i].job = NextJob + i - 1
    BY <2>1 DEF RoundOf
  <2> HIDE DEF part, new
  <2>5. {new[i].job : i \in 1..k} = {part[i].job : i \in 1..Len(part)}
    BY <2>1, <2>3, <2>4
  <2> QED BY <2>5
<1>14. writes' = undone => Undoing(part, writes')
  <2> HIDE DEF part, undone
  <2>1. Unreported(h) = Unreported(Stamped("needs-work"))
    BY DEF h
  <2> QED BY ONLY <1>13, <2>1, Zenon DEF Undoing
<1>15. Routing /\ report[Here.job] = "needs-work"
  BY <1>1
<1> HIDE DEF at, roles, k, v, undone
<1>9. CASE roles = <<>> /\ mem' = h
  <2>1. Stamping(mem, mem', At, v) /\ mem'.status = mem.status
    BY <1>5, <1>9 DEF Stamping
  <2> QED BY <1>9, <1>12, <1>15, <2>1 DEF v
<1>10. CASE roles # <<>> /\ k < Len(roles) /\ mem' = failed /\ writes' = undone
  <2> HIDE DEF part
  <2>1. failed.nodes = h.nodes \o part /\ failed.status = "blocked"
    BY <1>5 DEF Blocked, Flow
  <2> HIDE DEF failed
  <2>2. Adds(h, failed, 0, v, part) /\ Still(h, failed) /\ ChainOf(part, at) /\ RoundOf(h, at, part)
    BY <1>2, <1>3, <1>5, <1>6, <1>7, <2>1, PartPut DEF part
  <2>3. Adds(mem, failed, At, v, part) /\ Still(mem, failed)
    BY <1>5, <1>8, <2>2, PutFrom
  <2>4. RoundOf(mem, at, part)
    BY <1>5, <2>2 DEF RoundOf
  <2>5. Cutting(mem, mem', At, v, at, part)
    BY <1>10, <2>2, <2>3, <2>4 DEF Cutting
  <2>6. mem'.status = "blocked" /\ Undoing(part, writes')
    BY <1>10, <1>14, <2>1
  <2>7. Deciding \/ Here.id[1] \in DOMAIN Edges
    BY <1>10, <1>12
  <2> QED BY ONLY <1>15, <2>5, <2>6, <2>7 DEF v, at
<1>11. CASE /\ roles # <<>> /\ ~ (k < Len(roles))
            /\ mem' = g \/ (Deciding /\ mem' = [g EXCEPT !.status = "running"])
  <2>1. IdsLeft(Len(roles)) /\ roles # <<>>
    <3>1. k = Len(roles)
      BY <1>6, <1>7, <1>11
    <3> QED BY <1>2, <1>11, <3>1
  <2>2. mem'.status \in {mem.status, "running"} /\ (Deciding \/ mem'.status = mem.status)
    BY <1>5, <1>11 DEF Inserted, Flow
  <2>3. mem' = Inserted(h, at, roles) \/ mem' = [Inserted(h, at, roles) EXCEPT !.status = "running"]
    BY <1>11
  <2> HIDE DEF new, g
  <2>4. /\ Adds(h, mem', 0, v, new) /\ Moved(h, mem', at, new) /\ ChainOf(new, at)
        /\ RoundOf(h, at, new) /\ Len(new) \in Nat \ {0}
    BY <1>3, <1>5, <1>6, <2>1, <2>3, ChainPut DEF new
  <2>5. Adds(mem, mem', At, v, new) /\ Moved(mem, mem', at, new)
    BY <1>5, <1>8, <2>4, PutFrom
  <2>6. RoundOf(mem, at, new)
    BY <1>5, <2>4 DEF RoundOf
  <2>7. Chaining(mem, mem', At, v, at, new)
    BY <2>4, <2>5, <2>6 DEF Chaining
  <2> QED BY ONLY <1>15, <2>2, <2>7 DEF v, at
<1> QED BY <1>2, <1>9, <1>10, <1>11

\* A fan-out behind the emitter.
LEMMA EmitMoves ==
  ASSUME Typed, Graph(mem.nodes), RouteEmit
  PROVE  /\ mem'.status = mem.status
         /\ \E new : Grouping(mem, mem', At, "ok", Here.id, new)
<1> DEFINE n == Here
           new == GroupNodes(mem, n)
<1>1. /\ Routing /\ EmissionFits(mem, n) /\ IdsLeft(emits[n.job] + 1) /\ mem' = Emitted(mem, At)
  BY DEF RouteEmit, Onward
<1>2. /\ mem \in Flow /\ At \in 1..Len(mem.nodes) /\ n = mem.nodes[At]
      /\ n \in Node /\ n.job \in JobIds
  BY <1>1, HereIsNew
<1>3. n.id[1] \in DOMAIN Emitters /\ emits[n.job] \in Nat \ {0}
  <2>1. emits \in [JobIds -> Nat]
    BY DEF Typed, SessionsTyped
  <2>2. emits[n.job] \in Nat
    BY <1>2, <2>1
  <2>3. n.id[1] \in DOMAIN Emitters /\ emits[n.job] \in 1..Emitters[n.id[1]].max
    BY <1>1 DEF EmissionFits
  <2> QED BY <2>2, <2>3
<1> HIDE DEF n, new
<1>4. /\ Adds(mem, mem', At, "ok", new) /\ Moved(mem, mem', n.id, new) /\ GroupOf(new, n.id)
      /\ RoundOf(mem, n.id, new) /\ mem'.status = mem.status
  BY <1>1, <1>2, <1>3, GroupPut DEF new
<1>5. Len(new) \in Nat
  BY <1>4, LenProperties DEF RoundOf
<1> QED BY <1>4, <1>5 DEF Grouping, n

\* An append request that is granted.
LEMMA SpoolMoves ==
  ASSUME Typed, SpoolAppend
  PROVE  \/ mem' = mem
         \/ /\ flow.status # "none" /\ ~ FlowTerminal(flow) /\ mem'.status = flow.status
            /\ \E q \in 1..Len(flow.nodes) : \E new :
                 Chaining(flow, mem', 0, "", flow.nodes[q].id, new)
<1> DEFINE at == AcceptanceID(flow)
           roles == AppendRoles
           k == Mintable(flow, roles)
           new == ChainNodes(flow, at, roles)
           v == ""
<1>1. \/ mem' = mem
      \/ /\ flow.status # "none" /\ ~ FlowTerminal(flow) /\ IdsLeft(k) /\ k = Len(roles)
         /\ mem' = Inserted(flow, at, roles)
  BY Zenon DEF SpoolAppend
<1>2. flow \in Flow /\ Fits(flow)
  BY DEF Typed, FlowsTyped
<1>3. CASE /\ flow.status # "none" /\ ~ FlowTerminal(flow) /\ IdsLeft(k) /\ k = Len(roles)
           /\ mem' = Inserted(flow, at, roles)
  <2>1. flow.nodes # <<>>
    BY <1>2, <1>3, LiveHasNodes
  <2>2. PICK q \in 1..Len(flow.nodes) : at = flow.nodes[q].id
    BY <1>2, <2>1, AcceptanceIsNode
  <2>3. at \in Id
    <3>1. flow.nodes[q] \in Node
      BY <1>2, ElementOfSeq DEF Flow
    <3> QED BY <2>2, <3>1 DEF Node
  <2>4. roles \in Seq(Roles) /\ roles # <<>>
    BY FlowAssumption
  <2>5. IdsLeft(Len(roles))
    BY <1>3
  <2>6. mem'.status = flow.status
    BY <1>2, <1>3 DEF Inserted, Flow
  <2> HIDE DEF at, roles, k, new, v
  <2>7. /\ Adds(flow, mem', 0, v, new) /\ Moved(flow, mem', at, new) /\ ChainOf(new, at)
        /\ RoundOf(flow, at, new) /\ Len(new) \in Nat \ {0}
    BY <1>2, <1>3, <2>3, <2>4, <2>5, ChainPut DEF new
  <2>8. Chaining(flow, mem', 0, v, at, new)
    BY <2>7 DEF Chaining
  <2> QED BY <1>3, <2>2, <2>6, <2>8 DEF v
<1> QED BY <1>1, <1>3

(***************************************************************************)
(* A complete run is one the acceptance node completed.                     *)
(***************************************************************************)
\* The decider of f, at d, has reported complete and been seen to.
Settles(f, d) ==
  Decider(f, d) /\ f.nodes[d].seen = "complete" /\ report[f.nodes[d].job] = "complete"
Leafed(f) == f.status \notin {"none", "blocked"} => HasLeaf(f)

\* A flow that may go on has a leaf.  One that is complete was settled, and the
\* verdict pass that settled it has gone by that node: what it inserts after the
\* verdict comes behind later nodes, which are no leaves.
Decisive ==
  /\ Leafed(flow) /\ Leafed(mem)
  /\ flow.status = "complete" => \E d : Settles(flow, d)
  /\ mem.status = "complete" => \E d : Settles(mem, d) /\ (pc = "route" => d < idx)

\* The leaves depend on the nodes alone.
LEMMA SameLeaves ==
  ASSUME NEW f, NEW g, g.nodes = f.nodes
  PROVE  (HasLeaf(g) <=> HasLeaf(f)) /\ \A d : Settles(g, d) <=> Settles(f, d)
BY DEF HasLeaf, Leaf, Settles, Decider

\* What is settled stays so while the reports that say so do.
LEMMA SettlesOn ==
  ASSUME NEW f \in Flow, NEW d, Settles(f, d),
         \A j \in JobIds : report[j] = "complete" => report'[j] = "complete"
  PROVE  Decider(f, d) /\ f.nodes[d].seen = "complete" /\ report'[f.nodes[d].job] = "complete"
<1>1. d \in 1..Len(f.nodes) /\ f.nodes \in Seq(Node)
  BY DEF Settles, Decider, Flow
<1>2. f.nodes[d] \in Node
  BY <1>1, ElementOfSeq
<1>3. f.nodes[d].job \in JobIds
  BY <1>2 DEF Node
<1> QED BY <1>3 DEF Settles

\* Nodes added behind one the pass had not gone by leave a settled copy settled.
LEMMA SettledBefore ==
  ASSUME NEW f \in Flow, NEW g, NEW new, NEW v, NEW q, PutBehind(f, g, q, v, new, q),
         NEW d, Settles(f, d), d < q
  PROVE  Settles(g, d)
<1>1. Decider(g, d)
  BY DeciderStays DEF Settles
<1>2. d \in 1..Len(f.nodes) /\ q \in 1..Len(f.nodes) /\ Len(f.nodes) \in Nat
  BY LeavesMove DEF Settles, Decider, PutBehind, LeavesMoved
<1>3. g.nodes[d].seen = f.nodes[d].seen /\ g.nodes[d].job = f.nodes[d].job
  BY <1>2 DEF PutBehind, Adds, Dressed
<1> QED BY <1>1, <1>3 DEF Settles

\* What is before the node a pass is at is before the next one.
LEMMA Before ==
  ASSUME NEW a \in Nat, NEW i \in Nat, i <= a
  PROVE  a < a + 1 /\ \A d \in Nat : d < i => d < a /\ d # a /\ d < a + 1
OBVIOUS

\* The verdict pass keeps what is settled settled.
LEMMA RouteDecisive ==
  ASSUME FanInApart, Typed, Wired, Decisive, Route, Graph(mem'.nodes)
  PROVE  /\ Leafed(mem')
         /\ mem'.status = "complete" => \E d : Settles(mem', d) /\ d < At + 1
<1>1. Routing
  BY RouteActs
<1>2. /\ mem \in Flow /\ Graph(mem.nodes) /\ At \in 1..Len(mem.nodes) /\ Here = mem.nodes[At]
      /\ Here.seen = "" /\ idx <= At /\ mem.status # "none" /\ idx \in Nat /\ At \in Nat
  <2>1. Graph(mem.nodes) /\ idx \in Nat
    BY DEF Wired, Typed, LoopTyped
  <2>2. At \in 1..Len(mem.nodes) /\ mem.nodes \in Seq(Node)
    BY <1>1, <2>1, HereIsNew DEF Flow
  <2>3. At \in Nat
    BY <2>2, LenProperties
  <2> QED BY <1>1, <2>1, <2>3, HereIsNew
<1>3. HasLeaf(mem)
  BY <1>1, <1>2 DEF Routing, Decisive, Leafed
<1>4. mem.status = "complete" => \E d : Settles(mem, d) /\ d < idx
  BY <1>1 DEF Routing, Decisive
<1>5. ASSUME NEW v, Stamping(mem, mem', At, v), mem'.status \in {mem.status, "blocked"}
      PROVE  /\ HasLeaf(mem')
             /\ mem'.status = "complete" => \E d : Settles(mem', d) /\ d < At + 1
  <2>1. HasLeaf(mem')
    BY <1>3, <1>5, LeavesStay DEF Stamping
  <2>2. ASSUME mem'.status = "complete" PROVE \E d : Settles(mem', d) /\ d < At + 1
    <3>1. PICK d : Settles(mem, d) /\ d < idx
      BY <1>4, <1>5, <2>2
    <3>2. d \in 1..Len(mem.nodes) /\ Decider(mem', d)
      BY <1>5, <3>1, LeavesStay DEF Stamping, Settles, Decider
    <3>3. d # At /\ d < At + 1
      <4>1. d \in Nat
        BY <3>2
      <4> QED BY <1>2, <3>1, <4>1, Before, Zenon
    <3>4. mem'.nodes[d].seen = mem.nodes[d].seen /\ mem'.nodes[d].job = mem.nodes[d].job
      BY <1>5, <3>2, <3>3 DEF Stamping, Dressed
    <3> QED BY <3>1, <3>2, <3>3, <3>4 DEF Settles
  <2> QED BY <2>1, <2>2
<1>6. ASSUME NEW v, NEW new, PutBehind(mem, mem', At, v, new, At),
             mem'.status \in {mem.status, "running"}
      PROVE  /\ HasLeaf(mem')
             /\ mem'.status = "complete" => \E d : Settles(mem', d) /\ d < At + 1
  <2>1. HasLeaf(mem')
    BY <1>2, <1>3, <1>6, DeciderStays
  <2>2. ASSUME mem'.status = "complete" PROVE \E d : Settles(mem', d) /\ d < At + 1
    <3>1. PICK d : Settles(mem, d) /\ d < idx
      BY <1>4, <1>6, <2>2
    <3>2. d \in Nat
      BY <3>1 DEF Settles, Decider
    <3>3. d < At /\ d < At + 1
      BY <1>2, <3>1, <3>2, Before, Zenon
    <3>4. Settles(mem', d)
      BY <1>2, <1>6, <3>1, <3>3, SettledBefore
    <3> QED BY <3>3, <3>4
  <2> QED BY <2>1, <2>2
<1>7. ASSUME \E v \in Verdicts : Stamping(mem, mem', At, v) /\ mem'.status \in {mem.status, "blocked"}
      PROVE  /\ Leafed(mem')
             /\ mem'.status = "complete" => \E d : Settles(mem', d) /\ d < At + 1
  BY <1>5, <1>7 DEF Leafed
<1>8. CASE RouteComplete
  <2>1. /\ Stamping(mem, mem', At, "complete") /\ mem'.status \in {mem.status, "complete"}
        /\ Deciding /\ report[Here.job] = "complete"
    BY <1>2, <1>8, CompleteMoves
  <2>2. PICK d : Decider(mem, d) /\ AcceptanceID(mem) = mem.nodes[d].id
    BY <1>2, <1>3, AcceptanceIsDecider
  <2>3. d = At
    <3>1. mem.nodes[d].id = mem.nodes[At].id /\ d \in 1..Len(mem.nodes)
      BY <1>2, <2>1, <2>2 DEF Deciding, Decider
    <3> QED BY <1>2, <3>1 DEF Graph, Distinct
  <2>4. Decider(mem', At) /\ HasLeaf(mem')
    BY <1>3, <2>1, <2>2, <2>3, LeavesStay DEF Stamping
  <2>5. mem'.nodes[At].seen = "complete" /\ mem'.nodes[At].job = Here.job
    BY <1>2, <2>1 DEF Stamping, Dressed
  <2>6. At < At + 1
    BY <1>2, Before, Zenon
  <2> QED BY <2>1, <2>4, <2>5, <2>6 DEF Settles, Leafed
<1>9. CASE RouteNeedsWork
  <2> DEFINE v == "needs-work"
             at == Here.id
  <2>1. \/ Stamping(mem, mem', At, v) /\ mem'.status = mem.status
        \/ mem'.status = "blocked"
        \/ /\ mem'.status \in {mem.status, "running"}
           /\ \E new : Chaining(mem, mem', At, v, at, new)
    BY <1>2, <1>9, NeedsWorkMoves
  <2> HIDE DEF v
  <2>2. CASE Stamping(mem, mem', At, v) /\ mem'.status = mem.status
    BY <1>5, <2>2 DEF Leafed
  <2>3. CASE mem'.status = "blocked"
    BY <2>3 DEF Leafed
  <2>4. CASE mem'.status \in {mem.status, "running"} /\ \E new : Chaining(mem, mem', At, v, at, new)
    <3>1. PICK new : Chaining(mem, mem', At, v, at, new)
      BY <2>4
    <3>2. PutBehind(mem, mem', At, v, new, At)
      BY <1>2, <3>1, ChainTailed DEF Chaining, PutBehind, Graph
    <3> QED BY <1>6, <2>4, <3>2 DEF Leafed
  <2> QED BY <2>1, <2>2, <2>3, <2>4
<1>10. CASE RouteEmit
  <2> DEFINE v == "ok"
             at == Here.id
  <2>1. mem'.status = mem.status /\ \E new : Grouping(mem, mem', At, v, at, new)
    BY <1>2, <1>10, EmitMoves
  <2> HIDE DEF v
  <2>2. PICK new : Grouping(mem, mem', At, v, at, new)
    BY <2>1
  <2>3. PutBehind(mem, mem', At, v, new, At)
    BY <1>2, <2>2, GroupTailed DEF Grouping, PutBehind, Graph
  <2> QED BY <1>6, <2>1, <2>3 DEF Leafed
<1>11. CASE \/ RouteEnded \/ RouteBlocked
            \/ \E v \in {"draft", "ok", "blocked"} : RouteUndecided(v)
            \/ \E v \in {"draft", "ok", "complete"} : RouteProceed(v)
  BY <1>2, <1>7, <1>11, PlainMoves
<1> QED BY <1>8, <1>9, <1>10, <1>11 DEF Route

\* So does an append, which finds no run complete.
LEMMA SpoolDecisive ==
  ASSUME Typed, Wired, Decisive, SpoolAppend, Graph(mem'.nodes), mem' # mem
  PROVE  HasLeaf(mem') /\ mem'.status # "complete"
<1> DEFINE v == ""
<1>1. PICK q \in 1..Len(flow.nodes) : \E new :
        Chaining(flow, mem', 0, v, flow.nodes[q].id, new)
  BY SpoolMoves
<1> HIDE DEF v
<1>2. PICK new : Chaining(flow, mem', 0, v, flow.nodes[q].id, new)
  BY <1>1
<1>3. flow.status # "none" /\ ~ FlowTerminal(flow) /\ mem'.status = flow.status
  BY SpoolMoves
<1>4. flow \in Flow /\ HasLeaf(flow) /\ mem'.status # "complete"
  BY <1>3 DEF Typed, FlowsTyped, FlowTerminal, Decisive, Leafed
<1>5. PutBehind(flow, mem', 0, v, new, q)
  BY <1>2, ChainTailed DEF Chaining, PutBehind, Graph, Wired
<1> QED BY <1>4, <1>5, DeciderStays

\* The status pass completes no run, and leaves the nodes as they are.
LEMMA StatusDecisive ==
  ASSUME Typed, Decisive, StatusPass
  PROVE  /\ Leafed(mem')
         /\ mem'.status = "complete" => \E d : Settles(mem', d)
<1> DEFINE s == IF mem.status \in {"blocked", "complete"} THEN mem.status
                ELSE mem'.status
<1>1. mem'.nodes = mem.nodes /\ mem.status # "none"
  <2>1. mem \in Flow /\ Fits(mem) /\ mem.nodes # <<>>
    BY StatusPassStep DEF Typed, FlowsTyped
  <2> QED BY <2>1, StatusPassStep DEF Fits
<1>2. /\ mem'.status \in {mem.status, "blocked", "running"}
      /\ mem.status = "blocked" => mem'.status = "blocked"
  <2>1. mem \in Flow
    BY DEF Typed, FlowsTyped
  <2>2. PICK dead, progressed \in BOOLEAN :
          mem' = [mem EXCEPT !.status =
                    IF @ \in {"blocked", "complete"} THEN @
                    ELSE IF dead THEN "blocked"
                    ELSE IF progressed THEN "running" ELSE @]
    BY Zenon DEF StatusPass
  <2>3. mem'.status = IF mem.status \in {"blocked", "complete"} THEN mem.status
                      ELSE IF dead THEN "blocked"
                      ELSE IF progressed THEN "running" ELSE mem.status
    BY <2>1, <2>2 DEF Flow
  <2> QED BY <2>3
<1>3. mem'.status \notin {"none", "blocked"} => HasLeaf(mem)
  BY <1>1, <1>2 DEF Decisive, Leafed
<1>4. mem'.status = "complete" => \E d : Settles(mem, d)
  BY <1>2 DEF Decisive
<1> QED BY <1>1, <1>3, <1>4, SameLeaves DEF Leafed

\* Decisive is inductive on top of Accounted and Wired.
LEMMA DecisiveStays ==
  ASSUME FanInApart, Typed, Wired, Decisive, [Next]_vars
  PROVE  Decisive'
<1>0. flow \in Flow /\ mem \in Flow /\ Graph(mem'.nodes)
  BY WiredStays DEF Typed, FlowsTyped, Wired
<1>1. ASSUME flow' = flow, mem' = mem, \A j \in JobIds : report[j] = "complete" => report'[j] = "complete",
             pc' = "route" => pc = "route" /\ idx' = idx
      PROVE  Decisive'
  <2>1. Leafed(flow)' /\ Leafed(mem)'
    BY <1>1 DEF Decisive, Leafed, HasLeaf, Leaf
  <2>2. ASSUME flow.status = "complete"
        PROVE  \E d : /\ Decider(flow, d) /\ flow.nodes[d].seen = "complete"
                      /\ report'[flow.nodes[d].job] = "complete"
    BY <1>0, <1>1, <2>2, SettlesOn DEF Decisive
  <2>3. ASSUME mem.status = "complete"
        PROVE  \E d : /\ Decider(mem, d) /\ mem.nodes[d].seen = "complete"
                      /\ report'[mem.nodes[d].job] = "complete" /\ (pc' = "route" => d < idx')
    <3>1. PICK d : Settles(mem, d) /\ (pc = "route" => d < idx)
      BY <2>3 DEF Decisive
    <3>2. /\ Decider(mem, d) /\ mem.nodes[d].seen = "complete"
          /\ report'[mem.nodes[d].job] = "complete"
      BY <1>0, <1>1, <3>1, SettlesOn
    <3> QED BY <1>1, <3>1, <3>2
  <2>4. \A f, d : Decider(f, d)' <=> Decider(f, d)
    BY DEF Decider, Leaf
  <2> QED BY <1>1, <2>1, <2>2, <2>3, <2>4 DEF Decisive, Settles, Decider, Leaf
<1>2. ASSUME flow' = flow, report' = report, Leafed(mem'),
             mem'.status = "complete" => \E d : Settles(mem', d) /\ (pc' = "route" => d < idx')
      PROVE  Decisive'
  BY <1>2 DEF Decisive, Leafed, HasLeaf, Leaf, Settles, Decider
<1>3. ASSUME flow' = flow, mem' = mem, report' = report, pc' = "route" => pc = "route" /\ idx' = idx
      PROVE  Decisive'
  BY <1>1, <1>3
<1>4. CASE WriteFlow
  <2>1. mem' = mem /\ report' = report /\ pc' = pc /\ idx' = idx /\ (flow' = mem \/ flow' = flow)
    BY <1>4 DEF WriteFlow, outside, sessions, loop
  <2>2. CASE flow' = flow
    BY <1>3, <2>1, <2>2
  <2>3. CASE flow' = mem
    BY <2>1, <2>3 DEF Decisive, Leafed, HasLeaf, Leaf, Settles, Decider
  <2> QED BY <2>1, <2>2, <2>3
<1>5. CASE Create
  <2>1. /\ flow' = flow /\ report' = report
        /\ mem' = [status |-> "queued", nodes |-> Minted, round |-> 0]
    BY <1>5 DEF Create, files, outside, sessions
  <2>2. mem'.nodes = Minted /\ mem'.status = "queued"
    BY <2>1
  <2>3. Leafed(mem')
    BY <2>2, MintedLeaf DEF Leafed
  <2> QED BY <1>2, <2>1, <2>2, <2>3
<1>6. CASE Stop \/ ReconcileDeadline
  <2>1. /\ flow' = flow /\ report' = report /\ flow.status \notin {"none", "blocked"}
        /\ mem' = [flow EXCEPT !.status = "stopped"] \/ mem' = [flow EXCEPT !.status = "deadline"]
    BY <1>6 DEF Stop, ReconcileDeadline, files, outside, sessions, FlowTerminal
  <2>2. mem'.nodes = flow.nodes /\ mem'.status \in {"stopped", "deadline"}
    BY <1>0, <2>1 DEF Flow
  <2>3. Leafed(mem')
    BY <2>1, <2>2, SameLeaves DEF Decisive, Leafed
  <2> QED BY <1>2, <2>1, <2>2, <2>3
<1>7. CASE SpoolAppend
  <2>1. flow' = flow /\ report' = report /\ pc' = "spool"
    BY <1>7 DEF SpoolAppend, files, outside, sessions
  <2>2. CASE mem' = mem
    BY <1>3, <2>1, <2>2
  <2>3. CASE mem' # mem
    BY <1>0, <1>2, <1>7, <2>1, <2>3, SpoolDecisive DEF Leafed
  <2> QED BY <2>2, <2>3
<1>8. CASE ReconcileBegin
  <2>1. flow' = flow /\ report' = report /\ mem' = flow /\ flow.status \in {"queued", "running"}
    BY <1>8 DEF ReconcileBegin, files, outside, sessions
  <2>2. Leafed(mem') /\ mem'.status # "complete"
    BY <2>1 DEF Decisive
  <2> QED BY <1>2, <2>1, <2>2
<1>9. CASE VisitsDone \/ Crash
  <2>1. flow' = flow /\ report' = report /\ mem' = NoFlow
    BY <1>9 DEF VisitsDone, Crash, files, outside, sessions
  <2>2. mem'.status = "none"
    BY <2>1 DEF NoFlow
  <2> QED BY <1>2, <2>1, <2>2 DEF Leafed
<1>10. CASE Route
  <2>1. flow' = flow /\ report' = report /\ idx' = At + 1
    BY <1>10, RouteActs DEF Routing, files, outside, sessions
  <2>2. /\ Leafed(mem')
        /\ mem'.status = "complete" => \E d : Settles(mem', d) /\ d < At + 1
    BY <1>0, <1>10, RouteDecisive
  <2> QED BY <1>2, <2>1, <2>2
<1>11. CASE StatusPass
  <2>1. flow' = flow /\ report' = report /\ pc' = "gate"
    BY <1>11 DEF StatusPass, files, outside, sessions
  <2> QED BY <1>2, <1>11, <2>1, StatusDecisive
<1>12. CASE WriteMint \/ WriteGate \/ WriteReap \/ WriteConsumed
  BY <1>3, <1>12 DEF WriteMint, WriteGate, WriteReap, WriteConsumed, outside, sessions, loop
<1>13. CASE RequestAppend \/ DeadlineNears \/ MoveDeadline \/ ReconcileNothing \/ MarkStarted
            \/ TickEnd
  BY <1>3, <1>13 DEF RequestAppend, DeadlineNears, MoveDeadline, ReconcileNothing, MarkStarted,
                     TickEnd, files, Inside, outside, sessions, loop
<1>14. CASE VisitUngate \/ VisitDepSkip \/ VisitPending
  BY <1>3, <1>14 DEF VisitUngate, VisitDepSkip, VisitPending, Visited, outside, sessions
<1>15. ASSUME NEW j \in JobIds, VisitHeld(j) \/ VisitGated(j) \/ VisitUngated(j)
       PROVE  Decisive'
  BY <1>3, <1>15 DEF VisitHeld, VisitGated, VisitUngated, Visiting, files, outside, sessions
<1>16. ASSUME NEW j \in JobIds, Cancel(j) \/ Launch(j) PROVE Decisive'
  BY <1>3, <1>16 DEF Cancel, Launch, files, outside, sessions, loop
<1>17. ASSUME NEW j \in JobIds, Session(j) PROVE Decisive'
  <2>1. flow' = flow /\ mem' = mem /\ pc' = pc /\ idx' = idx
    BY <1>17 DEF Session, Report, AuthFail, UnitExit, WindowPast, files, Inside, loop, outside
  <2>2. \A i \in JobIds : report[i] = "complete" => report'[i] = "complete"
    <3>1. report \in [JobIds -> Reports]
      BY DEF Typed, SessionsTyped
    <3>2. report' = report \/ \E v : report[j] # "complete" /\ report' = [report EXCEPT ![j] = v]
      BY <1>17 DEF Session, Report, AuthFail, UnitExit, WindowPast, outside, sessions
    <3> QED BY <3>1, <3>2
  <2> QED BY <1>1, <2>1, <2>2
<1>18. CASE UNCHANGED vars
  BY <1>3, <1>18 DEF vars, sessions, loop
<1> QED BY <1>4, <1>5, <1>6, <1>7, <1>8, <1>9, <1>10, <1>11, <1>12, <1>13, <1>14, <1>15,
           <1>16, <1>17, <1>18 DEF Next, Tick, Visit, Writing

\* And it says what a complete run was decided by.
LEMMA DecisiveDecides ==
  ASSUME Typed, Decisive
  PROVE  AcceptanceDecides
<1> SUFFICES ASSUME flow.status = "complete" PROVE AcceptanceDecides
  BY DEF AcceptanceDecides
<1>1. PICK d : Settles(flow, d)
  BY DEF Decisive
<1>2. flow \in Flow
  BY DEF Typed, FlowsTyped
<1>3. Nodes(flow) = {flow.nodes[i] : i \in 1..Len(flow.nodes)} /\ DOMAIN flow.nodes = 1..Len(flow.nodes)
  BY <1>2, NodesOf, LenProperties DEF Flow
<1>4. \A k : Leaf(flow, k) <=> \A m \in Nodes(flow) : flow.nodes[k].id \notin m.after
  BY <1>3 DEF Leaf
<1> QED BY <1>1, <1>3, <1>4, Zenon DEF AcceptanceDecides, Settles, Decider

\* A complete run is one whose acceptance node reported complete, whatever was
\* inserted around it and whichever nodes the pass saw to afterwards.  Where ids may
\* clash (FanInApart) two nodes could claim to be that one.
THEOREM AcceptanceAlwaysDecides == Spec => [](FanInApart => AcceptanceDecides)
<1> DEFINE Inv == FanInApart => Wired /\ Decisive
<1>1. Init => Inv
  <2>1. Init => Decisive
    BY DEF Init, NoFlow, Decisive, Leafed
  <2> QED BY <2>1, InitWired
<1>2. Inv /\ Accounted /\ [Next]_vars => Inv'
  BY WiredStays, DecisiveStays DEF Accounted, FanInApart
<1>3. Inv /\ Accounted => (FanInApart => AcceptanceDecides)
  BY DecisiveDecides DEF Accounted
<1> HIDE DEF Inv
<1> QED BY <1>1, <1>2, <1>3, FlowRunAccounted, PTL DEF Spec

(***************************************************************************)
(* A verdict is acted on once: rounds of nodes are counted against what     *)
(* they are owed to.                                                        *)
(***************************************************************************)
\* The rounds beyond the happy path, the nodes that gave needs-work, and those
\* that were given a group.
Rounds(f) == {f.nodes[i].id[2] : i \in 1..Len(f.nodes)} \ {0}
Faulted(f) == {f.nodes[i].id : i \in {i \in 1..Len(f.nodes) : f.nodes[i].seen = "needs-work"}}
Groups(f) == {f.nodes[i].by : i \in 1..Len(f.nodes)} \ {None}

\* The three are finite.
LEMMA FiniteParts ==
  ASSUME NEW f \in Flow
  PROVE  /\ IsFiniteSet(Rounds(f)) /\ Cardinality(Rounds(f)) \in Nat
         /\ IsFiniteSet(Faulted(f)) /\ Cardinality(Faulted(f)) \in Nat
         /\ IsFiniteSet(Groups(f)) /\ Cardinality(Groups(f)) \in Nat
<1> DEFINE n == Len(f.nodes)
           rounds == {f.nodes[i].id[2] : i \in 1..n}
           ids == {f.nodes[i].id : i \in 1..n}
           bys == {f.nodes[i].by : i \in 1..n}
<1>1. IsFiniteSet(1..n)
  <2>1. f.nodes \in Seq(Node)
    BY DEF Flow
  <2>2. n \in Nat
    BY <2>1, LenProperties
  <2> HIDE DEF n
  <2>3. 1 \in Int /\ n \in Int
    BY <2>2
  <2> QED BY <2>3, FS_Interval
<1>2. Rounds(f) \subseteq rounds /\ Faulted(f) \subseteq ids /\ Groups(f) \subseteq bys
  BY DEF Rounds, Faulted, Groups
<1> HIDE DEF n
<1>3. IsFiniteSet(rounds)
  <2> DEFINE s == [i \in 1..n |-> f.nodes[i].id[2]]
  <2>1. s \in Surjection(1..n, rounds)
    BY DEF Surjection
  <2> HIDE DEF s, rounds
  <2> QED BY <1>1, <2>1, FS_Surjection
<1>4. IsFiniteSet(ids)
  <2> DEFINE s == [i \in 1..n |-> f.nodes[i].id]
  <2>1. s \in Surjection(1..n, ids)
    BY DEF Surjection
  <2> HIDE DEF s, ids
  <2> QED BY <1>1, <2>1, FS_Surjection
<1>5. IsFiniteSet(bys)
  <2> DEFINE s == [i \in 1..n |-> f.nodes[i].by]
  <2>1. s \in Surjection(1..n, bys)
    BY DEF Surjection
  <2> HIDE DEF s, bys
  <2> QED BY <1>1, <2>1, FS_Surjection
<1> HIDE DEF rounds, ids, bys
<1>6. IsFiniteSet(Rounds(f)) /\ IsFiniteSet(Faulted(f)) /\ IsFiniteSet(Groups(f))
  BY <1>2, <1>3, <1>4, <1>5, FS_Subset
<1> QED BY <1>6, FS_CardinalityType

\* One element more at most counts one more at most.
LEMMA OneMore ==
  ASSUME NEW S, IsFiniteSet(S), NEW x, NEW T, T \subseteq S \cup {x}
  PROVE  Cardinality(T) <= Cardinality(S) + 1
<1>1. IsFiniteSet(S \cup {x}) /\ Cardinality(S \cup {x}) \in {Cardinality(S), Cardinality(S) + 1}
  BY FS_AddElement
<1>2. IsFiniteSet(T) /\ Cardinality(T) <= Cardinality(S \cup {x})
  BY <1>1, FS_Subset
<1>3. Cardinality(T) \in Nat /\ Cardinality(S) \in Nat /\ Cardinality(S \cup {x}) \in Nat
  BY <1>1, <1>2, FS_CardinalityType
<1> QED BY <1>1, <1>2, <1>3

\* One new element counts one.
LEMMA OneNew ==
  ASSUME NEW T, IsFiniteSet(T), NEW S, NEW x, S \cup {x} \subseteq T, x \notin S
  PROVE  Cardinality(S) + 1 <= Cardinality(T)
<1>1. IsFiniteSet(S)
  BY FS_Subset
<1>2. IsFiniteSet(S \cup {x}) /\ Cardinality(S \cup {x}) = Cardinality(S) + 1
  BY <1>1, FS_AddElement
<1>3. Cardinality(S \cup {x}) <= Cardinality(T)
  BY <1>2, FS_Subset
<1> QED BY <1>2, <1>3

\* Sums of six counts, for Owes.
LEMMA Balance ==
  ASSUME NEW a \in Nat, NEW b \in Nat, NEW c \in Nat, NEW x \in Nat, NEW y \in Nat, NEW z \in Nat,
         \/ x <= a /\ b <= y /\ c <= z
         \/ x <= a + 1 /\ b + 1 <= y /\ c <= z
         \/ x <= a + 1 /\ b <= y /\ c + 1 <= z
  PROVE  x + b + c <= a + y + z + 0
OBVIOUS

\* ... and with a round nobody in the graph accounts for.
LEMMA BalanceOwing ==
  ASSUME NEW a \in Nat, NEW b \in Nat, NEW c \in Nat, NEW x \in Nat, NEW y \in Nat, NEW z \in Nat,
         x <= a + 1 /\ b <= y /\ c <= z
  PROVE  x + b + c <= a + y + z + 1
OBVIOUS

\* A place in what two lengths make is in the one or behind it.
LEMMA PlacedBehind ==
  ASSUME NEW n \in Nat, NEW m \in Nat, NEW i \in 1..(n + m), i \notin 1..n
  PROVE  i - n \in 1..m /\ n + (i - n) = i /\ (i - n = m \/ i - n \in 1..m - 1)
OBVIOUS

\* ... and a place in the first is one in both.
LEMMA PlacedAhead ==
  ASSUME NEW n \in Nat, NEW m \in Nat
  PROVE  /\ \A i \in 1..n : i # 0 /\ i \in 1..(n + m)
         /\ m > 1 => 1 \in 1..m /\ 1 \in 1..m - 1 /\ n + 1 \in 1..(n + m)
OBVIOUS

\* The emitter of a node that was not emitted is no node.
LEMMA NoneIsNoId == None \notin Id
<1> SUFFICES ASSUME None \in Id PROVE FALSE
  OBVIOUS
<1>1. PICK a \in Roles, b \in Nat, c \in Nat : None = <<a, b, c>>
  BY DEF Id
<1>2. Len(<<a, b, c>>) = 3
  OBVIOUS
<1>3. Len(None) = 0
  BY EmptySeq DEF None
<1> QED BY <1>1, <1>2, <1>3

\* From f to g no more rounds came than nodes that gave needs-work or were given
\* a group, but for d of them.
Owes(f, g, d) ==
  Cardinality(Rounds(g)) + Cardinality(Faulted(f)) + Cardinality(Groups(f)) <=
    Cardinality(Rounds(f)) + Cardinality(Faulted(g)) + Cardinality(Groups(g)) + d

\* The nodes with one `by` are of one round, and that is a node with a verdict.
Single(f) ==
  \A i \in 1..Len(f.nodes) : f.nodes[i].by # None =>
    /\ \A k \in 1..Len(f.nodes) :
         f.nodes[k].by = f.nodes[i].by => f.nodes[k].id[2] = f.nodes[i].id[2]
    /\ \E k \in 1..Len(f.nodes) : f.nodes[k].id = f.nodes[i].by /\ f.nodes[k].seen # ""

\* A verdict or none is put on a node that has none.
Fresh(f, p, v) ==
  p = 0 \/ (p \in 1..Len(f.nodes) /\ f.nodes[p].seen = "" /\ v \in Verdicts)

\* It changes no verdict there was.
LEMMA FreshKeeps ==
  ASSUME NEW f \in Flow, NEW g, NEW p, NEW v, Fresh(f, p, v),
         \A i \in 1..Len(f.nodes) : g.nodes[i].seen = IF i = p THEN v ELSE f.nodes[i].seen
  PROVE  \A i \in 1..Len(f.nodes) : f.nodes[i].seen # "" =>
           g.nodes[i].seen # "" /\ g.nodes[i].seen = f.nodes[i].seen
<1> SUFFICES ASSUME NEW i \in 1..Len(f.nodes), f.nodes[i].seen # ""
             PROVE  i # p
  OBVIOUS
<1>1. i # 0
  <2>1. f.nodes \in Seq(Node)
    BY DEF Flow
  <2>2. Len(f.nodes) \in Nat
    BY <2>1, LenProperties
  <2> QED BY <2>2, PlacedAhead
<1> QED BY <1>1 DEF Fresh

\* A stamp leaves the rounds and the groups as they are.
LEMMA StampOwes ==
  ASSUME NEW f \in Flow, NEW g \in Flow, NEW p, NEW v, Stamping(f, g, p, v), Fresh(f, p, v),
         Single(f)
  PROVE  Owes(f, g, 0) /\ Single(g)
<1> DEFINE n == Len(f.nodes)
<1>1. Len(g.nodes) = n /\ \A i \in 1..n :
        /\ g.nodes[i].id = f.nodes[i].id /\ g.nodes[i].by = f.nodes[i].by
        /\ g.nodes[i].seen = IF i = p THEN v ELSE f.nodes[i].seen
  BY DEF Stamping, Dressed
<1>2. \A i \in 1..n : f.nodes[i].seen # "" => g.nodes[i].seen = f.nodes[i].seen
  BY <1>1, FreshKeeps
<1>3. Rounds(g) = Rounds(f) /\ Groups(g) = Groups(f)
  BY <1>1, SMTT(30) DEF Rounds, Groups
<1>4. Faulted(f) \subseteq Faulted(g)
  BY <1>1, <1>2 DEF Faulted
<1>5. Cardinality(Faulted(f)) <= Cardinality(Faulted(g))
  BY <1>4, FiniteParts, FS_Subset
<1>6. Owes(f, g, 0)
  <2> DEFINE a == Cardinality(Rounds(f))
             b == Cardinality(Faulted(f))
             c == Cardinality(Groups(f))
             y == Cardinality(Faulted(g))
  <2>1. a \in Nat /\ b \in Nat /\ c \in Nat /\ y \in Nat /\ b <= y
    BY <1>5, FiniteParts
  <2>2. Owes(f, g, 0) <=> a + b + c <= a + y + c + 0
    BY <1>3 DEF Owes
  <2> HIDE DEF a, b, c, y
  <2>3. a + b + c <= a + y + c + 0
    BY <2>1
  <2> QED BY <2>2, <2>3
<1>7. Single(g)
  <2> SUFFICES ASSUME NEW i \in 1..n, g.nodes[i].by # None
               PROVE  /\ \A k \in 1..n :
                           g.nodes[k].by = g.nodes[i].by => g.nodes[k].id[2] = g.nodes[i].id[2]
                      /\ \E k \in 1..n : g.nodes[k].id = g.nodes[i].by /\ g.nodes[k].seen # ""
    BY <1>1 DEF Single
  <2>1. f.nodes[i].by # None
    BY <1>1
  <2>2. \A k \in 1..n : f.nodes[k].by = f.nodes[i].by => f.nodes[k].id[2] = f.nodes[i].id[2]
    BY <2>1 DEF Single
  <2>3. PICK k \in 1..n : f.nodes[k].id = f.nodes[i].by /\ f.nodes[k].seen # ""
    BY <2>1 DEF Single
  <2>4. g.nodes[k].id = g.nodes[i].by /\ g.nodes[k].seen # ""
    BY <1>1, <1>2, <2>3
  <2>5. \A h \in 1..n : g.nodes[h].by = g.nodes[i].by => g.nodes[h].id[2] = g.nodes[i].id[2]
    BY <1>1, <2>2
  <2> QED BY <2>4, <2>5
<1> QED BY <1>6, <1>7

\* A round put behind the nodes.
LEMMA AddedParts ==
  ASSUME NEW f \in Flow, NEW g \in Flow, NEW p, NEW v, NEW at, NEW new,
         Adds(f, g, p, v, new), RoundOf(f, at, new), Fresh(f, p, v)
  PROVE  /\ Cardinality(Rounds(g)) <= Cardinality(Rounds(f)) + 1
         /\ Faulted(f) \subseteq Faulted(g) /\ Groups(f) \subseteq Groups(g)
         /\ Cardinality(Faulted(f)) <= Cardinality(Faulted(g))
         /\ Cardinality(Groups(f)) <= Cardinality(Groups(g))
<1> DEFINE n == Len(f.nodes)
           m == Len(new)
           r == f.round + 1
<1>1. n \in Nat /\ m \in Nat
  <2>1. f.nodes \in Seq(Node) /\ new \in Seq(Node)
    BY DEF Flow, RoundOf
  <2> QED BY <2>1, LenProperties
<1>2. /\ Len(g.nodes) = n + m
      /\ \A i \in 1..n :
           /\ g.nodes[i].id = f.nodes[i].id /\ g.nodes[i].by = f.nodes[i].by
           /\ g.nodes[i].seen = IF i = p THEN v ELSE f.nodes[i].seen
      /\ \A k \in 1..m : g.nodes[n + k] = new[k]
  BY DEF Adds, Dressed
<1>3. \A k \in 1..m : new[k].id[2] = r
  BY DEF RoundOf
<1>4. \A i \in 1..n : f.nodes[i].seen # "" => g.nodes[i].seen = f.nodes[i].seen
  BY <1>2, FreshKeeps
<1>5. \A i \in 1..n : i \in 1..Len(g.nodes)
  <2> HIDE DEF n, m
  <2> QED BY <1>1, <1>2
<1>6. ASSUME NEW i \in 1..Len(g.nodes), i \notin 1..n PROVE \E k \in 1..m : g.nodes[i] = new[k]
  <2> HIDE DEF n, m
  <2>1. i - n \in 1..m /\ n + (i - n) = i
    BY <1>1, <1>2, <1>6
  <2> QED BY <1>2, <2>1
<1> HIDE DEF m, r
<1>7. Rounds(g) \subseteq Rounds(f) \cup {r}
  <2> SUFFICES ASSUME NEW i \in 1..Len(g.nodes), g.nodes[i].id[2] # 0
               PROVE  g.nodes[i].id[2] \in Rounds(f) \cup {r}
    BY DEF Rounds
  <2>1. CASE i \in 1..n
    BY <1>2, <2>1 DEF Rounds
  <2>2. CASE i \notin 1..n
    BY <1>3, <1>6, <2>2
  <2> QED BY <2>1, <2>2
<1>8. Faulted(f) \subseteq Faulted(g)
  BY <1>2, <1>4, <1>5 DEF Faulted
<1>9. Groups(f) \subseteq Groups(g)
  BY <1>2, <1>5 DEF Groups
<1> HIDE DEF n
<1>10. Cardinality(Rounds(g)) <= Cardinality(Rounds(f)) + 1
  BY <1>7, FiniteParts, OneMore
<1> QED BY <1>8, <1>9, <1>10, FiniteParts, FS_Subset

\* A chain behind a node that gives needs-work is owed to it.
LEMMA FaultOwes ==
  ASSUME NEW f \in Flow, NEW g \in Flow, NEW p, NEW at, NEW new, Distinct(f.nodes),
         Adds(f, g, p, "needs-work", new), RoundOf(f, at, new),
         p \in 1..Len(f.nodes), f.nodes[p].seen = ""
  PROVE  Owes(f, g, 0)
<1> DEFINE v == "needs-work"
           x == f.nodes[p].id
<1>1. Fresh(f, p, v) /\ Adds(f, g, p, v, new)
  BY DEF Fresh, Verdicts, Stamps
<1>2. x \notin Faulted(f)
  <2> SUFFICES ASSUME NEW i \in 1..Len(f.nodes), f.nodes[i].seen = "needs-work", f.nodes[i].id = x
               PROVE  FALSE
    BY DEF Faulted
  <2> QED BY DEF Distinct
<1>3. p \in 1..Len(g.nodes) /\ g.nodes[p].id = x /\ g.nodes[p].seen = v
  <2>1. f.nodes \in Seq(Node) /\ new \in Seq(Node)
    BY DEF Flow, RoundOf
  <2>2. Len(f.nodes) \in Nat /\ Len(new) \in Nat
    BY <2>1, LenProperties
  <2>3. Len(g.nodes) = Len(f.nodes) + Len(new)
    BY DEF Adds
  <2>4. p \in 1..Len(g.nodes)
    <3> DEFINE n == Len(f.nodes)
               m == Len(new)
    <3>1. p \in 1..n /\ n \in Nat /\ m \in Nat
      BY <2>2
    <3> HIDE DEF n, m
    <3>2. p \in 1..(n + m)
      BY <3>1, PlacedAhead, Zenon
    <3> QED BY <2>3, <3>2 DEF n, m
  <2> QED BY <2>4 DEF Adds, Dressed
<1>4. x \in Faulted(g)
  BY <1>3 DEF Faulted
<1> HIDE DEF v, x
<1>5. /\ Cardinality(Rounds(g)) <= Cardinality(Rounds(f)) + 1
      /\ Faulted(f) \subseteq Faulted(g)
      /\ Cardinality(Groups(f)) <= Cardinality(Groups(g))
  BY <1>1, AddedParts
<1>6. Cardinality(Faulted(f)) + 1 <= Cardinality(Faulted(g))
  BY <1>2, <1>4, <1>5, FiniteParts, OneNew
<1> QED BY <1>5, <1>6, FiniteParts, Balance DEF Owes

\* A chain starts no group.
LEMMA ChainSingle ==
  ASSUME NEW f \in Flow, NEW g \in Flow, NEW p, NEW v, NEW at, NEW new,
         Adds(f, g, p, v, new), \A k \in 1..Len(new) : new[k].by = None, Fresh(f, p, v), Single(f)
  PROVE  Single(g)
<1> DEFINE n == Len(f.nodes)
           m == Len(new)
<1>1. n \in Nat /\ m \in Nat
  <2>1. f.nodes \in Seq(Node) /\ new \in Seq(Node)
    BY DEF Flow, Adds
  <2> QED BY <2>1, LenProperties
<1>2. /\ Len(g.nodes) = n + m
      /\ \A i \in 1..n :
           /\ g.nodes[i].id = f.nodes[i].id /\ g.nodes[i].by = f.nodes[i].by
           /\ g.nodes[i].seen = IF i = p THEN v ELSE f.nodes[i].seen
      /\ \A k \in 1..m : g.nodes[n + k] = new[k]
  BY DEF Adds, Dressed
<1>3. \A i \in 1..n : f.nodes[i].seen # "" => g.nodes[i].seen # ""
  BY <1>2, FreshKeeps
<1> HIDE DEF m
<1>4. \A i \in 1..n : i \in 1..Len(g.nodes)
  <2> HIDE DEF n
  <2> QED BY <1>1, <1>2
<1>5. ASSUME NEW i \in 1..Len(g.nodes), i \notin 1..n PROVE g.nodes[i].by = None
  <2> HIDE DEF n
  <2>1. i - n \in 1..m /\ n + (i - n) = i
    BY <1>1, <1>2, <1>5
  <2>2. \A k \in 1..m : new[k].by = None
    BY DEF m
  <2> QED BY <1>2, <2>1, <2>2
<1> SUFFICES ASSUME NEW i \in 1..Len(g.nodes), g.nodes[i].by # None
             PROVE  /\ \A k \in 1..Len(g.nodes) :
                         g.nodes[k].by = g.nodes[i].by => g.nodes[k].id[2] = g.nodes[i].id[2]
                    /\ \E k \in 1..Len(g.nodes) : g.nodes[k].id = g.nodes[i].by /\ g.nodes[k].seen # ""
  BY DEF Single
<1>6. i \in 1..n
  BY <1>5
<1>7. \A k \in 1..Len(g.nodes) : g.nodes[k].by = g.nodes[i].by => k \in 1..n
  BY <1>5
<1>8. f.nodes[i].by # None /\ g.nodes[i].by = f.nodes[i].by /\ g.nodes[i].id = f.nodes[i].id
  BY <1>2, <1>6
<1>9. \A k \in 1..n : f.nodes[k].by = f.nodes[i].by => f.nodes[k].id[2] = f.nodes[i].id[2]
  BY <1>6, <1>8 DEF Single
<1>10. PICK k \in 1..n : f.nodes[k].id = f.nodes[i].by /\ f.nodes[k].seen # ""
  BY <1>6, <1>8 DEF Single
<1>11. k \in 1..Len(g.nodes) /\ g.nodes[k].id = g.nodes[i].by /\ g.nodes[k].seen # ""
  BY <1>2, <1>3, <1>4, <1>8, <1>10
<1>12. \A h \in 1..Len(g.nodes) :
         g.nodes[h].by = g.nodes[i].by => g.nodes[h].id[2] = g.nodes[i].id[2]
  BY <1>2, <1>7, <1>8, <1>9
<1> QED BY <1>11, <1>12

\* An emitter has no group yet; the one it is given is owed to it.
LEMMA GroupOwes ==
  ASSUME NEW f \in Flow, NEW g \in Flow, NEW p, NEW at, NEW new, Distinct(f.nodes),
         Grouping(f, g, p, "ok", at, new), Single(f),
         p \in 1..Len(f.nodes), f.nodes[p].seen = "", at = f.nodes[p].id
  PROVE  Owes(f, g, 0) /\ Single(g)
<1> DEFINE v == "ok"
           n == Len(f.nodes)
           m == Len(new)
<1>1. /\ Fresh(f, p, v) /\ Adds(f, g, p, v, new) /\ RoundOf(f, at, new)
      /\ GroupOf(new, at)
  BY DEF Fresh, Verdicts, Stamps, Grouping
<1>2. at \in Id
  <2>1. f.nodes \in Seq(Node) /\ f.nodes[p] \in Node
    BY ElementOfSeq DEF Flow
  <2> QED BY <2>1 DEF Node
<1>3. at # None
  BY <1>2, NoneIsNoId
<1>4. \A i \in 1..n : f.nodes[i].by # at
  <2> SUFFICES ASSUME NEW i \in 1..n, f.nodes[i].by = at PROVE FALSE
    OBVIOUS
  <2>1. PICK k \in 1..n : f.nodes[k].id = at /\ f.nodes[k].seen # ""
    BY <1>3 DEF Single
  <2>2. k = p
    BY <2>1 DEF Distinct
  <2> QED BY <2>1, <2>2
<1>5. n \in Nat /\ m \in Nat
  <2>1. f.nodes \in Seq(Node) /\ new \in Seq(Node)
    BY <1>1 DEF Flow, RoundOf
  <2> QED BY <2>1, LenProperties
<1>6. /\ Len(g.nodes) = n + m
      /\ \A i \in 1..n :
           /\ g.nodes[i].id = f.nodes[i].id /\ g.nodes[i].by = f.nodes[i].by
           /\ g.nodes[i].seen = IF i = p THEN v ELSE f.nodes[i].seen
      /\ \A k \in 1..m : g.nodes[n + k] = new[k]
  BY <1>1 DEF Adds, Dressed
<1>7. /\ m > 1 /\ \A k \in 1..m - 1 : new[k].by = at
      /\ new[m].by = None /\ \A k \in 1..m : new[k].id[2] = f.round + 1
  BY <1>1 DEF GroupOf, RoundOf
<1>8. \A i \in 1..n : f.nodes[i].seen # "" => g.nodes[i].seen # ""
  BY <1>6
<1>9. p \in 1..n /\ f.nodes[p].id = at
  OBVIOUS
<1> HIDE DEF m, v
<1> HIDE DEF n
<1>10. \A i \in 1..n : i \in 1..Len(g.nodes)
  <2>1. \A i \in 1..n : i \in 1..(n + m)
    BY <1>5, PlacedAhead, Zenon
  <2> QED BY <1>6, <2>1
<1>11. ASSUME NEW i \in 1..Len(g.nodes), i \notin 1..n
       PROVE  g.nodes[i].by = None \/ (g.nodes[i].by = at /\ g.nodes[i].id[2] = f.round + 1)
  <2> DEFINE k == i - n
  <2>1. i \in 1..(n + m)
    BY <1>6
  <2>2. k \in 1..m /\ n + k = i /\ (k = m \/ k \in 1..m - 1)
    BY <1>5, <1>11, <2>1, PlacedBehind, Zenon
  <2> HIDE DEF k
  <2>3. g.nodes[i] = new[k]
    BY <1>6, <2>2
  <2> QED BY <1>7, <2>2, <2>3
<1>12. at \in Groups(g)
  <2>1. n + 1 \in 1..Len(g.nodes) /\ g.nodes[n + 1] = new[1] /\ new[1].by = at
    <3>1. 1 \in 1..m /\ 1 \in 1..m - 1 /\ n + 1 \in 1..(n + m)
      BY <1>5, <1>7, PlacedAhead, Zenon
    <3> QED BY <1>6, <1>7, <3>1
  <2> QED BY <1>3, <2>1 DEF Groups
<1>13. at \notin Groups(f)
  BY <1>4 DEF Groups, n
<1>14. Owes(f, g, 0)
  <2>1. /\ Cardinality(Rounds(g)) <= Cardinality(Rounds(f)) + 1
        /\ Groups(f) \subseteq Groups(g)
        /\ Cardinality(Faulted(f)) <= Cardinality(Faulted(g))
    BY <1>1, AddedParts
  <2>2. Cardinality(Groups(f)) + 1 <= Cardinality(Groups(g))
    BY <1>12, <1>13, <2>1, FiniteParts, OneNew
  <2> QED BY <2>1, <2>2, FiniteParts, Balance DEF Owes
<1>15. ASSUME NEW i \in 1..Len(g.nodes), g.nodes[i].by # None
       PROVE  /\ \A k \in 1..Len(g.nodes) :
                   g.nodes[k].by = g.nodes[i].by => g.nodes[k].id[2] = g.nodes[i].id[2]
              /\ \E k \in 1..Len(g.nodes) : g.nodes[k].id = g.nodes[i].by /\ g.nodes[k].seen # ""
  <2>1. CASE i \in 1..n
    <3>1. g.nodes[i].by # at
      BY <1>4, <1>6, <2>1
    <3>2. \A k \in 1..Len(g.nodes) : g.nodes[k].by = g.nodes[i].by => k \in 1..n
      BY <1>11, <1>15, <3>1
    <3>3. f.nodes[i].by # None /\ g.nodes[i].by = f.nodes[i].by /\ g.nodes[i].id = f.nodes[i].id
      BY <1>6, <1>15, <2>1
    <3>4. \A k \in 1..n : f.nodes[k].by = f.nodes[i].by => f.nodes[k].id[2] = f.nodes[i].id[2]
      BY <2>1, <3>3 DEF Single, n
    <3>5. PICK k \in 1..n : f.nodes[k].id = f.nodes[i].by /\ f.nodes[k].seen # ""
      BY <2>1, <3>3 DEF Single, n
    <3>6. k \in 1..Len(g.nodes) /\ g.nodes[k].id = g.nodes[i].by /\ g.nodes[k].seen # ""
      BY <1>6, <1>8, <1>10, <3>3, <3>5
    <3>7. \A h \in 1..Len(g.nodes) :
             g.nodes[h].by = g.nodes[i].by => g.nodes[h].id[2] = g.nodes[i].id[2]
      BY <1>6, <3>2, <3>3, <3>4
    <3> QED BY <3>6, <3>7
  <2>2. CASE i \notin 1..n
    <3>1. g.nodes[i].by = at /\ g.nodes[i].id[2] = f.round + 1
      BY <1>11, <1>15, <2>2
    <3>2. \A k \in 1..Len(g.nodes) : g.nodes[k].by = at => k \notin 1..n
      BY <1>4, <1>6
    <3>3. \A k \in 1..Len(g.nodes) : g.nodes[k].by = at => g.nodes[k].id[2] = f.round + 1
      BY <1>3, <1>11, <3>2
    <3>4. p \in 1..Len(g.nodes) /\ g.nodes[p].id = at /\ g.nodes[p].seen # ""
      BY <1>6, <1>9, <1>10 DEF v
    <3> QED BY <3>1, <3>3, <3>4
  <2> QED BY <2>1, <2>2
<1>16. Single(g)
  BY <1>15 DEF Single
<1> QED BY <1>14, <1>16

(***************************************************************************)
(* What the append requests account for: those that were read, and one more *)
(* for each crash that came before a request was removed.                   *)
(***************************************************************************)
Leaving == IF Removing(writes) THEN 1 ELSE 0
Owe == (spent["append"] - asks) + spent["crash"] + Leaving

\* Events are only ever counted up.
LEMMA SpentGrows ==
  ASSUME Counts, spent' = spent \/ \E k \in Events : Spend(k)
  PROVE  \A e \in Events : spent'[e] \in Nat /\ spent[e] \in Nat /\ spent[e] <= spent'[e]
<1>1. spent \in [Events -> Nat] /\ \A e \in Events : spent[e] \in Nat
  BY DEF Counts
<1>2. CASE spent' = spent
  BY <1>1, <1>2
<1>3. ASSUME NEW k \in Events, Spend(k)
      PROVE  \A e \in Events : spent'[e] \in Nat /\ spent[e] \in Nat /\ spent[e] <= spent'[e]
  <2>1. spent' = [spent EXCEPT ![k] = spent[k] + 1]
    BY <1>3 DEF Spend
  <2> QED BY ONLY <1>1, <2>1, k \in Events
<1> QED BY <1>2, <1>3

\* ... by any step.
LEMMA StepSpends ==
  ASSUME [Next]_vars
  PROVE  spent' = spent \/ \E k \in Events : Spend(k)
<1>1. {"error", "auth", "crash", "stop", "move", "cancel", "append"} \subseteq Events
  BY DEF Events
<1>2. CASE Create \/ DeadlineNears \/ WriteMint \/ WriteGate \/ WriteReap \/ SpoolAppend
           \/ ReconcileNothing \/ ReconcileDeadline \/ ReconcileBegin \/ StatusPass
           \/ MarkStarted \/ TickEnd \/ VisitsDone \/ VisitUngate \/ VisitPending \/ WriteConsumed
  BY <1>2 DEF Create, DeadlineNears, WriteMint, WriteGate, WriteReap, SpoolAppend, WriteConsumed,
       ReconcileNothing, ReconcileDeadline, ReconcileBegin, StatusPass, MarkStarted, TickEnd,
       VisitsDone, VisitUngate, VisitPending
<1>3. CASE Stop \/ MoveDeadline \/ Crash \/ RequestAppend
  BY <1>1, <1>3 DEF Stop, MoveDeadline, Crash, RequestAppend
<1>4. CASE WriteFlow
  BY <1>1, <1>4 DEF WriteFlow
<1>5. CASE Route
  <2>1. ASSUME NEW v, Verdict(v) PROVE Spend("error") \/ UNCHANGED spent
    BY <2>1 DEF Verdict
  <2>2. Spend("error") \/ UNCHANGED spent
    BY <1>5, <2>1 DEF Route, RouteEnded, RouteEmit, RouteComplete, RouteBlocked,
         RouteNeedsWork, RouteUndecided, RouteProceed
  <2> QED BY <1>1, <2>2
<1>6. CASE VisitDepSkip
  BY <1>1, <1>6 DEF VisitDepSkip, NoWorktree
<1>7. ASSUME NEW j \in JobIds, VisitHeld(j) \/ VisitGated(j) \/ Launch(j) PROVE spent' = spent
  BY <1>7 DEF VisitHeld, VisitGated, Launch
<1>8. ASSUME NEW j \in JobIds, VisitUngated(j) \/ Cancel(j)
      PROVE  spent' = spent \/ \E k \in Events : Spend(k)
  BY <1>1, <1>8 DEF VisitUngated, NoWorktree, Cancel
<1>9. ASSUME NEW j \in JobIds, Session(j) PROVE spent' = spent \/ \E k \in Events : Spend(k)
  <2>1. AuthFail(j) => \E k \in Events : Spend(k)
    BY <1>1 DEF AuthFail
  <2>2. UnitExit(j) \/ WindowPast(j) => spent' = spent
    BY DEF UnitExit, WindowPast
  <2>3. ASSUME NEW a, Report(j, a[1], a[2]) PROVE spent' = spent
    BY <2>3 DEF Report
  <2> QED BY <1>9, <2>1, <2>2, <2>3 DEF Session
<1>10. CASE UNCHANGED vars
  BY <1>10 DEF vars
<1> QED BY <1>2, <1>3, <1>4, <1>5, <1>6, <1>7, <1>8, <1>9, <1>10 DEF Next, Tick, Visit, Writing

\* A removal that is still to come stays so, but for itself and for a crash.
LEMMA RemovingStays ==
  ASSUME Typed, [Next]_vars, Removing(writes), ~ WriteConsumed, ~ Crash
  PROVE  Removing(writes')
<1>1. ASSUME writes' = writes PROVE Removing(writes')
  BY <1>1
<1>2. writes \in Seq(Write) /\ writes # <<>> /\ ~ Computing
  <2>1. writes \in Seq(Write)
    BY DEF Typed, Plan
  <2>2. PICK i \in 1..Len(writes) : TRUE
    BY DEF Removing
  <2>3. writes # <<>>
    <3> SUFFICES ASSUME writes = <<>> PROVE FALSE
      OBVIOUS
    <3> QED BY <2>2, ShortPlans
  <2> QED BY <2>1, <2>3 DEF Computing
<1>3. ASSUME writes' = Tail(writes), ~ Removes(Head(writes)) PROVE Removing(writes')
  <2> DEFINE n == Len(writes)
             ws == Tail(writes)
  <2>1. /\ n \in Nat \ {0} /\ Len(ws) = n - 1 /\ Head(writes) = writes[1]
        /\ \A i \in 1..n-1 : ws[i] = writes[i + 1]
    BY <1>2, HeadTailProperties, EmptySeq, LenProperties
  <2>2. PICK i \in 1..n : Removes(writes[i])
    BY DEF Removing
  <2> HIDE DEF n, ws
  <2>3. i # 1
    BY <1>3, <2>1, <2>2
  <2>4. i - 1 \in 1..n-1 /\ (i - 1) + 1 = i
    BY <2>1, <2>2, <2>3
  <2>5. i - 1 \in 1..Len(ws) /\ Removes(ws[i - 1])
    BY <2>1, <2>2, <2>4
  <2>6. Removing(ws)
    BY <2>5 DEF Removing
  <2> QED BY <1>3, <2>6 DEF ws
<1>4. CASE WriteMint \/ WriteGate \/ WriteFlow
  BY <1>3, <1>4 DEF WriteMint, WriteGate, WriteFlow, Removes
<1>5. CASE WriteReap
  <2>1. PICK j \in Head(writes).jobs :
          writes' = IF Head(writes).jobs = {j} THEN Tail(writes) ELSE Shrunk(writes, j)
    BY <1>5 DEF WriteReap, Shrunk
  <2>2. Head(writes).kind = "reap"
    BY <1>5 DEF WriteReap
  <2>3. CASE writes' = Tail(writes)
    BY <1>3, <2>2, <2>3 DEF Removes
  <2>4. CASE Head(writes).jobs # {j} /\ writes' = Shrunk(writes, j)
    <3>1. \A i \in 1..Len(writes) : writes[i] \in Write
      BY <1>2, ElementOfSeq
    <3> DEFINE ws == Shrunk(writes, j)
    <3>2. Len(ws) = Len(writes) /\ \A i \in 1..Len(writes) : ws[i].kind = writes[i].kind
      BY <1>2, <3>1 DEF Shrunk, Write
    <3> HIDE DEF ws
    <3>3. Removing(ws)
      BY <3>2 DEF Removing, Removes
    <3> QED BY <2>4, <3>3 DEF ws
  <2> QED BY <2>1, <2>3, <2>4
<1>6. CASE UNCHANGED vars
  BY <1>1, <1>6 DEF vars
<1>7. ~ (Create \/ Stop \/ RequestAppend \/ DeadlineNears \/ MoveDeadline)
  BY <1>2 DEF Create, Stop, RequestAppend, DeadlineNears, MoveDeadline
<1>8. ~ (SpoolAppend \/ ReconcileNothing \/ ReconcileDeadline \/ ReconcileBegin \/ StatusPass)
  BY <1>2 DEF SpoolAppend, ReconcileNothing, ReconcileDeadline, ReconcileBegin, StatusPass, Begins
<1>9. ~ Route
  BY <1>2, RouteActs DEF Routing
<1>10. CASE MarkStarted \/ TickEnd \/ VisitsDone \/ VisitUngate \/ VisitDepSkip \/ VisitPending
  BY <1>1, <1>10 DEF MarkStarted, TickEnd, VisitsDone, VisitUngate, VisitDepSkip, VisitPending, Visited
<1>11. ASSUME NEW j \in JobIds, VisitHeld(j) \/ VisitGated(j) \/ VisitUngated(j)
       PROVE  Removing(writes')
  BY <1>1, <1>11 DEF VisitHeld, VisitGated, VisitUngated
<1>12. ASSUME NEW j \in JobIds, Cancel(j) \/ Launch(j) \/ Session(j) PROVE Removing(writes')
  BY <1>1, <1>12 DEF Cancel, Launch, Session, Report, AuthFail, UnitExit, WindowPast, Inside
<1> QED BY <1>4, <1>5, <1>6, <1>7, <1>8, <1>9, <1>10, <1>11, <1>12 DEF Next, Tick, Visit, Writing

\* The spool only changes by a request that comes and one that is removed.
LEMMA AsksStay ==
  ASSUME Typed, [Next]_vars, ~ RequestAppend, ~ WriteConsumed
  PROVE  asks' = asks
<1>1. CASE Create \/ DeadlineNears \/ WriteMint \/ WriteGate \/ WriteReap \/ SpoolAppend
           \/ ReconcileNothing \/ ReconcileDeadline \/ ReconcileBegin \/ StatusPass
           \/ MarkStarted \/ TickEnd \/ VisitsDone
  BY <1>1 DEF Create, DeadlineNears, WriteMint, WriteGate, WriteReap, SpoolAppend,
       ReconcileNothing, ReconcileDeadline, ReconcileBegin, StatusPass, MarkStarted, TickEnd,
       VisitsDone, files
<1>2. CASE Stop \/ MoveDeadline \/ Crash \/ WriteFlow
  BY <1>2 DEF Stop, MoveDeadline, Crash, WriteFlow, files
<1>3. CASE Route
  BY <1>3, RouteActs DEF Routing, files
<1>4. CASE VisitUngate \/ VisitDepSkip \/ VisitPending
  BY <1>4 DEF VisitUngate, VisitDepSkip, VisitPending, Visited
<1>5. ASSUME NEW j \in JobIds, VisitHeld(j) \/ VisitGated(j) \/ VisitUngated(j) PROVE asks' = asks
  BY <1>5 DEF VisitHeld, VisitGated, VisitUngated, files
<1>6. ASSUME NEW j \in JobIds, Cancel(j) \/ Launch(j) \/ Session(j) PROVE asks' = asks
  BY <1>6 DEF Cancel, Launch, Session, Report, AuthFail, UnitExit, WindowPast, files
<1>7. CASE UNCHANGED vars
  BY <1>7 DEF vars
<1> QED BY <1>1, <1>2, <1>3, <1>4, <1>5, <1>6, <1>7 DEF Next, Tick, Visit, Writing

\* What an append took out of the spool and what is still to be taken out.
LEMMA Balances ==
  ASSUME NEW a \in Nat, NEW q \in Nat, NEW c \in Nat, NEW b \in {0, 1}, q <= a,
         NEW x \in Nat, NEW y \in Nat, NEW d \in Nat, NEW e \in {0, 1}, y <= x
  PROVE  /\ (a - q) + c + b \in Nat
         /\ a <= x /\ y = q /\ c <= d /\ b <= e => (a - q) + c + b <= (x - y) + d + e
         /\ a <= x /\ y = q /\ c <= d /\ b = 0 /\ e = 1 => (a - q) + c + b + 1 <= (x - y) + d + e
         /\ x = a + 1 /\ y = q + 1 /\ c <= d /\ b <= e => (a - q) + c + b <= (x - y) + d + e
         /\ a <= x /\ y = q - 1 /\ c <= d => (a - q) + c + b <= (x - y) + d + e
         /\ a <= x /\ y = q /\ d = c + 1 => (a - q) + c + b <= (x - y) + d + e
OBVIOUS

\* What is owed never grows less, and grows by one when a request is read.
LEMMA OweGrows ==
  ASSUME Typed, Counts, Removal, [Next]_vars
  PROVE  /\ Owe \in Nat /\ Owe' \in Nat /\ Owe <= Owe'
         /\ SpoolAppend => Owe + 1 <= Owe'
<1> DEFINE a == spent["append"]
           c == spent["crash"]
           q == asks
           b == Leaving
           x == a'
           d == c'
           y == q'
           e == b'
<1>1. "append" \in Events /\ "crash" \in Events
  BY DEF Events
<1>2. a <= x /\ c <= d
  BY <1>1, StepSpends, SpentGrows
<1>3. a \in Nat /\ c \in Nat /\ q \in Nat /\ q <= a
  BY <1>1 DEF Counts
<1>4. x \in Nat /\ d \in Nat /\ y \in Nat /\ y <= x
  <2>1. Counts'
    BY CountsStay
  <2> QED BY <1>1, <2>1 DEF Counts
<1>5. b \in {0, 1} /\ e \in {0, 1} /\ (Removing(writes) <=> b = 1) /\ (Removing(writes)' <=> e = 1)
  BY DEF Leaving
<1>6. Owe = (a - q) + c + b /\ Owe' = (x - y) + d + e
  BY DEF Owe
<1>7. Removing(writes)' <=> Removing(writes')
  BY DEF Removing, Removes
<1>8. RequestAppend => x = a + 1 /\ y = q + 1 /\ b <= e
  <2> SUFFICES ASSUME RequestAppend PROVE x = a + 1 /\ y = q + 1 /\ b <= e
    OBVIOUS
  <2>1. Spend("append") /\ asks' = asks + 1 /\ writes' = writes
    BY DEF RequestAppend, Inside
  <2>2. x = a + 1
    BY <1>1, <2>1, SpendCounts
  <2>3. e = b
    BY <1>7, <2>1 DEF Leaving
  <2> HIDE DEF b, e
  <2> QED BY <1>5, <2>1, <2>2, <2>3
<1>9. WriteConsumed => y = q - 1
  BY DEF WriteConsumed
<1>10. Crash => y = q /\ d = c + 1
  <2> SUFFICES ASSUME Crash PROVE y = q /\ d = c + 1
    OBVIOUS
  <2>1. asks' = asks /\ Spend("crash")
    BY DEF Crash, files
  <2>2. spent' = [spent EXCEPT !["crash"] = spent["crash"] + 1] /\ spent \in [Events -> Nat]
    BY <2>1 DEF Spend, Counts
  <2> QED BY <1>1, <2>1, <2>2
<1>11. SpoolAppend => y = q /\ b = 0 /\ e = 1
  <2> SUFFICES ASSUME SpoolAppend PROVE y = q /\ b = 0 /\ e = 1
    OBVIOUS
  <2>1. asks' = asks /\ writes = <<>> /\ Removing(writes')
    BY SpoolRemoves DEF SpoolAppend, Begins, Computing, files
  <2>2. ~ Removing(writes)
    BY <2>1, ShortPlans DEF Removing
  <2> QED BY <1>7, <2>1, <2>2 DEF Leaving
<1>12. ~ (RequestAppend \/ WriteConsumed \/ Crash) => y = q /\ b <= e
  <2> SUFFICES ASSUME ~ RequestAppend, ~ WriteConsumed, ~ Crash PROVE y = q /\ b <= e
    OBVIOUS
  <2>1. asks' = asks
    BY AsksStay
  <2>2. Removing(writes) => Removing(writes)'
    BY <1>7, RemovingStays
  <2>3. b <= e
    <3> HIDE DEF b, e
    <3> QED BY <1>5, <2>2
  <2> QED BY <2>1, <2>3
<1> HIDE DEF a, b, c, d, e, x, y, q
<1>13. (a - q) + c + b \in Nat /\ (x - y) + d + e \in Nat
  BY <1>3, <1>4, <1>5
<1>14. (a - q) + c + b <= (x - y) + d + e
  BY <1>2, <1>3, <1>4, <1>5, <1>8, <1>9, <1>10, <1>12, Balances
<1>15. SpoolAppend => (a - q) + c + b + 1 <= (x - y) + d + e
  BY <1>2, <1>3, <1>4, <1>5, <1>11, Balances
<1> QED BY <1>6, <1>13, <1>14, <1>15

(***************************************************************************)
(* Of the saved flow and of the handler's copy: no more rounds than nodes   *)
(* that gave needs-work, emitters that were given a group, and requests;    *)
(* and one group to an emitter.                                             *)
(***************************************************************************)
Due(f, o) == Cardinality(Rounds(f)) <= Cardinality(Faulted(f)) + Cardinality(Groups(f)) + o
Paid == Due(flow, Owe) /\ Due(mem, Owe) /\ Single(flow) /\ Single(mem)

\* What is owed for keeps being so.
LEMMA DueStays ==
  ASSUME NEW f \in Flow, NEW g \in Flow, NEW o \in Nat, NEW p \in Nat, NEW d \in Nat,
         Due(f, o), Owes(f, g, d), o + d <= p
  PROVE  Due(g, p)
<1> DEFINE a == Cardinality(Rounds(f))
           b == Cardinality(Faulted(f))
           c == Cardinality(Groups(f))
           x == Cardinality(Rounds(g))
           y == Cardinality(Faulted(g))
           z == Cardinality(Groups(g))
<1>1. a \in Nat /\ b \in Nat /\ c \in Nat /\ x \in Nat /\ y \in Nat /\ z \in Nat
  BY FiniteParts
<1>2. a <= b + c + o
  BY DEF Due
<1>3. x + b + c <= a + y + z + d
  BY DEF Owes
<1>4. Due(g, p) <=> x <= y + z + p
  BY DEF Due
<1> HIDE DEF a, b, c, x, y, z
<1>5. x <= y + z + p
  BY <1>1, <1>2, <1>3
<1> QED BY <1>4, <1>5

\* The counts depend on the nodes alone.
LEMMA SameParts ==
  ASSUME NEW f \in Flow, NEW g \in Flow, g.nodes = f.nodes
  PROVE  Owes(f, g, 0) /\ (Single(f) => Single(g))
<1>1. Rounds(g) = Rounds(f) /\ Faulted(g) = Faulted(f) /\ Groups(g) = Groups(f)
  BY DEF Rounds, Faulted, Groups
<1>2. Single(f) => Single(g)
  <2> DEFINE fits(nodes) ==
        \A i \in 1..Len(nodes) : nodes[i].by # None =>
          /\ \A k \in 1..Len(nodes) : nodes[k].by = nodes[i].by => nodes[k].id[2] = nodes[i].id[2]
          /\ \E k \in 1..Len(nodes) : nodes[k].id = nodes[i].by /\ nodes[k].seen # ""
  <2>1. (Single(f) <=> fits(f.nodes)) /\ (Single(g) <=> fits(g.nodes))
    BY Zenon DEF Single
  <2> HIDE DEF fits
  <2> QED BY <2>1
<1> DEFINE a == Cardinality(Rounds(f))
           b == Cardinality(Faulted(f))
           c == Cardinality(Groups(f))
<1>3. a \in Nat /\ b \in Nat /\ c \in Nat
  BY FiniteParts
<1>4. Owes(f, g, 0) <=> a + b + c <= a + b + c + 0
  BY <1>1 DEF Owes
<1> HIDE DEF a, b, c
<1>5. a + b + c <= a + b + c + 0
  BY <1>3
<1> QED BY <1>2, <1>4, <1>5

\* The happy path has no round, and no group.
LEMMA PathPaid ==
  ASSUME NEW g \in Flow, g.nodes = Minted \/ g.nodes = <<>>, NEW o \in Nat
  PROVE  Due(g, o) /\ Single(g)
<1>1. \A i \in 1..Len(g.nodes) : g.nodes[i].id[2] = 0 /\ g.nodes[i].by = None
  <2>1. CASE g.nodes = Minted
    <3>1. Path \in Seq(Roles \X Nat) /\ DOMAIN Path = 1..Len(Path) /\ Len(Path) \in Nat
      BY FlowAssumption, LenProperties
    <3>2. Len(Minted) = Len(Path)
      BY <3>1 DEF Minted
    <3>3. \A i \in 1..Len(Path) : Minted[i].id[2] = 0 /\ Minted[i].by = None
      BY <3>1 DEF Minted, NewNode, StageId
    <3> QED BY <2>1, <3>2, <3>3
  <2>2. CASE g.nodes = <<>>
    BY <2>2
  <2> QED BY <2>1, <2>2
<1>2. Rounds(g) = {}
  BY <1>1 DEF Rounds
<1>3. Single(g)
  BY <1>1 DEF Single
<1>4. Cardinality(Rounds(g)) = 0
  BY <1>2, FS_EmptySet
<1> DEFINE b == Cardinality(Faulted(g))
           c == Cardinality(Groups(g))
<1>5. b \in Nat /\ c \in Nat
  BY FiniteParts
<1>6. Due(g, o) <=> 0 <= b + c + o
  BY <1>4 DEF Due
<1> HIDE DEF b, c
<1>7. 0 <= b + c + o
  BY <1>5
<1> QED BY <1>3, <1>6, <1>7

\* The verdict pass inserts a round only after a needs-work or an emission.
LEMMA RoutePaid ==
  ASSUME Typed, Graph(mem.nodes), Single(mem), Route, mem' \in Flow
  PROVE  Owes(mem, mem', 0) /\ Single(mem')
<1>1. Routing
  BY RouteActs
<1>2. /\ mem \in Flow /\ At \in 1..Len(mem.nodes) /\ Here = mem.nodes[At]
      /\ Here.seen = "" /\ mem.nodes[At].seen = ""
  BY <1>1, HereIsNew
<1>3. Distinct(mem.nodes) /\ \A v \in Verdicts : Fresh(mem, At, v)
  BY <1>2 DEF Graph, Fresh
<1>4. ASSUME NEW v \in Verdicts, Stamping(mem, mem', At, v)
      PROVE  Owes(mem, mem', 0) /\ Single(mem')
  BY <1>2, <1>3, <1>4, StampOwes
<1>5. {"complete", "needs-work", "ok"} \subseteq Verdicts
  BY DEF Verdicts, Stamps
<1>6. CASE RouteComplete
  BY <1>2, <1>4, <1>5, <1>6, CompleteMoves
<1>7. CASE RouteEmit
  <2>1. PICK new : Grouping(mem, mem', At, "ok", Here.id, new)
    BY <1>7, EmitMoves
  <2> QED BY <1>2, <1>3, <2>1, GroupOwes
<1>8. CASE RouteNeedsWork
  <2> DEFINE v == "needs-work"
             at == Here.id
  <2>1. \/ Stamping(mem, mem', At, v)
        \/ \E new : Cutting(mem, mem', At, v, at, new)
        \/ \E new : Chaining(mem, mem', At, v, at, new)
    BY <1>8, NeedsWorkMoves
  <2>2. CASE Stamping(mem, mem', At, v)
    BY <1>4, <1>5, <2>2
  <2>3. ASSUME NEW new, Adds(mem, mem', At, v, new), ChainOf(new, at), RoundOf(mem, at, new)
        PROVE  Owes(mem, mem', 0) /\ Single(mem')
    <3>1. Fresh(mem, At, v)
      BY <1>3, <1>5
    <3>2. \A k \in 1..Len(new) : new[k].by = None
      BY <2>3 DEF ChainOf
    <3>3. Single(mem')
      BY <1>2, <2>3, <3>1, <3>2, ChainSingle
    <3>4. Owes(mem, mem', 0)
      BY <1>2, <1>3, <2>3, FaultOwes
    <3> QED BY <3>3, <3>4
  <2> QED BY <2>1, <2>2, <2>3 DEF Cutting, Chaining
<1>9. CASE \/ RouteEnded \/ RouteBlocked
           \/ \E v \in {"draft", "ok", "blocked"} : RouteUndecided(v)
           \/ \E v \in {"draft", "ok", "complete"} : RouteProceed(v)
  BY <1>4, <1>9, PlainMoves
<1> QED BY <1>6, <1>7, <1>8, <1>9 DEF Route

\* An append owes its round to the request.
LEMMA SpoolPaid ==
  ASSUME Typed, Single(flow), SpoolAppend, mem' # mem, mem' \in Flow
  PROVE  Owes(flow, mem', 1) /\ Single(mem')
<1> DEFINE v == ""
<1>1. PICK q \in 1..Len(flow.nodes) : \E new :
        Chaining(flow, mem', 0, v, flow.nodes[q].id, new)
  BY SpoolMoves
<1> HIDE DEF v
<1> DEFINE at == flow.nodes[q].id
<1>2. PICK new : Chaining(flow, mem', 0, v, at, new)
  BY <1>1
<1>3. flow \in Flow /\ Fresh(flow, 0, v)
  BY DEF Typed, FlowsTyped, Fresh
<1>4. Adds(flow, mem', 0, v, new) /\ RoundOf(flow, at, new) /\ \A k \in 1..Len(new) : new[k].by = None
  BY <1>2 DEF Chaining, ChainOf
<1> HIDE DEF at
<1> DEFINE zero == 0
<1> HIDE DEF zero
<1>5. /\ Cardinality(Rounds(mem')) <= Cardinality(Rounds(flow)) + 1
      /\ Cardinality(Faulted(flow)) <= Cardinality(Faulted(mem'))
      /\ Cardinality(Groups(flow)) <= Cardinality(Groups(mem'))
  BY <1>3, <1>4, AddedParts
<1>6. Owes(flow, mem', 1)
  BY <1>3, <1>5, FiniteParts, BalanceOwing DEF Owes
<1>7. Single(mem')
  BY <1>3, <1>4, ChainSingle
<1> QED BY <1>6, <1>7
\* Paid is inductive on top of the types, the counts and the graph.
LEMMA PaidStays ==
  ASSUME Typed, Counts, Removal, Wired, Paid, [Next]_vars
  PROVE  Paid'
<1>1. /\ flow \in Flow /\ mem \in Flow /\ flow' \in Flow /\ mem' \in Flow
      /\ Graph(mem.nodes)
  <2>1. Typed'
    BY TypedStays
  <2> QED BY <2>1 DEF Typed, FlowsTyped, Wired
<1>2. Owe \in Nat /\ Owe' \in Nat /\ Owe <= Owe' /\ Owe + 0 <= Owe'
  <2>1. Owe \in Nat /\ Owe' \in Nat /\ Owe <= Owe'
    BY OweGrows
  <2> DEFINE o == Owe
             p == Owe'
  <2> HIDE DEF o, p
  <2>2. o \in Nat /\ p \in Nat /\ o <= p => o + 0 <= p
    OBVIOUS
  <2> QED BY <2>1, <2>2 DEF o, p
<1>3. ASSUME NEW f \in {flow, mem}, NEW g \in Flow, g.nodes = f.nodes
      PROVE  Due(g, Owe') /\ Single(g)
  <2>1. f \in Flow /\ Due(f, Owe) /\ Single(f)
    BY <1>1 DEF Paid
  <2>2. Owes(f, g, 0) /\ Single(g)
    BY <1>3, <2>1, SameParts
  <2> QED BY <1>2, <2>1, <2>2, DueStays
<1>4. ASSUME flow' \in {flow, mem}, Due(mem', Owe'), Single(mem') PROVE Paid'
  <2>1. Due(flow', Owe') /\ Single(flow')
    BY <1>1, <1>3, <1>4
  <2> QED BY <1>4, <2>1 DEF Paid, Due, Rounds, Faulted, Groups, Single
<1>5. ASSUME flow' \in {flow, mem}, mem'.nodes = mem.nodes \/ mem'.nodes = flow.nodes PROVE Paid'
  BY <1>1, <1>3, <1>4, <1>5
<1>6. CASE WriteFlow
  BY <1>5, <1>6 DEF WriteFlow
<1>7. CASE Create
  <2>1. flow' = flow /\ mem' = [status |-> "queued", nodes |-> Minted, round |-> 0]
    BY <1>7 DEF Create, files
  <2> QED BY <1>1, <1>2, <1>4, <2>1, PathPaid
<1>8. CASE Stop \/ ReconcileDeadline \/ ReconcileBegin
  <2>1. /\ flow' = flow
        /\ \/ mem' = [flow EXCEPT !.status = "stopped"]
           \/ mem' = [flow EXCEPT !.status = "deadline"]
           \/ mem' = flow
    BY <1>8 DEF Stop, ReconcileDeadline, ReconcileBegin, files
  <2>2. mem'.nodes = flow.nodes
    BY <1>1, <2>1 DEF Flow
  <2> QED BY <1>5, <2>1, <2>2
<1>9. CASE SpoolAppend
  <2>1. flow' = flow
    BY <1>9 DEF SpoolAppend, files
  <2>2. CASE mem' = mem
    BY <1>5, <2>1, <2>2
  <2>3. CASE mem' # mem
    <3>1. Owes(flow, mem', 1) /\ Single(mem')
      BY <1>1, <1>9, <2>3, SpoolPaid DEF Paid
    <3>2. Owe + 1 <= Owe'
      BY <1>9, OweGrows
    <3>3. Due(mem', Owe')
      BY <1>1, <1>2, <3>1, <3>2, DueStays DEF Paid
    <3> QED BY <1>4, <2>1, <3>1, <3>3
  <2> QED BY <2>2, <2>3
<1>10. CASE VisitsDone \/ Crash
  <2>1. flow' = flow /\ mem' = NoFlow
    BY <1>10 DEF VisitsDone, Crash, files
  <2>2. mem'.nodes = <<>>
    BY <2>1 DEF NoFlow
  <2> QED BY <1>1, <1>2, <1>4, <2>1, <2>2, PathPaid
<1>11. CASE Route
  <2>1. flow' = flow
    BY <1>11, RouteActs DEF Routing, files
  <2>2. Owes(mem, mem', 0) /\ Single(mem')
    BY <1>1, <1>11, RoutePaid DEF Paid
  <2>3. Due(mem', Owe')
    BY <1>1, <1>2, <2>2, DueStays DEF Paid
  <2> QED BY <1>4, <2>1, <2>2, <2>3
<1>12. CASE StatusPass
  BY <1>5, <1>12, StatusPassStep DEF StatusPass, files
<1>13. CASE WriteMint \/ WriteGate \/ WriteReap \/ WriteConsumed
  BY <1>5, <1>13 DEF WriteMint, WriteGate, WriteReap, WriteConsumed
<1>14. CASE RequestAppend \/ DeadlineNears \/ MoveDeadline \/ ReconcileNothing \/ MarkStarted
            \/ TickEnd
  BY <1>5, <1>14 DEF RequestAppend, DeadlineNears, MoveDeadline, ReconcileNothing, MarkStarted,
                     TickEnd, files, Inside
<1>15. CASE VisitUngate \/ VisitDepSkip \/ VisitPending
  BY <1>5, <1>15 DEF VisitUngate, VisitDepSkip, VisitPending, Visited
<1>16. ASSUME NEW j \in JobIds, VisitHeld(j) \/ VisitGated(j) \/ VisitUngated(j)
       PROVE  Paid'
  BY <1>5, <1>16 DEF VisitHeld, VisitGated, VisitUngated, files
<1>17. ASSUME NEW j \in JobIds, Cancel(j) \/ Launch(j) \/ Session(j) PROVE Paid'
  BY <1>5, <1>17 DEF Cancel, Launch, Session, Report, AuthFail, UnitExit, WindowPast, files,
                     Inside
<1>18. CASE UNCHANGED vars
  BY <1>5, <1>18 DEF vars
<1> QED BY <1>6, <1>7, <1>8, <1>9, <1>10, <1>11, <1>12, <1>13, <1>14, <1>15, <1>16, <1>17,
           <1>18 DEF Next, Tick, Visit, Writing

\* What is owed is the requests and the crashes there were; and nodes that gave
\* needs-work are no fewer than their ids.
LEMMA PaidActs ==
  ASSUME Typed, Counts, Removal, Paid
  PROVE  ActedOnce
<1> DEFINE n == Len(flow.nodes)
           faulty == {m \in Nodes(flow) : m.seen = "needs-work"}
<1>1. flow \in Flow /\ Nodes(flow) = {flow.nodes[i] : i \in 1..n}
  BY NodesOf DEF Typed, FlowsTyped
<1>2. {m.id[2] : m \in Nodes(flow)} \ {0} = Rounds(flow)
  BY <1>1 DEF Rounds
<1>3. {m.by : m \in Nodes(flow)} \ {None} = Groups(flow)
  BY <1>1 DEF Groups
<1>4. Cardinality(Faulted(flow)) <= Cardinality(faulty) /\ Cardinality(faulty) \in Nat
  <2>1. n \in Nat
    <3>1. flow.nodes \in Seq(Node)
      BY <1>1 DEF Flow
    <3> QED BY <3>1, LenProperties
  <2>2. IsFiniteSet(Nodes(flow))
    <3> DEFINE s == [i \in 1..n |-> flow.nodes[i]]
    <3>1. s \in Surjection(1..n, Nodes(flow))
      BY <1>1 DEF Surjection
    <3> HIDE DEF s, n
    <3>2. IsFiniteSet(1..n)
      BY <2>1, FS_Interval
    <3> QED BY <3>1, <3>2, FS_Surjection
  <2>3. IsFiniteSet(faulty) /\ Cardinality(faulty) \in Nat
    BY <2>2, FS_Subset, FS_CardinalityType
  <2> DEFINE t == [m \in faulty |-> m.id]
  <2>4. t \in Surjection(faulty, Faulted(flow))
    BY <1>1 DEF Surjection, Faulted
  <2> HIDE DEF t, faulty
  <2> QED BY <2>3, <2>4, FS_Surjection
<1>5. Owe \in Nat /\ Owe <= spent["append"] + spent["crash"]
      /\ spent["append"] \in Nat /\ spent["crash"] \in Nat
  <2> DEFINE a == spent["append"]
             c == spent["crash"]
             q == asks
             b == Leaving
  <2>1. a \in Nat /\ c \in Nat /\ q \in Nat /\ q <= a
    BY DEF Counts, Events
  <2>2. b = 0 \/ (b = 1 /\ q > 0)
    BY DEF Leaving, Removal
  <2>3. Owe = (a - q) + c + b
    BY DEF Owe
  <2> HIDE DEF a, b, c, q
  <2>4. (a - q) + c + b \in Nat /\ (a - q) + c + b <= a + c
    BY <2>1, <2>2
  <2> QED BY <2>1, <2>3, <2>4 DEF a, c
<1>6. Cardinality(Rounds(flow)) <= Cardinality(faulty) + Cardinality(Groups(flow))
                                     + spent["append"] + spent["crash"]
  <2> DEFINE r == Cardinality(Rounds(flow))
             x == Cardinality(Faulted(flow))
             y == Cardinality(faulty)
             g == Cardinality(Groups(flow))
             a == spent["append"]
             c == spent["crash"]
             o == Owe
  <2>1. r \in Nat /\ x \in Nat /\ g \in Nat
    BY <1>1, FiniteParts
  <2>2. y \in Nat /\ x <= y
    BY <1>4
  <2>3. a \in Nat /\ c \in Nat /\ o \in Nat /\ o <= a + c
    BY <1>5
  <2>4. r <= x + g + o
    BY DEF Paid, Due
  <2> HIDE DEF r, x, y, g, a, c, o, faulty
  <2>5. r <= y + g + a + c
    BY <2>1, <2>2, <2>3, <2>4
  <2> QED BY <2>5 DEF r, y, g, a, c
<1>7. ASSUME NEW m \in Nodes(flow), NEW k \in Nodes(flow), m.by = k.by, m.by # None
      PROVE  m.id[2] = k.id[2]
  <2>1. PICK i \in 1..n : m = flow.nodes[i]
    BY <1>1
  <2>2. PICK h \in 1..n : k = flow.nodes[h]
    BY <1>1
  <2>3. \A j \in 1..n : flow.nodes[j].by = flow.nodes[i].by => flow.nodes[j].id[2] = flow.nodes[i].id[2]
    BY <1>7, <2>1 DEF Paid, Single
  <2> QED BY <1>7, <2>1, <2>2, <2>3
<1> HIDE DEF faulty
<1> QED BY <1>2, <1>3, <1>6, <1>7 DEF ActedOnce, faulty

\* A verdict is acted on once: every round of nodes is owed to a needs-work
\* verdict, an emission or a request (read again, at most, after a crash), and an
\* emitter has one group.  Where ids may clash (FanInApart) two nodes that gave
\* needs-work could pass for one, and an emitter for another.
THEOREM AlwaysActedOnce == Spec => [](FanInApart => ActedOnce)
<1> DEFINE Inv == FanInApart => Wired /\ Paid
<1>1. Init /\ Accounted => Inv
  <2> SUFFICES ASSUME Init, Accounted PROVE Wired /\ Paid
    OBVIOUS
  <2>1. flow \in Flow /\ mem \in Flow /\ flow.nodes = <<>> /\ mem.nodes = <<>>
    BY DEF Accounted, Typed, FlowsTyped, Init, NoFlow
  <2>2. Owe \in Nat
    <3>1. spent["append"] = 0 /\ spent["crash"] = 0 /\ asks = 0 /\ Leaving \in {0, 1}
      BY DEF Init, Events, Leaving
    <3> HIDE DEF Leaving
    <3> QED BY <3>1 DEF Owe
  <2>3. Paid
    BY <2>1, <2>2, PathPaid DEF Paid
  <2> QED BY <2>3, InitWired
<1>2. Inv /\ Accounted /\ [Next]_vars => Inv'
  BY WiredStays, PaidStays DEF Accounted, FanInApart
<1>3. Inv /\ Accounted => (FanInApart => ActedOnce)
  BY PaidActs DEF Accounted
<1> HIDE DEF Inv
<1> QED BY <1>1, <1>2, <1>3, FlowRunAccounted, PTL DEF Spec

Losing(phase, m) ==
  /\ phase \in {"queued", "started", "skipped"}
  /\ m \cap {"depskip", "authfail"} # {} \/ phase = "skipped"
Lost(j) == Losing(job[j].phase, marks[j])
Held(j) == job[j].phase = "absent" \/ (Unstarted(j) /\ ~ ReportExists(j))
Live(f) == f.status \in {"queued", "running"}
Stopping(f) == f.status \in {"blocked", "stopped", "deadline"}

AtHand == pc \in {"ready", "mark"} => cur \in JobIds /\ Queued(cur)
Unmarked == \A j \in JobIds : job[j].phase = "absent" => marks[j] = {}

Excused(f) ==
  \A i \in 1..Len(f.nodes) :
    /\ f.nodes[i].seen \notin {"", "terminal-no-report"} => ReportExists(f.nodes[i].job)
    /\ f.nodes[i].by # None =>
         /\ ~ Leaf(f, i)
         /\ \E k \in 1..Len(f.nodes) : f.nodes[k].id = f.nodes[i].by /\ ReportExists(f.nodes[k].job)
Open(f) ==
  Live(f) =>
    /\ \A i \in 1..Len(f.nodes) :
         f.nodes[i].seen = "terminal-no-report" => f.nodes[i].by # None
    /\ \A d : Decider(f, d) => f.nodes[d].seen = ""
Tidy ==
  /\ AtHand /\ Unmarked
  /\ Excused(flow) /\ Excused(mem) /\ Open(flow) /\ Open(mem)
  /\ pc = "route" => Live(mem) \/ mem.status \in {"blocked", "complete"}

Causes(f, i) ==
  \/ f.nodes[i].by = None /\ f.nodes[i].seen \in {"blocked", "terminal-no-report"}
  \/ f.nodes[i].seen = "needs-work"
       /\ (f.nodes[i].by = None \/ f.nodes[i].id[1] \in DOMAIN Edges)
  \/ f.nodes[i].id = AcceptanceID(f) /\ f.nodes[i].seen \in {"ok", "none"}
Caused(f) == f.status = "blocked" => \E i \in 1..Len(f.nodes) : Causes(f, i)
Passed ==
  pc = "route" =>
    \A i \in 1..Len(mem.nodes) :
      mem.nodes[i].seen = "" /\ Lost(mem.nodes[i].job) => i \in idx..total
Cleared == Stopping(flow) => \A j \in Owned(flow) : ~ Held(j)
Clearing == Stopping(mem) => \A j \in Owned(mem) : Held(j) => Reaped(j)
Finished == Caused(flow) /\ Caused(mem) /\ Passed /\ Cleared /\ Clearing

(***************************************************************************)
(* The job files only age.                                                  *)
(***************************************************************************)
Ages ==
  \A j \in JobIds :
    /\ ReportExists(j) => ReportExists(j)'
    /\ \/ job'[j].phase \in {job[j].phase, "gone"}
       \/ job'[j].phase \in {"skipped", "started"} /\ job[j].phase = "queued"
       \/ job'[j].phase = "queued" /\ job[j].phase = "absent"
    /\ job[j].phase = "absent" => marks'[j] = marks[j]

LEMMA JobsAge ==
  ASSUME Safe, AtHand, [Next]_vars
  PROVE  Ages
<1>1. /\ job \in [JobIds -> JobFile] /\ report \in [JobIds -> Reports]
      /\ marks \in [JobIds -> SUBSET Marks] /\ unit \in [JobIds -> Units]
  BY DEF Safe, Typed, JobsTyped, SessionsTyped
<1>2. \A j \in JobIds : DOMAIN job[j] = {"phase", "gated", "after", "id"}
  BY <1>1 DEF JobFile
<1>3. ASSUME job' = job, report' = report, marks' = marks PROVE Ages
  BY <1>3 DEF Ages, ReportExists
<1>4. ASSUME NEW j \in JobIds, NEW p, job' = [job EXCEPT ![j].phase = p], report' = report,
             marks' = marks, p = "gone" \/ (p = "started" /\ Queued(j))
      PROVE  Ages
  <2>1. \A i \in JobIds : i # j => job'[i] = job[i]
    BY <1>1, <1>4
  <2>2. job'[j].phase = p
    BY <1>1, <1>2, <1>4
  <2> QED BY <1>4, <2>1, <2>2 DEF Ages, ReportExists, Queued
<1>5. ASSUME NEW j \in JobIds, DepSkip(j), Queued(j), report' = report PROVE Ages
  <2>1. /\ job' = [job EXCEPT ![j].phase = "skipped", ![j].gated = FALSE]
        /\ marks' = [marks EXCEPT ![j] = @ \cup {"depskip"}]
    BY <1>5 DEF DepSkip
  <2>2. \A i \in JobIds : i # j => job'[i] = job[i] /\ marks'[i] = marks[i]
    BY <1>1, <2>1
  <2>3. job'[j].phase = "skipped"
    BY <1>1, <1>2, <2>1
  <2> QED BY <1>5, <2>2, <2>3 DEF Ages, ReportExists, Queued
<1>6. ASSUME Elsewhere, NEW j \in JobIds, job[j].phase # "absent",
             \A i \in JobIds : i # j => marks'[i] = marks[i]
      PROVE  Ages
  BY <1>6 DEF Elsewhere, Ages
<1>7. ASSUME NEW j \in JobIds, unit[j] # "none" PROVE job[j].phase # "absent"
  <2>1. PICK n \in Nodes(flow) : n.job = j
    BY <1>7 DEF Safe, SessionsOwned, Owned
  <2> QED BY <2>1 DEF Safe, Files, FlowBacked, Backed
<1>8. ASSUME ~ Computing PROVE WellFormed(Head(writes)) /\ Head(writes) \in Pending
  BY <1>8, HeadIs DEF Computing
<1>9. CASE WriteMint
  <2> DEFINE w == Head(writes)
             x == [phase |-> "queued", gated |-> w.node.after # {},
                   after |-> w.node.after, id |-> w.node.id]
  <2>1. /\ job' = [j \in JobIds |-> IF j \in w.jobs THEN x ELSE job[j]]
        /\ report' = report /\ marks' = marks
    BY <1>9 DEF WriteMint, outside, sessions
  <2>2. \A j \in w.jobs : job[j].phase = "absent"
    <3>1. w.kind = "mint" /\ w.jobs = {w.node.job} /\ w \in Pending
      BY <1>8, <1>9 DEF WriteMint, WellFormed
    <3> QED BY <3>1 DEF Safe, Files, MintsNew
  <2>3. x.phase = "queued"
    OBVIOUS
  <2> HIDE DEF x, w
  <2> QED BY <2>1, <2>2, <2>3 DEF Ages, ReportExists
<1>10. CASE WriteGate
  <2> DEFINE w == Head(writes)
             a == w.node.after
  <2>1. /\ job' = [j \in JobIds |-> IF j \in w.jobs THEN [job[j] EXCEPT !.after = a] ELSE job[j]]
        /\ report' = report /\ marks' = marks
    BY <1>10 DEF WriteGate, outside, sessions
  <2> HIDE DEF w, a
  <2>2. \A j \in JobIds : [job[j] EXCEPT !.after = a].phase = job[j].phase
    BY <1>2
  <2> QED BY <2>1, <2>2 DEF Ages, ReportExists
<1>11. CASE WriteReap
  <2>1. PICK j \in Head(writes).jobs : job' = [job EXCEPT ![j].phase = "gone"]
    BY <1>11 DEF WriteReap
  <2>2. j \in JobIds
    BY <1>8, <1>11, <2>1 DEF WriteReap, WellFormed, Write
  <2> QED BY <1>4, <1>11, <2>1, <2>2 DEF WriteReap, outside, sessions
<1>12. CASE MarkStarted
  <2>1. cur \in JobIds /\ Queued(cur)
    BY <1>12 DEF MarkStarted, AtHand
  <2> QED BY <1>4, <1>12, <2>1 DEF MarkStarted, outside, sessions
<1>13. CASE VisitUngate
  <2>1. /\ job' = [job EXCEPT ![cur].gated = FALSE, ![cur].after = {}] /\ pc = "ready"
        /\ report' = report /\ marks' = marks
    BY <1>13 DEF VisitUngate, Visited, outside, sessions
  <2>2. cur \in JobIds
    BY <2>1 DEF AtHand
  <2>3. \A j \in JobIds : job'[j].phase = job[j].phase
    BY <1>1, <1>2, <2>1, <2>2
  <2> QED BY <2>1, <2>3 DEF Ages, ReportExists
<1>14. CASE VisitDepSkip
  <2>1. cur \in JobIds /\ Queued(cur)
    BY <1>14 DEF VisitDepSkip, AtHand
  <2> QED BY <1>5, <1>14, <2>1 DEF VisitDepSkip, Visited, outside, sessions
<1>15. ASSUME NEW j \in JobIds, VisitUngated(j) PROVE Ages
  <2>1. Queued(j) /\ report' = report /\ (DepSkip(j) \/ (job' = job /\ marks' = marks))
    BY <1>15 DEF VisitUngated, Visiting, ToVisit, Queued, outside, sessions
  <2> QED BY <1>3, <1>5, <2>1
<1>16. ASSUME NEW j \in JobIds, Cancel(j) PROVE Ages
  BY <1>4, <1>16 DEF Cancel, outside, sessions
<1>17. CASE TickEnd
  <2>1. PICK found \in SUBSET {j \in JobIds : JobWorking(j) /\ unit[j] # "active"} :
          marks' = [j \in JobIds |-> IF j \in found THEN marks[j] \cup {"watchdog"} ELSE marks[j]]
    BY <1>17 DEF TickEnd
  <2>2. \A j \in found : job[j].phase = "started"
    BY <2>1 DEF JobWorking
  <2>3. \A j \in JobIds : job[j].phase = "absent" => marks'[j] = marks[j]
    BY <2>1, <2>2
  <2> QED BY <1>17, <2>3 DEF TickEnd, Ages, ReportExists, outside, sessions
<1>18. CASE Create \/ Stop \/ Crash \/ WriteFlow \/ WriteConsumed
  BY <1>3, <1>18 DEF Create, Stop, Crash, WriteFlow, WriteConsumed, files, outside, sessions
<1>19. CASE SpoolAppend \/ ReconcileNothing \/ ReconcileDeadline \/ ReconcileBegin \/ StatusPass
  BY <1>3, <1>19 DEF SpoolAppend, ReconcileNothing, ReconcileDeadline, ReconcileBegin,
                     StatusPass, files, outside, sessions
<1>20. CASE Route
  BY <1>3, <1>20, RouteActs DEF Safe, Routing, files, outside, sessions
<1>21. CASE VisitPending \/ VisitsDone
  BY <1>3, <1>21 DEF VisitPending, VisitsDone, Visited, files, outside, sessions
<1>22. ASSUME NEW j \in JobIds, VisitHeld(j) \/ VisitGated(j) PROVE Ages
  BY <1>3, <1>22 DEF VisitHeld, VisitGated, files, outside, sessions
<1>23. ASSUME NEW j \in JobIds, Launch(j) PROVE Ages
  BY <1>3, <1>23 DEF Launch, files
<1>24. CASE RequestAppend \/ DeadlineNears \/ MoveDeadline \/ UNCHANGED vars
  BY <1>3, <1>24 DEF RequestAppend, DeadlineNears, MoveDeadline, vars, files, outside, sessions
<1>25. ASSUME NEW j \in JobIds, Session(j) PROVE Ages
  <2>1. Elsewhere
    BY <1>25, ElsewhereSteps
  <2>2. AuthFail(j) \/ UnitExit(j) => unit[j] # "none"
    BY DEF AuthFail, UnitExit
  <2>3. WindowPast(j) => job[j].phase # "absent"
    BY DEF WindowPast
  <2>4. unit[j] # "none" \/ job[j].phase # "absent"
    BY <1>25, <2>2, <2>3 DEF Session
  <2>5. \A i \in JobIds : i # j => marks'[i] = marks[i]
    BY <1>1, <1>25 DEF Session, Report, AuthFail, UnitExit, WindowPast, files
  <2> QED BY <1>6, <1>7, <2>1, <2>4, <2>5
<1> QED BY <1>9, <1>10, <1>11, <1>12, <1>13, <1>14, <1>15, <1>16, <1>17, <1>18, <1>19, <1>20,
           <1>21, <1>22, <1>23, <1>24, <1>25 DEF Next, Tick, Visit, Writing

\* What could not start any more cannot start again, and a report stays.
LEMMA HeldShrinks ==
  ASSUME Ages
  PROVE  \A j \in JobIds : Held(j)' => Held(j)
BY DEF Ages, Held, Unstarted

\* No mark is put on a job that is not there.
LEMMA UnmarkedStays ==
  ASSUME Ages, Unmarked
  PROVE  Unmarked'
BY DEF Ages, Unmarked

\* The job a visit or a launch is at is queued: nobody else may touch it there.
LEMMA AtHandStays ==
  ASSUME Safe, AtHand, [Next]_vars
  PROVE  AtHand'
<1>1. ASSUME pc' \notin {"ready", "mark"} PROVE AtHand'
  BY <1>1 DEF AtHand
<1>2. ASSUME UNCHANGED <<pc, cur, job>> PROVE AtHand'
  BY <1>2 DEF AtHand, Queued
<1>3. CASE Writing
  <2>1. ~ Computing /\ pc' = pc
    BY <1>3 DEF Writing, WriteMint, WriteGate, WriteReap, WriteFlow, WriteConsumed
  <2>2. pc \notin {"ready", "mark"}
    BY <2>1 DEF Safe, Quiet, Computing
  <2> QED BY <1>1, <2>1, <2>2
<1>4. CASE Create \/ Stop \/ Crash
  BY <1>1, <1>4 DEF Create, Stop, Crash
<1>5. CASE SpoolAppend \/ ReconcileNothing \/ ReconcileDeadline \/ ReconcileBegin \/ StatusPass
           \/ MarkStarted \/ TickEnd
  BY <1>1, <1>5 DEF SpoolAppend, ReconcileNothing, ReconcileDeadline, ReconcileBegin,
                    StatusPass, MarkStarted, TickEnd
<1>6. CASE Route
  BY <1>1, <1>6, RouteActs DEF Safe, Routing
<1>7. CASE VisitUngate \/ VisitDepSkip \/ VisitPending \/ VisitsDone
  BY <1>1, <1>7 DEF VisitUngate, VisitDepSkip, VisitPending, VisitsDone, Visited
<1>8. ASSUME NEW j \in JobIds, VisitHeld(j) \/ VisitUngated(j) PROVE AtHand'
  BY <1>1, <1>8 DEF VisitHeld, VisitUngated, Visiting
<1>9. ASSUME NEW j \in JobIds, VisitGated(j) \/ Launch(j) PROVE AtHand'
  BY <1>9 DEF VisitGated, Launch, Visiting, ToVisit, AtHand, Queued, files
<1>10. ASSUME NEW j \in JobIds, Cancel(j) PROVE AtHand'
  BY <1>1, <1>10 DEF Cancel
<1>11. CASE \/ RequestAppend \/ DeadlineNears \/ MoveDeadline \/ UNCHANGED vars
            \/ \E j \in JobIds : Session(j)
  BY <1>2, <1>11, ElsewhereSteps DEF Elsewhere
<1> QED BY <1>3, <1>4, <1>5, <1>6, <1>7, <1>8, <1>9, <1>10, <1>11 DEF Next, Tick, Visit

(***************************************************************************)
(* Positions in a list and in one put behind it.                            *)
(***************************************************************************)
LEMMA Beyond ==
  \A n, m \in Nat : \A i \in 1..n + m :
    i \notin 1..n => i - n \in 1..m /\ n + (i - n) = i /\ (i - n < m => i - n \in 1..m - 1)
OBVIOUS

LEMMA Within ==
  \A n, m \in Nat : n + m \in Nat /\ n <= n + m /\ \A i \in 1..n : i \in 1..n + m
OBVIOUS

LEMMA StillWithin ==
  ASSUME NEW n \in Nat, NEW m \in Nat, n <= m, NEW i \in 1..n
  PROVE  i \in 1..m
OBVIOUS

LEMMA Topmost ==
  \A n \in Nat, m \in Nat \ {0} : \A d \in 1..n : n + m \in 1..n + m /\ n + m > d
OBVIOUS


(***************************************************************************)
(* How a flow grows: one verdict, and nodes behind those there were.        *)
(***************************************************************************)
\* The leaves of g among the nodes of f are leaves of f; a new node has no verdict,
\* and is no leaf where it was emitted.
Grows(f, g, p, v) ==
  /\ Len(f.nodes) \in Nat /\ Len(g.nodes) \in Nat /\ Len(f.nodes) <= Len(g.nodes)
  /\ Dressed(f, g, p, v)
  /\ \A i \in 1..Len(f.nodes) : Leaf(g, i) => Leaf(f, i)
  /\ \A i \in 1..Len(g.nodes) : i \notin 1..Len(f.nodes) =>
       /\ g.nodes[i].seen = ""
       /\ g.nodes[i].by # None =>
            /\ ~ Leaf(g, i)
            /\ \E k \in 1..Len(f.nodes) :
                 f.nodes[k].id = g.nodes[i].by /\ ReportExists(f.nodes[k].job)
  /\ p \in 1..Len(f.nodes) => v = "terminal-no-report" \/ ReportExists(f.nodes[p].job)

\* Only a new node, or the decider there was without a verdict of its own, decides.
Continues(f, g, p) ==
  \A d : Decider(g, d) => d \notin 1..Len(f.nodes) \/ (d # p /\ Decider(f, d))

LEMMA GrowsExcused ==
  ASSUME NEW f, NEW g, NEW p, NEW v, Grows(f, g, p, v), Excused(f)
  PROVE  Excused(g)
<1> DEFINE n == Len(f.nodes)
           m == Len(g.nodes)
<1>1. /\ n \in Nat /\ m \in Nat /\ n <= m
      /\ \A i \in 1..n : /\ g.nodes[i].id = f.nodes[i].id /\ g.nodes[i].job = f.nodes[i].job
                         /\ g.nodes[i].by = f.nodes[i].by
                         /\ g.nodes[i].seen = IF i = p THEN v ELSE f.nodes[i].seen
  BY DEF Grows, Dressed
<1>2. \A k \in 1..n : k \in 1..m
  BY <1>1
<1>3. ASSUME NEW i \in 1..n
      PROVE  /\ g.nodes[i].seen \notin {"", "terminal-no-report"} => ReportExists(g.nodes[i].job)
             /\ g.nodes[i].by # None =>
                  /\ ~ Leaf(g, i)
                  /\ \E k \in 1..m : g.nodes[k].id = g.nodes[i].by /\ ReportExists(g.nodes[k].job)
  <2>1. g.nodes[i].seen \notin {"", "terminal-no-report"} => ReportExists(g.nodes[i].job)
    <3>1. CASE i = p
      BY <1>1, <3>1 DEF Grows
    <3>2. CASE i # p
      BY <1>1, <3>2 DEF Excused
    <3> QED BY <3>1, <3>2
  <2>2. ASSUME g.nodes[i].by # None
        PROVE  /\ ~ Leaf(g, i)
               /\ \E k \in 1..m : g.nodes[k].id = g.nodes[i].by /\ ReportExists(g.nodes[k].job)
    <3>1. f.nodes[i].by # None /\ g.nodes[i].by = f.nodes[i].by
      BY <1>1, <2>2
    <3>2. ~ Leaf(f, i)
      BY <3>1 DEF Excused
    <3>3. PICK k \in 1..n : f.nodes[k].id = f.nodes[i].by /\ ReportExists(f.nodes[k].job)
      BY <3>1 DEF Excused
    <3>4. g.nodes[k].id = f.nodes[k].id /\ g.nodes[k].job = f.nodes[k].job
      BY <1>1
    <3>5. ~ Leaf(g, i)
      BY <3>2 DEF Grows
    <3> QED BY <1>2, <3>1, <3>3, <3>4, <3>5
  <2> QED BY <2>1, <2>2
<1>4. ASSUME NEW i \in 1..m, i \notin 1..n
      PROVE  /\ g.nodes[i].seen \notin {"", "terminal-no-report"} => ReportExists(g.nodes[i].job)
             /\ g.nodes[i].by # None =>
                  /\ ~ Leaf(g, i)
                  /\ \E k \in 1..m : g.nodes[k].id = g.nodes[i].by /\ ReportExists(g.nodes[k].job)
  <2>1. /\ g.nodes[i].seen = ""
        /\ g.nodes[i].by # None =>
             /\ ~ Leaf(g, i)
             /\ \E k \in 1..n : f.nodes[k].id = g.nodes[i].by /\ ReportExists(f.nodes[k].job)
    BY <1>4 DEF Grows
  <2>2. ASSUME NEW k \in 1..n, f.nodes[k].id = g.nodes[i].by, ReportExists(f.nodes[k].job)
        PROVE  k \in 1..m /\ g.nodes[k].id = g.nodes[i].by /\ ReportExists(g.nodes[k].job)
    <3>1. g.nodes[k].id = f.nodes[k].id /\ g.nodes[k].job = f.nodes[k].job
      BY <1>1
    <3> QED BY <1>2, <2>2, <3>1
  <2> QED BY <2>1, <2>2
<1> QED BY <1>3, <1>4 DEF Excused

LEMMA GrowsOpen ==
  ASSUME NEW f, NEW g, NEW p, NEW v, Grows(f, g, p, v), Open(f),
         Live(g) => /\ Live(f) /\ Continues(f, g, p)
                    /\ p \in 1..Len(f.nodes) /\ v = "terminal-no-report" => f.nodes[p].by # None
  PROVE  Open(g)
<1> SUFFICES ASSUME Live(g)
             PROVE  /\ \A i \in 1..Len(g.nodes) :
                         g.nodes[i].seen = "terminal-no-report" => g.nodes[i].by # None
                    /\ \A d : Decider(g, d) => g.nodes[d].seen = ""
  BY DEF Open
<1> DEFINE n == Len(f.nodes)
           m == Len(g.nodes)
<1>1. /\ \A i \in 1..n : f.nodes[i].seen = "terminal-no-report" => f.nodes[i].by # None
      /\ \A d : Decider(f, d) => f.nodes[d].seen = ""
      /\ p \in 1..n /\ v = "terminal-no-report" => f.nodes[p].by # None
  BY DEF Open
<1>2. \A i \in 1..n : /\ g.nodes[i].by = f.nodes[i].by
                      /\ g.nodes[i].seen = IF i = p THEN v ELSE f.nodes[i].seen
  BY DEF Grows, Dressed
<1>3. \A i \in 1..m : i \notin 1..n => g.nodes[i].seen = ""
  BY DEF Grows
<1>4. ASSUME NEW i \in 1..m, g.nodes[i].seen = "terminal-no-report" PROVE g.nodes[i].by # None
  <2>1. i \in 1..n
    BY <1>3, <1>4
  <2> QED BY <1>1, <1>2, <1>4, <2>1
<1>5. ASSUME NEW d, Decider(g, d) PROVE g.nodes[d].seen = ""
  <2>1. d \in 1..m
    BY <1>5 DEF Decider
  <2>2. CASE d \notin 1..n
    BY <1>3, <2>1, <2>2
  <2>3. CASE d \in 1..n
    <3>1. d # p /\ Decider(f, d)
      BY <1>5, <2>3 DEF Continues
    <3> QED BY <1>1, <1>2, <2>3, <3>1
  <2> QED BY <2>2, <2>3
<1> QED BY <1>4, <1>5

\* There is one decider.
LEMMA OneDecider ==
  ASSUME NEW f \in Flow, NEW d, NEW e, Decider(f, d), Decider(f, e)
  PROVE  d = e
<1>1. f.nodes \in Seq(Node)
  BY DEF Flow
<1>2. Len(f.nodes) \in Nat
  BY <1>1, LenProperties
<1> QED BY <1>2 DEF Decider

\* A stamp on a node that does not decide.
LEMMA StampGrows ==
  ASSUME NEW f \in Flow, NEW g, NEW p, NEW v, Stamping(f, g, p, v), p \in 1..Len(f.nodes),
         v = "terminal-no-report" \/ ReportExists(f.nodes[p].job)
  PROVE  Grows(f, g, p, v) /\ (~ Decider(f, p) => Continues(f, g, p))
<1>1. f.nodes \in Seq(Node)
  BY DEF Flow
<1>2. Len(f.nodes) \in Nat /\ Len(g.nodes) = Len(f.nodes)
  BY <1>1, LenProperties DEF Stamping
<1>3. /\ \A k \in 1..Len(f.nodes) : Leaf(g, k) <=> Leaf(f, k)
      /\ \A k : Decider(g, k) <=> Decider(f, k)
  BY LeavesStay DEF Stamping
<1>4. Grows(f, g, p, v)
  <2>1. \A i \in 1..Len(g.nodes) : i \in 1..Len(f.nodes)
    BY ONLY <1>2, Zenon
  <2>2. Len(f.nodes) <= Len(g.nodes)
    BY ONLY <1>2
  <2>3. Dressed(f, g, p, v)
    BY DEF Stamping
  <2> QED BY ONLY <1>2, <1>3, <2>1, <2>2, <2>3, v = "terminal-no-report" \/ ReportExists(f.nodes[p].job), Zenon DEF Grows
<1> QED BY <1>3, <1>4 DEF Continues

\* Nodes put behind one of f: it decides no more.
LEMMA PutGrows ==
  ASSUME NEW f \in Flow, NEW g, NEW p, NEW v, NEW new, NEW q, PutBehind(f, g, p, v, new, q),
         \A k \in 1..Len(new) : new[k].seen = "",
         \A k \in 1..Len(new) : new[k].by # None =>
           k < Len(new) /\ new[k].by = f.nodes[q].id /\ ReportExists(f.nodes[q].job),
         p \in 1..Len(f.nodes) => ReportExists(f.nodes[p].job)
  PROVE  Grows(f, g, p, v) /\ Continues(f, g, q)
<1> DEFINE n == Len(f.nodes)
           m == Len(new)
<1>1. /\ n \in Nat /\ m \in Nat \ {0} /\ Len(g.nodes) = n + m
      /\ \A i \in 1..n : i # q => (Leaf(g, i) <=> Leaf(f, i))
      /\ ~ Leaf(g, q)
      /\ \A k \in 1..m - 1 : ~ Leaf(g, n + k)
      /\ Leaf(g, n + m) <=> Leaf(f, q)
  BY LeavesMove DEF LeavesMoved
<1>2. /\ q \in 1..n /\ Dressed(f, g, p, v)
      /\ \A k \in 1..m : g.nodes[n + k] = new[k]
  BY DEF PutBehind, Adds
<1>3. ASSUME NEW i \in 1..n + m, i \notin 1..n
      PROVE  i - n \in 1..m /\ n + (i - n) = i /\ (i - n < m => i - n \in 1..m - 1)
  <2> HIDE DEF n, m
  <2>1. n \in Nat /\ m \in Nat
    BY ONLY <1>1
  <2>2. i \in 1..n + m /\ i \notin 1..n
    BY ONLY <1>3
  <2> QED BY ONLY <2>1, <2>2, Beyond, Zenon
<1>4. ASSUME NEW i \in 1..n + m, i \notin 1..n
      PROVE  /\ g.nodes[i].seen = ""
             /\ g.nodes[i].by # None =>
                  /\ ~ Leaf(g, i)
                  /\ \E k \in 1..n : f.nodes[k].id = g.nodes[i].by /\ ReportExists(f.nodes[k].job)
  <2> DEFINE k == i - n
  <2>1. k \in 1..m /\ n + k = i /\ (k < m => k \in 1..m - 1)
    BY <1>3, <1>4
  <2> HIDE DEF k
  <2>2. g.nodes[i] = new[k]
    BY <1>2, <2>1
  <2>3. ASSUME new[k].by # None
        PROVE  /\ ~ Leaf(g, i)
               /\ \E h \in 1..n : f.nodes[h].id = g.nodes[i].by /\ ReportExists(f.nodes[h].job)
    <3>1. k < m /\ new[k].by = f.nodes[q].id /\ ReportExists(f.nodes[q].job)
      BY <2>1, <2>3
    <3>2. ~ Leaf(g, i)
      BY <1>1, <2>1, <3>1
    <3> QED BY <1>2, <2>2, <3>1, <3>2
  <2> QED BY <2>1, <2>2, <2>3
<1>5. Grows(f, g, p, v)
  <2>1. n + m \in Nat /\ n <= n + m
    <3> HIDE DEF n, m
    <3>1. n \in Nat /\ m \in Nat
      BY ONLY <1>1
    <3> QED BY ONLY <3>1, Within, Zenon
  <2>2. \A i \in 1..n : Leaf(g, i) => Leaf(f, i)
    BY <1>1
  <2> QED BY <1>1, <1>2, <1>4, <2>1, <2>2 DEF Grows
<1>6. ASSUME NEW d, Decider(g, d), d \in 1..n PROVE d # q /\ Decider(f, d)
  <2>1. d \in 1..n + m /\ Leaf(g, d) /\ \A i \in 1..n + m : i > d => ~ Leaf(g, i)
    BY <1>1, <1>6 DEF Decider
  <2> HIDE DEF n, m
  <2>2. d # q /\ Leaf(f, d)
    BY <1>1, <1>6, <2>1
  <2>3. n + m \in 1..n + m /\ n + m > d
    <3>1. n \in Nat /\ m \in Nat \ {0}
      BY ONLY <1>1
    <3>2. d \in 1..n
      BY ONLY <1>6
    <3> QED BY ONLY <3>1, <3>2, Topmost, Zenon
  <2>4. ~ Leaf(f, q)
    BY <1>1, <2>1, <2>3
  <2>5. ASSUME NEW i \in 1..n, i > d PROVE ~ Leaf(f, i)
    <3>0. n \in Nat /\ m \in Nat
      BY ONLY <1>1
    <3>1. i \in 1..n + m
      BY <3>0, Within, Zenon
    <3>2. ~ Leaf(g, i)
      BY <2>1, <2>5, <3>1
    <3> QED BY <1>1, <2>4, <3>2
  <2> QED BY <1>6, <2>2, <2>5 DEF Decider, n
<1> QED BY <1>5, <1>6 DEF Continues

\* An insertion cut short: the nodes there were wait on whom they did.
LEMMA CutGrows ==
  ASSUME NEW f \in Flow, NEW g, NEW p, NEW v, NEW at, NEW new, Cutting(f, g, p, v, at, new),
         p \in 1..Len(f.nodes), ReportExists(f.nodes[p].job)
  PROVE  Grows(f, g, p, v)
<1> DEFINE n == Len(f.nodes)
           m == Len(new)
<1>1. n \in Nat /\ m \in Nat
  <2>1. f.nodes \in Seq(Node) /\ new \in Seq(Node)
    BY DEF Flow, Cutting, Adds
  <2> QED BY <2>1, LenProperties
<1>2. /\ Dressed(f, g, p, v) /\ Len(g.nodes) = n + m /\ Still(f, g)
      /\ \A k \in 1..m : g.nodes[n + k] = new[k] /\ new[k].by = None /\ new[k].seen = ""
  BY DEF Cutting, Adds, ChainOf, RoundOf
<1>3. \A i \in 1..n : Leaf(g, i) => Leaf(f, i)
  <2> SUFFICES ASSUME NEW i \in 1..n, Leaf(g, i), NEW k \in 1..n, f.nodes[i].id \in f.nodes[k].after
               PROVE  FALSE
    BY DEF Leaf
  <2>1. g.nodes[i].id \in g.nodes[k].after
    BY <1>2 DEF Dressed, Still
  <2>2. k \in 1..n + m
    <3> HIDE DEF n, m
    <3> QED BY <1>1
  <2> QED BY <1>2, <2>1, <2>2 DEF Leaf
<1>4. ASSUME NEW i \in 1..n + m, i \notin 1..n PROVE g.nodes[i].seen = "" /\ g.nodes[i].by = None
  <2>1. i - n \in 1..m /\ n + (i - n) = i
    <3> HIDE DEF n, m
    <3> QED BY <1>1, <1>4
  <2> QED BY <1>2, <2>1
<1>5. n + m \in Nat /\ n <= n + m
  <2> HIDE DEF n, m
  <2> QED BY <1>1
<1> QED BY <1>1, <1>2, <1>3, <1>4, <1>5 DEF Grows

(***************************************************************************)
(* What a verdict does to the flow at hand.                                 *)
(***************************************************************************)
\* The pass decides at the decider, which nothing emitted, of a run that goes on.
LEMMA HereDecides ==
  ASSUME Typed, Wired, Decisive, Routing, Excused(mem)
  PROVE  /\ HasLeaf(mem) /\ (Deciding <=> Decider(mem, At))
         /\ Deciding => Here.by = None /\ mem.status # "complete"
<1>1. /\ mem \in Flow /\ Graph(mem.nodes) /\ At \in 1..Len(mem.nodes) /\ Here = mem.nodes[At]
      /\ idx <= At /\ mem.status # "none" /\ idx \in Nat /\ At \in Nat
  <2>1. Graph(mem.nodes) /\ idx \in Nat
    BY DEF Wired, Typed, LoopTyped
  <2>2. At \in 1..Len(mem.nodes) /\ mem.nodes \in Seq(Node)
    BY <2>1, HereIsNew DEF Flow
  <2>3. At \in Nat
    BY <2>2, LenProperties
  <2> QED BY <2>1, <2>3, HereIsNew
<1>2. HasLeaf(mem)
  BY <1>1 DEF Routing, Decisive, Leafed
<1>3. PICK d : Decider(mem, d) /\ AcceptanceID(mem) = mem.nodes[d].id
  BY <1>1, <1>2, AcceptanceIsDecider
<1>4. d \in 1..Len(mem.nodes) /\ Leaf(mem, d)
  BY <1>3 DEF Decider
<1>5. ASSUME Deciding PROVE d = At
  <2>1. mem.nodes[d].id = mem.nodes[At].id
    BY <1>1, <1>3, <1>5 DEF Deciding
  <2> QED BY <1>1, <1>4, <2>1 DEF Graph, Distinct
<1>6. ASSUME Decider(mem, At) PROVE Deciding
  BY <1>1, <1>3, <1>6, OneDecider DEF Deciding
<1>7. ASSUME Deciding PROVE Here.by = None
  BY <1>1, <1>4, <1>5, <1>7 DEF Excused
<1>8. ASSUME Deciding, mem.status = "complete" PROVE FALSE
  <2>1. PICK e : Settles(mem, e) /\ e < idx
    BY <1>8 DEF Decisive, Routing
  <2>2. e = d /\ e \in Nat
    BY <1>1, <1>3, <2>1, OneDecider DEF Settles, Decider
  <2> QED BY <1>1, <1>5, <1>8, <2>1, <2>2
<1> QED BY <1>2, <1>3, <1>5, <1>6, <1>7, <1>8

\* A verdict v: the run goes on from a run that did, or is blocked for a cause, and
\* then what could still start goes.
Goes(v) ==
  /\ Grows(mem, mem', At, v)
  /\ mem'.status \in {mem.status, "running", "blocked", "complete"}
  /\ Live(mem') => /\ Live(mem) /\ Continues(mem, mem', At)
                   /\ v = "terminal-no-report" => Here.by # None
  /\ mem'.status = "blocked" => \E i \in 1..Len(mem'.nodes) : Causes(mem', i)

LEMMA StampGoes ==
  ASSUME Typed, Wired, Decisive, Tidy, Routing, mem' \in Flow, NEW v \in Verdicts,
         Stamping(mem, mem', At, v), v = "terminal-no-report" \/ ReportExists(Here.job),
         \/ /\ mem'.status = mem.status
            /\ IF v = "terminal-no-report" THEN Here.by # None ELSE ~ Deciding
         \/ mem'.status = "complete"
         \/ /\ mem'.status = "blocked"
            /\ \/ Here.by = None /\ v \in {"blocked", "terminal-no-report"}
               \/ Deciding /\ v \in {"ok", "none", "blocked"}
  PROVE  Goes(v)
<1>1. /\ mem \in Flow /\ At \in 1..Len(mem.nodes) /\ Here = mem.nodes[At]
  BY HereIsNew DEF Wired
<1>2. /\ HasLeaf(mem) /\ (Deciding <=> Decider(mem, At))
      /\ Deciding => Here.by = None
  BY HereDecides DEF Tidy
<1>3. Grows(mem, mem', At, v) /\ (~ Decider(mem, At) => Continues(mem, mem', At))
  BY <1>1, StampGrows
<1>4. Live(mem) \/ mem.status = "complete"
  BY DEF Tidy, Routing
<1>5. /\ Len(mem'.nodes) = Len(mem.nodes) /\ mem'.nodes[At].seen = v
      /\ mem'.nodes[At].by = Here.by /\ mem'.nodes[At].id = Here.id
  BY <1>1 DEF Stamping, Dressed
<1>6. ASSUME Live(mem')
      PROVE  /\ Live(mem) /\ Continues(mem, mem', At)
             /\ v = "terminal-no-report" => Here.by # None
  <2>1. /\ mem'.status = mem.status
        /\ IF v = "terminal-no-report" THEN Here.by # None ELSE ~ Deciding
    BY <1>6 DEF Live
  <2>2. Here.by # None => ~ Deciding
    BY <1>2
  <2> QED BY <1>2, <1>3, <1>6, <2>1, <2>2 DEF Live
<1>7. ASSUME mem'.status = "blocked" PROVE Causes(mem', At)
  <2>1. \/ Here.by = None /\ v \in {"blocked", "terminal-no-report"}
        \/ Deciding /\ v \in {"ok", "none", "blocked"}
    BY <1>4, <1>7 DEF Live
  <2>2. CASE Here.by = None /\ v \in {"blocked", "terminal-no-report"}
    BY <1>5, <2>2 DEF Causes
  <2>3. CASE Deciding /\ v \in {"ok", "none"}
    <3>1. Decider(mem', At) /\ HasLeaf(mem')
      BY <1>2, <2>3, LeavesStay DEF Stamping
    <3>2. PICK e : Decider(mem', e) /\ AcceptanceID(mem') = mem'.nodes[e].id
      BY <3>1, AcceptanceIsDecider
    <3>3. e = At
      BY <3>1, <3>2, OneDecider
    <3> QED BY <1>5, <2>3, <3>2, <3>3 DEF Causes
  <2> QED BY <1>2, <2>1, <2>2, <2>3
<1>8. mem'.status \in {mem.status, "running", "blocked", "complete"}
  OBVIOUS
<1> QED BY <1>1, <1>3, <1>5, <1>6, <1>7, <1>8 DEF Goes

LEMMA PutGoes ==
  ASSUME Typed, Wired, Decisive, Tidy, Routing, NEW v, v # "terminal-no-report", NEW new,
         PutBehind(mem, mem', At, v, new, At), ReportExists(Here.job),
         \A k \in 1..Len(new) : new[k].seen = "",
         \A k \in 1..Len(new) : new[k].by # None => k < Len(new) /\ new[k].by = Here.id,
         mem'.status \in {mem.status, "running"}, Deciding \/ mem'.status = mem.status
  PROVE  Goes(v)
<1>1. /\ mem \in Flow /\ At \in 1..Len(mem.nodes) /\ Here = mem.nodes[At]
  BY HereIsNew DEF Wired
<1>2. Grows(mem, mem', At, v) /\ Continues(mem, mem', At)
  BY <1>1, PutGrows
<1>3. Live(mem) \/ mem.status = "complete"
  BY DEF Tidy, Routing
<1>4. Deciding => mem.status # "complete"
  BY HereDecides DEF Tidy
<1>5. mem'.status # "blocked" /\ (Live(mem') => Live(mem))
  BY <1>3, <1>4 DEF Live
<1> QED BY <1>2, <1>5 DEF Goes

\* Every verdict.
LEMMA RouteGoes ==
  ASSUME FanInApart, Typed, Wired, Decisive, Tidy, Route, Graph(mem'.nodes), mem' \in Flow
  PROVE  \E v \in Verdicts : Goes(v)
<1>1. Routing
  BY RouteActs
<1>2. /\ mem \in Flow /\ Graph(mem.nodes) /\ At \in 1..Len(mem.nodes) /\ Here = mem.nodes[At]
  BY <1>1, HereIsNew DEF Wired
<1>3. Excused(mem) /\ \A v \in {"ok", "needs-work", "complete"} : v \in Verdicts /\ v # "terminal-no-report"
  BY DEF Tidy, Verdicts, Stamps
<1>4. CASE \/ RouteEnded \/ RouteBlocked
           \/ \E v \in {"draft", "ok", "blocked"} : RouteUndecided(v)
           \/ \E v \in {"draft", "ok", "complete"} : RouteProceed(v)
  <2>1. PICK v \in Verdicts : Stamping(mem, mem', At, v) /\ Plainly(v)
    BY <1>2, <1>4, PlainMoves
  <2> QED BY <1>1, <2>1, StampGoes DEF Plainly
<1>5. CASE RouteComplete
  <2> DEFINE v == "complete"
  <2>1. Stamping(mem, mem', At, v) /\ mem'.status = "complete" /\ report[Here.job] = v
    BY <1>2, <1>5, CompleteMoves
  <2>2. ReportExists(Here.job)
    BY <2>1 DEF ReportExists
  <2>3. v \in Verdicts
    BY <1>3
  <2> HIDE DEF v
  <2>4. Goes(v)
    BY <1>1, <2>1, <2>2, <2>3, StampGoes
  <2> QED BY <2>3, <2>4
<1>6. CASE RouteNeedsWork
  <2> DEFINE v == "needs-work"
             at == Here.id
  <2>1. /\ report[Here.job] = v
        /\ \/ Stamping(mem, mem', At, v) /\ mem'.status = mem.status /\ ~ Deciding
           \/ /\ mem'.status = "blocked"
              /\ Deciding \/ Here.id[1] \in DOMAIN Edges
              /\ \E new : Cutting(mem, mem', At, v, at, new)
           \/ /\ mem'.status \in {mem.status, "running"} /\ (Deciding \/ mem'.status = mem.status)
              /\ \E new : Chaining(mem, mem', At, v, at, new)
    BY <1>2, <1>6, NeedsWorkMoves
  <2>2. ReportExists(Here.job) /\ v \in Verdicts /\ v # "terminal-no-report"
    BY <1>3, <2>1 DEF ReportExists
  <2>3. ASSUME NEW f, NEW i, f.nodes[i].seen = v, f.nodes[i].by = None \/ f.nodes[i].id[1] \in DOMAIN Edges
        PROVE  Causes(f, i)
    BY <2>3 DEF Causes
  <2> HIDE DEF v
  <2>4. CASE Stamping(mem, mem', At, v) /\ mem'.status = mem.status /\ ~ Deciding
    BY <1>1, <2>2, <2>4, StampGoes
  <2>5. CASE /\ mem'.status = "blocked"
             /\ Deciding \/ Here.id[1] \in DOMAIN Edges
             /\ \E new : Cutting(mem, mem', At, v, at, new)
    <3>1. PICK new : Cutting(mem, mem', At, v, at, new)
      BY <2>5
    <3>2. Grows(mem, mem', At, v)
      BY <1>2, <2>2, <3>1, CutGrows
    <3>3. mem'.nodes[At].seen = v /\ mem'.nodes[At].by = Here.by /\ mem'.nodes[At].id = Here.id
      BY <1>2, <3>2 DEF Grows, Dressed
    <3>6. At \in 1..Len(mem'.nodes)
      <4>1. /\ Len(mem.nodes) \in Nat /\ Len(mem'.nodes) \in Nat /\ Len(mem.nodes) <= Len(mem'.nodes)
            /\ At \in 1..Len(mem.nodes)
        BY <1>2, <3>2 DEF Grows
      <4> QED BY ONLY <4>1, StillWithin
    <3>4. Deciding => Here.by = None
      BY <1>1, HereDecides DEF Tidy
    <3>5. Causes(mem', At)
      BY <2>3, <2>5, <3>3, <3>4
    <3> QED BY <2>2, <2>5, <3>2, <3>5, <3>6 DEF Goes, Live
  <2>6. CASE /\ mem'.status \in {mem.status, "running"} /\ (Deciding \/ mem'.status = mem.status)
             /\ \E new : Chaining(mem, mem', At, v, at, new)
    <3>1. PICK new : Chaining(mem, mem', At, v, at, new)
      BY <2>6
    <3>2. PutBehind(mem, mem', At, v, new, At)
      BY <1>2, <3>1, ChainTailed DEF Chaining, PutBehind, Graph
    <3>3. \A k \in 1..Len(new) : new[k].seen = "" /\ new[k].by = None
      BY <3>1 DEF Chaining, ChainOf, RoundOf
    <3> QED BY <1>1, <2>2, <2>6, <3>2, <3>3, PutGoes
  <2> QED BY <2>1, <2>4, <2>5, <2>6
<1>7. CASE RouteEmit
  <2> DEFINE v == "ok"
             at == Here.id
  <2>1. mem'.status = mem.status /\ \E new : Grouping(mem, mem', At, v, at, new)
    BY <1>2, <1>7, EmitMoves
  <2>2. ReportExists(Here.job)
    BY <1>7 DEF RouteEmit, EmissionFits, ReportExists
  <2>3. v \in Verdicts /\ v # "terminal-no-report"
    BY <1>3
  <2> HIDE DEF v
  <2>4. PICK new : Grouping(mem, mem', At, v, at, new)
    BY <2>1
  <2>5. PutBehind(mem, mem', At, v, new, At)
    BY <1>2, <2>4, GroupTailed DEF Grouping, PutBehind, Graph
  <2>6. \A k \in 1..Len(new) : new[k].seen = ""
    BY <2>4 DEF Grouping, RoundOf
  <2>7. ASSUME NEW k \in 1..Len(new), new[k].by # None PROVE k < Len(new) /\ new[k].by = at
    <3> DEFINE m == Len(new)
    <3>1. m \in Nat /\ new[m].by = None /\ \A i \in 1..m - 1 : new[i].by = at
      BY <2>4 DEF Grouping, GroupOf
    <3>2. k # m /\ k \in 1..m
      BY <2>7, <3>1
    <3> HIDE DEF m
    <3>3. k < m /\ k \in 1..m - 1
      BY ONLY <3>1, <3>2
    <3> QED BY <3>1, <3>3 DEF m
  <2> QED BY <1>1, <2>1, <2>2, <2>3, <2>5, <2>6, <2>7, PutGoes
<1> QED BY <1>4, <1>5, <1>6, <1>7 DEF Route

\* The happy path is unseen, and nobody emitted a node of it.
LEMMA MintedNew ==
  ASSUME NEW f, f.nodes = Minted
  PROVE  \A k \in 1..Len(f.nodes) : f.nodes[k].seen = "" /\ f.nodes[k].by = None
<1> DEFINE n == Len(Path)
           ups(k) == {StageId(i) : i \in {i \in DOMAIN Path : Path[i][2] = Path[k][2] - 1}}
<1>1. n \in Nat \ {0} /\ DOMAIN Path = 1..n
  BY FlowAssumption, LenProperties, EmptySeq
<1>2. Minted = [k \in 1..n |-> NewNode(StageId(k), ups(k), None, k)]
  BY <1>1 DEF Minted
<1>3. Len(Minted) = n
  BY <1>1, <1>2
<1> HIDE DEF n, ups
<1>4. ASSUME NEW k \in 1..n PROVE Minted[k].seen = "" /\ Minted[k].by = None
  <2>1. Minted[k] = NewNode(StageId(k), ups(k), None, k)
    BY <1>2
  <2>2. Minted[k].seen = ""
    BY ONLY <2>1, NewNodeSeen
  <2>3. Minted[k].by = None
    BY ONLY <2>1, NewNodeFields
  <2> QED BY <2>2, <2>3
<1> QED BY <1>3, <1>4

\* An append puts its chain behind the decider, which never was seen.
LEMMA SpoolGrows ==
  ASSUME Typed, Wired, SpoolAppend, Graph(mem'.nodes), mem' # mem
  PROVE  /\ Grows(flow, mem', 0, "") /\ Continues(flow, mem', 0)
         /\ flow.status # "none" /\ ~ FlowTerminal(flow) /\ mem'.status = flow.status
<1> DEFINE v == ""
<1>1. PICK q \in 1..Len(flow.nodes) : \E new :
        Chaining(flow, mem', 0, v, flow.nodes[q].id, new)
  BY SpoolMoves
<1> HIDE DEF v
<1>2. PICK new : Chaining(flow, mem', 0, v, flow.nodes[q].id, new)
  BY <1>1
<1>3. flow.status # "none" /\ ~ FlowTerminal(flow) /\ mem'.status = flow.status
  BY SpoolMoves
<1>4. flow \in Flow
  BY DEF Typed, FlowsTyped
<1>5. PutBehind(flow, mem', 0, v, new, q)
  BY <1>2, ChainTailed DEF Chaining, PutBehind, Graph, Wired
<1>6. \A k \in 1..Len(new) : new[k].seen = "" /\ new[k].by = None
  BY <1>2 DEF Chaining, ChainOf, RoundOf
<1>7. 0 \notin 1..Len(flow.nodes)
  OBVIOUS
<1>8. Grows(flow, mem', 0, v) /\ Continues(flow, mem', q)
  BY <1>4, <1>5, <1>6, <1>7, PutGrows
<1>9. Continues(flow, mem', 0)
  BY <1>7, <1>8 DEF Continues
<1> QED BY <1>3, <1>8, <1>9 DEF v

(***************************************************************************)
(* Where the copy at hand comes from.                                       *)
(***************************************************************************)
\* Neither file nor copy but for another copy of one of them, or for one of these steps.
Copies ==
  /\ UNCHANGED <<flow, mem>>
  /\ pc' = "route" => pc = "route"
CopySteps ==
  \/ Create \/ Stop \/ SpoolAppend \/ ReconcileDeadline \/ ReconcileBegin
  \/ Route \/ StatusPass \/ WriteFlow \/ VisitsDone \/ Crash

LEMMA Copying ==
  ASSUME [Next]_vars
  PROVE  CopySteps \/ Copies
<1>1. CASE WriteMint \/ WriteGate \/ WriteReap \/ WriteConsumed
  BY <1>1 DEF WriteMint, WriteGate, WriteReap, WriteConsumed, Copies
<1>2. CASE RequestAppend \/ DeadlineNears \/ MoveDeadline \/ ReconcileNothing \/ MarkStarted
           \/ TickEnd
  BY <1>2 DEF RequestAppend, DeadlineNears, MoveDeadline, ReconcileNothing, MarkStarted,
              TickEnd, files, Inside, Copies
<1>3. CASE VisitUngate \/ VisitDepSkip \/ VisitPending
  BY <1>3 DEF VisitUngate, VisitDepSkip, VisitPending, Visited, Copies
<1>4. ASSUME NEW j \in JobIds, VisitHeld(j) \/ VisitGated(j) \/ VisitUngated(j) PROVE Copies
  BY <1>4 DEF VisitHeld, VisitGated, VisitUngated, Visiting, files, Copies
<1>5. ASSUME NEW j \in JobIds, Cancel(j) \/ Launch(j) PROVE Copies
  BY <1>5 DEF Cancel, Launch, files, Copies
<1>6. ASSUME NEW j \in JobIds, Session(j) PROVE Copies
  BY <1>6 DEF Session, Report, AuthFail, UnitExit, WindowPast, files, Inside, Copies
<1>7. CASE UNCHANGED vars
  BY <1>7 DEF vars, Copies
<1> QED BY <1>1, <1>2, <1>3, <1>4, <1>5, <1>6, <1>7 DEF Next, Tick, Visit, Writing, CopySteps

\* The flow file is what it was, or the copy at hand.
LEMMA FileFrom ==
  ASSUME Typed, [Next]_vars
  PROVE  flow' \in {flow, mem}
<1>1. ASSUME Copies PROVE flow' = flow
  BY <1>1 DEF Copies
<1>2. Create \/ Stop \/ Crash => flow' = flow
  BY DEF Create, Stop, Crash, files
<1>3. SpoolAppend \/ ReconcileDeadline \/ ReconcileBegin \/ StatusPass \/ VisitsDone => flow' = flow
  BY DEF SpoolAppend, ReconcileDeadline, ReconcileBegin, StatusPass, VisitsDone, files
<1>4. Route => flow' = flow
  BY RouteActs DEF Routing, files
<1>5. WriteFlow => flow' \in {flow, mem}
  BY DEF WriteFlow
<1> QED BY <1>1, <1>2, <1>3, <1>4, <1>5, Copying DEF CopySteps

(***************************************************************************)
(* Tidy is inductive.                                                       *)
(***************************************************************************)
Neat(f) == Excused(f) /\ Open(f)
Later(f) ==
  \A i \in 1..Len(f.nodes) :
    /\ f.nodes[i].seen \notin {"", "terminal-no-report"} => report'[f.nodes[i].job] # "none"
    /\ f.nodes[i].by # None =>
         /\ ~ Leaf(f, i)
         /\ \E k \in 1..Len(f.nodes) :
              f.nodes[k].id = f.nodes[i].by /\ report'[f.nodes[k].job] # "none"

\* A report stays.
LEMMA NeatLater ==
  ASSUME NEW f \in Flow, Neat(f), Ages
  PROVE  Later(f) /\ Open(f)
<1>1. \A i \in 1..Len(f.nodes) : f.nodes[i].job \in JobIds
  <2>1. \A i \in 1..Len(f.nodes) : f.nodes[i] \in Node
    BY ElementOfSeq DEF Flow
  <2> QED BY <2>1 DEF Node
<1>2. \A j \in JobIds : ReportExists(j) => report'[j] # "none"
  BY DEF Ages, ReportExists
<1> QED BY <1>1, <1>2 DEF Neat, Excused, Later

\* Neatness is of the nodes, and openness of a run that goes on.
LEMMA SameNeat ==
  ASSUME NEW f, NEW g, g.nodes = f.nodes, Neat(f), Live(g) => Live(f)
  PROVE  Neat(g)
BY DEF Neat, Excused, Open, Leaf, Decider

LEMMA GrowsNeat ==
  ASSUME NEW f, NEW g, NEW p, NEW v, Grows(f, g, p, v), Neat(f),
         Live(g) => /\ Live(f) /\ Continues(f, g, p)
                    /\ p \in 1..Len(f.nodes) /\ v = "terminal-no-report" => f.nodes[p].by # None
  PROVE  Neat(g)
BY GrowsExcused, GrowsOpen DEF Neat

LEMMA NoneNeat == Neat(NoFlow)
<1>1. NoFlow.nodes = <<>> /\ NoFlow.status = "none" /\ Len(NoFlow.nodes) = 0
  BY DEF NoFlow
<1> QED BY <1>1 DEF Neat, Excused, Open, Live

\* What the status pass may make of the status.
LEMMA StatusMoves ==
  ASSUME Typed, StatusPass
  PROVE  /\ mem'.nodes = mem.nodes /\ mem'.status \in {mem.status, "blocked", "running"}
         /\ mem.status \in {"blocked", "complete"} => mem'.status = mem.status
<1>1. mem'.nodes = mem.nodes /\ mem \in Flow
  BY StatusPassStep DEF Typed, FlowsTyped
<1>2. PICK dead, progressed \in BOOLEAN :
        mem' = [mem EXCEPT !.status =
                  IF @ \in {"blocked", "complete"} THEN @
                  ELSE IF dead THEN "blocked"
                  ELSE IF progressed THEN "running" ELSE @]
  BY Zenon DEF StatusPass
<1>3. mem'.status = IF mem.status \in {"blocked", "complete"} THEN mem.status
                    ELSE IF dead THEN "blocked"
                    ELSE IF progressed THEN "running" ELSE mem.status
  BY <1>1, <1>2 DEF Flow
<1> QED BY <1>1, <1>3

LEMMA TidyStays ==
  ASSUME FanInApart, Safe, Wired, Decisive, Tidy, [Next]_vars
  PROVE  Tidy'
<1>1. /\ Typed /\ flow \in Flow /\ mem \in Flow /\ mem' \in Flow /\ Graph(mem'.nodes)
  <2>1. Typed /\ Typed'
    BY TypedStays DEF Safe
  <2> QED BY <2>1, WiredStays DEF Typed, FlowsTyped, Wired
<1>2. Ages /\ AtHand' /\ Unmarked'
  BY JobsAge, AtHandStays, UnmarkedStays DEF Tidy
<1>3. Neat(flow) /\ Neat(mem)
  BY DEF Tidy, Neat
<1>4. flow' \in {flow, mem}
  BY <1>1, FileFrom
<1>5. ASSUME Neat(mem'), pc' = "route" => Live(mem') \/ mem'.status \in {"blocked", "complete"}
      PROVE  Tidy'
  <2>1. Later(mem') /\ Open(mem') /\ Later(flow) /\ Open(flow) /\ Later(mem) /\ Open(mem)
    BY <1>1, <1>2, <1>3, <1>5, NeatLater
  <2>2. Later(flow') /\ Open(flow')
    BY <1>4, <2>1
  <2>3. Excused(flow)' /\ Excused(mem)'
    BY <2>1, <2>2 DEF Excused, Later, ReportExists, Leaf
  <2>4. Open(flow)' /\ Open(mem)'
    BY <2>1, <2>2 DEF Open, Live, Decider, Leaf
  <2> QED BY <1>2, <1>5, <2>3, <2>4 DEF Tidy, Live
<1>6. CASE Copies \/ WriteFlow
  <2>1. mem' = mem /\ (pc' = "route" => pc = "route")
    <3>1. ASSUME Copies PROVE mem' = mem /\ (pc' = "route" => pc = "route")
      BY <3>1 DEF Copies
    <3>2. WriteFlow => mem' = mem /\ pc' = pc
      BY DEF WriteFlow
    <3> QED BY <1>6, <3>1, <3>2
  <2> QED BY <1>3, <1>5, <2>1 DEF Tidy
<1>7. CASE Create
  <2>1. mem' = [status |-> "queued", nodes |-> Minted, round |-> 0] /\ pc' # "route"
    BY <1>7 DEF Create
  <2>2. mem'.nodes = Minted
    BY <2>1
  <2>3. \A k \in 1..Len(mem'.nodes) : mem'.nodes[k].seen = "" /\ mem'.nodes[k].by = None
    BY <2>2, MintedNew
  <2>4. Neat(mem')
    BY <2>3 DEF Neat, Excused, Open, Decider
  <2> QED BY <1>5, <2>1, <2>4
<1>8. CASE Stop \/ ReconcileDeadline
  <2>1. /\ mem' = [flow EXCEPT !.status = "stopped"] \/ mem' = [flow EXCEPT !.status = "deadline"]
        /\ pc' # "route"
    BY <1>8 DEF Stop, ReconcileDeadline
  <2>2. mem'.nodes = flow.nodes /\ ~ Live(mem')
    BY <1>1, <2>1 DEF Flow, Live
  <2> QED BY <1>3, <1>5, <2>1, <2>2, SameNeat
<1>9. CASE SpoolAppend
  <2>1. pc' = "spool"
    BY <1>9 DEF SpoolAppend
  <2>2. CASE mem' = mem
    BY <1>3, <1>5, <2>1, <2>2
  <2>3. CASE mem' # mem
    <3> DEFINE v == ""
    <3>1. Grows(flow, mem', 0, v) /\ Continues(flow, mem', 0) /\ mem'.status = flow.status
      BY <1>1, <1>9, <2>3, SpoolGrows
    <3>2. v # "terminal-no-report" /\ (Live(mem') => Live(flow))
      BY <3>1 DEF Live
    <3> HIDE DEF v
    <3>3. Neat(mem')
      BY <1>3, <3>1, <3>2, GrowsNeat
    <3> QED BY <1>5, <2>1, <3>3
  <2> QED BY <2>2, <2>3
<1>10. CASE ReconcileBegin
  <2>1. mem' = flow /\ Live(flow)
    BY <1>10 DEF ReconcileBegin, Live
  <2> QED BY <1>3, <1>5, <2>1
<1>11. CASE VisitsDone \/ Crash
  <2>1. mem' = NoFlow /\ pc' # "route"
    BY <1>11 DEF VisitsDone, Crash
  <2> QED BY <1>5, <2>1, NoneNeat
<1>12. CASE Route
  <2>1. PICK v \in Verdicts : Goes(v)
    BY <1>1, <1>12, RouteGoes
  <2>2. Here = mem.nodes[At] /\ Routing
    BY <1>1, <1>12, RouteActs DEF Here
  <2>3. Neat(mem')
    BY <1>3, <2>1, <2>2, GrowsNeat DEF Goes
  <2>4. Live(mem') \/ mem'.status \in {"blocked", "complete"}
    BY <2>1, <2>2 DEF Goes, Tidy, Routing, Live
  <2> QED BY <1>5, <2>3, <2>4
<1>13. CASE StatusPass
  <2>1. /\ mem'.nodes = mem.nodes /\ mem'.status \in {mem.status, "blocked", "running"}
        /\ mem.status \in {"blocked", "complete"} => mem'.status = mem.status
        /\ pc = "route" /\ pc' = "gate"
    BY <1>1, <1>13, StatusMoves DEF StatusPass
  <2>2. Live(mem') => Live(mem)
    BY <2>1 DEF Tidy, Live
  <2> QED BY <1>3, <1>5, <2>1, <2>2, SameNeat
<1> QED BY <1>6, <1>7, <1>8, <1>9, <1>10, <1>11, <1>12, <1>13, Copying DEF CopySteps

(***************************************************************************)
(* Without a failed authentication nothing is lost that the pass has not    *)
(* seen to: the status pass blocks no run of its own accord.                *)
(***************************************************************************)
\* What is lost has ended, or has delivered: it is news.
LEMMA LostIsNews ==
  ASSUME NEW j, Lost(j)
  PROVE  Ended(j) \/ Delivered(j)
BY DEF Lost, Losing, Exists, Ended, Delivered, StillWriting, JobTerminalNoReport

\* So a node the pass is past has a verdict if its job is lost.
LEMMA NewsIsAhead ==
  ASSUME Typed, pc = "route", Passed, NEW i \in 1..Len(mem.nodes), mem.nodes[i].seen = "",
         Lost(mem.nodes[i].job)
  PROVE  i \in News
<1>1. i \in idx..total
  BY DEF Passed
<1>2. Ended(mem.nodes[i].job) \/ Delivered(mem.nodes[i].job)
  BY LostIsNews
<1> QED BY <1>1, <1>2 DEF News

LEMMA StatusNeverBlocks ==
  ASSUME Typed, Wired, Decisive, Tidy, Passed, StatusPass, mem.status \notin {"blocked", "complete"}
  PROVE  mem'.status # "blocked"
<1> DEFINE jobs == Owned(mem)
           last == CHOOSE n \in Nodes(mem) : n.id = AcceptanceID(mem)
           Skip(j) == marks[j] \cap {"depskip", "authfail"} # {} \/ job[j].phase = "skipped"
           progressed == \E j \in jobs : ReportExists(j) \/ job[j].phase = "started"
           dead == \/ Exists(last.job) /\ Skip(last.job)
                   \/ (\E j \in jobs : Exists(j) /\ Skip(j)) /\ ~ progressed
<1>1. /\ mem \in Flow /\ Graph(mem.nodes) /\ News = {} /\ Live(mem) /\ pc = "route"
      /\ Excused(mem) /\ Open(mem) /\ HasLeaf(mem)
  <2>1. mem \in Flow /\ Graph(mem.nodes)
    BY DEF Typed, FlowsTyped, Wired
  <2>2. News = {} /\ Live(mem) /\ pc = "route"
    BY DEF StatusPass, Tidy
  <2>3. HasLeaf(mem)
    BY <2>2 DEF Decisive, Leafed, Live
  <2> QED BY <2>1, <2>2, <2>3 DEF Tidy
<1>2. mem' = [mem EXCEPT !.status = IF @ \in {"blocked", "complete"} THEN @
                                    ELSE IF dead THEN "blocked"
                                    ELSE IF progressed THEN "running" ELSE @]
  BY Zenon DEF StatusPass
<1>3. \A j : Exists(j) /\ Skip(j) <=> Lost(j)
  BY DEF Lost, Losing, Exists
<1>4. Nodes(mem) = {mem.nodes[i] : i \in 1..Len(mem.nodes)}
  BY <1>1, NodesOf
<1>5. ~ Lost(last.job)
  <2>1. PICK d : Decider(mem, d) /\ AcceptanceID(mem) = mem.nodes[d].id
    BY <1>1, AcceptanceIsDecider
  <2>2. d \in 1..Len(mem.nodes) /\ mem.nodes[d].seen = ""
    BY <1>1, <2>1 DEF Open, Decider
  <2>3. last \in Nodes(mem) /\ last.id = AcceptanceID(mem)
    BY <1>4, <2>1, <2>2, Zenon
  <2>4. PICK e \in 1..Len(mem.nodes) : last = mem.nodes[e]
    BY <1>4, <2>3
  <2>5. e = d
    BY <1>1, <2>1, <2>2, <2>3, <2>4 DEF Graph, Distinct
  <2> HIDE DEF last
  <2> QED BY <1>1, <2>2, <2>4, <2>5, NewsIsAhead
<1>6. ASSUME NEW j \in jobs, Lost(j) PROVE progressed
  <2>1. PICK i \in 1..Len(mem.nodes) : mem.nodes[i].job = j
    BY <1>4 DEF Owned
  <2>2. mem.nodes[i].seen # ""
    BY <1>1, <1>6, <2>1, NewsIsAhead
  <2>3. CASE mem.nodes[i].seen = "terminal-no-report"
    <3>1. mem.nodes[i].by # None
      BY <1>1, <2>3 DEF Open
    <3>2. PICK k \in 1..Len(mem.nodes) : ReportExists(mem.nodes[k].job)
      BY <1>1, <3>1 DEF Excused
    <3>3. mem.nodes[k].job \in jobs
      BY <1>4 DEF Owned
    <3> QED BY <3>2, <3>3
  <2>4. CASE mem.nodes[i].seen # "terminal-no-report"
    BY <1>1, <2>1, <2>2, <2>4 DEF Excused
  <2> QED BY <2>3, <2>4
<1> HIDE DEF jobs, last, Skip, progressed
<1>7. ~ dead
  BY <1>3, <1>5, <1>6, Zenon
<1> HIDE DEF dead
<1>8. mem'.status \in {mem.status, "running"}
  BY <1>1, <1>2, <1>7 DEF Flow
<1> QED BY <1>1, <1>8 DEF Live

\* A step within the pass loses no job but by a failed authentication.
LEMMA PassLosesNone ==
  ASSUME Safe, Tidy, [Next]_vars, pc = "route", pc' = "route",
         \A j \in JobIds : ~ AuthFail(j)
  PROVE  \A j \in JobIds : Lost(j)' => Lost(j)
<1>1. /\ job \in [JobIds -> JobFile] /\ marks \in [JobIds -> SUBSET Marks]
  BY DEF Safe, Typed, JobsTyped, SessionsTyped
<1>2. \A j \in JobIds : DOMAIN job[j] = {"phase", "gated", "after", "id"}
  BY <1>1 DEF JobFile
<1>3. ASSUME job' = job, marks' = marks PROVE \A j \in JobIds : Lost(j)' => Lost(j)
  BY <1>3 DEF Lost, Losing, Exists
<1>4. ASSUME ~ Computing PROVE WellFormed(Head(writes)) /\ Head(writes) \in Pending
  BY <1>4, HeadIs DEF Computing
<1>5. CASE WriteMint
  <2> DEFINE w == Head(writes)
             x == [phase |-> "queued", gated |-> w.node.after # {},
                   after |-> w.node.after, id |-> w.node.id]
  <2>1. job' = [j \in JobIds |-> IF j \in w.jobs THEN x ELSE job[j]] /\ marks' = marks
    BY <1>5 DEF WriteMint
  <2>2. \A j \in w.jobs : job[j].phase = "absent"
    <3>1. w.kind = "mint" /\ w.jobs = {w.node.job} /\ w \in Pending
      BY <1>4, <1>5 DEF WriteMint, WellFormed
    <3> QED BY <3>1 DEF Safe, Files, MintsNew
  <2>3. x.phase = "queued"
    OBVIOUS
  <2> HIDE DEF x, w
  <2>4. ASSUME NEW j \in JobIds, Lost(j)' PROVE Lost(j)
    <3>1. CASE j \in w.jobs
      <4>1. job'[j].phase = "queued" /\ marks'[j] = {}
        BY <2>1, <2>2, <2>3, <3>1 DEF Tidy, Unmarked
      <4> QED BY <2>4, <4>1 DEF Lost, Losing
    <3>2. CASE j \notin w.jobs
      <4>1. job'[j] = job[j]
        BY <2>1, <3>2
      <4> QED BY <2>1, <2>4, <4>1 DEF Lost, Losing, Exists
    <3> QED BY <3>1, <3>2
  <2> QED BY <2>4
<1>6. CASE WriteGate
  <2> DEFINE w == Head(writes)
             a == w.node.after
  <2>1. /\ job' = [j \in JobIds |-> IF j \in w.jobs THEN [job[j] EXCEPT !.after = a] ELSE job[j]]
        /\ marks' = marks
    BY <1>6 DEF WriteGate
  <2> HIDE DEF w, a
  <2>2. \A j \in JobIds : job'[j].phase = job[j].phase
    BY <1>2, <2>1
  <2> QED BY <2>1, <2>2 DEF Lost, Losing, Exists
<1>7. CASE WriteReap
  <2>1. PICK i \in Head(writes).jobs : job' = [job EXCEPT ![i].phase = "gone"]
    BY <1>7 DEF WriteReap
  <2>2. marks' = marks
    BY <1>7 DEF WriteReap
  <2>3. \A j \in JobIds : job'[j].phase \in {job[j].phase, "gone"}
    BY <1>1, <1>2, <2>1
  <2> QED BY <2>2, <2>3 DEF Lost, Losing, Exists
<1>8. CASE WriteFlow \/ WriteConsumed
  BY <1>3, <1>8 DEF WriteFlow, WriteConsumed
<1>9. CASE Route
  BY <1>3, <1>9, RouteActs DEF Safe, Routing, files
<1>10. CASE ReconcileBegin
  BY <1>3, <1>10 DEF ReconcileBegin, files
<1>11. CASE Create \/ Stop \/ Crash \/ SpoolAppend \/ ReconcileNothing \/ ReconcileDeadline \/ StatusPass
            \/ VisitsDone \/ MarkStarted \/ TickEnd
  BY <1>11 DEF Create, Stop, Crash, SpoolAppend, ReconcileNothing, ReconcileDeadline, StatusPass,
               VisitsDone, MarkStarted, TickEnd
<1>12. CASE VisitUngate \/ VisitDepSkip \/ VisitPending
  BY <1>12 DEF VisitUngate, VisitDepSkip, VisitPending
<1>13. CASE RequestAppend \/ DeadlineNears \/ MoveDeadline \/ UNCHANGED vars
  BY <1>3, <1>13 DEF RequestAppend, DeadlineNears, MoveDeadline, vars, files
<1>14. ASSUME NEW j \in JobIds, VisitHeld(j) \/ VisitGated(j) \/ VisitUngated(j) \/ Cancel(j) \/ Launch(j)
       PROVE  FALSE
  BY <1>14 DEF VisitHeld, VisitGated, VisitUngated, Visiting, Cancel, Launch
<1>15. ASSUME NEW j \in JobIds, Session(j) PROVE job' = job /\ marks' = marks
  <2>1. ~ WindowPast(j)
    BY DEF WindowPast
  <2>2. UnitExit(j) => job' = job /\ marks' = marks
    BY DEF UnitExit, files
  <2>3. ASSUME NEW a, Report(j, a[1], a[2]) PROVE job' = job /\ marks' = marks
    BY <2>3 DEF Report, files
  <2> QED BY <1>15, <2>1, <2>2, <2>3 DEF Session
<1> QED BY <1>3, <1>5, <1>6, <1>7, <1>8, <1>9, <1>10, <1>11, <1>12, <1>13, <1>14, <1>15
        DEF Next, Tick, Visit, Writing

\* The pass goes on node by node.
LEMMA PassGoesOn ==
  ASSUME Safe, [Next]_vars, pc' = "route"
  PROVE  \/ ReconcileBegin
         \/ pc = "route" /\ Route
         \/ pc = "route" /\ mem' = mem /\ idx' = idx /\ total' = total
<1>1. CASE Writing
  BY <1>1 DEF Writing, WriteMint, WriteGate, WriteReap, WriteFlow, WriteConsumed, loop
<1>2. CASE Route
  BY <1>2, RouteActs DEF Safe, Routing
<1>3. CASE Create \/ Stop \/ Crash \/ SpoolAppend \/ ReconcileNothing \/ ReconcileDeadline \/ StatusPass
            \/ VisitsDone \/ MarkStarted \/ TickEnd
  BY <1>3 DEF Create, Stop, Crash, SpoolAppend, ReconcileNothing, ReconcileDeadline, StatusPass,
              VisitsDone, MarkStarted, TickEnd
<1>4. CASE VisitUngate \/ VisitDepSkip \/ VisitPending
  BY <1>4 DEF VisitUngate, VisitDepSkip, VisitPending, Visited
<1>5. CASE RequestAppend \/ DeadlineNears \/ MoveDeadline \/ UNCHANGED vars
  BY <1>5 DEF RequestAppend, DeadlineNears, MoveDeadline, vars, Inside, loop
<1>6. ASSUME NEW j \in JobIds, VisitHeld(j) \/ VisitGated(j) \/ VisitUngated(j) \/ Cancel(j) \/ Launch(j)
      PROVE  FALSE
  BY <1>6 DEF VisitHeld, VisitGated, VisitUngated, Visiting, Cancel, Launch
<1>7. ASSUME NEW j \in JobIds, Session(j)
      PROVE  pc = "route" /\ mem' = mem /\ idx' = idx /\ total' = total
  BY <1>7 DEF Session, Report, AuthFail, UnitExit, WindowPast, Inside, loop
<1> QED BY <1>1, <1>2, <1>3, <1>4, <1>5, <1>6, <1>7 DEF Next, Tick, Visit

\* A node that is new has no verdict, and a job that is not there yet.
LEMMA NewIsAbsent ==
  ASSUME Typed, Wired, Route, Graph(mem'.nodes), NEW i \in 1..Len(mem'.nodes),
         i \notin 1..Len(mem.nodes)
  PROVE  job[mem'.nodes[i].job].phase = "absent"
<1> DEFINE at == mem.nodes[At].id
<1>1. Insertion(mem, mem', at, writes') /\ mem \in Flow /\ mem' \in Flow
  BY RouteActs DEF Acts, Insertion, Typed, FlowsTyped
<1>2. Len(mem.nodes) \in Nat /\ Len(mem'.nodes) \in Nat
  BY <1>1, LenProperties DEF Flow
<1>3. i > Len(mem.nodes)
  BY ONLY <1>2, i \in 1..Len(mem'.nodes), i \notin 1..Len(mem.nodes)
<1> HIDE DEF at
<1>4. PICK w \in Range(writes') : w.kind = "mint" /\ w.node = mem'.nodes[i]
  BY <1>1, <1>3 DEF Insertion
<1> QED BY <1>1, <1>4 DEF Insertion

\* What is ahead of the pass is ahead of it after the next node but for that node.
LEMMA StepAhead ==
  ASSUME NEW a \in Nat, NEW t \in Nat, NEW b \in Nat, NEW i \in b..t, a <= i, i # a
  PROVE  i \in a + 1..t
OBVIOUS

\* The pass is at the first of the nodes with news.
LEMMA AtIsFirst ==
  ASSUME idx \in Nat \ {0}, total \in Nat, News # {}
  PROVE  \A k \in News : At <= k
<1>1. News \in SUBSET (1..total)
  <2>1. News \subseteq idx..total
    BY Zenon DEF News
  <2>2. idx..total \subseteq 1..total
    OBVIOUS
  <2> HIDE DEF News
  <2> QED BY <2>1, <2>2
<1>2. \E i \in News : \A k \in News : i <= k
  <2> HIDE DEF News
  <2> QED BY <1>1, Extremes
<1> QED BY <1>2 DEF At

LEMMA RoutePasses ==
  ASSUME FanInApart, Safe, Wired, Decisive, Tidy, Passed, Route, Graph(mem'.nodes), mem' \in Flow
  PROVE  \A i \in 1..Len(mem'.nodes) :
           /\ mem'.nodes[i].seen = ""
           /\ Losing(job'[mem'.nodes[i].job].phase, marks'[mem'.nodes[i].job])
           => i \in idx'..total'
<1>1. /\ Routing /\ idx' = At + 1 /\ total' = total /\ job' = job /\ marks' = marks /\ Typed
      /\ pc = "route" /\ News # {}
  BY RouteActs DEF Safe, Routing, files
<1>2. PICK v \in Verdicts : Goes(v)
  BY <1>1, RouteGoes
<1>3. /\ At \in Nat /\ idx \in Nat /\ total \in Nat
      /\ \A k \in News : At <= k
      /\ At \in 1..Len(mem.nodes)
  <2>1. At \in 1..Len(mem.nodes) /\ Len(mem.nodes) \in Nat
    BY <1>1, HereIsNew, LenProperties DEF Wired, Flow
  <2>2. idx \in Nat \ {0} /\ total \in Nat
    BY <1>1 DEF Typed, LoopTyped
  <2>3. \A k \in News : At <= k
    BY <1>1, <2>2, AtIsFirst
  <2> QED BY <2>1, <2>2, <2>3
<1> SUFFICES ASSUME NEW i \in 1..Len(mem'.nodes), mem'.nodes[i].seen = "",
                    Losing(job'[mem'.nodes[i].job].phase, marks'[mem'.nodes[i].job])
             PROVE  i \in idx'..total'
  OBVIOUS
<1>5. job'[mem'.nodes[i].job].phase # "absent"
  BY DEF Losing
<1>6. i \in 1..Len(mem.nodes)
  BY <1>1, <1>5, NewIsAbsent
<1>7. /\ mem'.nodes[i].seen = IF i = At THEN v ELSE mem.nodes[i].seen
      /\ mem'.nodes[i].job = mem.nodes[i].job
  BY <1>2, <1>6 DEF Goes, Grows, Dressed
<1>8. i # At /\ mem.nodes[i].seen = ""
  BY <1>7 DEF Verdicts
<1>9. Lost(mem.nodes[i].job)
  <2>1. job[mem.nodes[i].job] = job'[mem'.nodes[i].job] /\ marks[mem.nodes[i].job] = marks'[mem'.nodes[i].job]
    BY <1>1, <1>7
  <2> QED BY <2>1 DEF Lost
<1>10. i \in News
  BY <1>1, <1>6, <1>8, <1>9, NewsIsAhead
<1>11. i \in idx..total /\ At <= i
  BY <1>3, <1>10 DEF News
<1> QED BY <1>1, <1>3, <1>8, <1>11, StepAhead, Zenon

LEMMA PassedStays ==
  ASSUME FanInApart, Safe, Wired, Decisive, Tidy, Passed, [Next]_vars,
         \A j \in JobIds : ~ AuthFail(j)
  PROVE  Passed'
<1> SUFFICES ASSUME pc' = "route"
             PROVE  \A i \in 1..Len(mem'.nodes) :
                      /\ mem'.nodes[i].seen = ""
                      /\ Losing(job'[mem'.nodes[i].job].phase, marks'[mem'.nodes[i].job])
                      => i \in idx'..total'
  BY DEF Passed, Lost
<1>1. Graph(mem'.nodes) /\ mem' \in Flow /\ mem \in Flow
  <2>1. Typed /\ Typed'
    BY TypedStays DEF Safe
  <2> QED BY <2>1, WiredStays DEF Typed, FlowsTyped, Wired
<1>2. CASE ReconcileBegin
  <2>1. mem' = flow /\ idx' = 1 /\ total' = Len(flow.nodes)
    BY <1>2 DEF ReconcileBegin
  <2> QED BY <2>1
<1>3. CASE Route
  BY <1>1, <1>3, RoutePasses
<1>4. CASE pc = "route" /\ mem' = mem /\ idx' = idx /\ total' = total
  <2>1. \A j \in JobIds : Lost(j)' => Lost(j)
    BY <1>4, PassLosesNone
  <2>2. ASSUME NEW i \in 1..Len(mem.nodes), mem.nodes[i].seen = "",
             Losing(job'[mem'.nodes[i].job].phase, marks'[mem'.nodes[i].job])
        PROVE  i \in idx..total
    <3>1. mem.nodes[i] \in Node
      BY <1>1, ElementOfSeq DEF Flow
    <3>2. mem.nodes[i].job \in JobIds
      BY <3>1 DEF Node
    <3>3. Lost(mem.nodes[i].job)
      <4> DEFINE j == mem.nodes[i].job
      <4>1. j \in JobIds /\ mem'.nodes[i].job = j
        BY <1>4, <3>2
      <4> HIDE DEF j
      <4>2. Losing(job'[j].phase, marks'[j])
        BY <2>2, <4>1
      <4> QED BY <2>1, <4>1, <4>2 DEF Lost, j
    <3> QED BY <1>4, <2>2, <3>3 DEF Passed
  <2> QED BY <1>4, <2>2
<1> QED BY <1>2, <1>3, <1>4, PassGoesOn

(***************************************************************************)
(* What could still start when a run is over is reaped before it is saved.  *)
(***************************************************************************)
Reaps(ws, j) == \E w \in Range(ws) : w.kind = "reap" /\ j \in w.jobs

LEMMA ReapReaps ==
  ASSUME NEW jobs \in SUBSET JobIds, NEW j \in jobs
  PROVE  Reaps(Reap(jobs), j)
BY ReapPlan DEF Reaps

LEMMA ReapsLast ==
  ASSUME NEW s, NEW t, Plan(s), Plan(t), NEW j, Reaps(s, j) \/ Reaps(t, j)
  PROVE  Reaps(s \o t, j)
<1>1. Range(s \o t) = Range(s) \cup Range(t)
  BY RangeConcatenation DEF Plan
<1> QED BY <1>1 DEF Reaps

LEMMA OwnedBy ==
  ASSUME NEW f \in Flow, NEW g \in Flow, NEW p, NEW v, Dressed(f, g, p, v),
         Len(g.nodes) = Len(f.nodes)
  PROVE  Owned(g) = Owned(f)
<1>1. \A i \in 1..Len(f.nodes) : g.nodes[i].job = f.nodes[i].job
  BY DEF Dressed
<1>2. /\ Nodes(f) = {f.nodes[i] : i \in 1..Len(f.nodes)}
      /\ Nodes(g) = {g.nodes[i] : i \in 1..Len(f.nodes)}
  BY NodesOf
<1> QED BY <1>1, <1>2 DEF Owned

\* A node of the copy the pass works on has its file, and so has one of the saved flow.
LEMMA NodesThere ==
  ASSUME Safe
  PROVE  /\ \A j \in Owned(flow) : job[j].phase # "absent"
         /\ pc = "route" /\ Computing => \A j \in Owned(mem) : job[j].phase # "absent"
<1>1. \A j \in Owned(flow) : job[j].phase # "absent"
  BY DEF Safe, Files, FlowBacked, Backed, Owned
<1>2. ASSUME pc = "route", Computing PROVE \A j \in Owned(mem) : job[j].phase # "absent"
  <2>1. Pending = {}
    <3>1. Plan(<<>>) /\ \A w \in Range(<<>>) : FALSE
      BY ShortPlans
    <3> QED BY <1>2, <3>1 DEF Computing, Pending
  <2>2. \A n \in Nodes(mem) : Backed(n)
    BY <1>2, <2>1 DEF Safe, Files, MemBacked, Owed
  <2> QED BY <2>2 DEF Backed, Owned
<1> QED BY <1>1, <1>2

\* A verdict that blocks the run.
LEMMA RouteReaps ==
  ASSUME Safe, Wired, Route, Graph(mem'.nodes), mem' \in Flow, mem'.status = "blocked"
  PROVE  \A j \in Owned(mem') : Held(j) => Reaps(writes', j)
<1>1. Routing /\ Typed /\ mem.status # "blocked" /\ pc = "route" /\ Computing
  BY RouteActs DEF Safe, Routing
<1>2. /\ mem \in Flow /\ Graph(mem.nodes) /\ At \in 1..Len(mem.nodes) /\ Here = mem.nodes[At]
  BY <1>1, HereIsNew DEF Wired
<1>3. ASSUME NEW v \in Verdicts
      PROVE  /\ Stamped(v) \in Flow /\ Owned(Stamped(v)) = Owned(mem)
             /\ Unreported(Stamped(v)) \in SUBSET JobIds
             /\ \A j \in Owned(mem) : Held(j) => j \in Unreported(Stamped(v))
  <2> DEFINE h == Stamped(v)
  <2>1. h = Stamp(mem, At, v)
    BY DEF Stamped, Stamp
  <2> HIDE DEF h
  <2>2. h \in Flow /\ Len(h.nodes) = Len(mem.nodes) /\ Dressed(mem, h, At, v)
    BY <1>2, <2>1, StampPut
  <2>3. Owned(h) = Owned(mem)
    BY <1>2, <2>2, OwnedBy
  <2>4. \A j \in Owned(mem) : Held(j) => j \in Unreported(h)
    BY <1>1, <2>3, NodesThere DEF Held, Unreported
  <2> QED BY <2>2, <2>3, <2>4, UnreportedJobs DEF h
<1>4. ASSUME NEW v \in Verdicts, Stamping(mem, mem', At, v), writes' = Reap(Unreported(Stamped(v))),
             NEW j \in Owned(mem'), Held(j)
      PROVE  Reaps(writes', j)
  <2>1. j \in Owned(mem)
    BY <1>2, <1>4, OwnedBy DEF Stamping
  <2> QED BY <1>3, <1>4, <2>1, ReapReaps
<1>5. CASE \/ RouteEnded \/ RouteBlocked
           \/ \E v \in {"draft", "ok", "blocked"} : RouteUndecided(v)
           \/ \E v \in {"draft", "ok", "complete"} : RouteProceed(v)
  <2>1. PICK v \in Verdicts : Stamping(mem, mem', At, v) /\ Plainly(v)
    BY <1>1, <1>2, <1>5, PlainMoves
  <2>2. writes' = Reap(Unreported(Stamped(v)))
    BY <1>1, <2>1 DEF Plainly
  <2> QED BY <1>4, <2>1, <2>2
<1>6. CASE RouteComplete
  <2>1. mem'.status = "complete"
    BY <1>1, <1>2, <1>6, CompleteMoves
  <2> QED BY <2>1
<1>7. CASE RouteEmit
  <2>1. mem'.status = mem.status
    BY <1>1, <1>2, <1>7, EmitMoves
  <2> QED BY <1>1, <2>1
<1>8. CASE RouteNeedsWork
  <2> DEFINE v == "needs-work"
             at == Here.id
  <2>1. \E new : /\ Cutting(mem, mem', At, v, at, new)
                 /\ Undoing(new, writes')
    BY <1>1, <1>2, <1>8, NeedsWorkMoves
  <2>2. PICK new : /\ Cutting(mem, mem', At, v, at, new)
                   /\ writes' = MintWrites(new) \o Reap(Unreported(Stamped(v)) \cup {new[i].job : i \in 1..Len(new)})
    BY <2>1 DEF Undoing
  <2>3. v \in Verdicts
    BY DEF Verdicts, Stamps
  <2> HIDE DEF v, at
  <2> DEFINE mine == {new[i].job : i \in 1..Len(new)}
             jobs == Unreported(Stamped(v)) \cup mine
  <2>4. /\ new \in Seq(Node) /\ Dressed(mem, mem', At, v)
        /\ Len(mem'.nodes) = Len(mem.nodes) + Len(new)
        /\ \A k \in 1..Len(new) : mem'.nodes[Len(mem.nodes) + k] = new[k]
        /\ \A i \in 1..Len(new) : new[i].job = NextJob + i - 1
    BY <2>2 DEF Cutting, Adds, RoundOf
  <2>5. mine \in SUBSET JobIds
    <3>1. \A i \in 1..Len(new) : new[i] \in Node
      BY <2>4, ElementOfSeq
    <3> QED BY <3>1 DEF Node
  <2>6. jobs \in SUBSET JobIds
    BY <1>3, <2>3, <2>5
  <2>7. Plan(MintWrites(new)) /\ Plan(Reap(jobs))
    <3>1. \A i, k \in 1..Len(new) : i # k => new[i].job # new[k].job
      BY <2>4, NextJobFresh, LenProperties
    <3>2. Plan(MintWrites(new))
      BY <2>4, <3>1, MintPlan
    <3> QED BY <2>6, <3>2, ReapPlan
  <2>8. \A j \in Owned(mem') : j \in Owned(mem) \/ j \in mine
    <3>1. Nodes(mem') = {mem'.nodes[i] : i \in 1..Len(mem'.nodes)}
      BY NodesOf
    <3>2. ASSUME NEW i \in 1..Len(mem'.nodes)
          PROVE  mem'.nodes[i].job \in Owned(mem) \/ mem'.nodes[i].job \in mine
      <4> DEFINE n == Len(mem.nodes)
                 m == Len(new)
                 k == i - n
      <4>0. n \in Nat /\ m \in Nat
        BY <1>2, <2>4, LenProperties DEF Flow
      <4>1. CASE i \in 1..n
        <5>1. mem.nodes[i] \in Nodes(mem) /\ mem'.nodes[i].job = mem.nodes[i].job
          BY <1>2, <2>4, <4>1, NodesOf DEF Dressed
        <5> QED BY <5>1 DEF Owned
      <4>2. CASE i \notin 1..n
        <5>1. k \in 1..m /\ n + k = i
          <6>1. i \in 1..n + m
            BY <2>4, <3>2
          <6> HIDE DEF n, m
          <6> QED BY ONLY <4>0, <4>2, <6>1, Beyond, Zenon DEF k
        <5> HIDE DEF k
        <5>2. mem'.nodes[i] = new[k]
          BY <2>4, <5>1
        <5> QED BY <5>1, <5>2
      <4> QED BY <4>1, <4>2
    <3> QED BY <3>1, <3>2 DEF Owned
  <2>9. ASSUME NEW j \in Owned(mem'), Held(j) PROVE Reaps(writes', j)
    <3>1. j \in jobs
      BY <1>3, <2>3, <2>8, <2>9
    <3>2. Reaps(Reap(jobs), j)
      BY <2>6, <3>1, ReapReaps
    <3> HIDE DEF jobs
    <3>3. writes' = MintWrites(new) \o Reap(jobs)
      BY <2>2 DEF jobs
    <3> QED BY <2>7, <3>2, <3>3, ReapsLast
  <2> QED BY <2>9
<1> QED BY <1>5, <1>6, <1>7, <1>8 DEF Route

\* A run that is ended from outside the pass.
LEMMA EndReaps ==
  ASSUME Safe, Stop \/ ReconcileDeadline
  PROVE  \A j \in Owned(mem') : Held(j) => Reaps(writes', j)
<1> SUFFICES ASSUME NEW j \in Owned(mem'), Held(j) PROVE Reaps(writes', j)
  OBVIOUS
<1>1. flow \in Flow /\ Typed
  BY DEF Safe, Typed, FlowsTyped
<1>2. mem'.nodes = flow.nodes
  BY <1>1, EndStep
<1>3. j \in Owned(flow)
  BY <1>2 DEF Owned, Nodes
<1>4. Unstarted(j) /\ ~ ReportExists(j)
  BY <1>3, NodesThere DEF Held
<1>5. PICK jobs : writes' = Reap(jobs) \o SaveOrLose /\ j \in jobs /\ jobs \in SUBSET JobIds
  <2> DEFINE waiting == {i \in Owned(flow) : Unstarted(i)}
             silent == Unreported(flow)
  <2>1. waiting \in SUBSET JobIds /\ silent \in SUBSET JobIds /\ j \in waiting /\ j \in silent
    BY <1>1, <1>3, <1>4, UnreportedJobs DEF Unreported
  <2>2. writes' = Reap(waiting) \o SaveOrLose \/ writes' = Reap(silent) \o SaveOrLose
    BY DEF Stop, ReconcileDeadline
  <2> HIDE DEF waiting, silent
  <2> QED BY <2>1, <2>2
<1>6. Plan(Reap(jobs)) /\ Reaps(Reap(jobs), j)
  BY <1>5, ReapPlan, ReapReaps
<1>7. Plan(SaveOrLose)
  BY EndPlans
<1> QED BY <1>5, <1>6, <1>7, ReapsLast

\* Any other step either makes a copy, or does a write, or neither.
LEMMA Writings ==
  ASSUME [Next]_vars
  PROVE  CopySteps \/ (mem' = mem /\ (Writing \/ writes' = writes))
<1>1. CASE Writing
  BY <1>1 DEF Writing, WriteMint, WriteGate, WriteReap, WriteFlow, WriteConsumed
<1>2. CASE RequestAppend \/ DeadlineNears \/ MoveDeadline \/ ReconcileNothing \/ MarkStarted
           \/ TickEnd
  BY <1>2 DEF RequestAppend, DeadlineNears, MoveDeadline, ReconcileNothing, MarkStarted,
              TickEnd, files, Inside
<1>3. CASE VisitUngate \/ VisitDepSkip \/ VisitPending
  BY <1>3 DEF VisitUngate, VisitDepSkip, VisitPending, Visited
<1>4. ASSUME NEW j \in JobIds, VisitHeld(j) \/ VisitGated(j) \/ VisitUngated(j)
      PROVE  mem' = mem /\ writes' = writes
  BY <1>4 DEF VisitHeld, VisitGated, VisitUngated, Visiting, files
<1>5. ASSUME NEW j \in JobIds, Cancel(j) \/ Launch(j) PROVE mem' = mem /\ writes' = writes
  BY <1>5 DEF Cancel, Launch, files
<1>6. ASSUME NEW j \in JobIds, Session(j) PROVE mem' = mem /\ writes' = writes
  BY <1>6 DEF Session, Report, AuthFail, UnitExit, WindowPast, files, Inside
<1>7. CASE UNCHANGED vars
  BY <1>7 DEF vars
<1> QED BY <1>1, <1>2, <1>3, <1>4, <1>5, <1>6, <1>7 DEF Next, Tick, Visit, CopySteps

\* With nothing left to write, nothing is left to reap.
LEMMA NoneReaped ==
  ASSUME NEW j
  PROVE  ~ Reaps(<<>>, j)
<1>1. \A w \in Range(<<>>) : FALSE
  BY ShortPlans
<1> QED BY <1>1 DEF Reaps

\* A deletion that is done.
LEMMA ReapDone ==
  ASSUME Safe, WriteReap, NEW j \in JobIds, Reaps(writes, j)
  PROVE  Reaps(writes', j) \/ job'[j].phase = "gone"
<1> DEFINE h == Head(writes)
<1>1. writes # <<>> /\ h.kind = "reap"
  BY DEF WriteReap, Computing
<1>2. PICK i \in h.jobs :
        /\ job' = [job EXCEPT ![i].phase = "gone"]
        /\ writes' = IF h.jobs = {i} THEN Tail(writes) ELSE Shrunk(writes, i)
  BY DEF WriteReap, Shrunk
<1>3. job \in [JobIds -> JobFile] /\ Plan(writes)
  BY DEF Safe, Typed, JobsTyped
<1>4. CASE j = i
  <2>1. DOMAIN job[j] = {"phase", "gated", "after", "id"}
    BY <1>3 DEF JobFile
  <2> QED BY <1>2, <1>3, <1>4, <2>1
<1>5. CASE j # i
  <2>1. Range(writes) = {h} \cup Range(Tail(writes))
    BY <1>1, <1>3, PlanTail
  <2>2. PICK w \in Range(writes) : w.kind = "reap" /\ j \in w.jobs
    BY DEF Reaps
  <2>3. CASE h.jobs = {i}
    <3>1. w \in Range(Tail(writes))
      BY <1>5, <2>1, <2>2, <2>3
    <3> QED BY <1>2, <2>2, <2>3, <3>1 DEF Reaps
  <2>4. CASE h.jobs # {i}
    <3>1. writes' = Shrunk(writes, i)
      BY <1>2, <2>4
    <3>2. PICK v : /\ v.kind = "reap" /\ v.jobs = h.jobs \ {i}
                   /\ Range(Shrunk(writes, i)) = {v} \cup Range(Tail(writes))
      BY <1>1, <1>2, <1>3, <2>4, PlanShrunk
    <3>3. w = h => j \in v.jobs
      BY <1>5, <2>2, <3>2
    <3>4. w # h => w \in Range(Tail(writes))
      BY <2>1, <2>2
    <3> QED BY <2>2, <3>1, <3>2, <3>3, <3>4 DEF Reaps
  <2> QED BY <2>3, <2>4
<1> QED BY <1>4, <1>5

\* Nothing is saved before what is to be reaped is.
LEMMA SavedLast ==
  ASSUME Safe, WriteFlow, NEW j
  PROVE  ~ Reaps(writes, j)
<1> DEFINE h == Head(writes)
<1>1. writes # <<>> /\ h.kind \in Ends
  BY DEF WriteFlow, Computing, Ends
<1>2. \A w \in Pending : w.kind \in Ends
  BY <1>1, HeadIs
<1> QED BY <1>2 DEF Reaps, Pending, Ends

LEMMA ClearingStays ==
  ASSUME FanInApart, Safe, Wired, Decisive, Tidy, Passed, Clearing, [Next]_vars
  PROVE  Clearing'
<1>1. /\ Typed /\ flow \in Flow /\ mem \in Flow /\ mem' \in Flow /\ Graph(mem'.nodes)
  <2>1. Typed /\ Typed'
    BY TypedStays DEF Safe
  <2> QED BY <2>1, WiredStays DEF Typed, FlowsTyped, Wired
<1>2. \A j \in JobIds : Held(j)' => Held(j)
  BY JobsAge, HeldShrinks DEF Tidy
<1>3. \A j \in Owned(mem') : j \in JobIds
  BY <1>1, UnreportedJobs
<1>4. ASSUME Stopping(mem') => \A j \in Owned(mem') : Held(j)' => Reaps(writes', j)
      PROVE  Clearing'
  BY <1>4 DEF Clearing, Stopping, Owned, Nodes, Reaps, Reaped, Pending
<1>5. \A j \in Owned(mem) : Stopping(mem) /\ Held(j) => Reaps(writes, j)
  BY DEF Clearing, Reaps, Reaped, Pending
<1>6. ASSUME Computing PROVE \A j \in Owned(mem) : Stopping(mem) => ~ Held(j)
  BY <1>5, <1>6, NoneReaped DEF Computing
<1>7. ASSUME mem' = mem, Computing PROVE Clearing'
  BY <1>2, <1>3, <1>4, <1>6, <1>7
<1>8. ASSUME ~ Stopping(mem') PROVE Clearing'
  BY <1>4, <1>8
<1>9. ASSUME \A j \in Owned(mem') : Held(j) => Reaps(writes', j) PROVE Clearing'
  BY <1>2, <1>3, <1>4, <1>9
<1>10. CASE mem' = mem /\ writes' = writes
  BY <1>2, <1>3, <1>4, <1>5, <1>10
<1>11. CASE WriteMint \/ WriteGate \/ WriteConsumed
  <2> DEFINE h == Head(writes)
  <2>1. mem' = mem /\ writes' = Tail(writes) /\ writes # <<>> /\ h.kind # "reap"
    BY <1>11 DEF WriteMint, WriteGate, WriteConsumed, Computing
  <2>2. Range(writes) = {h} \cup Range(Tail(writes))
    BY <1>1, <2>1, PlanTail DEF Typed
  <2>3. \A j : Reaps(writes, j) => Reaps(writes', j)
    BY <2>1, <2>2 DEF Reaps
  <2> QED BY <1>2, <1>3, <1>4, <1>5, <2>1, <2>3
<1>12. CASE WriteReap
  <2>1. mem' = mem
    BY <1>12 DEF WriteReap
  <2>2. ASSUME NEW j \in JobIds, Reaps(writes, j), Held(j)' PROVE Reaps(writes', j)
    <3>1. job'[j].phase # "gone"
      BY <2>2 DEF Held, Unstarted
    <3> QED BY <1>12, <2>2, <3>1, ReapDone
  <2> QED BY <1>2, <1>3, <1>4, <1>5, <2>1, <2>2
<1>13. CASE WriteFlow
  <2>1. mem' = mem
    BY <1>13 DEF WriteFlow
  <2>2. \A j \in Owned(mem) : Stopping(mem) => ~ Held(j)
    BY <1>5, <1>13, SavedLast
  <2> QED BY <1>2, <1>3, <1>4, <2>1, <2>2
<1>14. CASE Create \/ ReconcileBegin \/ VisitsDone \/ Crash
  <2>1. /\ \/ mem' = [status |-> "queued", nodes |-> Minted, round |-> 0]
           \/ mem' = flow /\ flow.status \in {"queued", "running"}
           \/ mem' = NoFlow
    BY <1>14 DEF Create, ReconcileBegin, VisitsDone, Crash
  <2>2. mem'.status \in {"queued", "running", "none"}
    BY <2>1 DEF NoFlow
  <2> QED BY <1>8, <2>2 DEF Stopping
<1>15. CASE Stop \/ ReconcileDeadline
  BY <1>9, <1>15, EndReaps
<1>16. CASE SpoolAppend
  <2>1. CASE mem' = mem
    BY <1>7, <1>16, <2>1 DEF SpoolAppend, Begins
  <2>2. CASE mem' # mem
    <3>1. ~ FlowTerminal(flow) /\ mem'.status = flow.status
      BY <1>1, <1>16, <2>2, SpoolGrows
    <3> QED BY <1>8, <3>1 DEF FlowTerminal, Stopping
  <2> QED BY <2>1, <2>2
<1>17. CASE Route
  <2>1. PICK v \in Verdicts : Goes(v)
    BY <1>1, <1>17, RouteGoes
  <2>2. mem.status # "blocked" /\ pc = "route"
    BY <1>1, <1>17, RouteActs DEF Routing
  <2>3. mem'.status \in {"queued", "running", "complete", "blocked"}
    BY <2>1, <2>2 DEF Goes, Tidy, Live
  <2>4. CASE mem'.status = "blocked"
    BY <1>1, <1>9, <1>17, <2>4, RouteReaps
  <2>5. CASE mem'.status # "blocked"
    BY <1>8, <2>3, <2>5 DEF Stopping
  <2> QED BY <2>4, <2>5
<1>18. CASE StatusPass
  <2>1. /\ mem'.nodes = mem.nodes /\ mem'.status \in {mem.status, "blocked", "running"}
        /\ mem.status \in {"blocked", "complete"} => mem'.status = mem.status
        /\ pc = "route" /\ Computing
    BY <1>1, <1>18, StatusMoves DEF StatusPass
  <2>2. CASE mem.status = "blocked"
    <3>1. \A j \in Owned(mem') : ~ Held(j)
      BY <1>6, <2>1, <2>2 DEF Owned, Nodes, Stopping
    <3> QED BY <1>9, <3>1
  <2>3. CASE mem.status # "blocked"
    <3>1. mem'.status # "blocked"
      BY <1>1, <1>18, <2>1, <2>3, StatusNeverBlocks
    <3>2. mem'.status \in {"queued", "running", "complete"}
      BY <2>1, <2>3, <3>1 DEF Tidy, Live
    <3> QED BY <1>8, <3>2 DEF Stopping
  <2> QED BY <2>2, <2>3
<1> QED BY <1>10, <1>11, <1>12, <1>13, <1>14, <1>15, <1>16, <1>17, <1>18, Writings
        DEF CopySteps, Writing

LEMMA ClearedStays ==
  ASSUME Safe, Tidy, Cleared, Clearing, [Next]_vars
  PROVE  Cleared'
<1>1. Typed /\ flow \in Flow /\ mem \in Flow
  BY DEF Safe, Typed, FlowsTyped
<1>2. \A j \in JobIds : Held(j)' => Held(j)
  BY JobsAge, HeldShrinks DEF Tidy
<1>3. \A j \in Owned(flow) \cup Owned(mem) : j \in JobIds
  BY <1>1, UnreportedJobs
<1>4. ASSUME Stopping(flow') => \A j \in Owned(flow') : ~ Held(j)'
      PROVE  Cleared'
  BY <1>4 DEF Cleared, Stopping, Owned, Nodes
<1>5. CASE flow' = flow
  BY <1>2, <1>3, <1>4, <1>5 DEF Cleared
<1>6. CASE WriteFlow
  <2>1. flow' \in {flow, mem}
    BY <1>1, FileFrom
  <2>2. ASSUME NEW j \in Owned(mem), Stopping(mem) PROVE ~ Held(j)
    <3>1. ~ Reaped(j)
      BY <1>6, SavedLast DEF Reaps, Reaped, Pending
    <3> QED BY <2>2, <3>1 DEF Clearing
  <2>3. CASE flow' = mem
    BY <1>2, <1>3, <1>4, <2>2, <2>3
  <2> QED BY <1>5, <2>1, <2>3
<1>7. CASE Copies
  BY <1>5, <1>7 DEF Copies
<1>8. CASE \/ Create \/ Stop \/ SpoolAppend \/ ReconcileDeadline \/ ReconcileBegin \/ StatusPass
           \/ VisitsDone \/ Crash
  BY <1>5, <1>8 DEF Create, Stop, SpoolAppend, ReconcileDeadline, ReconcileBegin, StatusPass,
                    VisitsDone, Crash, files
<1>9. CASE Route
  BY <1>1, <1>5, <1>9, RouteActs DEF Routing, files
<1> QED BY <1>6, <1>7, <1>8, <1>9, Copying DEF CopySteps

(***************************************************************************)
(* The cause stays in the plan.                                             *)
(***************************************************************************)
LEMMA SameCause ==
  ASSUME NEW f, NEW g, g.nodes = f.nodes, Caused(f), g.status = "blocked" => f.status = "blocked"
  PROVE  Caused(g)
<1>1. AcceptanceID(g) = AcceptanceID(f)
  BY DEF AcceptanceID, Nodes
<1> QED BY <1>1 DEF Caused, Causes

LEMMA CausedStays ==
  ASSUME FanInApart, Safe, Wired, Decisive, Tidy, Passed, Caused(flow), Caused(mem), [Next]_vars
  PROVE  Caused(flow)' /\ Caused(mem)'
<1>1. /\ Typed /\ flow \in Flow /\ mem \in Flow /\ mem' \in Flow /\ Graph(mem'.nodes)
  <2>1. Typed /\ Typed'
    BY TypedStays DEF Safe
  <2> QED BY <2>1, WiredStays DEF Typed, FlowsTyped, Wired
<1>2. flow' \in {flow, mem}
  BY <1>1, FileFrom
<1>3. ASSUME Caused(mem') PROVE Caused(flow)' /\ Caused(mem)'
  <2>1. Caused(flow')
    BY <1>2
  <2> QED BY <1>3, <2>1 DEF Caused, Causes, AcceptanceID, Nodes
<1>4. ASSUME mem'.status # "blocked" PROVE Caused(mem')
  BY <1>4 DEF Caused
<1>5. CASE Copies
  BY <1>3, <1>5 DEF Copies
<1>6. CASE WriteFlow
  BY <1>3, <1>6 DEF WriteFlow
<1>7. CASE Create \/ ReconcileBegin \/ VisitsDone \/ Crash
  <2>1. /\ \/ mem' = [status |-> "queued", nodes |-> Minted, round |-> 0]
           \/ mem' = flow /\ flow.status \in {"queued", "running"}
           \/ mem' = NoFlow
    BY <1>7 DEF Create, ReconcileBegin, VisitsDone, Crash
  <2>2. mem'.status \in {"queued", "running", "none"}
    BY <2>1 DEF NoFlow
  <2> QED BY <1>3, <1>4, <2>2
<1>8. CASE Stop \/ ReconcileDeadline
  <2>1. mem' = [flow EXCEPT !.status = "stopped"] \/ mem' = [flow EXCEPT !.status = "deadline"]
    BY <1>8 DEF Stop, ReconcileDeadline
  <2>2. mem'.status # "blocked"
    BY <1>1, <2>1 DEF Flow
  <2> QED BY <1>3, <1>4, <2>2
<1>9. CASE SpoolAppend
  <2>1. CASE mem' = mem
    BY <1>3, <2>1
  <2>2. CASE mem' # mem
    <3>1. ~ FlowTerminal(flow) /\ mem'.status = flow.status
      BY <1>1, <1>9, <2>2, SpoolGrows
    <3> QED BY <1>3, <1>4, <3>1 DEF FlowTerminal
  <2> QED BY <2>1, <2>2
<1>10. CASE Route
  <2>1. PICK v \in Verdicts : Goes(v)
    BY <1>1, <1>10, RouteGoes
  <2>2. Caused(mem')
    BY <2>1 DEF Goes, Caused
  <2> QED BY <1>3, <2>2
<1>11. CASE StatusPass
  <2>1. /\ mem'.nodes = mem.nodes
        /\ mem.status \in {"blocked", "complete"} => mem'.status = mem.status
    BY <1>1, <1>11, StatusMoves
  <2>2. mem'.status = "blocked" => mem.status = "blocked"
    BY <1>1, <1>11, <2>1, StatusNeverBlocks
  <2>3. Caused(mem')
    BY <2>1, <2>2, SameCause
  <2> QED BY <1>3, <2>3
<1> QED BY <1>5, <1>6, <1>7, <1>8, <1>9, <1>10, <1>11, Copying DEF CopySteps

\* No authentication fails in a step after which none has.
LEMMA NoneFailed ==
  ASSUME Counts, [Next]_vars, spent'["auth"] = 0
  PROVE  spent["auth"] = 0 /\ \A j \in JobIds : ~ AuthFail(j)
<1>1. "auth" \in Events
  BY DEF Events
<1>2. spent'["auth"] \in Nat /\ spent["auth"] \in Nat /\ spent["auth"] <= spent'["auth"]
  BY <1>1, SpentGrows, StepSpends
<1>3. spent["auth"] = 0
  BY ONLY <1>2, spent'["auth"] = 0
<1>4. ASSUME NEW j \in JobIds, AuthFail(j) PROVE FALSE
  <2>1. spent' = [spent EXCEPT !["auth"] = spent["auth"] + 1] /\ spent \in [Events -> Nat]
    BY <1>4 DEF AuthFail, Spend, Counts
  <2>2. spent'["auth"] = spent["auth"] + 1
    BY <1>1, <2>1
  <2> QED BY <1>3, <2>2
<1> QED BY <1>3, <1>4

Credentialed == spent["auth"] = 0

LEMMA EndsStay ==
  ASSUME FanInApart, Safe, Counts, Wired, Decisive, Tidy, Credentialed => Finished, [Next]_vars
  PROVE  Credentialed' => Finished'
<1> SUFFICES ASSUME Credentialed' PROVE Finished'
  OBVIOUS
<1>1. spent["auth"] = 0 /\ \A j \in JobIds : ~ AuthFail(j)
  BY NoneFailed DEF Credentialed
<1>2. Finished
  BY <1>1 DEF Credentialed
<1> QED BY <1>1, <1>2, CausedStays, PassedStays, ClearedStays, ClearingStays DEF Finished

\* The cause and the leftovers of a run that is over, as the saved flow has them.
LEMMA EndedSays ==
  ASSUME Typed, Finished
  PROVE  BlockedForCause /\ TerminalReaped
<1>1. flow \in Flow
  BY DEF Typed, FlowsTyped
<1>2. Nodes(flow) = {flow.nodes[i] : i \in 1..Len(flow.nodes)}
  BY <1>1, NodesOf
<1>3. BlockedForCause
  <2>1. ASSUME flow.status = "blocked"
        PROVE  \E n \in Nodes(flow) :
                 \/ n.by = None /\ n.seen \in {"blocked", "terminal-no-report"}
                 \/ n.seen = "needs-work" /\ (n.by = None \/ n.id[1] \in DOMAIN Edges)
                 \/ n.id = AcceptanceID(flow) /\ n.seen \in {"ok", "none"}
    <3>1. PICK i \in 1..Len(flow.nodes) : Causes(flow, i)
      BY <2>1 DEF Finished, Caused
    <3>2. flow.nodes[i] \in Nodes(flow)
      BY <1>2
    <3> QED BY <3>1, <3>2 DEF Causes
  <2> QED BY <2>1 DEF BlockedForCause
<1>4. TerminalReaped
  BY DEF Finished, Cleared, Stopping, Held, TerminalReaped
<1> QED BY <1>3, <1>4

LEMMA InitEnded == Init => Tidy /\ Finished
<1> SUFFICES ASSUME Init PROVE Tidy /\ Finished
  OBVIOUS
<1>1. /\ flow = NoFlow /\ mem = NoFlow /\ pc = "idle" /\ marks = [j \in JobIds |-> {}]
  BY DEF Init
<1>2. NoFlow.status = "none"
  BY DEF NoFlow
<1>3. Tidy
  BY <1>1, <1>2, NoneNeat DEF Tidy, AtHand, Unmarked, Neat
<1>4. Finished
  BY <1>1, <1>2 DEF Finished, Caused, Passed, Cleared, Clearing, Stopping
<1> QED BY <1>3, <1>4

\* What the causes rest on, of every run of the plan in which ids do not clash.
Orderly == FanInApart => /\ Wired /\ Decisive /\ Tidy
                         /\ Credentialed => Finished

LEMMA AlwaysOrderly == Spec => []Orderly
<1>1. Init => Orderly
  <2>1. Init => Decisive
    BY DEF Init, NoFlow, Decisive, Leafed
  <2> QED BY <2>1, InitWired, InitEnded DEF Orderly
<1>2. Orderly /\ Safe /\ Accounted /\ [Next]_vars => Orderly'
  <2> SUFFICES ASSUME Orderly, Safe, Accounted, [Next]_vars, FanInApart PROVE Orderly'
    BY DEF Orderly, FanInApart
  <2>1. Wired /\ Decisive /\ Tidy /\ (Credentialed => Finished) /\ Typed /\ Counts
    BY DEF Orderly, Safe, Accounted
  <2>2. Wired' /\ Decisive' /\ Tidy' /\ (Credentialed' => Finished')
    BY <2>1, WiredStays, DecisiveStays, TidyStays, EndsStay
  <2> QED BY <2>2 DEF Orderly
<1> QED BY <1>1, <1>2, FlowRunSafe, FlowRunAccounted, PTL DEF Spec

\* A run is blocked for a cause: by a node of the plan that ended without a result or
\* said so, by a needs-work verdict nothing could be inserted for, or by an acceptance
\* node that did not decide; an emitted attempt never blocks it, and the status pass
\* never does of its own accord, as long as no authentication fails.
THEOREM BlockedAlwaysForCause == Spec => [](FanInApart /\ spent["auth"] = 0 => BlockedForCause)
<1>1. Orderly /\ Safe => (FanInApart /\ spent["auth"] = 0 => BlockedForCause)
  BY EndedSays DEF Orderly, Safe, Credentialed
<1> QED BY <1>1, AlwaysOrderly, FlowRunSafe, PTL

\* A run that was blocked, stopped or timed out holds no job that could still start, as
\* long as no authentication fails: all of them are reaped before the status is saved.
THEOREM TerminalAlwaysReaped == Spec => [](FanInApart /\ spent["auth"] = 0 => TerminalReaped)
<1>1. Orderly /\ Safe => (FanInApart /\ spent["auth"] = 0 => TerminalReaped)
  BY EndedSays DEF Orderly, Safe, Credentialed
<1> QED BY <1>1, AlwaysOrderly, FlowRunSafe, PTL
=============================================================================
