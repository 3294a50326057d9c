----------------------------- MODULE GraphShape -----------------------------
(***************************************************************************)
(* The graph of an automation as the console draws, checks and restores it. *)
(* A stage member is a role and a slot: slot 0 is the plain member `role`,  *)
(* slot N the compared member `role#N`. Stages, members and edges are       *)
(* numbered from 1 here and from 0 in the code.                             *)
(***************************************************************************)
EXTENDS Subsequence, SequencesExt

CONSTANTS
  Roles,        \* role names an automation may mention
  Catalog,      \* the roles of the node catalog
  SlotMax,      \* the highest member slot (4)
  StageMax,     \* members of one stage (4)
  SessionCap,   \* sessions of one run: RUN_SESSION_CAP, flowNodeMax (16)
  EmitterWidth, \* EMITTER_MAX_WIDTH, emitMaxWidth (8)
  EmitterMenu,  \* emitRolesMax (8): roles an emitter may offer, which only the server counts
  UrlNodes,     \* nodes a graph restored from the address bar may have (32)
  UrlSize       \* how long such a graph may be (12288 characters), in names

ASSUME GraphAssumption ==
  /\ Catalog \subseteq Roles /\ IsFiniteSet(Roles)
  /\ SlotMax \in Nat /\ SlotMax >= 2
  /\ {StageMax, SessionCap, EmitterWidth, EmitterMenu, UrlNodes, UrlSize} \subseteq Nat \ {0}

Member == [role : Roles, slot : {0} \cup 2..SlotMax]
Plain(role) == [role |-> role, slot |-> 0]
RolesOf(s) == {m.role : m \in ToSet(s)}

\* Optional values are sequences of at most one element.
Nothing == <<>>
The(x) == <<x>>

\* What a template that is stored or offered holds, whatever else it says.
Edge == [node : Roles, append : Seq(Roles) \ {<<>>}]
Emitter == [node : Roles, max : Int, roles : Seq(Roles), fanIn : Roles]
WellFormed(t) ==
  /\ {"stages", "nodes", "edges", "emitters"} \subseteq DOMAIN t
  /\ t.stages \in Seq(Seq(Member) \ {<<>>}) /\ \A s \in ToSet(t.stages) : Len(s) <= StageMax
  /\ t.nodes \in Seq(Member) /\ t.edges \in Seq(Edge) /\ t.emitters \in Seq(Emitter)

StagesOf(t) == IF t.stages # <<>> THEN t.stages ELSE [i \in DOMAIN t.nodes |-> <<t.nodes[i]>>]
Path(stages) == FlattenSeq(stages)

\* The slots of a role a stage has free, and the first of them.
FreeSlots(stage, role) ==
  {s \in {0} \cup 2..SlotMax : [role |-> role, slot |-> s] \notin ToSet(stage)}
NextMemberSlot(stage, role) ==
  IF FreeSlots(stage, role) = {} THEN Nothing
  ELSE The([role |-> role, slot |-> Min(FreeSlots(stage, role))])

(***************************************************************************)
(* The drawing. The id of a node is its place and its name: h:si:oi:member  *)
(* or r:ei:oi:role.                                                         *)
(***************************************************************************)
Happy(i, j, m) == [lane |-> "happy", i |-> i, j |-> j, name |-> m]
Route(i, j, m) == [lane |-> "route", i |-> i, j |-> j, name |-> m]

RouteStage(stages, role) ==
  LET with == {i \in DOMAIN stages : role \in RolesOf(stages[i])}
  IN  IF with = {} THEN 1 ELSE Min(with)

Drawn(id, stage) == [id |-> id, member |-> id.name, stage |-> stage, order |-> id.j]
TemplateToDraft(stages, edges) ==
  [nodes |->
     (UNION {{Drawn(Happy(i, j, stages[i][j]), i) : j \in DOMAIN stages[i]} : i \in DOMAIN stages})
     \cup UNION {{Drawn(Route(e, j, Plain(edges[e].append[j])), RouteStage(stages, edges[e].node))
                  : j \in DOMAIN edges[e].append} : e \in DOMAIN edges},
   routes |-> edges]

HappyOf(draft) == {n \in draft.nodes : n.id.lane = "happy"}
Ids(draft) == {n.id : n \in draft.nodes}

(***************************************************************************)
(* The address bar. A draft is read back only for the template and the      *)
(* revision it was drawn for, and when it is not too large. Its length is   *)
(* counted in names: one a node, one a route and one an appended role.      *)
(***************************************************************************)
Spelled(draft) ==
  Cardinality(draft.nodes)
  + FoldLeft(+, 0, [e \in DOMAIN draft.routes |-> 1 + Len(draft.routes[e].append)])
EncodeGraphState(id, revision, draft) ==
  The([template |-> id, revision |-> revision, draft |-> draft])
DecodeGraphState(raw, id, revision) ==
  IF /\ raw # Nothing
     /\ raw[1].template = id /\ raw[1].revision = revision
     /\ Cardinality(raw[1].draft.nodes) <= UrlNodes /\ Spelled(raw[1].draft) <= UrlSize
  THEN The(raw[1].draft) ELSE Nothing

ByOrder(a, b) == a.order <= b.order
ByNumber(a, b) == a <= b
\* The restored stages name members by their slot; a mutant by role alone.
MemberOrRoleDropsSlot(n) == Plain(n.member.role)
MemberOrRole(n) == n.member
RestoredStages(happy) ==
  LET numbers == Ranked({n.stage : n \in happy}, ByNumber)
      row(s) == Ranked({n \in happy : n.stage = s}, ByOrder)
  IN  [k \in DOMAIN numbers |->
         [j \in DOMAIN row(numbers[k]) |-> MemberOrRole(row(numbers[k])[j])]]
Restored(restored, t) ==
  [stages |-> IF restored # Nothing /\ HappyOf(restored[1]) # {}
              THEN RestoredStages(HappyOf(restored[1])) ELSE StagesOf(t),
   edges |-> IF restored # Nothing THEN restored[1].routes ELSE t.edges]

(***************************************************************************)
(* What the console refuses to save. An issue is its code.                  *)
(***************************************************************************)
Issue(code, found) == IF found THEN {code} ELSE {}
Slotted(stage) == {m \in ToSet(stage) : m.slot # 0}
Times(m, s) == Cardinality({k \in DOMAIN s : s[k] = m})

\* The slots of a member are looked at over all stages; a mutant looks at each stage alone.
ValidateDraftPerStage(stages, edges) ==
  Issue("empty-graph", Path(stages) = <<>>)
  \cup Issue("stage-too-wide", \E i \in DOMAIN stages : Len(stages[i]) > StageMax)
  \cup Issue("duplicate-member",
             \E i \in DOMAIN stages : \E m \in Slotted(stages[i]) : Times(m, stages[i]) > 1)
  \cup Issue("unknown-node",
             ~ (RolesOf(Path(stages)) \cup UNION {ToSet(edges[e].append) : e \in DOMAIN edges})
               \subseteq Catalog)
ValidateDraft(stages, edges) ==
  Issue("empty-graph", Path(stages) = <<>>)
  \cup Issue("stage-too-wide", \E i \in DOMAIN stages : Len(stages[i]) > StageMax)
  \cup Issue("duplicate-member",
             \E i \in DOMAIN stages : \E m \in Slotted(stages[i]) : Times(m, stages[i]) > 1)
  \cup Issue("member-across-stages",
             \E i, k \in DOMAIN stages : i # k /\ Slotted(stages[i]) \cap Slotted(stages[k]) # {})
  \cup Issue("unknown-node",
             ~ (RolesOf(Path(stages)) \cup UNION {ToSet(edges[e].append) : e \in DOMAIN edges})
               \subseteq Catalog)

EmitterOccurrences(role, stages) ==
  Cardinality({k \in DOMAIN Path(stages) : Path(stages)[k].role = role})
WorstCaseSessions(stages, emitters) ==
  Len(Path(stages))
  + FoldLeft(+, 0, [k \in DOMAIN emitters |->
      EmitterOccurrences(emitters[k].node, stages) * (Max({0, emitters[k].max}) + 1)])

EmitterRoles(emitters) == {emitters[k].node : k \in DOMAIN emitters}
ValidateEmitters(stages, emitters) ==
  LET some(Bad(_)) == \E k \in DOMAIN emitters : Bad(emitters[k])
      off(e) == e.node \notin RolesOf(Path(stages))
      width(e) == e.max \notin 1..EmitterWidth
      mute(e) == e.roles = <<>>
      strange(e) == ~ ToSet(e.roles) \subseteq Catalog
      deep(e) == (ToSet(e.roles) \cap Catalog \cap EmitterRoles(emitters)) # {}
      unfanned(e) == e.fanIn \notin Catalog
      self(e) == e.fanIn \in Catalog /\ e.fanIn = e.node
  IN  Issue("emitter-unknown-node", some(off))
      \cup Issue("emitter-duplicate", Cardinality(EmitterRoles(emitters)) < Len(emitters))
      \cup Issue("emitter-max", some(width))
      \cup Issue("emitter-no-roles", some(mute))
      \cup Issue("emitter-unknown-role", some(strange))
      \cup Issue("emitter-depth", some(deep))
      \cup Issue("emitter-unknown-fanin", some(unfanned))
      \cup Issue("emitter-fanin-self", some(self))
      \cup Issue("emitter-budget", WorstCaseSessions(stages, emitters) > SessionCap)

(***************************************************************************)
(* What the server refuses, issue by issue: validateFlowTemplate, over a    *)
(* template [stages, edges, emitters, pins], pins being the sequence of     *)
(* [member, ok], ok when every pinned value is one the server takes.        *)
(***************************************************************************)
ServerEmitters(t) ==
  LET path == RolesOf(Path(t.stages))
      bad(e) == \/ e.node \notin path \/ e.max \notin 1..EmitterWidth
                \/ e.roles = <<>> \/ Len(e.roles) > EmitterMenu
                \/ ~ ToSet(e.roles) \subseteq Catalog
                \/ ToSet(e.roles) \cap EmitterRoles(t.emitters) # {}
                \/ e.fanIn \notin Catalog \/ e.fanIn = e.node
  IN  /\ t.emitters # <<>>
      /\ \/ Len(t.emitters) > SessionCap
         \/ Cardinality(EmitterRoles(t.emitters)) < Len(t.emitters)
         \/ \E k \in DOMAIN t.emitters : bad(t.emitters[k])
         \/ WorstCaseSessions(t.stages, t.emitters) > SessionCap

ServerMemberRuntime(t) ==
  \E k \in DOMAIN t.pins : t.pins[k].member \notin ToSet(Path(t.stages)) \/ ~ t.pins[k].ok

ServerRefusals(t) ==
  Issue("empty-graph", t.stages = <<>>)
  \cup Issue("too-many-nodes", Len(Path(t.stages)) > SessionCap)
  \cup Issue("empty-stage", <<>> \in ToSet(t.stages))
  \cup Issue("stage-too-wide", \E i \in DOMAIN t.stages : Len(t.stages[i]) > StageMax)
  \cup Issue("unknown-node",
             ~ (RolesOf(Path(t.stages)) \cup UNION {ToSet(e.append) : e \in ToSet(t.edges)})
               \subseteq Catalog)
  \cup Issue("invalid-member-slot",
             \E m \in ToSet(Path(t.stages)) : m.slot # 0 /\ Times(m, Path(t.stages)) > 1)
  \cup Issue("invalid-member-runtime", ServerMemberRuntime(t))
  \cup Issue("invalid-emitter", ServerEmitters(t))
  \cup Issue("too-many-edges", Len(t.edges) > SessionCap)
  \cup Issue("edge-source-off-path", \E e \in ToSet(t.edges) : e.node \notin RolesOf(Path(t.stages)))
  \cup Issue("empty-route", \E e \in ToSet(t.edges) : e.append = <<>>)
  \cup Issue("route-too-long", \E e \in ToSet(t.edges) : Len(e.append) > SessionCap)
=============================================================================
