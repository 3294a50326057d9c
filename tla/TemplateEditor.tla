--------------------------- MODULE TemplateEditor ---------------------------
(***************************************************************************)
(* The automation editor: one mounted TemplateEditor over the catalog the   *)
(* console has cached, and the server's templates behind it. A revision is  *)
(* a hash of the template's content, so the content itself stands for it.   *)
(***************************************************************************)
EXTENDS GraphShape, ConsoleShell

CONSTANTS
  Edited,          \* the id of the template the editor is opened on
  Fresh,           \* an id no template has yet
  NoId,            \* the empty id of a new template
  Library,         \* the templates Edited may hold at first: [body, builtin]
  OtherWork,       \* what another writer may save under Edited
  NewNodes,        \* the default sequence: plan, implement, review, validate
  Contestant, Judge, \* the roles a new emitter prefers: attempt and judge
  RouteDefault,    \* the append of a new route: amend, validate
  HistoryCap       \* steps of undo kept (100)

ASSUME HistoryAssumption == HistoryCap \in Nat \ {0}
ASSUME LibraryAssumption ==
  /\ Library # {} /\ \A t \in Library : WellFormed(t.body)
  /\ \A t \in OtherWork : WellFormed(t)
  /\ NewNodes \in Seq(Member) /\ RouteDefault \in Seq(Roles) \ {<<>>}

VARIABLES
  tServer,  \* the server's templates: Nothing, or The([body, custom])
  tBuiltin, \* the built-in that Edited falls back to, if it is one
  tCache,   \* the catalog's copy of tServer
  tPath,    \* what the page is open on: "edited", "new" or "copy"
  tQuery,   \* the ?g= the router knows of: the one the browser loaded
  tUrl,     \* the ?g= of the address bar, which the editor replaces
  tDraft,   \* the fields: [id, name, schedule, emitters, pins]
  tShape,   \* [stages, edges]
  tPast, tFuture,  \* history
  tSelected,       \* selectedNodeId
  tPicker,         \* the insert picker of the canvas: [id, side]
  tReject,         \* serverReject: [sig, issues]
  tSave            \* the save or reset under way: [pc, body, issues]

shapeVars == <<tShape, tPast, tFuture, tSelected, tPicker>>
remoteVars == <<tServer, tBuiltin, tCache, tSave>>
placeVars == <<tPath, tQuery, tUrl>>
templateVars == <<shapeVars, remoteVars, placeVars, tDraft, tReject>>

Stored == {Edited, Fresh}
Idle == [pc |-> "idle", body |-> Nothing, issues |-> {}]
Editing == scene = "template" /\ page = "open"
Missing == tPath = "edited" /\ tCache[Edited] = Nothing
Working == Editing /\ ~ Missing

(***************************************************************************)
(* The editor's initial template, read from the cached catalog at every     *)
(* render. A copy keeps the shape and drops the schedule.                   *)
(***************************************************************************)
Blank == [id |-> NoId, name |-> "", schedule |-> "none", emitters |-> <<>>, pins |-> <<>>,
          nodes |-> NewNodes, stages |-> <<>>, edges |-> <<>>]
Initial(path) ==
  IF path = "new" \/ tCache[Edited] = Nothing THEN Blank
  ELSE IF path = "copy"
  THEN [tCache[Edited][1].body EXCEPT !.id = NoId, !.name = "copy", !.schedule = "none"]
  ELSE tCache[Edited][1].body
RevisionOf(path) == IF path = "edited" THEN tCache[Edited] ELSE Nothing

Fields(t) == [id |-> t.id, name |-> t.name, schedule |-> t.schedule,
              emitters |-> t.emitters, pins |-> t.pins]
Shape(t) == [stages |-> StagesOf(t), edges |-> t.edges]
Drawing == TemplateToDraft(tShape.stages, tShape.edges)
Shaped == [id |-> tDraft.id, name |-> tDraft.name, schedule |-> tDraft.schedule,
           emitters |-> tDraft.emitters, pins |-> tDraft.pins,
           nodes |-> Path(tShape.stages), stages |-> tShape.stages, edges |-> tShape.edges]

TemplateDirty ==
  /\ Working
  /\ tDraft # Fields(Initial(tPath)) \/ tShape # Shape(Initial(tPath))
Guarded == GuardEffect(TemplateDirty, TemplateDirty')

TemplateInit ==
  /\ \E t \in Chosen("template", Library) :
       /\ tServer = [i \in Stored |->
                       IF i = Edited THEN The([body |-> t.body, custom |-> ~ t.builtin]) ELSE Nothing]
       /\ tBuiltin = IF t.builtin THEN The(t.body) ELSE Nothing
       /\ tDraft = Fields(t.body) /\ tShape = Shape(t.body)
  /\ tCache = tServer /\ tPath = "edited" /\ tQuery = Nothing /\ tUrl = Nothing
  /\ tPast = <<>> /\ tFuture = <<>> /\ tSelected = Nothing /\ tPicker = Nothing
  /\ tReject = Nothing /\ tSave = Idle

(***************************************************************************)
(* Mounting, and the address bar.                                           *)
(***************************************************************************)
\* The fields start from the template, the shape from the address when that fits.
Mount(t, revision) ==
  /\ tDraft' = Fields(t)
  /\ tShape' = Restored(DecodeGraphState(tQuery', tPath', revision), t)
  /\ tPast' = <<>> /\ tFuture' = <<>> /\ tSelected' = Nothing /\ tPicker' = Nothing
  /\ tReject' = Nothing
Unchanging == UNCHANGED <<tDraft, tReject, shapeVars>>

Open(path) ==
  /\ page = "home" /\ page' = "open" /\ Spend("nav") /\ UNCHANGED <<scene, remoteVars>>
  /\ path = "edited" => tCache[Edited] # Nothing
  /\ tPath' = path /\ tQuery' = Nothing /\ tUrl' = Nothing
  /\ Mount(Initial(path), RevisionOf(path))
  /\ GuardMount(TemplateDirty')

\* The graph reaches the address 150 ms after the last change.
Persist ==
  /\ Working /\ Spend("nav")
  /\ tUrl # EncodeGraphState(tPath, RevisionOf(tPath), Drawing)
  /\ tUrl' = EncodeGraphState(tPath, RevisionOf(tPath), Drawing)
  /\ UNCHANGED <<scene, page, guard, remoteVars, tPath, tQuery>> /\ Unchanging

\* The browser loads the page again, from the address alone.
Reload ==
  /\ Editing /\ tSave = Idle /\ Spend("nav")
  /\ UNCHANGED <<scene, page, tServer, tBuiltin, tSave, tPath, tUrl>>
  /\ tCache' = tServer /\ tQuery' = tUrl
  /\ tPath = "edited" => tServer[Edited] # Nothing
  /\ Mount(Initial(tPath)', RevisionOf(tPath)')
  /\ GuardMount(TemplateDirty')

(***************************************************************************)
(* The shape and its history: every edit of the graph goes through Apply.   *)
(***************************************************************************)
KeepFields == UNCHANGED <<scene, page, remoteVars, placeVars, tDraft, tReject>>
Latest(s) == SubSeq(s, IF Len(s) >= HistoryCap THEN Len(s) - HistoryCap + 2 ELSE 1, Len(s))

ApplyKeepsFuture(next) ==
  /\ Working /\ Spend("edit") /\ KeepFields
  /\ tPast' = Append(Latest(tPast), tShape) /\ UNCHANGED tFuture
  /\ tShape' = next
  /\ Guarded
Apply(next) ==
  /\ Working /\ Spend("edit") /\ KeepFields
  /\ tPast' = Append(Latest(tPast), tShape) /\ tFuture' = <<>>
  /\ tShape' = next
  /\ Guarded
SetStages(stages) == Apply([tShape EXCEPT !.stages = stages])
SetEdges(edges) == Apply([tShape EXCEPT !.edges = edges])

Undo ==
  /\ Working /\ tPast # <<>> /\ Spend("history") /\ KeepFields
  /\ tPast' = Front(tPast) /\ tFuture' = Append(tFuture, tShape)
  /\ tShape' = Last(tPast)
  /\ UNCHANGED <<tSelected, tPicker>> /\ Guarded
Redo ==
  /\ Working /\ tFuture # <<>> /\ Spend("history") /\ KeepFields
  /\ tPast' = Append(tPast, tShape) /\ tFuture' = Front(tFuture)
  /\ tShape' = Last(tFuture)
  /\ UNCHANGED <<tSelected, tPicker>> /\ Guarded

\* Stage lists, and a member taken out of its stage, which goes when it is empty; a mutant
\* leaves it.
Stages == tShape.stages
Swapped(s, i, k) == [s EXCEPT ![i] = s[k], ![k] = s[i]]
FilledNot(stages) == stages
Filled(stages) == Matching(stages, LAMBDA s : s # <<>>)
Without(i, j) == Filled([Stages EXCEPT ![i] = RemoveAt(@, j)])
KeepSelection == UNCHANGED <<tSelected, tPicker>>
Select(id) == tSelected' = The(id) /\ UNCHANGED tPicker

(***************************************************************************)
(* The stage list beside the canvas.                                        *)
(***************************************************************************)
AddStage(role) == SetStages(Append(Stages, <<Plain(role)>>)) /\ KeepSelection
MoveStage(i, delta) ==
  /\ i + delta \in DOMAIN Stages
  /\ SetStages(Swapped(Stages, i, i + delta)) /\ KeepSelection
RemoveMember(i, j) == SetStages(Without(i, j)) /\ KeepSelection
AddParallel(i, role) ==
  /\ Len(Stages[i]) < StageMax /\ NextMemberSlot(Stages[i], role) # Nothing
  /\ SetStages([Stages EXCEPT ![i] = @ \o NextMemberSlot(@, role)]) /\ KeepSelection

(***************************************************************************)
(* The exception edges. A drop of the last appended role drops the edge.    *)
(***************************************************************************)
Edges == tShape.edges
StageRoles == RolesOf(Path(Stages))
FirstRole == Path(Stages)[1].role
NewRoute(role) == [node |-> role, append |-> RouteDefault]
AddEdge == Path(Stages) # <<>> /\ SetEdges(Append(Edges, NewRoute(FirstRole))) /\ KeepSelection
SetSource(e, role) ==
  role \in StageRoles \ {Edges[e].node} /\ SetEdges([Edges EXCEPT ![e].node = role]) /\ KeepSelection
AddAppend(e, role) == SetEdges([Edges EXCEPT ![e].append = Append(@, role)]) /\ KeepSelection
AppendCut(e, k) ==
  IF Len(Edges[e].append) = 1 THEN RemoveAt(Edges, e)
  ELSE [Edges EXCEPT ![e].append = RemoveAt(@, k)]
RemoveAppend(e, k) == SetEdges(AppendCut(e, k)) /\ KeepSelection

(***************************************************************************)
(* The canvas. A handler is given a node id, which may be stale.            *)
(***************************************************************************)
FindHappy(id) == {n \in HappyOf(Drawing) : n.id = id}
OnCanvas == Ids(Drawing)

\* A node dropped at another place: out of its stage, then into the stage it fell on, or
\* into a new last one. A full stage refuses it.
MoveGraphNode(id, toStage, toOrder) ==
  LET i == id.i
      lifted == Without(i, id.j)
      gone == Len(Stages[i]) = 1
      landing == Min({IF gone /\ toStage > i THEN toStage - 1 ELSE toStage, Len(lifted) + 1})
      order == IF landing > Len(lifted) THEN 1 ELSE Min({toOrder, Len(lifted[landing]) + 1})
      placed == IF landing > Len(lifted) THEN Append(lifted, <<id.name>>)
                ELSE [lifted EXCEPT ![landing] = InsertAt(@, order, id.name)]
  IN  /\ FindHappy(id) # {}
      /\ landing <= Len(lifted) => Len(lifted[landing]) < StageMax
      /\ SetStages(placed)
      /\ IF tSelected = The(id) THEN Select(Happy(landing, order, id.name)) ELSE KeepSelection

RemoveNode(id) ==
  /\ id \in OnCanvas
  /\ IF id.lane = "happy" THEN SetStages(Without(id.i, id.j)) ELSE SetEdges(AppendCut(id.i, id.j))
  /\ tSelected' = Nothing /\ UNCHANGED tPicker
DuplicateParallel(id) ==
  /\ FindHappy(id) # {} /\ Len(Stages[id.i]) < StageMax
  /\ NextMemberSlot(Stages[id.i], id.name.role) # Nothing
  /\ SetStages([Stages EXCEPT ![id.i] = @ \o NextMemberSlot(@, id.name.role)])
  /\ Select(Happy(id.i, Len(Stages[id.i]) + 1, NextMemberSlot(Stages[id.i], id.name.role)[1]))
AddRouteFrom(id) ==
  /\ FindHappy(id) # {}
  /\ SetEdges(Append(Edges, NewRoute(id.name.role))) /\ KeepSelection

\* A handle is dragged out of a node, and a role picked: a stage beside the node's, or at
\* the end when the node is not on the happy path any more.
OpenPicker(id, side) ==
  /\ Working /\ id \in OnCanvas /\ Spend("pick")
  /\ tPicker' = The([id |-> id, side |-> side]) /\ tPicker # tPicker'
  /\ UNCHANGED <<tShape, tPast, tFuture, tSelected>> /\ KeepFields /\ UNCHANGED guard
ClosePicker ==
  /\ Working /\ tPicker # Nothing /\ tPicker' = Nothing
  /\ UNCHANGED <<tShape, tPast, tFuture, tSelected>> /\ KeepFields /\ UNCHANGED <<guard, left>>
InsertRole(role) ==
  LET id == tPicker[1].id
      at == IF FindHappy(id) = {} THEN Len(Stages) + 1
            ELSE IF tPicker[1].side = "after" THEN id.i + 1 ELSE id.i
  IN  /\ tPicker # Nothing /\ tPicker' = Nothing
      /\ SetStages(InsertAt(Stages, at, <<Plain(role)>>))
      /\ tSelected' = The(Happy(at, 1, Plain(role)))

\* Up and down: a stage of its own changes places with its neighbour, a parallel member
\* becomes a stage of its own under the name of its role.
MoveVertical(id, delta) ==
  LET i == id.i
      at == IF delta > 0 THEN i + 1 ELSE i
      alone == Len(Stages[i]) = 1
  IN  /\ FindHappy(id) # {}
      /\ alone => i + delta \in DOMAIN Stages
      /\ IF alone THEN SetStages(Swapped(Stages, i, i + delta))
         ELSE SetStages(InsertAt([Stages EXCEPT ![i] = RemoveAt(@, id.j)], at, <<Plain(id.name.role)>>))
      /\ Select(Happy(IF alone THEN i + delta ELSE at, 1, Plain(id.name.role)))
ReorderNode(id, delta) ==
  /\ FindHappy(id) # {} /\ id.j + delta \in DOMAIN Stages[id.i]
  /\ SetStages([Stages EXCEPT ![id.i] = Swapped(@, id.j, id.j + delta)])
  /\ Select(Happy(id.i, id.j + delta, Plain(id.name.role)))

SelectNode(choice) ==
  /\ Working /\ choice # tSelected /\ Spend("pick")
  /\ tSelected' = choice
  /\ UNCHANGED <<tShape, tPast, tFuture, tPicker>> /\ KeepFields /\ UNCHANGED guard

\* The keyboard works on the selected node, the toolbar of a node on the selected one.
Selecting(Handler(_)) == tSelected # Nothing /\ Handler(tSelected[1])
Keyboard ==
  \/ \E delta \in {-1, 1} : Selecting(LAMBDA id : MoveVertical(id, delta))
  \/ \E delta \in {-1, 1} : Selecting(LAMBDA id : ReorderNode(id, delta))
Toolbar ==
  \/ Selecting(DuplicateParallel)
  \/ Selecting(AddRouteFrom)
  \/ Selecting(RemoveNode)
Canvas ==
  \/ \E n \in HappyOf(Drawing), s \in 1..Len(Stages) + 1, o \in 1..StageMax : MoveGraphNode(n.id, s, o)
  \/ \E id \in OnCanvas, side \in {"after", "before"} : OpenPicker(id, side)
  \/ ClosePicker \/ \E role \in Catalog : InsertRole(role)
  \/ \E choice \in {Nothing} \cup {The(id) : id \in OnCanvas} : SelectNode(choice)
StageList ==
  \/ \E role \in Catalog : AddStage(role)
  \/ \E i \in DOMAIN Stages, delta \in {-1, 1} : MoveStage(i, delta)
  \/ \E i \in DOMAIN Stages : \E j \in DOMAIN Stages[i] : RemoveMember(i, j)
  \/ \E i \in DOMAIN Stages, role \in Catalog : AddParallel(i, role)
EdgeList ==
  \/ AddEdge
  \/ \E e \in DOMAIN Edges, role \in StageRoles : SetSource(e, role)
  \/ \E e \in DOMAIN Edges, role \in Catalog : AddAppend(e, role)
  \/ \E e \in DOMAIN Edges : \E k \in DOMAIN Edges[e].append : RemoveAppend(e, k)

(***************************************************************************)
(* The fields: id, name and schedule; the emitter of the selected role and  *)
(* the runtime pin of the selected member.                                  *)
(***************************************************************************)
SetDraft(fields) ==
  /\ Working /\ Spend("field") /\ fields # tDraft
  /\ tDraft' = fields
  /\ UNCHANGED <<scene, page, remoteVars, placeVars, tReject, shapeVars>> /\ Guarded

TypeId(id) == tPath # "edited" /\ SetDraft([tDraft EXCEPT !.id = id])
TypeName(name) == SetDraft([tDraft EXCEPT !.name = name])
\* The recurring run starts as one of the playground, with the name as its goal.
ToggleSchedule ==
  SetDraft([tDraft EXCEPT !.schedule =
              IF @ # "none" THEN "none" ELSE IF tDraft.name = "" THEN "refused" ELSE "valid"])
EditSchedule(value) == tDraft.schedule # "none" /\ SetDraft([tDraft EXCEPT !.schedule = value])

SelectedNode == {n \in Drawing.nodes : tSelected = The(n.id)}
Inspected(n) == n.member.role \in Catalog
EmitterOf(role) == Matching(tDraft.emitters, LAMBDA e : e.node = role)
SetEmitter(role, spec) ==
  SetDraft([tDraft EXCEPT !.emitters = Matching(@, LAMBDA e : e.node # role) \o spec])
\* A fresh emitter takes the contestant and the judge of the catalog, or another node.
DefaultEmitter(role, other) ==
  [node |-> role, max |-> 3,
   roles |-> <<IF Contestant \in Catalog THEN Contestant ELSE other>>,
   fanIn |-> IF Judge \in Catalog THEN Judge ELSE other]
ToggleEmitter(role) ==
  \E other \in IF Catalog = {role} THEN {role} ELSE Catalog \ {role} :
    SetEmitter(role, IF EmitterOf(role) = <<>> THEN The(DefaultEmitter(role, other)) ELSE <<>>)
SetEmissionCap(e, max) == SetEmitter(e.node, The([e EXCEPT !.max = max]))
ToggleEmittedRole(e, role) ==
  SetEmitter(e.node, The([e EXCEPT !.roles = IF Contains(@, role) THEN Matching(@, LAMBDA r : r # role)
                                             ELSE Append(@, role)]))
SetFanIn(e, role) == SetEmitter(e.node, The([e EXCEPT !.fanIn = role]))
EmitsPanel ==
  \E n \in SelectedNode :
    /\ Inspected(n)
    /\ \/ ToggleEmitter(n.member.role)
       \/ \E e \in ToSet(EmitterOf(n.member.role)) :
            \/ \E max \in 0..EmitterWidth + 1 : SetEmissionCap(e, max)
            \/ \E role \in Catalog : ToggleEmittedRole(e, role) \/ SetFanIn(e, role)

\* A pin keeps its key's place; one with no field left is removed. Only the happy path
\* has members. The values typed are not checked here.
Pinned(member) == Matching(tDraft.pins, LAMBDA p : p.member = member)
SetMemberPin(member, pin) ==
  SetDraft([tDraft EXCEPT !.pins =
    IF pin = Nothing THEN Matching(@, LAMBDA p : p.member # member)
    ELSE IF Pinned(member) = <<>> THEN @ \o pin
    ELSE [k \in DOMAIN @ |-> IF @[k].member = member THEN pin[1] ELSE @[k]]])
PinPanel ==
  \E n \in SelectedNode :
    /\ Inspected(n) /\ n.id.lane = "happy"
    /\ \E pin \in {Nothing} \cup {The([member |-> n.member, ok |-> ok]) : ok \in BOOLEAN} :
         SetMemberPin(n.member, pin)
FieldCards ==
  \/ \E id \in Stored : TypeId(id)
  \/ \E name \in {"", "named", "overlong"} : TypeName(name)
  \/ ToggleSchedule
  \/ \E value \in {"valid", "refused"} : EditSchedule(value)

(***************************************************************************)
(* Saving. The console checks the draft, the server has the last word, and  *)
(* keeps no revision: the last writer wins.                                 *)
(***************************************************************************)
ClientIssues == ValidateDraft(tShape.stages, tShape.edges)
                \cup ValidateEmitters(tShape.stages, tDraft.emitters)
TemplateValid == /\ tDraft.id # NoId /\ tDraft.name # ""
                 /\ Path(tShape.stages) # <<>> /\ ClientIssues = {}
\* A name or a description that is missing or too long is refused in words, without issues.
Refusals(t) == ServerRefusals(t) \cup Issue("invalid-schedule", t.schedule = "refused")
                                 \cup Issue("invalid-name", t.name \in {"", "overlong"})
ShownIssues ==
  IF tReject # Nothing /\ tReject[1].sig = tShape /\ tReject[1].issues # {}
  THEN tReject[1].issues ELSE ClientIssues

Settle(pc) == tSave' = [tSave EXCEPT !.pc = pc]
SaveButton == Working /\ TemplateValid /\ tSave.pc = "idle" /\ Spend("other")
Save ==
  /\ SaveButton
  /\ tSave' = [pc |-> "sent", body |-> The(Shaped), issues |-> {}]
  /\ tReject' = Nothing
  /\ UNCHANGED <<scene, page, guard, tServer, tBuiltin, tCache, placeVars, tDraft, shapeVars>>
Reset ==
  /\ Working /\ tPath = "edited" /\ tCache[Edited][1].custom
  /\ tSave.pc = "idle" /\ Spend("other")
  /\ tSave' = [Idle EXCEPT !.pc = "sent"]
  /\ UNCHANGED <<scene, page, guard, tServer, tBuiltin, tCache, placeVars, tDraft, tReject, shapeVars>>

\* The server's part of a save: Put. Of a reset: the custom file goes, if there is one.
Written(body) == [tServer EXCEPT ![body.id] = The([body |-> body, custom |-> TRUE])]
Cleared == [tServer EXCEPT ![Edited] =
              IF tBuiltin = Nothing THEN Nothing ELSE The([body |-> tBuiltin[1], custom |-> FALSE])]
Handled ==
  IF tSave.body # Nothing /\ Refusals(tSave.body[1]) = {}
  THEN [pc |-> "saved", issues |-> {}, server |-> Written(tSave.body[1])]
  ELSE IF tSave.body # Nothing /\ "invalid-name" \notin Refusals(tSave.body[1])
  THEN [pc |-> "refused", issues |-> Refusals(tSave.body[1]), server |-> tServer]
  ELSE IF tSave.body = Nothing /\ tServer[Edited] # Nothing /\ tServer[Edited][1].custom
  THEN [pc |-> "saved", issues |-> {}, server |-> Cleared]
  ELSE [pc |-> "failed", issues |-> {}, server |-> tServer]
\* The request or its answer may be lost.
ServerHandles ==
  /\ tSave.pc = "sent"
  /\ \E arrives, answered \in BOOLEAN :
       /\ answered => arrives
       /\ tServer' = IF arrives THEN Handled.server ELSE tServer
       /\ tSave' = [tSave EXCEPT !.pc = IF answered THEN Handled.pc ELSE "failed",
                                 !.issues = IF answered THEN Handled.issues ELSE {}]
  /\ UNCHANGED <<shellVars, tBuiltin, tCache, placeVars>> /\ Unchanging

\* onError runs with the editor's latest shape.
Rejected ==
  /\ tSave.pc \in {"refused", "failed"} /\ tSave' = Idle
  /\ tReject' = IF tSave.pc = "refused" /\ Editing THEN The([sig |-> tShape, issues |-> tSave.issues])
                ELSE tReject
  /\ UNCHANGED <<shellVars, tServer, tBuiltin, tCache, placeVars, tDraft, shapeVars>>

\* The catalog is fetched: after a save, at a focus of the window, at a mount. A mounted
\* editor is keyed by the revision, and starts again on another one.
Refetched ==
  /\ tCache' = tServer
  /\ UNCHANGED placeVars
  /\ IF Editing /\ tPath = "edited" /\ tServer[Edited] # tCache[Edited] /\ tServer[Edited] # Nothing
     THEN Mount(Initial(tPath)', RevisionOf(tPath)') ELSE Unchanging
  /\ Guarded
Refetch == /\ tCache # tServer /\ tSave.pc # "saved" /\ UNCHANGED <<scene, page, left, tServer, tBuiltin, tSave>>
           /\ Refetched
SaveRefetches == /\ tSave.pc = "saved" /\ UNCHANGED <<scene, page, left, tServer, tBuiltin>> /\ Settle("leaving")
                 /\ Refetched
SaveLeaves ==
  /\ tSave.pc = "leaving" /\ tSave' = Idle
  /\ page' = "home" /\ GuardUnmount
  /\ UNCHANGED <<scene, left, tServer, tBuiltin, tCache, placeVars>> /\ Unchanging

\* Another tab, a session or the operator's other device saves Edited.
OtherWriter ==
  /\ scene = "template" /\ Spend("other")
  /\ \E t \in OtherWork : tServer' = [tServer EXCEPT ![Edited] = The([body |-> t, custom |-> TRUE])]
  /\ tServer' # tServer
  /\ UNCHANGED <<scene, page, guard, tBuiltin, tCache, tSave, placeVars>> /\ Unchanging

Close == LeavePage /\ UNCHANGED templateVars

TemplateNext ==
  \/ \E path \in {"edited", "new", "copy"} : Open(path)
  \/ Persist \/ Reload \/ Close
  \/ Undo \/ Redo \/ StageList \/ EdgeList \/ Canvas \/ Toolbar \/ Keyboard
  \/ FieldCards \/ EmitsPanel \/ PinPanel
  \/ Save \/ Reset \/ ServerHandles \/ Rejected
  \/ Refetch \/ SaveRefetches \/ SaveLeaves \/ OtherWriter

(***************************************************************************)
(* Properties.                                                              *)
(***************************************************************************)
TemplateTypeOK ==
  /\ tShape.stages \in Seq(Seq(Member)) /\ <<>> \notin ToSet(tShape.stages)
  /\ \A e \in ToSet(tShape.edges) : e.node \in Roles /\ e.append \in Seq(Roles) \ {<<>>}
  /\ Len(tPast) <= HistoryCap /\ Len(tFuture) <= HistoryCap
  /\ tPath \in {"edited", "new", "copy"}
  /\ tSave.pc \in {"idle", "sent", "saved", "refused", "failed", "leaving"}
  /\ \A i \in DOMAIN tShape.stages : Len(tShape.stages[i]) <= StageMax

\* Undo and redo walk one line of shapes and lose none of them, whatever is edited, saved
\* or fetched in between.
History == INSTANCE Timeline WITH Limit <- HistoryCap, line <- tPast \o <<tShape>> \o Reverse(tFuture),
                                  at <- Len(tPast) + 1
ImplementsTimeline == History!Spec

\* Once the address bar has the graph, loading the page again restores its stages, slots
\* and routes exactly, unless every stage was removed or the graph is too large for the
\* address. (restoredGraph, urlState.ts)
RefreshKeepsShape ==
  LET written == EncodeGraphState(tPath, RevisionOf(tPath), Drawing)
  IN  (scene = "template" /\ tUrl = written /\ tShape.stages # <<>>
       /\ Cardinality(Drawing.nodes) <= UrlNodes /\ Spelled(Drawing) <= UrlSize)
        => Restored(DecodeGraphState(tUrl, tPath, RevisionOf(tPath)), Initial(tPath)) = tShape

\* What of a draft the console does not look at, and the server does: the pins, the schedule,
\* how long the texts are, the routes' number, length and source, an emitter's menu of roles.
Unlooked ==
  {"invalid-member-runtime", "invalid-schedule", "invalid-name",
   "too-many-edges", "edge-source-off-path", "route-too-long"}
  \cup Issue("invalid-emitter", \E e \in ToSet(tDraft.emitters) : Len(e.roles) > EmitterMenu)

\* On stages, members, slots, roles and the budget of emitters the console's checks are the
\* server's: a draft it lets the operator save is refused for nothing else than what it does
\* not look at. (validateDraft, validateEmitters; model.ts: "same refusals")
RefusalsForeseen == (scene = "template" /\ TemplateValid) => Refusals(Shaped) \subseteq Unlooked
=============================================================================
