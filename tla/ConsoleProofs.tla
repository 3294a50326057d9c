---------------------------- MODULE ConsoleProofs ----------------------------
(***************************************************************************)
(* Proofs about Console, for every catalog, every set of agents, tabs and   *)
(* ideas and every session of the operator: what the shell, the editors,    *)
(* the night page and the tabs promise while answers, other writers and the *)
(* operator interleave.                                                     *)
(***************************************************************************)
EXTENDS Console, SequenceTheorems, TLAPS

(***************************************************************************)
(* The shell. A step of any page stays on its scene and spends at most one   *)
(* event of the session.                                                    *)
(***************************************************************************)
ShellMoves ==
  /\ scene' = scene
  /\ page' = page \/ page' \in {"home", "open"}
  /\ left' = left \/ \E k \in Events : Spend(k)

\* The template editor's steps, by what they do to the guard and to the line of shapes.
GuardMoves ==
  \/ guard' = TemplateDirty'
  \/ Guarded
  \/ guard' = FALSE /\ page' = "home"
  \/ UNCHANGED <<scene, page, guard, tDraft, tShape, tPath, tCache>>
LineMoves ==
  \/ UNCHANGED <<tShape, tPast, tFuture>>
  \/ tPast' = <<>> /\ tFuture' = <<>>
  \/ \E next : Apply(next)
  \/ Undo
  \/ Redo
TemplateMoves == ShellMoves /\ GuardMoves /\ LineMoves

LEMMA AppliedMoves ==
  ASSUME NEW next, Apply(next)
  PROVE  TemplateMoves
<1>1. Guarded /\ Spend("edit") /\ scene' = scene /\ page' = page
  BY DEF Apply, KeepFields
<1>2. "edit" \in Events
  BY DEF Events
<1>3. ShellMoves
  BY <1>1, <1>2, Zenon DEF ShellMoves
<1> QED BY <1>1, <1>3, Zenon DEF TemplateMoves, GuardMoves, LineMoves

LEMMA HistoryMoves ==
  ASSUME Undo \/ Redo
  PROVE  TemplateMoves
<1>1. Guarded /\ Spend("history") /\ scene' = scene /\ page' = page
  BY DEF Undo, Redo, KeepFields
<1>2. "history" \in Events
  BY DEF Events
<1>3. ShellMoves
  BY <1>1, <1>2, Zenon DEF ShellMoves
<1> QED BY <1>1, <1>3, Zenon DEF TemplateMoves, GuardMoves, LineMoves

\* Every edit of the stage list, of the edges, of the canvas, the toolbar and the keyboard
\* goes through Apply.
Edits == \E next : Apply(next)

LEMMA StagesEdit ==
  ASSUME NEW stages, SetStages(stages)
  PROVE  Edits
BY Zenon DEF SetStages, Edits

LEMMA EdgesEdit ==
  ASSUME NEW edges, SetEdges(edges)
  PROVE  Edits
BY Zenon DEF SetEdges, Edits

LEMMA ListsEdit == StageList \/ EdgeList => Edits
<1>1. ASSUME StageList PROVE Edits
  BY <1>1, StagesEdit, Zenon DEF StageList, AddStage, MoveStage, RemoveMember, AddParallel
<1>2. ASSUME EdgeList PROVE Edits
  BY <1>2, EdgesEdit, Zenon DEF EdgeList, AddEdge, SetSource, AddAppend, RemoveAppend
<1> QED BY <1>1, <1>2

LEMMA ToolbarEdits == Toolbar \/ Keyboard => Edits
<1>1. ASSUME NEW id, RemoveNode(id) PROVE Edits
  BY <1>1, StagesEdit, EdgesEdit, Zenon DEF RemoveNode
<1>2. ASSUME NEW id, DuplicateParallel(id) \/ AddRouteFrom(id) PROVE Edits
  BY <1>2, StagesEdit, EdgesEdit, Zenon DEF DuplicateParallel, AddRouteFrom
<1>3. ASSUME NEW id, NEW delta, MoveVertical(id, delta) \/ ReorderNode(id, delta) PROVE Edits
  BY <1>3, StagesEdit, Zenon DEF MoveVertical, ReorderNode
<1> QED BY <1>1, <1>2, <1>3, Zenon DEF Toolbar, Keyboard, Selecting

\* What the canvas does besides editing: it opens and closes the picker, and selects.
Points ==
  /\ UNCHANGED <<tShape, tPast, tFuture>> /\ KeepFields /\ UNCHANGED guard
  /\ left' = left \/ Spend("pick")

LEMMA CanvasEdits == Canvas => Edits \/ Points
<1>1. ASSUME NEW id, NEW s, NEW o, MoveGraphNode(id, s, o) PROVE Edits
  BY <1>1, StagesEdit, Zenon DEF MoveGraphNode
<1>2. ASSUME NEW id, NEW side, OpenPicker(id, side) PROVE Points
  BY <1>2 DEF OpenPicker, Points
<1>3. ASSUME ClosePicker PROVE Points
  BY <1>3 DEF ClosePicker, Points
<1>4. ASSUME NEW role, InsertRole(role) PROVE Edits
  BY <1>4, StagesEdit, Zenon DEF InsertRole
<1>5. ASSUME NEW choice, SelectNode(choice) PROVE Points
  BY <1>5 DEF SelectNode, Points
<1> QED BY <1>1, <1>2, <1>3, <1>4, <1>5, Zenon DEF Canvas

LEMMA PointingMoves == Points => TemplateMoves
<1> SUFFICES ASSUME Points PROVE TemplateMoves
  OBVIOUS
<1>1. /\ UNCHANGED <<scene, page, guard, tDraft, tShape, tPath, tCache>>
      /\ UNCHANGED <<tShape, tPast, tFuture>>
      /\ left' = left \/ Spend("pick")
  BY DEF Points, KeepFields, remoteVars, placeVars
<1>2. "pick" \in Events
  BY DEF Events
<1> QED BY <1>1, <1>2, Zenon DEF TemplateMoves, ShellMoves, GuardMoves, LineMoves

\* Every field of the form goes through SetDraft.
LEMMA FieldMoves ==
  ASSUME NEW fields, SetDraft(fields)
  PROVE  TemplateMoves
<1>1. /\ Guarded /\ Spend("field") /\ scene' = scene /\ page' = page
      /\ UNCHANGED <<tShape, tPast, tFuture>>
  BY DEF SetDraft, shapeVars
<1>2. "field" \in Events
  BY DEF Events
<1> QED BY <1>1, <1>2, Zenon DEF TemplateMoves, ShellMoves, GuardMoves, LineMoves

LEMMA FormMoves == FieldCards \/ EmitsPanel \/ PinPanel => TemplateMoves
<1>1. ASSUME FieldCards PROVE TemplateMoves
  BY <1>1, FieldMoves, Zenon DEF FieldCards, TypeId, TypeName, ToggleSchedule, EditSchedule
<1>2. ASSUME NEW role, NEW spec, SetEmitter(role, spec) PROVE TemplateMoves
  BY <1>2, FieldMoves, Zenon DEF SetEmitter
<1>3. ASSUME EmitsPanel PROVE TemplateMoves
  BY <1>3, <1>2, Zenon DEF EmitsPanel, ToggleEmitter, SetEmissionCap, ToggleEmittedRole, SetFanIn
<1>4. ASSUME PinPanel PROVE TemplateMoves
  BY <1>4, FieldMoves, Zenon DEF PinPanel, SetMemberPin
<1> QED BY <1>1, <1>3, <1>4

\* Opening the editor, and loading the page again.
LEMMA MountMoves ==
  ASSUME Reload \/ \E path : Open(path)
  PROVE  TemplateMoves
<1>1. "nav" \in Events
  BY DEF Events
<1>2. ASSUME NEW path, Open(path) PROVE TemplateMoves
  <2>1. /\ Spend("nav") /\ scene' = scene /\ page' = "open" /\ guard' = TemplateDirty'
        /\ tPast' = <<>> /\ tFuture' = <<>>
    BY <1>2 DEF Open, Mount, GuardMount
  <2> QED BY <1>1, <2>1, Zenon DEF TemplateMoves, ShellMoves, GuardMoves, LineMoves
<1>3. ASSUME Reload PROVE TemplateMoves
  <2>1. /\ Spend("nav") /\ scene' = scene /\ page' = page /\ guard' = TemplateDirty'
        /\ tPast' = <<>> /\ tFuture' = <<>>
    BY <1>3 DEF Reload, Mount, GuardMount
  <2> QED BY <1>1, <2>1, Zenon DEF TemplateMoves, ShellMoves, GuardMoves, LineMoves
<1> QED BY <1>2, <1>3

\* The catalog is fetched again: after a save, or on its own.
LEMMA RefetchMoves ==
  ASSUME Refetch \/ SaveRefetches
  PROVE  TemplateMoves
<1>1. Refetched /\ scene' = scene /\ page' = page /\ left' = left
  BY DEF Refetch, SaveRefetches
<1>2. Guarded
  BY <1>1, Zenon DEF Refetched
<1>3. UNCHANGED <<tShape, tPast, tFuture>> \/ (tPast' = <<>> /\ tFuture' = <<>>)
  <2>1. CASE Unchanging
    BY <2>1 DEF Unchanging, shapeVars
  <2>2. CASE Mount(Initial(tPath)', RevisionOf(tPath)')
    BY <2>2 DEF Mount
  <2> QED BY <1>1, <2>1, <2>2, Zenon DEF Refetched
<1> QED BY <1>1, <1>2, <1>3, Zenon DEF TemplateMoves, ShellMoves, GuardMoves, LineMoves

\* The address bar, the buttons, the server and the other writer.
LEMMA RemoteMoves ==
  ASSUME Persist \/ Save \/ Reset \/ ServerHandles \/ Rejected \/ OtherWriter
  PROVE  TemplateMoves
<1>1. /\ UNCHANGED <<scene, page, guard, tDraft, tShape, tPath, tCache>>
      /\ UNCHANGED <<tShape, tPast, tFuture>>
      /\ left' = left \/ Spend("nav") \/ Spend("other")
  BY DEF Persist, Save, SaveButton, Reset, ServerHandles, Rejected, OtherWriter, Unchanging,
         remoteVars, placeVars, shapeVars, shellVars
<1>2. "nav" \in Events /\ "other" \in Events
  BY DEF Events
<1> QED BY <1>1, <1>2, Zenon DEF TemplateMoves, ShellMoves, GuardMoves, LineMoves

LEMMA LeavingMoves ==
  ASSUME Close \/ SaveLeaves
  PROVE  TemplateMoves
<1>1. /\ scene' = scene /\ page' = "home" /\ left' = left /\ guard' = FALSE
      /\ UNCHANGED <<tShape, tPast, tFuture>>
  BY DEF Close, LeavePage, GuardUnmount, SaveLeaves, Unchanging, templateVars, shapeVars
<1> QED BY <1>1, Zenon DEF TemplateMoves, ShellMoves, GuardMoves, LineMoves

LEMMA TemplateSteps == TemplateNext => TemplateMoves
<1>1. Edits => TemplateMoves
  BY AppliedMoves, Zenon DEF Edits
<1> QED BY <1>1, HistoryMoves, ListsEdit, ToolbarEdits, CanvasEdits, PointingMoves, FormMoves,
           MountMoves, RefetchMoves, RemoteMoves, LeavingMoves, Zenon DEF TemplateNext

(***************************************************************************)
(* The other pages.                                                         *)
(***************************************************************************)
LEMMA PromptShell == PromptNext => ShellMoves
<1> SUFFICES ASSUME PromptNext PROVE ShellMoves
  OBVIOUS
<1>1. {"nav", "other"} \subseteq Events
  BY DEF Events
<1>2. ASSUME PromptPage \/ NodeCreator PROVE ShellMoves
  BY <1>1, <1>2 DEF PromptPage, NodeCreator, OpenNode, BackToLibrary, SwitchTab, TypePrompt, TypeRuntime,
     SavePrompt, RevertPrompt, RestoreVersion, SaveRuntime, ResetRuntime, RemoveNodeDef, Send,
     OpenCreator, TypeDef, SendDef, KeepRemote, shellVars, ShellMoves
<1>3. ASSUME OpenNodes \/ LeaveNodes \/ OtherPrompt PROVE ShellMoves
  BY <1>1, <1>3 DEF OpenNodes, LeaveNodes, LeavePage, OtherPrompt, KeepRemote, shellVars, ShellMoves
<1>4. ASSUME \/ \E kind \in Kinds : PromptCallHandled(kind)
             \/ PromptAnswered \/ PromptArrives \/ NodeRefetch
      PROVE  ShellMoves
  BY <1>4 DEF PromptCallHandled, PromptAnswered, PromptArrives, NodeRefetch, shellVars, ShellMoves
<1>5. ASSUME PromptSaved \/ RuntimeSaved \/ NodeRemoved \/ NodeCreated PROVE ShellMoves
  BY <1>5 DEF PromptSaved, RuntimeSaved, NodeRemoved, NodeCreated, shellVars, ShellMoves
<1> QED BY <1>2, <1>3, <1>4, <1>5, Zenon DEF PromptNext

LEMMA ProfileShell == ProfileNext => ShellMoves
<1> SUFFICES ASSUME ProfileNext PROVE ShellMoves
  OBVIOUS
<1>1. {"edit", "field", "nav", "other"} \subseteq Events
  BY DEF Events
<1>2. ASSUME WaveList \/ TypeProfile PROVE ShellMoves
  BY <1>1, <1>2, Zenon DEF WaveList, TypeProfile, OpenWave, RemoveWave, EditProfile, ShellMoves
<1>3. ASSUME SaveWave \/ SaveProfile \/ DeleteProfile PROVE ShellMoves
  BY <1>1, <1>3 DEF SaveWave, SaveProfile, DeleteProfile, SendProfile, EditProfile, ShellMoves
<1>4. ASSUME NEW name, OpenProfile(name) PROVE ShellMoves
  BY <1>1, <1>4 DEF OpenProfile, ShellMoves
<1>5. ASSUME ProfileFetched \/ ProfileFetchFails \/ LeaveProfile \/ ProfileHandled \/ ProfileSaved
      PROVE  ShellMoves
  BY <1>5 DEF ProfileFetched, ProfileFetchFails, LeaveProfile, LeavePage, ProfileHandled, ProfileSaved,
     shellVars, ShellMoves
<1>6. ASSUME ActivateProfile \/ Propose \/ ApplyProposal \/ DismissProposal PROVE ShellMoves
  BY <1>1, <1>6 DEF ActivateProfile, Propose, ApplyProposal, DismissProposal, Studio, ShellMoves
<1> QED BY <1>2, <1>3, <1>4, <1>5, <1>6, Zenon DEF ProfileNext

LEMMA FocusShell == FocusNext => ShellMoves
<1> SUFFICES ASSUME FocusNext PROVE ShellMoves
  OBVIOUS
<1>1. {"edit", "nav", "pick", "other"} \subseteq Events
  BY DEF Events
<1> QED
  BY <1>1 DEF FocusNext, OpenFocus, LeaveFocus, LeavePage, SwitchFile, TypeFocus, FocusAnswered, FocusArrives,
     FocusFetchFails, SaveFocus, PromoteIdea, FocusHandled, FocusInvalidated, shellVars, ShellMoves

\* The pages that hold nothing to lose register no message in the guard.
Unguarded == guard' = guard \/ guard' = FALSE

LEMMA LauncherShell == LauncherNext => ShellMoves /\ Unguarded
<1> SUFFICES ASSUME LauncherNext PROVE ShellMoves /\ Unguarded
  OBVIOUS
<1>1. {"edit", "field", "nav", "pick", "other"} \subseteq Events
  BY DEF Events
<1>2. ASSUME PickTemplate \/ AddNode \/ RemoveLaunchNode \/ MoveNode PROVE ShellMoves /\ Unguarded
  BY <1>1, <1>2, Zenon DEF PickTemplate, AddNode, RemoveLaunchNode, MoveNode, Resequence, Choosing,
     ShellMoves, Unguarded
<1>3. ASSUME NEW part, FillOutcome(part) PROVE ShellMoves /\ Unguarded
  BY <1>1, <1>3 DEF FillOutcome, ShellMoves, Unguarded
<1>4. ASSUME ChooseAutomation \/ ReviewRun \/ StepBack PROVE ShellMoves /\ Unguarded
  BY <1>4 DEF ChooseAutomation, ReviewRun, StepBack, GoTo, shellVars, ShellMoves, Unguarded
<1>5. ASSUME OpenLauncher \/ LeaveLauncher \/ CatalogArrives \/ ShelfChanges \/ FinishLapses
      PROVE  ShellMoves /\ Unguarded
  BY <1>1, <1>5 DEF OpenLauncher, LeaveLauncher, LeavePage, GuardUnmount, CatalogArrives, ShelfChanges,
     FinishLapses, shellVars, ShellMoves, Unguarded
<1>6. ASSUME Create \/ CreateHandled \/ CreateAnswered PROVE ShellMoves /\ Unguarded
  BY <1>1, <1>6, Zenon DEF Create, CreateHandled, CreateAnswered, shellVars, ShellMoves, Unguarded
<1> QED BY <1>2, <1>3, <1>4, <1>5, <1>6, Zenon DEF LauncherNext

LEMMA RunShell == RunNext => ShellMoves /\ Unguarded
<1> SUFFICES ASSUME RunNext PROVE ShellMoves /\ Unguarded
  OBVIOUS
<1>1. {"edit", "field", "nav", "pick", "other"} \subseteq Events
  BY DEF Events
<1>2. ASSUME RunSettles PROVE ShellMoves /\ Unguarded
  BY <1>2 DEF RunSettles, RunHandled, RunAnswered, RunRefused, shellVars, ShellMoves, Unguarded
<1>3. ASSUME NEW kind, PressRun(kind) PROVE ShellMoves /\ Unguarded
  BY <1>1, <1>3 DEF PressRun, ShellMoves, Unguarded
<1>4. ASSUME RunMoves \/ ListPolled \/ OpenRun \/ LeaveRun PROVE ShellMoves /\ Unguarded
  BY <1>1, <1>4 DEF RunMoves, ListPolled, OpenRun, LeaveRun, LeavePage, GuardUnmount, shellVars, ShellMoves, Unguarded
<1>5. ASSUME PollAnswered \/ PollArrives \/ PollLost \/ SelectRunNode \/ TypeRun
      PROVE  ShellMoves /\ Unguarded
  BY <1>1, <1>5 DEF PollAnswered, PollArrives, PollLost, SelectRunNode, TypeRun, shellVars, ShellMoves, Unguarded
<1> QED BY <1>2, <1>3, <1>4, <1>5, Zenon DEF RunNext

LEMMA NightShell == NightNext => ShellMoves /\ Unguarded
<1> SUFFICES ASSUME NightNext PROVE ShellMoves /\ Unguarded
  OBVIOUS
<1>1. {"edit", "field", "nav", "pick", "other"} \subseteq Events
  BY DEF Events
<1>2. ASSUME NEW a, FlipSweep(a) \/ SweepHandled(a) \/ SweepSettles(a) PROVE ShellMoves /\ Unguarded
  BY <1>1, <1>2, Zenon DEF FlipSweep, SweepHandled, SweepSettles, shellVars, ShellMoves, Unguarded
<1>3. ASSUME NEW j, CancelJob(j) \/ StopJob(j) PROVE ShellMoves /\ Unguarded
  BY <1>1, <1>3, Zenon DEF CancelJob, StopJob, PressJob, ShellMoves, Unguarded
<1>4. ASSUME \/ OpenNight \/ LeaveNight \/ SweepsAnswered \/ SweepsArrive \/ SweptElsewhere
             \/ QueueJob \/ Compose \/ JobHandled
      PROVE  ShellMoves /\ Unguarded
  BY <1>1, <1>4 DEF OpenNight, LeaveNight, LeavePage, GuardUnmount, SweepsAnswered, SweepsArrive,
     SweptElsewhere, QueueJob, PressJob, Compose, JobHandled, shellVars, ShellMoves, Unguarded
<1>5. ASSUME JobSettles \/ JobMoves \/ JobsAnswered \/ JobsArrive PROVE ShellMoves /\ Unguarded
  BY <1>1, <1>5 DEF JobSettles, JobMoves, JobsAnswered, JobsArrive, shellVars, ShellMoves, Unguarded
<1> QED BY <1>2, <1>3, <1>4, <1>5, Zenon DEF NightNext

LEMMA TabsShell == VisibilityNext => ShellMoves /\ Unguarded
<1> SUFFICES ASSUME VisibilityNext PROVE ShellMoves /\ Unguarded
  OBVIOUS
<1>1. {"edit", "nav", "other"} \subseteq Events
  BY DEF Events
<1>2. ASSUME NEW tab, NEW key, NEW value, Press(tab, key, value) PROVE ShellMoves /\ Unguarded
  BY <1>1, <1>2 DEF Press, ShellMoves, Unguarded
<1>3. ASSUME NEW tab, NEW name, NEW hide, SetAgentHidden(tab, name, hide) PROVE ShellMoves /\ Unguarded
  BY <1>2, <1>3, Zenon DEF SetAgentHidden
<1>4. ASSUME NEW tab, SetPresenting(tab) PROVE ShellMoves /\ Unguarded
  BY <1>2, <1>4, Zenon DEF SetPresenting
<1>5. ASSUME NEW tab, OpenTab(tab) \/ StorageEvent(tab) \/ ReloadTab(tab) PROVE ShellMoves /\ Unguarded
  BY <1>1, <1>5 DEF OpenTab, StorageEvent, ReloadTab, shellVars, ShellMoves, Unguarded
<1> QED BY <1>3, <1>4, <1>5, Zenon DEF VisibilityNext

(***************************************************************************)
(* The guard. What is inductive besides: away from the nodes no node is     *)
(* shown, so the page opens on the library, with nothing to lose.           *)
(***************************************************************************)
HomeIsLibrary == scene = "prompt" /\ page = "home" => pView = "library"
GuardHolds == scene \in Scenes /\ GuardFollowsDraft /\ HomeIsLibrary

LEMMA DirtyOrNot ==
  /\ TemplateDirty \in BOOLEAN /\ TemplateDirty' \in BOOLEAN
  /\ PromptDirty \in BOOLEAN /\ PromptDirty' \in BOOLEAN
  /\ ProfileDirty \in BOOLEAN /\ ProfileDirty' \in BOOLEAN
  /\ FocusDirty \in BOOLEAN /\ FocusDirty' \in BOOLEAN
BY DEF TemplateDirty, PromptDirty, ProfileDirty, FocusDirty

\* An effect on [dirty] keeps a guard that was right right.
LEMMA EffectFollows ==
  ASSUME NEW was \in BOOLEAN, NEW is \in BOOLEAN, guard = was, GuardEffect(was, is)
  PROVE  guard' = is
BY DEF GuardEffect

LEMMA TemplateDirtyKept ==
  ASSUME UNCHANGED <<scene, page, tDraft, tShape, tPath, tCache>>
  PROVE  TemplateDirty' = TemplateDirty
<1>1. (Working' <=> Working) /\ Initial(tPath)' = Initial(tPath)
  BY DEF Working, Editing, Missing, Initial
<1>2. Fields(Initial(tPath))' = Fields(Initial(tPath)) /\ Shape(Initial(tPath))' = Shape(Initial(tPath))
  BY <1>1, Zenon DEF Fields, Shape, StagesOf
<1>3. TemplateDirty' <=> TemplateDirty
  BY <1>1, <1>2, Zenon DEF TemplateDirty
<1> QED BY <1>3, DirtyOrNot

LEMMA TemplateGuard ==
  ASSUME scene = "template", guard = TemplateDirty, TemplateNext
  PROVE  guard' = TemplateDirty'
<1>1. GuardMoves /\ scene' = "template"
  BY TemplateSteps DEF TemplateMoves, ShellMoves
<1>2. ASSUME Guarded PROVE guard' = TemplateDirty'
  BY <1>2, DirtyOrNot, EffectFollows, Zenon DEF Guarded
<1>3. ASSUME guard' = FALSE, page' = "home" PROVE guard' = TemplateDirty'
  <2>1. TemplateDirty' = FALSE
    BY <1>3 DEF TemplateDirty, Working, Editing
  <2> QED BY <1>3, <2>1
<1>4. ASSUME UNCHANGED <<scene, page, guard, tDraft, tShape, tPath, tCache>> PROVE guard' = TemplateDirty'
  <2>1. TemplateDirty' = TemplateDirty
    BY <1>4, TemplateDirtyKept
  <2> QED BY <1>4, <2>1
<1> QED BY <1>1, <1>2, <1>3, <1>4, Zenon DEF GuardMoves

\* The node pages: the actions with an effect, and those that leave what it depends on.
LEMMA PromptKept ==
  ASSUME guard' = guard, guard = PromptDirty, PromptDirty' = PromptDirty
  PROVE  guard' = PromptDirty'
BY Zenon

LEMMA PromptGuard ==
  ASSUME scene = "prompt", guard = PromptDirty, HomeIsLibrary, PromptNext
  PROVE  guard' = PromptDirty' /\ HomeIsLibrary'
<1> DEFINE Good == guard' = PromptDirty' /\ HomeIsLibrary'
<1> SUFFICES Good
  BY DEF Good
<1> HIDE DEF Good
<1>0. ShellMoves
  BY PromptShell
<1>1. ASSUME PromptGuarded PROVE guard' = PromptDirty'
  BY <1>1, DirtyOrNot, EffectFollows, Zenon DEF PromptGuarded
<1>2. ASSUME guard' = FALSE, pView' = "library" PROVE Good
  <2>1. PromptDirty' = FALSE /\ HomeIsLibrary'
    BY <1>2 DEF PromptDirty, PromptForm, NodePage, NodeTabs, HomeIsLibrary
  <2> QED BY <1>2, <2>1 DEF Good
\* Nothing the guard depends on moves.
<1>3. ASSUME guard' = guard, page' = page, pText' = pText, pDoc' = pDoc, pNode' = pNode,
             pView' = pView \/ (pView \in NodeTabs /\ pView' \in NodeTabs /\ page = "open")
      PROVE  Good
  <2>1. scene' = scene
    BY <1>0 DEF ShellMoves
  <2>2. PromptDirty' = PromptDirty
    BY <1>3, <2>1 DEF PromptDirty, PromptForm, NodePage, Nodes
  <2>3. HomeIsLibrary'
    BY <1>3, <2>1 DEF HomeIsLibrary
  <2> QED BY <1>3, <2>2, <2>3, PromptKept, Zenon DEF Good
\* The effect runs, on a page that stays open or keeps what it shows.
<1>4. ASSUME PromptGuarded, page' = "open" \/ (page' = page /\ pView' = pView) PROVE Good
  <2>1. HomeIsLibrary'
    BY <1>4, <1>0 DEF HomeIsLibrary, ShellMoves
  <2> QED BY <1>1, <1>4, <2>1 DEF Good
<1>5. CASE OpenNode
  BY <1>5, <1>4, Zenon DEF OpenNode, Nodes
<1>6. CASE BackToLibrary
  BY <1>6, <1>2 DEF BackToLibrary, CloseForm, GuardUnmount
<1>7. CASE \E tab \in NodeTabs : SwitchTab(tab)
  BY <1>7, <1>3 DEF SwitchTab, KeepRemote, fetchVars, shellVars, PromptForm, NodePage, Nodes
<1>8. CASE \E text \in Bodies \cup {""} : TypePrompt(text)
  BY <1>8, <1>4, Zenon DEF TypePrompt, PromptForm, NodePage, Nodes
<1>9. CASE \E runtime \in Runtimes : TypeRuntime(runtime)
  BY <1>9, <1>3 DEF TypeRuntime, KeepRemote, fetchVars, shellVars
<1>10. ASSUME NEW kind, NEW arg, Send(kind, arg) PROVE Good
  BY <1>10, <1>3 DEF Send, fetchVars, formVars
<1>11. CASE SavePrompt \/ RevertPrompt \/ RestoreVersion \/ SaveRuntime \/ ResetRuntime \/ RemoveNodeDef
  BY <1>11, <1>10, Zenon DEF SavePrompt, RevertPrompt, RestoreVersion, SaveRuntime, ResetRuntime, RemoveNodeDef
<1>12. CASE OpenCreator
  <2>1. /\ page' = page /\ page = "open" /\ guard' = guard /\ pView = "library" /\ pView' = "new"
    BY <1>12 DEF OpenCreator, Nodes
  <2>2. PromptDirty = FALSE /\ PromptDirty' = FALSE
    BY <2>1 DEF PromptDirty, PromptForm, NodePage, NodeTabs
  <2>3. HomeIsLibrary'
    BY <2>1 DEF HomeIsLibrary
  <2> QED BY <2>1, <2>2, <2>3 DEF Good
<1>13. CASE TypeDef
  BY <1>13, <1>3 DEF TypeDef, KeepRemote, fetchVars, shellVars
<1>14. CASE SendDef
  BY <1>14, <1>10, Zenon DEF SendDef
<1>15. CASE OpenNodes
  <2>1. /\ page = "home" /\ page' = "open" /\ guard' = guard /\ pView' = pView
    BY <1>15 DEF OpenNodes, formVars
  <2>2. pView = "library"
    BY <2>1 DEF HomeIsLibrary
  <2>3. PromptDirty = FALSE /\ PromptDirty' = FALSE
    BY <2>1, <2>2 DEF PromptDirty, PromptForm, NodePage, NodeTabs
  <2>4. HomeIsLibrary'
    BY <2>1 DEF HomeIsLibrary
  <2> QED BY <2>1, <2>3, <2>4 DEF Good
<1>16. CASE LeaveNodes
  BY <1>16, <1>2 DEF LeaveNodes, LeavePage, GuardUnmount, CloseForm
<1>17. CASE OtherPrompt
  BY <1>17, <1>3 DEF OtherPrompt, fetchVars, formVars
<1>18. CASE \E kind \in Kinds : PromptCallHandled(kind)
  BY <1>18, <1>3 DEF PromptCallHandled, fetchVars, formVars, shellVars
<1>19. CASE PromptAnswered
  BY <1>19, <1>3 DEF PromptAnswered, formVars, shellVars
<1>20. CASE PromptArrives
  <2>1. PromptGuarded /\ page' = page /\ (NodePage \/ pView' = pView)
    BY <1>20 DEF PromptArrives, ShowDocument, formVars
  <2> QED BY <2>1, <1>4 DEF NodePage, Nodes
<1>21. CASE NodeRefetch
  BY <1>21, <1>4, Zenon DEF NodeRefetch
<1>22. CASE PromptSaved
  <2>1. PromptGuarded /\ page' = page /\ (NodePage \/ pView' = pView)
    BY <1>22 DEF PromptSaved
  <2> QED BY <2>1, <1>4 DEF NodePage, Nodes
<1>23. CASE RuntimeSaved
  BY <1>23, <1>3 DEF RuntimeSaved, fetchVars, formVars, shellVars
<1>24. CASE NodeRemoved
  BY <1>24, <1>2 DEF NodeRemoved, CloseForm, GuardUnmount
<1>25. CASE NodeCreated
  BY <1>25, <1>4, Zenon DEF NodeCreated
<1>26. Good
  BY <1>5, <1>6, <1>7, <1>8, <1>9, <1>11, <1>12, <1>13, <1>14, <1>15, <1>16, <1>17, <1>18, <1>19, <1>20,
     <1>21, <1>22, <1>23, <1>24, <1>25, Zenon DEF PromptNext, PromptPage, NodeCreator
<1> QED BY <1>26 DEF Good

LEMMA ProfileGuard ==
  ASSUME scene = "profile", guard = ProfileDirty, ProfileNext
  PROVE  guard' = ProfileDirty'
<1>0. scene' = scene
  BY ProfileShell DEF ShellMoves
<1>1. ASSUME ProfileGuarded PROVE guard' = ProfileDirty'
  BY <1>1, DirtyOrNot, EffectFollows, Zenon DEF ProfileGuarded
<1>2. ASSUME guard' = FALSE, page' = "home" \/ wDraft' = <<>> PROVE guard' = ProfileDirty'
  BY <1>2 DEF ProfileDirty, ProfileMounted, Profiles
<1>3. ASSUME guard' = guard, page' = page, wDraft' = wDraft, wName' = wName, wCache' = wCache
      PROVE  guard' = ProfileDirty'
  <2>1. ProfileDirty' <=> ProfileDirty
    BY <1>0, <1>3 DEF ProfileDirty, ProfileMounted, Profiles, ProfileInitial
  <2> QED BY <1>3, <2>1, DirtyOrNot
<1>4. ASSUME NEW name, OpenProfile(name) PROVE guard' = ProfileDirty'
  BY <1>4 DEF OpenProfile, GuardMount
<1>5. CASE WaveList
  <2>1. ASSUME NEW wave, OpenWave(wave) PROVE guard' = ProfileDirty'
    BY <2>1, <1>3 DEF OpenWave, wRemote
  <2>2. ASSUME NEW name, RemoveWave(name) PROVE guard' = ProfileDirty'
    BY <2>2, <1>1, Zenon DEF RemoveWave, EditProfile
  <2> QED BY <1>5, <2>1, <2>2, Zenon DEF WaveList
<1>6. CASE SaveWave \/ TypeProfile
  BY <1>6, <1>1, Zenon DEF SaveWave, TypeProfile, EditProfile
<1>7. CASE ProfileFetched
  BY <1>7, <1>1, Zenon DEF ProfileFetched
<1>8. CASE ProfileFetchFails \/ ProfileSaved
  BY <1>8, <1>2 DEF ProfileFetchFails, ProfileSaved, Unmounted, GuardUnmount
<1>9. CASE LeaveProfile
  BY <1>9, <1>2 DEF LeaveProfile, LeavePage, GuardUnmount
<1>10. ASSUME NEW kind, NEW profile, SendProfile(kind, profile) PROVE guard' = ProfileDirty'
  BY <1>10, <1>3 DEF SendProfile
<1>11. CASE SaveProfile \/ DeleteProfile
  BY <1>11, <1>10, Zenon DEF SaveProfile, DeleteProfile
<1>12. CASE ProfileHandled
  BY <1>12, <1>3 DEF ProfileHandled, shellVars
<1>13. CASE ActivateProfile \/ Propose \/ ApplyProposal \/ DismissProposal
  <2>1. Studio
    BY <1>13, Zenon DEF ActivateProfile, Propose, ApplyProposal, DismissProposal
  <2> QED BY <2>1, <1>3 DEF Studio
<1> QED
  BY <1>4, <1>5, <1>6, <1>7, <1>8, <1>9, <1>11, <1>12, <1>13, Zenon DEF ProfileNext

LEMMA FocusGuard ==
  ASSUME scene = "focus", guard = FocusDirty, FocusNext
  PROVE  guard' = FocusDirty'
<1>1. ASSUME FocusGuarded PROVE guard' = FocusDirty'
  BY <1>1, DirtyOrNot, EffectFollows, Zenon DEF FocusGuarded
<1>2. ASSUME guard' = FALSE, ~ fShown' \/ (\E file : MountFocus(file, fCache)), fCache' = fCache
      PROVE  guard' = FocusDirty'
  BY <1>2 DEF FocusDirty, MountFocus
<1>3. ASSUME guard' = guard, fShown' = fShown, fText' = fText, fCache' = fCache, fFile' = fFile
      PROVE  guard' = FocusDirty'
  <2>1. FocusDirty' <=> FocusDirty
    BY <1>3 DEF FocusDirty
  <2> QED BY <1>3, <2>1, DirtyOrNot
<1>4. CASE OpenFocus \/ SwitchFile
  <2>1. guard' = FALSE /\ fCache' = fCache /\ \E file : MountFocus(file, fCache)
    BY <1>4, Zenon DEF OpenFocus, SwitchFile, GuardMount
  <2> QED BY <2>1, <1>2
<1>5. CASE LeaveFocus \/ FocusFetchFails
  BY <1>5, <1>2 DEF LeaveFocus, LeavePage, GuardUnmount, FocusFetchFails
<1>6. CASE TypeFocus \/ FocusArrives
  BY <1>6, <1>1, Zenon DEF TypeFocus, FocusArrives
<1>7. CASE FocusAnswered \/ SaveFocus \/ FocusHandled \/ FocusInvalidated
  BY <1>7, <1>3 DEF FocusAnswered, SaveFocus, FocusHandled, FocusInvalidated, shellVars
<1>8. CASE \E idea \in Ideas : PromoteIdea(idea)
  BY <1>8, <1>3 DEF PromoteIdea
<1> QED BY <1>4, <1>5, <1>6, <1>7, <1>8, Zenon DEF FocusNext

\* A step of Console is one of the page the session works on.
LEMMA Scenic ==
  ASSUME Next
  PROVE  ShellMoves
BY TemplateSteps, PromptShell, ProfileShell, FocusShell, LauncherShell, RunShell, NightShell, TabsShell, Zenon
   DEF Next, Template, Prompt, Profile, Focus, Launch, RunDetail, NightRuns, Presentation, TemplateMoves

LEMMA GuardStep ==
  ASSUME GuardHolds, Next
  PROVE  GuardHolds'
<1>0. ShellMoves
  BY Scenic
<1>1. scene' = scene
  BY <1>0 DEF ShellMoves
<1>2. scene' \in Scenes
  BY <1>1 DEF GuardHolds
<1>3. CASE scene = "template"
  <2>1. guard = TemplateDirty /\ TemplateNext
    BY <1>3 DEF GuardHolds, GuardFollowsDraft, Next, Template
  <2>2. guard' = TemplateDirty'
    BY <1>3, <2>1, TemplateGuard
  <2> QED BY <1>1, <1>2, <1>3, <2>2 DEF GuardHolds, GuardFollowsDraft, HomeIsLibrary
<1>4. CASE scene = "prompt"
  <2>1. guard = PromptDirty /\ PromptNext /\ HomeIsLibrary
    BY <1>4 DEF GuardHolds, GuardFollowsDraft, Next, Prompt
  <2>2. guard' = PromptDirty' /\ HomeIsLibrary'
    BY <1>4, <2>1, PromptGuard
  <2> QED BY <1>1, <1>2, <1>4, <2>2 DEF GuardHolds, GuardFollowsDraft
<1>5. CASE scene = "profile"
  <2>1. guard = ProfileDirty /\ ProfileNext
    BY <1>5 DEF GuardHolds, GuardFollowsDraft, Next, Profile
  <2>2. guard' = ProfileDirty'
    BY <1>5, <2>1, ProfileGuard
  <2> QED BY <1>1, <1>2, <1>5, <2>2 DEF GuardHolds, GuardFollowsDraft, HomeIsLibrary
<1>6. CASE scene = "focus"
  <2>1. guard = FocusDirty /\ FocusNext
    BY <1>6 DEF GuardHolds, GuardFollowsDraft, Next, Focus
  <2>2. guard' = FocusDirty'
    BY <1>6, <2>1, FocusGuard
  <2> QED BY <1>1, <1>2, <1>6, <2>2 DEF GuardHolds, GuardFollowsDraft, HomeIsLibrary
<1>7. CASE scene \notin {"template", "prompt", "profile", "focus"}
  <2>1. guard = FALSE /\ Unguarded
    BY <1>7, LauncherShell, RunShell, NightShell, TabsShell
       DEF GuardHolds, GuardFollowsDraft, Next, Launch, RunDetail, NightRuns, Presentation
  <2>2. guard' = FALSE
    BY <2>1 DEF Unguarded
  <2> QED BY <1>1, <1>2, <1>7, <2>2 DEF GuardHolds, GuardFollowsDraft, HomeIsLibrary
<1> QED BY <1>3, <1>4, <1>5, <1>6, <1>7

LEMMA GuardStutter ==
  ASSUME GuardHolds, UNCHANGED vars
  PROVE  GuardHolds'
<1>1. /\ UNCHANGED <<scene, page, guard, pView, pText, pDoc, pNode, wDraft, wName, wCache>>
      /\ UNCHANGED <<fShown, fText, fCache, fFile, tDraft, tShape, tPath, tCache>>
  BY DEF vars, editorVars, shellVars, promptVars, profileVars, focusVars, templateVars, shapeVars,
         remoteVars, placeVars
<1>2. TemplateDirty' = TemplateDirty
  BY <1>1, TemplateDirtyKept
<1>3. (PromptDirty' <=> PromptDirty) /\ (FocusDirty' <=> FocusDirty)
  BY <1>1 DEF PromptDirty, PromptForm, NodePage, Nodes, FocusDirty
<1>4. ProfileDirty' <=> ProfileDirty
  BY <1>1 DEF ProfileDirty, ProfileMounted, Profiles, ProfileInitial
<1>5. GuardFollowsDraft'
  BY <1>1, <1>2, <1>3, <1>4, DirtyOrNot DEF GuardHolds, GuardFollowsDraft
<1>6. scene' \in Scenes /\ HomeIsLibrary'
  BY <1>1 DEF GuardHolds, HomeIsLibrary
<1> QED BY <1>5, <1>6 DEF GuardHolds

LEMMA GuardInit ==
  ASSUME Init
  PROVE  GuardHolds
<1>1. scene \in Scenes
  BY SessionAssumption, Zenon DEF Init, ShellInit
<1>2. page = "home" /\ guard = FALSE /\ pView = "library" /\ fShown = FALSE
  BY DEF Init, ShellInit, PromptInit, FocusInit
<1> QED
  BY <1>1, <1>2 DEF GuardHolds, GuardFollowsDraft, HomeIsLibrary, TemplateDirty, Working, Editing,
     PromptDirty, PromptForm, NodePage, Nodes, ProfileDirty, ProfileMounted, Profiles, FocusDirty

\* The guard is up exactly while the editor on screen holds unsaved work, whatever answers,
\* other writers and fetches move below the draft. (navguard.ts:1-15)
THEOREM GuardAlwaysFollowsDraft == Spec => []GuardFollowsDraft
<1>1. GuardHolds => GuardFollowsDraft
  BY DEF GuardHolds
<1>2. GuardHolds /\ [Next]_vars => GuardHolds'
  BY GuardStep, GuardStutter
<1> QED BY GuardInit, <1>1, <1>2, PTL DEF Spec

(***************************************************************************)
(* The shell's types, and the text of the focus page. While an editor is up *)
(* its base is the cached file: what makes an arriving file harmless.       *)
(***************************************************************************)
LEMMA ShellTyped ==
  ASSUME ShellTypeOK, GuardHolds, [Next]_vars
  PROVE  ShellTypeOK'
<1>1. GuardHolds'
  BY GuardStep, GuardStutter
<1>2. guard' \in BOOLEAN
  BY <1>1, DirtyOrNot DEF GuardHolds, GuardFollowsDraft
<1>3. ShellMoves
  <2>1. UNCHANGED vars => ShellMoves
    BY DEF vars, shellVars, ShellMoves
  <2> QED BY <2>1, Scenic
<1>4. scene' \in Scenes /\ page' \in {"home", "open"}
  BY <1>3 DEF ShellMoves, ShellTypeOK
<1>5. left' \in [Events -> Nat]
  <2>1. ASSUME NEW k \in Events, Spend(k) PROVE left' \in [Events -> Nat]
    BY <2>1 DEF Spend, ShellTypeOK
  <2> QED BY <1>3, <2>1 DEF ShellMoves, ShellTypeOK
<1> QED BY <1>2, <1>4, <1>5 DEF ShellTypeOK

LEMMA ShellTypedInit ==
  ASSUME Init
  PROVE  ShellTypeOK
<1>1. PICK s \in Sessions : scene = s.scene /\ left = s.left
  BY DEF Init, ShellInit
<1>2. s.scene \in Scenes /\ s.left \in [Events -> Nat]
  BY SessionAssumption
<1>3. page = "home" /\ guard = FALSE
  BY DEF Init, ShellInit
<1> QED BY <1>1, <1>2, <1>3 DEF ShellTypeOK

BaseIsCached == fShown => scene = "focus" /\ page = "open" /\ fBase = fCache[fFile]

LEMMA BaseStep ==
  ASSUME BaseIsCached, FocusNext, scene = "focus"
  PROVE  BaseIsCached'
<1>1. scene' = "focus"
  BY FocusShell DEF ShellMoves
<1>2. CASE OpenFocus \/ LeaveFocus \/ SwitchFile
  BY <1>1, <1>2 DEF BaseIsCached, OpenFocus, LeaveFocus, SwitchFile, MountFocus
<1>3. CASE FocusArrives
  <2>1. page' = page /\ fFile' = fFile /\ fCache' = fAnswer[1]
    BY <1>3 DEF FocusArrives
  <2>2. CASE fShown
    BY <1>1, <1>3, <2>1, <2>2 DEF FocusArrives, Adopt, BaseIsCached
  <2>3. CASE ~ fShown /\ page = "open"
    BY <1>1, <1>3, <2>1, <2>3 DEF FocusArrives, MountFocus, BaseIsCached
  <2>4. CASE ~ fShown /\ page # "open"
    BY <1>3, <2>4 DEF FocusArrives, BaseIsCached
  <2> QED BY <2>2, <2>3, <2>4
<1>4. CASE TypeFocus \/ FocusAnswered \/ FocusFetchFails \/ SaveFocus \/ FocusHandled \/ FocusInvalidated
  BY <1>1, <1>4 DEF BaseIsCached, TypeFocus, FocusAnswered, FocusFetchFails, SaveFocus, FocusHandled,
     FocusInvalidated, shellVars
<1>5. CASE \E idea \in Ideas : PromoteIdea(idea)
  BY <1>1, <1>5 DEF BaseIsCached, PromoteIdea
<1> QED BY <1>2, <1>3, <1>4, <1>5, Zenon DEF FocusNext

LEMMA BaseKept ==
  ASSUME BaseIsCached, [Next]_vars
  PROVE  BaseIsCached'
<1>1. CASE scene = "focus" /\ Next
  <2>1. FocusNext
    BY <1>1 DEF Next, Focus
  <2> QED BY <1>1, <2>1, BaseStep
<1>2. CASE scene # "focus" /\ Next
  <2>1. UNCHANGED focusVars
    BY <1>2, Zenon DEF Next, Template, Prompt, Profile, Launch, RunDetail, NightRuns, Presentation, editorVars
  <2> QED BY <1>2, <2>1 DEF BaseIsCached, focusVars
<1>3. CASE UNCHANGED vars
  BY <1>3 DEF BaseIsCached, vars, editorVars, shellVars, focusVars
<1> QED BY <1>1, <1>2, <1>3

\* What TypingSurvives says of one step.
TypingKept ==
  (fShown /\ fShown' /\ fFile' = fFile /\ page' = "open" /\ left'["edit"] = left["edit"])
    => (FocusDirty => fText' = fText) /\ (FocusDirty' => FocusDirty)

LEMMA TypingStep ==
  ASSUME ShellTypeOK, BaseIsCached, FocusNext
  PROVE  TypingKept
<1> SUFFICES ASSUME fShown, fShown', fFile' = fFile, page' = "open", left'["edit"] = left["edit"]
             PROVE  (FocusDirty => fText' = fText) /\ (FocusDirty' => FocusDirty)
  BY DEF TypingKept
<1>1. CASE OpenFocus \/ LeaveFocus \/ SwitchFile
  BY <1>1 DEF BaseIsCached, OpenFocus, LeaveFocus, SwitchFile, MountFocus
<1>2. CASE TypeFocus
  <2>1. Spend("edit") /\ "edit" \in Events
    BY <1>2 DEF TypeFocus, Events
  <2>2. left'["edit"] = left["edit"] - 1 /\ left["edit"] \in Nat
    BY <2>1 DEF Spend, ShellTypeOK
  <2> QED BY <2>2
<1>3. CASE FocusArrives
  BY <1>3 DEF FocusArrives, Adopt, BaseIsCached, FocusDirty
<1>4. CASE FocusAnswered \/ FocusFetchFails \/ SaveFocus \/ FocusHandled \/ FocusInvalidated
  BY <1>4 DEF FocusDirty, FocusAnswered, FocusFetchFails, SaveFocus, FocusHandled, FocusInvalidated
<1>5. CASE \E idea \in Ideas : PromoteIdea(idea)
  BY <1>5 DEF FocusDirty, PromoteIdea
<1> QED BY <1>1, <1>2, <1>3, <1>4, <1>5, Zenon DEF FocusNext

LEMMA TypingAnywhere ==
  ASSUME ShellTypeOK, BaseIsCached, [Next]_vars
  PROVE  [TypingKept]_focusVars
<1>1. CASE Next /\ scene = "focus"
  BY <1>1, TypingStep DEF Next, Focus
<1>2. CASE Next /\ scene # "focus"
  BY <1>2, Zenon DEF Next, Template, Prompt, Profile, Launch, RunDetail, NightRuns, Presentation, editorVars
<1>3. CASE UNCHANGED vars
  BY <1>3, Zenon DEF vars, editorVars
<1> QED BY <1>1, <1>2, <1>3

\* While an editor of the focus page stays up, no answer, save or promotion changes unsaved
\* text or makes a clean one unsaved. (FocusPage.tsx:29-43)
THEOREM TypingAlwaysSurvives == Spec => TypingSurvives
<1> DEFINE Inv == ShellTypeOK /\ GuardHolds /\ BaseIsCached
<1>1. Init => Inv
  <2>1. Init => BaseIsCached
    BY DEF Init, FocusInit, BaseIsCached
  <2> QED BY <2>1, GuardInit, ShellTypedInit
<1>2. Inv /\ [Next]_vars => Inv'
  <2> SUFFICES ASSUME Inv, [Next]_vars PROVE Inv'
    OBVIOUS
  <2> QED BY GuardStep, GuardStutter, ShellTyped, BaseKept
<1>3. Inv /\ [Next]_vars => [TypingKept]_focusVars
  BY TypingAnywhere
<1>4. [][TypingKept]_focusVars => TypingSurvives
  BY PTL DEF TypingSurvives, TypingKept
<1> HIDE DEF Inv
<1> QED BY <1>1, <1>2, <1>3, <1>4, PTL DEF Spec

(***************************************************************************)
(* The night page. Sweeps: an agent with no call of its own and no change   *)
(* from elsewhere is shown, and answered, as the server holds it. Rows: the *)
(* same of every job but the one whose call is about to be asked for again. *)
(***************************************************************************)
Switches == [SweepAgents -> BOOLEAN]
Answers == {<<>>} \cup {<<m>> : m \in Switches}
Toggles == [pc : {"idle", "sent", "done", "failed"}, on : BOOLEAN, prev : Answers]

SweepTypes ==
  /\ kSweeps \in Switches /\ kShown \in Answers /\ kFetch \in Answers
  /\ kToggle \in [SweepAgents -> Toggles]

AgentAgrees(a) ==
  (a \notin kForeign /\ kToggle[a].pc = "idle") =>
    /\ kFetch # <<>> => kFetch[1][a] = kSweeps[a]
    /\ kShown # <<>> /\ ~ kStale => kShown[1][a] = kSweeps[a]

SweepsAgree ==
  /\ SweepTypes /\ \A a \in SweepAgents : AgentAgrees(a)
  /\ Night /\ kShown = <<>> => kStale

LEMMA AnswerTypes ==
  ASSUME NEW m \in Answers, m # <<>>
  PROVE  m[1] \in Switches /\ m = <<m[1]>>
BY DEF Answers

LEMMA FlipStep ==
  ASSUME SweepsAgree, NEW b \in SweepAgents, FlipSweep(b)
  PROVE  SweepsAgree'
<1> DEFINE on == ~ (kShown # <<>> /\ kShown[1][b])
<1> DEFINE map == [a \in SweepAgents |-> IF a = b THEN on ELSE kShown # <<>> /\ kShown[1][a]]
<1>1. /\ Night /\ scene' = scene /\ page' = page
      /\ kFetch' = <<>> /\ kShown' = <<map>>
      /\ kToggle' = [kToggle EXCEPT ![b] = [pc |-> "sent", on |-> on, prev |-> kShown]]
      /\ UNCHANGED <<kSweeps, kStale, kForeign>>
  BY Zenon DEF FlipSweep, Mutate, CancelQueries
<1>2. on \in BOOLEAN /\ map \in Switches
  BY DEF Switches
<1>3. SweepTypes'
  <2>1. [pc |-> "sent", on |-> on, prev |-> kShown] \in Toggles
    BY <1>2 DEF SweepsAgree, SweepTypes, Toggles
  <2>2. kToggle' \in [SweepAgents -> Toggles]
    BY <1>1, <2>1 DEF SweepsAgree, SweepTypes
  <2>3. kShown' \in Answers /\ kFetch' \in Answers
    BY <1>1, <1>2 DEF Answers
  <2> QED BY <1>1, <2>2, <2>3 DEF SweepsAgree, SweepTypes
<1>4. ASSUME NEW a \in SweepAgents PROVE AgentAgrees(a)'
  <2>1. CASE a = b
    <3>1. kToggle'[a].pc = "sent"
      BY <1>1, <2>1 DEF SweepsAgree, SweepTypes
    <3> QED BY <3>1 DEF AgentAgrees
  <2>2. CASE a # b
    <3>1. kToggle'[a] = kToggle[a]
      BY <1>1, <2>2 DEF SweepsAgree, SweepTypes
    <3>2. kShown'[1][a] = (kShown # <<>> /\ kShown[1][a])
      BY <1>1, <2>2
    <3>3. SUFFICES ASSUME a \notin kForeign, kToggle[a].pc = "idle", ~ kStale
                   PROVE  kShown'[1][a] = kSweeps[a]
      BY <1>1, <3>1 DEF AgentAgrees
    <3>4. kShown # <<>>
      BY <1>1, <3>3 DEF SweepsAgree
    <3>5. kShown[1][a] = kSweeps[a]
      BY <3>3, <3>4 DEF SweepsAgree, AgentAgrees
    <3>6. kSweeps[a] \in BOOLEAN
      BY DEF SweepsAgree, SweepTypes, Switches
    <3> QED BY <3>2, <3>4, <3>5, <3>6
  <2> QED BY <2>1, <2>2
<1>5. (Night /\ kShown = <<>> => kStale)'
  BY <1>1
<1> QED BY <1>3, <1>4, <1>5 DEF SweepsAgree

LEMMA HandledStep ==
  ASSUME SweepsAgree, NEW b \in SweepAgents, SweepHandled(b)
  PROVE  SweepsAgree'
<1>1. PICK kept \in BOOLEAN, pc \in {"done", "failed"} :
        /\ kSweeps' = IF kept THEN [kSweeps EXCEPT ![b] = kToggle[b].on] ELSE kSweeps
        /\ kToggle' = [kToggle EXCEPT ![b].pc = pc]
  BY DEF SweepHandled
<1>2. UNCHANGED <<scene, page, kShown, kStale, kFetch, kForeign>>
  BY DEF SweepHandled, shellVars
<1>3. kToggle[b] \in Toggles
  BY DEF SweepsAgree, SweepTypes
<1>4. kSweeps' \in Switches
  <2>1. kToggle[b].on \in BOOLEAN
    BY <1>3 DEF Toggles
  <2> QED BY <1>1, <2>1 DEF SweepsAgree, SweepTypes, Switches
<1>5. kToggle' \in [SweepAgents -> Toggles]
  <2>1. [kToggle[b] EXCEPT !.pc = pc] \in Toggles
    BY <1>3 DEF Toggles
  <2> QED BY <1>1, <2>1 DEF SweepsAgree, SweepTypes
<1>6. ASSUME NEW a \in SweepAgents PROVE AgentAgrees(a)'
  <2>1. CASE a = b
    <3>1. kToggle'[a].pc = pc
      BY <1>1, <1>3, <2>1 DEF SweepsAgree, SweepTypes, Toggles
    <3> QED BY <3>1 DEF AgentAgrees
  <2>2. CASE a # b
    <3>1. kToggle'[a] = kToggle[a] /\ kSweeps'[a] = kSweeps[a]
      BY <1>1, <2>2 DEF SweepsAgree, SweepTypes, Switches
    <3> QED BY <1>2, <3>1 DEF SweepsAgree, AgentAgrees
  <2> QED BY <2>1, <2>2
<1> QED BY <1>2, <1>4, <1>5, <1>6 DEF SweepsAgree, SweepTypes, Night

LEMMA SettlesStep ==
  ASSUME SweepsAgree, NEW b \in SweepAgents, SweepSettles(b)
  PROVE  SweepsAgree'
<1>1. /\ kToggle' = [kToggle EXCEPT ![b] = Off]
      /\ kShown' = kShown \/ kShown' = kToggle[b].prev
      /\ kStale' = TRUE /\ kFetch' = <<>> /\ UNCHANGED <<scene, page, kSweeps, kForeign>>
  BY DEF SweepSettles, SweepInvalidated, shellVars
<1>2. kToggle[b].prev \in Answers
  BY DEF SweepsAgree, SweepTypes, Toggles
<1>3. Off \in Toggles /\ <<>> \in Answers
  BY DEF Off, Toggles, Answers
<1>4. SweepTypes'
  BY <1>1, <1>2, <1>3 DEF SweepsAgree, SweepTypes
<1>5. \A a \in SweepAgents : AgentAgrees(a)'
  BY <1>1 DEF AgentAgrees
<1> QED BY <1>1, <1>4, <1>5 DEF SweepsAgree

LEMMA SweepsStep ==
  ASSUME SweepsAgree, NightNext, scene = "night"
  PROVE  SweepsAgree'
<1>1. ASSUME NEW a \in SweepAgents, FlipSweep(a) \/ SweepHandled(a) \/ SweepSettles(a)
      PROVE  SweepsAgree'
  BY <1>1, FlipStep, HandledStep, SettlesStep
<1>2. CASE OpenNight
  <2>1. kStale' = TRUE /\ UNCHANGED <<kSweeps, kShown, kFetch, kToggle, kForeign>>
    BY <1>2 DEF OpenNight
  <2> QED BY <2>1 DEF SweepsAgree, SweepTypes, AgentAgrees
<1>3. CASE LeaveNight
  <2>1. page' = "home" /\ UNCHANGED sweepVars
    BY <1>3 DEF LeaveNight, LeavePage, nightVars
  <2> QED BY <2>1 DEF SweepsAgree, SweepTypes, AgentAgrees, Night, sweepVars
<1>4. CASE SweepsAnswered
  <2>1. /\ kStale' = kStale /\ kStale /\ kFetch' = <<kSweeps>>
        /\ UNCHANGED <<kSweeps, kShown, kToggle>>
    BY <1>4 DEF SweepsAnswered
  <2>2. kFetch' \in Answers /\ kFetch'[1] = kSweeps
    BY <2>1 DEF SweepsAgree, SweepTypes, Answers
  <2> QED BY <2>1, <2>2 DEF SweepsAgree, SweepTypes, AgentAgrees
<1>5. CASE SweepsArrive
  <2>1. /\ kFetch # <<>> /\ kFetch' = <<>> /\ kShown' = kFetch
        /\ UNCHANGED <<kSweeps, kToggle, kForeign>>
    BY <1>5 DEF SweepsArrive
  <2>2. <<>> \in Answers
    BY DEF Answers
  <2> QED BY <2>1, <2>2 DEF SweepsAgree, SweepTypes, AgentAgrees
<1>6. CASE SweptElsewhere
  <2>1. PICK b \in SweepAgents : kSweeps' = [kSweeps EXCEPT ![b] = ~ @] /\ kForeign' = kForeign \cup {b}
    BY <1>6 DEF SweptElsewhere
  <2>2. UNCHANGED <<scene, page, kShown, kStale, kFetch, kToggle>>
    BY <1>6 DEF SweptElsewhere
  <2>3. kSweeps' \in Switches
    BY <2>1 DEF SweepsAgree, SweepTypes, Switches
  <2>4. ASSUME NEW a \in SweepAgents PROVE AgentAgrees(a)'
    <3>1. CASE a = b
      BY <2>1, <3>1 DEF AgentAgrees
    <3>2. CASE a # b
      <4>1. kSweeps'[a] = kSweeps[a]
        BY <2>1, <3>2 DEF SweepsAgree, SweepTypes, Switches
      <4> QED BY <2>1, <2>2, <4>1 DEF SweepsAgree, AgentAgrees
    <3> QED BY <3>1, <3>2
  <2> QED BY <2>2, <2>3, <2>4 DEF SweepsAgree, SweepTypes, Night
<1>7. ASSUME UNCHANGED <<scene, page, sweepVars>> PROVE SweepsAgree'
  BY <1>7 DEF SweepsAgree, SweepTypes, AgentAgrees, Night, sweepVars
<1>8. ASSUME NEW j, CancelJob(j) \/ StopJob(j) PROVE SweepsAgree'
  BY <1>7, <1>8 DEF CancelJob, StopJob, PressJob
<1>9. CASE QueueJob \/ Compose \/ JobHandled \/ JobSettles \/ JobMoves \/ JobsAnswered \/ JobsArrive
  <2>1. UNCHANGED <<scene, page, sweepVars>>
    BY <1>9 DEF QueueJob, PressJob, Compose, JobHandled, JobSettles, JobMoves, JobsAnswered, JobsArrive, shellVars
  <2> QED BY <1>7, <2>1
<1> QED BY <1>1, <1>2, <1>3, <1>4, <1>5, <1>6, <1>8, <1>9, Zenon DEF NightNext

\* The job whose call came back and will be asked for again.
Tainted(j) ==
  j = kCall.job /\ kCall.pc \in {"done", "failed"} /\ ~ (kCall.kind = "queue" /\ kCall.pc = "failed")
JobAgrees(j) ==
  (j \notin kMoved /\ ~ Tainted(j)) =>
    /\ kRowsFetch # <<>> => kRowsFetch[1][j] = kJobs[j]
    /\ kRows # <<>> /\ ~ kRowsStale /\ kRowsFetch = <<>> => kRows[1][j] = kJobs[j]
CallShaped == DOMAIN kCall = {"pc", "kind", "job"}
RowsAgree == CallShaped /\ \A j \in DOMAIN kJobs : JobAgrees(j)

LEMMA TakenElsewhere ==
  ASSUME NEW kind, NEW job
  PROVE  /\ DOMAIN JobTaken(kind, job) = DOMAIN kJobs
         /\ \A j \in DOMAIN kJobs : j # job => JobTaken(kind, job)[j] = kJobs[j]
BY DEF JobTaken

LEMMA PressStep ==
  ASSUME RowsAgree, NEW kind, NEW job, PressJob(kind, job)
  PROVE  RowsAgree'
<1>1. /\ kCall.pc = "idle" /\ kCall' = [pc |-> "sent", kind |-> kind, job |-> job]
      /\ UNCHANGED <<kJobs, kMoved, kRows, kRowsStale, kRowsFetch>>
  BY DEF PressJob, RowsUntouched
<1>2. CallShaped' /\ kCall'.pc = "sent"
  BY <1>1 DEF CallShaped
<1> QED BY <1>1, <1>2 DEF RowsAgree, JobAgrees, Tainted

LEMMA JobHandledStep ==
  ASSUME RowsAgree, JobHandled
  PROVE  RowsAgree'
<1>1. PICK kept \in BOOLEAN, pc \in {"done", "failed"} :
        /\ pc = "done" => kept
        /\ kJobs' = IF kept THEN JobTaken(kCall.kind, kCall.job) ELSE kJobs
        /\ kMoved' = IF kept /\ pc = "failed" /\ kCall.kind = "queue" THEN kMoved \cup {kCall.job} ELSE kMoved
        /\ kCall' = [kCall EXCEPT !.pc = pc]
  BY DEF JobHandled
<1>2. kCall.pc = "sent" /\ UNCHANGED <<kRows, kRowsStale, kRowsFetch>>
  BY DEF JobHandled, RowsUntouched
<1>3. kCall'.pc = pc /\ kCall'.kind = kCall.kind /\ kCall'.job = kCall.job /\ CallShaped'
  BY <1>1 DEF RowsAgree, CallShaped
<1>4. DOMAIN kJobs' = DOMAIN kJobs
  BY <1>1, TakenElsewhere
<1>5. ASSUME NEW j \in DOMAIN kJobs, j \notin kMoved', ~ Tainted(j)'
      PROVE  j \notin kMoved /\ ~ Tainted(j) /\ kJobs'[j] = kJobs[j]
  <2>1. j \notin kMoved /\ ~ Tainted(j)
    BY <1>1, <1>2, <1>5 DEF Tainted
  <2>2. CASE j # kCall.job
    BY <1>1, <2>1, <2>2, TakenElsewhere
  <2>3. CASE j = kCall.job
    <3>1. ~ kept
      BY <1>1, <1>3, <1>5, <2>3 DEF Tainted
    <3> QED BY <1>1, <2>1, <3>1
  <2> QED BY <2>2, <2>3
<1>6. ASSUME NEW j \in DOMAIN kJobs PROVE JobAgrees(j)'
  <2> SUFFICES ASSUME j \notin kMoved', ~ Tainted(j)'
               PROVE  /\ kRowsFetch' # <<>> => kRowsFetch'[1][j] = kJobs'[j]
                      /\ kRows' # <<>> /\ ~ kRowsStale' /\ kRowsFetch' = <<>> => kRows'[1][j] = kJobs'[j]
    BY DEF JobAgrees
  <2>1. j \notin kMoved /\ ~ Tainted(j) /\ kJobs'[j] = kJobs[j]
    BY <1>5
  <2> QED BY <1>2, <2>1 DEF RowsAgree, JobAgrees
<1> QED BY <1>3, <1>4, <1>6 DEF RowsAgree

LEMMA JobSettlesStep ==
  ASSUME RowsAgree, JobSettles
  PROVE  RowsAgree'
<1>1. /\ kCall.pc \in {"done", "failed"} /\ kCall' = NoJobCall /\ UNCHANGED <<kJobs, kRows, kMoved>>
      /\ IF kCall.kind = "queue" /\ kCall.pc = "failed" THEN UNCHANGED <<kRowsStale, kRowsFetch>>
         ELSE kRowsStale' = TRUE /\ kRowsFetch' = <<>>
  BY DEF JobSettles
<1>2. CallShaped'
  BY <1>1 DEF CallShaped, NoJobCall
<1>3. CASE kCall.kind = "queue" /\ kCall.pc = "failed"
  <2>1. \A j : ~ Tainted(j)
    BY <1>3 DEF Tainted
  <2> QED BY <1>1, <1>2, <1>3, <2>1 DEF RowsAgree, JobAgrees
<1>4. CASE ~ (kCall.kind = "queue" /\ kCall.pc = "failed")
  BY <1>1, <1>2, <1>4 DEF RowsAgree, JobAgrees
<1> QED BY <1>3, <1>4

LEMMA RowsStep ==
  ASSUME RowsAgree, NightNext
  PROVE  RowsAgree'
<1>1. ASSUME UNCHANGED <<kJobs, kRows, kRowsFetch, kMoved, kCall>>, kRowsStale' = kRowsStale \/ kRowsStale' = TRUE
      PROVE  RowsAgree'
  BY <1>1 DEF RowsAgree, CallShaped, JobAgrees, Tainted
<1>2. ASSUME NEW a, FlipSweep(a) \/ SweepHandled(a) \/ SweepSettles(a) PROVE RowsAgree'
  <2>1. UNCHANGED jobVars
    BY <1>2, Zenon DEF FlipSweep, SweepHandled, SweepSettles
  <2> QED BY <1>1, <2>1 DEF jobVars
<1>3. CASE OpenNight \/ LeaveNight \/ SweepsAnswered \/ SweepsArrive \/ SweptElsewhere \/ Compose
  BY <1>1, <1>3 DEF OpenNight, LeaveNight, SweepsAnswered, SweepsArrive, SweptElsewhere, Compose,
     nightVars, jobVars, RowsUntouched
<1>4. ASSUME NEW j, CancelJob(j) \/ StopJob(j) PROVE RowsAgree'
  BY <1>4, PressStep, Zenon DEF CancelJob, StopJob
<1>5. CASE QueueJob
  BY <1>5, PressStep, Zenon DEF QueueJob
<1>6. CASE JobMoves
  <2>1. PICK b \in DOMAIN kJobs : (\E to : kJobs' = [kJobs EXCEPT ![b] = to]) /\ kMoved' = kMoved \cup {b}
    BY <1>6, Zenon DEF JobMoves
  <2>2. UNCHANGED <<kCall, kRows, kRowsStale, kRowsFetch>>
    BY <1>6 DEF JobMoves, RowsUntouched
  <2>3. DOMAIN kJobs' = DOMAIN kJobs /\ \A j \in DOMAIN kJobs : j # b => kJobs'[j] = kJobs[j]
    BY <2>1
  <2> QED BY <2>1, <2>2, <2>3 DEF RowsAgree, CallShaped, JobAgrees, Tainted
<1>7. CASE JobsAnswered
  BY <1>7 DEF JobsAnswered, RowsAgree, CallShaped, JobAgrees, Tainted
<1>8. CASE JobsArrive
  BY <1>8 DEF JobsArrive, RowsAgree, CallShaped, JobAgrees, Tainted
<1> QED BY <1>2, <1>3, <1>4, <1>5, <1>6, <1>7, <1>8, JobHandledStep, JobSettlesStep, Zenon DEF NightNext

LEMMA NightKept ==
  ASSUME SweepsAgree, RowsAgree, [Next]_vars
  PROVE  SweepsAgree' /\ RowsAgree'
<1>1. CASE Next /\ scene = "night"
  BY <1>1, SweepsStep, RowsStep DEF Next, NightRuns
<1>2. CASE Next /\ scene # "night"
  <2>1. UNCHANGED nightVars
    BY <1>2, Zenon DEF Next, Template, Prompt, Profile, Focus, Launch, RunDetail, Presentation, pageVars
  <2>2. scene' # "night"
    BY <1>2, Scenic DEF ShellMoves
  <2> QED BY <2>1, <2>2 DEF SweepsAgree, SweepTypes, AgentAgrees, Night, RowsAgree, CallShaped, JobAgrees, Tainted,
             nightVars, sweepVars, jobVars
<1>3. CASE UNCHANGED vars
  BY <1>3 DEF SweepsAgree, SweepTypes, AgentAgrees, Night, RowsAgree, CallShaped, JobAgrees, Tainted,
     vars, shellVars, pageVars, nightVars, sweepVars, jobVars
<1> QED BY <1>1, <1>2, <1>3

\* However the switches of several agents, their failures and old answers overlap, a night
\* page at rest shows the server's switches and jobs. (NightPage.tsx:395-425, 57-65)
THEOREM NightAlwaysSettles == Spec => []NightSettles
<1>1. Init => SweepsAgree /\ RowsAgree
  <2> SUFFICES ASSUME Init PROVE SweepsAgree /\ RowsAgree
    OBVIOUS
  <2>1. /\ kSweeps = FirstSwitches /\ kShown = <<>> /\ kFetch = <<>> /\ page = "home"
        /\ kToggle = [a \in SweepAgents |-> Off]
        /\ kRows = <<>> /\ kRowsFetch = <<>> /\ kCall = NoJobCall
    BY DEF Init, NightInit, ShellInit
  <2>2. SweepTypes
    BY <2>1 DEF SweepTypes, FirstSwitches, Switches, Answers, Toggles, Off
  <2> QED BY <2>1, <2>2 DEF SweepsAgree, AgentAgrees, Night, RowsAgree, CallShaped, NoJobCall, JobAgrees
<1>2. SweepsAgree /\ RowsAgree => NightSettles
  BY DEF SweepsAgree, AgentAgrees, RowsAgree, JobAgrees, Tainted, NightSettles
<1> QED BY <1>1, <1>2, NightKept, PTL DEF Spec

(***************************************************************************)
(* The tabs of presentation mode: a key whose event is not on its way and    *)
(* whose last write went through is in the tab as it is in the storage.     *)
(***************************************************************************)
KeyAgrees(t, k) ==
  (vSnapshot[t] # <<>> /\ vEvents[t] = <<>> /\ <<t, k>> \notin vBlocked) => vSnapshot[t][1][k] = vStorage[k]
TabShapes ==
  /\ DOMAIN vStorage = StorageKeys /\ DOMAIN vSnapshot = Tabs /\ vEvents \in [Tabs -> Seq(StorageKeys)]
  /\ \A t \in Tabs : vSnapshot[t] # <<>> => DOMAIN vSnapshot[t][1] = StorageKeys
KeysAgree == TabShapes /\ \A t \in Tabs, k \in StorageKeys : KeyAgrees(t, k)

LEMMA PressTabs ==
  ASSUME KeysAgree, NEW tab \in Tabs, NEW key \in StorageKeys, NEW value, Press(tab, key, value)
  PROVE  KeysAgree'
<1> DEFINE mine == [vSnapshot[tab][1] EXCEPT ![key] = value]
<1>1. vSnapshot[tab] # <<>> /\ vSnapshot' = [vSnapshot EXCEPT ![tab] = <<mine>>]
  BY DEF Press, Snapshot
<1>2. vSnapshot'[tab] = <<mine>> /\ DOMAIN vSnapshot' = Tabs /\ \A t \in Tabs \ {tab} : vSnapshot'[t] = vSnapshot[t]
  BY <1>1 DEF KeysAgree, TabShapes
<1>3. DOMAIN mine = StorageKeys /\ mine[key] = value /\ \A k \in StorageKeys \ {key} : mine[k] = vSnapshot[tab][1][k]
  BY <1>1 DEF KeysAgree, TabShapes
<1>4. \A t \in Tabs : vSnapshot'[t] # <<>> => DOMAIN vSnapshot'[t][1] = StorageKeys
  BY <1>2, <1>3 DEF KeysAgree, TabShapes
<1>5. CASE /\ vStorage' = [vStorage EXCEPT ![key] = value] /\ vBlocked' = vBlocked \ {<<tab, key>>}
           /\ vEvents' = [t \in Tabs |-> IF t = tab \/ vSnapshot[t] = <<>> \/ vStorage[key] = value THEN vEvents[t]
                                         ELSE Append(vEvents[t], key)]
  <2>1. /\ DOMAIN vStorage' = StorageKeys /\ vStorage'[key] = value
        /\ \A k \in StorageKeys \ {key} : vStorage'[k] = vStorage[k]
    BY <1>5 DEF KeysAgree, TabShapes
  <2>2. \A t \in Tabs : /\ vEvents[t] \in Seq(StorageKeys) /\ Append(vEvents[t], key) \in Seq(StorageKeys)
                        /\ Append(vEvents[t], key) # <<>>
    BY AppendProperties, EmptySeq DEF KeysAgree, TabShapes
  <2>3. vEvents' \in [Tabs -> Seq(StorageKeys)]
    BY <1>5, <2>2
  <2>4. ASSUME NEW t \in Tabs, NEW k \in StorageKeys PROVE KeyAgrees(t, k)'
    <3> SUFFICES ASSUME vSnapshot'[t] # <<>>, vEvents'[t] = <<>>, <<t, k>> \notin vBlocked'
                 PROVE  vSnapshot'[t][1][k] = vStorage'[k]
      BY DEF KeyAgrees
    <3>1. CASE t = tab /\ k = key
      BY <1>2, <1>3, <2>1, <3>1
    <3>2. CASE t = tab /\ k # key
      <4>1. vEvents[t] = <<>> /\ <<t, k>> \notin vBlocked
        BY <1>5, <3>2
      <4>2. vSnapshot[t][1][k] = vStorage[k]
        BY <1>1, <3>2, <4>1 DEF KeysAgree, KeyAgrees
      <4> QED BY <1>2, <1>3, <2>1, <3>2, <4>2
    <3>3. CASE t # tab
      <4>1. vSnapshot'[t] = vSnapshot[t] /\ vSnapshot[t] # <<>>
        BY <1>2, <3>3
      <4>2. vStorage[key] = value /\ vEvents[t] = <<>>
        BY <1>5, <2>2, <3>3, <4>1
      <4>3. <<t, k>> \notin vBlocked
        BY <1>5, <3>3
      <4>4. vSnapshot[t][1][k] = vStorage[k]
        BY <4>1, <4>2, <4>3 DEF KeysAgree, KeyAgrees
      <4> QED BY <2>1, <4>1, <4>2, <4>4
    <3> QED BY <3>1, <3>2, <3>3
  <2> QED BY <1>2, <1>4, <2>1, <2>3, <2>4 DEF KeysAgree, TabShapes
<1>6. CASE vBlocked' = vBlocked \cup {<<tab, key>>} /\ UNCHANGED <<vStorage, vEvents>>
  <2>1. ASSUME NEW t \in Tabs, NEW k \in StorageKeys PROVE KeyAgrees(t, k)'
    <3> SUFFICES ASSUME vSnapshot'[t] # <<>>, vEvents[t] = <<>>, <<t, k>> \notin vBlocked, <<t, k>> # <<tab, key>>
                 PROVE  vSnapshot'[t][1][k] = vStorage[k]
      BY <1>6 DEF KeyAgrees
    <3>1. vSnapshot[t] # <<>> => vSnapshot[t][1][k] = vStorage[k]
      BY DEF KeysAgree, KeyAgrees
    <3> QED BY <1>1, <1>2, <1>3, <3>1
  <2> QED BY <1>2, <1>4, <1>6, <2>1 DEF KeysAgree, TabShapes
<1> QED BY <1>5, <1>6 DEF Press

\* A tab that reads the storage whole agrees with it in both keys.
LEMMA ReadTabs ==
  ASSUME KeysAgree, NEW tab \in Tabs, UNCHANGED vStorage, vSnapshot' = [vSnapshot EXCEPT ![tab] = <<vStorage>>],
         vEvents' \in [Tabs -> Seq(StorageKeys)], \A t \in Tabs \ {tab} : vEvents'[t] = vEvents[t],
         \A t \in Tabs \ {tab}, k \in StorageKeys : <<t, k>> \in vBlocked => <<t, k>> \in vBlocked'
  PROVE  KeysAgree'
<1>1. vSnapshot'[tab] = <<vStorage>> /\ DOMAIN vSnapshot' = Tabs /\ \A t \in Tabs \ {tab} : vSnapshot'[t] = vSnapshot[t]
  BY DEF KeysAgree, TabShapes
<1>2. TabShapes'
  BY <1>1 DEF KeysAgree, TabShapes
<1>3. ASSUME NEW t \in Tabs, NEW k \in StorageKeys PROVE KeyAgrees(t, k)'
  BY <1>1 DEF KeysAgree, KeyAgrees
<1> QED BY <1>2, <1>3 DEF KeysAgree

LEMMA TabsStep ==
  ASSUME KeysAgree, VisibilityNext
  PROVE  KeysAgree'
<1>0. "presenting" \in StorageKeys /\ "hidden" \in StorageKeys
  BY DEF StorageKeys
<1>1. ASSUME NEW tab \in Tabs, OpenTab(tab) PROVE KeysAgree'
  BY <1>1, ReadTabs DEF OpenTab, KeysAgree, TabShapes
<1>2. ASSUME NEW tab \in Tabs, SetPresenting(tab) PROVE KeysAgree'
  BY <1>0, <1>2, PressTabs, Zenon DEF SetPresenting
<1>3. ASSUME NEW tab \in Tabs, NEW name, NEW hide, SetAgentHidden(tab, name, hide) PROVE KeysAgree'
  BY <1>0, <1>3, PressTabs, Zenon DEF SetAgentHidden
<1>4. ASSUME NEW tab \in Tabs, StorageEvent(tab) PROVE KeysAgree'
  <2>1. /\ vEvents[tab] # <<>> /\ vEvents' = [vEvents EXCEPT ![tab] = Tail(@)] /\ UNCHANGED vStorage
        /\ vBlocked' = vBlocked \ ({tab} \X StorageKeys)
    BY <1>4 DEF StorageEvent
  <2>2. vEvents[tab] \in Seq(StorageKeys)
    BY DEF KeysAgree, TabShapes
  <2>3. Head(vEvents[tab]) \in StorageKeys /\ Tail(vEvents[tab]) \in Seq(StorageKeys)
    BY <2>1, <2>2
  <2>4. vSnapshot' = [vSnapshot EXCEPT ![tab] = <<vStorage>>]
    BY <1>4, <2>3 DEF StorageEvent, Hears
  <2>5. vEvents' \in [Tabs -> Seq(StorageKeys)] /\ \A t \in Tabs \ {tab} : vEvents'[t] = vEvents[t]
    BY <2>1, <2>3 DEF KeysAgree, TabShapes
  <2>6. \A t \in Tabs \ {tab}, k \in StorageKeys : <<t, k>> \in vBlocked => <<t, k>> \in vBlocked'
    BY <2>1
  <2> QED BY <2>1, <2>4, <2>5, <2>6, ReadTabs
<1>5. ASSUME NEW tab \in Tabs, ReloadTab(tab) PROVE KeysAgree'
  <2>1. /\ vSnapshot' = [vSnapshot EXCEPT ![tab] = <<vStorage>>] /\ UNCHANGED vStorage
        /\ vEvents' = [vEvents EXCEPT ![tab] = <<>>] /\ vBlocked' = vBlocked \ ({tab} \X StorageKeys)
    BY <1>5 DEF ReloadTab
  <2>2. vEvents' \in [Tabs -> Seq(StorageKeys)] /\ \A t \in Tabs \ {tab} : vEvents'[t] = vEvents[t]
    <3>1. <<>> \in Seq(StorageKeys)
      BY EmptySeq
    <3> QED BY <2>1, <3>1 DEF KeysAgree, TabShapes
  <2>3. \A t \in Tabs \ {tab}, k \in StorageKeys : <<t, k>> \in vBlocked => <<t, k>> \in vBlocked'
    BY <2>1
  <2> QED BY <2>1, <2>2, <2>3, ReadTabs
<1> QED BY <1>1, <1>2, <1>3, <1>4, <1>5, Zenon DEF VisibilityNext

\* Whatever presses in several tabs overlap: once every event is delivered, the tabs whose
\* writes went through render what the storage lets them. (visibility.ts:65-96)
THEOREM TabsAlwaysAgree == Spec => []TabsAgree
<1>1. Init => KeysAgree
  BY EmptySeq DEF Init, VisibilityInit, KeysAgree, TabShapes, KeyAgrees, StorageKeys
<1>2. KeysAgree /\ [Next]_vars => KeysAgree'
  <2> SUFFICES ASSUME KeysAgree, [Next]_vars PROVE KeysAgree'
    OBVIOUS
  <2>1. CASE VisibilityNext
    BY <2>1, TabsStep
  <2>2. CASE UNCHANGED visibilityVars
    BY <2>2 DEF KeysAgree, TabShapes, KeyAgrees, visibilityVars
  <2> QED BY <2>1, <2>2, Zenon DEF Next, Template, Prompt, Profile, Focus, Launch, RunDetail, NightRuns,
                                Presentation, vars, pageVars
<1>3. KeysAgree => TabsAgree
  <2> SUFFICES ASSUME KeysAgree, \A t \in Tabs : vEvents[t] = <<>>, NEW t \in Tabs \ {b[1] : b \in vBlocked}
               PROVE  Rendered(t) = {name \in DOMAIN Agents : IsAgentVisible(name, vStorage)}
    BY DEF TabsAgree
  <2>1. \A k \in StorageKeys : <<t, k>> \notin vBlocked
    OBVIOUS
  <2>2. \A k \in StorageKeys : Snapshot(t)[k] = vStorage[k]
    BY <2>1 DEF KeysAgree, KeyAgrees, Snapshot
  <2>3. Snapshot(t).presenting = vStorage.presenting /\ Snapshot(t).hidden = vStorage.hidden
    BY <2>2 DEF StorageKeys
  <2> QED BY <2>3, Zenon DEF Rendered, IsAgentVisible
<1> QED BY <1>1, <1>2, <1>3, PTL DEF Spec

(***************************************************************************)
(* The prompts. A deleted node has no files, so a node made again under its *)
(* name starts with none of its versions.                                   *)
(***************************************************************************)
Filed(files) == ToSet(files.body) \cup {v.body : v \in ToSet(files.versions)}
FileShapes ==
  /\ DOMAIN pServer = {"def", "body", "versions", "runtime"}
  /\ pServer.body \in Seq(ToSet(pServer.body)) /\ pServer.versions \in Seq(ToSet(pServer.versions))
PromptsKept ==
  /\ FileShapes
  /\ IF pServer.def THEN Filed(pServer) = pHeld ELSE pServer = NoFiles

\* A sequence is one over what it lists.
LEMMA OverItself ==
  ASSUME NEW S, NEW s \in Seq(S)
  PROVE  s \in Seq(ToSet(s)) /\ ToSet(s) \subseteq S
<1>1. ToSet(s) = {s[i] : i \in 1..Len(s)} /\ Len(s) \in Nat /\ s \in [1..Len(s) -> S]
  BY LenProperties DEF ToSet
<1>2. s \in [1..Len(s) -> ToSet(s)]
  BY <1>1
<1> QED BY <1>1, <1>2, SeqDef

LEMMA ListedConcat ==
  ASSUME NEW S, NEW s \in Seq(S), NEW t \in Seq(S)
  PROVE  s \o t \in Seq(S) /\ ToSet(s \o t) = ToSet(s) \cup ToSet(t)
<1>1. /\ s \o t \in Seq(S) /\ Len(s \o t) = Len(s) + Len(t)
      /\ \A i \in 1..Len(s) + Len(t) : (s \o t)[i] = IF i <= Len(s) THEN s[i] ELSE t[i - Len(s)]
  BY ConcatProperties
<1>2. /\ Len(s) \in Nat /\ Len(t) \in Nat
      /\ ToSet(s) = {s[i] : i \in 1..Len(s)} /\ ToSet(t) = {t[i] : i \in 1..Len(t)}
      /\ ToSet(s \o t) = {(s \o t)[i] : i \in 1..Len(s \o t)}
  BY <1>1, LenProperties DEF ToSet
<1>3. ASSUME NEW x \in ToSet(s \o t) PROVE x \in ToSet(s) \cup ToSet(t)
  <2>1. PICK i \in 1..Len(s) + Len(t) : x = (s \o t)[i]
    BY <1>1, <1>2
  <2>2. CASE i <= Len(s)
    BY <1>1, <1>2, <2>1, <2>2
  <2>3. CASE i > Len(s)
    <3>1. i - Len(s) \in 1..Len(t) /\ x = t[i - Len(s)]
      BY <1>1, <1>2, <2>1, <2>3
    <3> QED BY <1>2, <3>1
  <2> QED BY <1>2, <2>2, <2>3
<1>4. ASSUME NEW x \in ToSet(s) PROVE x \in ToSet(s \o t)
  <2>1. PICK i \in 1..Len(s) : x = s[i]
    BY <1>2
  <2>2. i \in 1..Len(s) + Len(t) /\ (s \o t)[i] = x
    BY <1>1, <1>2, <2>1
  <2> QED BY <1>1, <1>2, <2>2
<1>5. ASSUME NEW x \in ToSet(t) PROVE x \in ToSet(s \o t)
  <2>1. PICK i \in 1..Len(t) : x = t[i]
    BY <1>2
  <2>2. i + Len(s) \in 1..Len(s) + Len(t) /\ (s \o t)[i + Len(s)] = x
    BY <1>1, <1>2, <2>1
  <2> QED BY <1>1, <1>2, <2>2
<1> QED BY <1>1, <1>3, <1>4, <1>5

\* Writing a body keeps every body there was, and is the body now.
LEMMA ArchivedKeeps ==
  ASSUME NEW body, FileShapes
  PROVE  LET files == Archived(pServer, body)
         IN  /\ files.def = pServer.def /\ DOMAIN files = {"def", "body", "versions", "runtime"}
             /\ files.body \in Seq(ToSet(files.body)) /\ files.versions \in Seq(ToSet(files.versions))
             /\ Filed(files) = Filed(pServer) \cup {body}
<1> DEFINE files == Archived(pServer, body)
<1> DEFINE old == [k \in DOMAIN pServer.body |-> [id |-> pClock, body |-> pServer.body[k]]]
<1>1. CASE pServer.body = <<body>>
  <2>1. files = pServer
    BY <1>1 DEF Archived
  <2>2. body \in ToSet(pServer.body)
    BY <1>1 DEF ToSet
  <2> QED BY <2>1, <2>2 DEF FileShapes, Filed
<1>2. CASE pServer.body # <<body>>
  <2>1. files = [pServer EXCEPT !.body = <<body>>, !.versions = @ \o old]
    BY <1>2 DEF Archived
  <2>2. /\ files.def = pServer.def /\ files.body = <<body>> /\ files.versions = pServer.versions \o old
        /\ DOMAIN files = {"def", "body", "versions", "runtime"}
    BY <2>1 DEF FileShapes
  <2>3. /\ Len(pServer.body) \in Nat /\ DOMAIN pServer.body = 1..Len(pServer.body)
    BY LenProperties DEF FileShapes
  <2> DEFINE S == ToSet(pServer.versions) \cup {old[k] : k \in DOMAIN old}
  <2>4. pServer.versions \in Seq(S) /\ old \in Seq(S)
    <3>1. pServer.versions \in Seq(S)
      BY SeqMonotonic DEF FileShapes
    <3>2. old \in [1..Len(pServer.body) -> S]
      BY <2>3
    <3> QED BY <2>3, <3>1, <3>2, SeqDef
  <2>5. ToSet(old) = {[id |-> pClock, body |-> b] : b \in ToSet(pServer.body)}
    BY DEF ToSet
  <2>6. /\ files.versions \in Seq(ToSet(files.versions))
        /\ ToSet(files.versions) = ToSet(pServer.versions) \cup ToSet(old)
    <3> HIDE DEF files, old, S
    <3>1. /\ pServer.versions \o old \in Seq(S)
          /\ ToSet(pServer.versions \o old) = ToSet(pServer.versions) \cup ToSet(old)
      BY <2>4, ListedConcat
    <3>2. pServer.versions \o old \in Seq(ToSet(pServer.versions \o old))
      BY <3>1, OverItself
    <3> QED BY <2>2, <3>1, <3>2
  <2>7. files.body \in Seq(ToSet(files.body)) /\ ToSet(files.body) = {body}
    <3>1. <<body>> \in Seq({body}) /\ ToSet(<<body>>) = {body}
      BY DEF ToSet
    <3> QED BY <2>2, <3>1
  <2>8. {v.body : v \in ToSet(old)} = ToSet(pServer.body)
    <3> HIDE DEF old
    <3>1. ASSUME NEW b \in ToSet(pServer.body) PROVE \E v \in ToSet(old) : v.body = b
      <4>1. [id |-> pClock, body |-> b] \in ToSet(old) /\ [id |-> pClock, body |-> b].body = b
        BY <2>5
      <4> QED BY <4>1, Zenon
    <3>2. \A v \in ToSet(old) : v.body \in ToSet(pServer.body)
      BY <2>5
    <3> QED BY <3>1, <3>2
  <2>9. Filed(files) = Filed(pServer) \cup {body}
    BY <2>6, <2>7, <2>8 DEF Filed
  <2> QED BY <2>2, <2>6, <2>7, <2>9
<1> QED BY <1>1, <1>2

LEMMA NoFilesFiled == Filed(NoFiles) = {}
BY DEF Filed, NoFiles, ToSet

\* A body written to a node there is: by a save, a restore, a proposal or another tab.
LEMMA SavedKeeps ==
  ASSUME PromptsKept, pServer.def, NEW body, SavePromptBody(body)
  PROVE  PromptsKept'
<1>1. pServer' = Archived(pServer, body) /\ pHeld' = pHeld \cup {body}
  BY DEF SavePromptBody
<1>2. FileShapes /\ Filed(pServer) = pHeld
  BY DEF PromptsKept
<1>3. FileShapes' /\ pServer'.def = pServer.def /\ Filed(pServer') = Filed(pServer) \cup {body}
  BY <1>1, <1>2, ArchivedKeeps DEF FileShapes
<1> QED BY <1>1, <1>2, <1>3 DEF PromptsKept, Filed

LEMMA ServerKeeps ==
  ASSUME PromptsKept, NEW kind, NEW arg, ServerDoes(kind, arg)
  PROVE  PromptsKept'
<1>1. CASE CreateNode(arg)
  <2>1. ~ pServer.def /\ pServer = NoFiles /\ FileShapes
    BY <1>1 DEF CreateNode, PromptsKept
  <2> DEFINE files == Archived(pServer, arg)
  <2>2. /\ DOMAIN files = {"def", "body", "versions", "runtime"}
        /\ files.body \in Seq(ToSet(files.body)) /\ files.versions \in Seq(ToSet(files.versions))
        /\ Filed(files) = {arg}
    BY <2>1, ArchivedKeeps, NoFilesFiled
  <2>3. pServer' = [files EXCEPT !.def = TRUE] /\ pHeld' = {arg}
    BY <1>1 DEF CreateNode
  <2> HIDE DEF files
  <2>4. /\ pServer'.def = TRUE /\ pServer'.body = files.body /\ pServer'.versions = files.versions
        /\ DOMAIN pServer' = {"def", "body", "versions", "runtime"}
    BY <2>2, <2>3
  <2> QED BY <2>2, <2>3, <2>4 DEF PromptsKept, FileShapes, Filed
<1>2. CASE pServer.def /\ kind = "save" /\ SavePromptBody(arg)
  BY <1>2, SavedKeeps
<1>3. CASE pServer.def /\ kind = "restore" /\ RestorePrompt(arg)
  BY <1>3, SavedKeeps, Zenon DEF RestorePrompt
<1>4. CASE pServer.def /\ kind = "runtime" /\ SaveNodeRuntime(arg)
  <2>1. pServer' = [pServer EXCEPT !.runtime = arg] /\ pHeld' = pHeld
    BY <1>4 DEF SaveNodeRuntime
  <2>2. /\ pServer'.def = pServer.def /\ pServer'.body = pServer.body /\ pServer'.versions = pServer.versions
        /\ DOMAIN pServer' = DOMAIN pServer
    BY <2>1 DEF PromptsKept, FileShapes
  <2> QED BY <1>4, <2>1, <2>2 DEF PromptsKept, FileShapes, Filed
<1>5. CASE pServer.def /\ kind = "remove" /\ DeleteNode
  <2>1. pServer' = NoFiles
    BY <1>5 DEF DeleteNode, Deleted
  <2>2. NoFiles.body \in Seq(ToSet(NoFiles.body)) /\ NoFiles.versions \in Seq(ToSet(NoFiles.versions))
    BY EmptySeq DEF NoFiles
  <2>3. DOMAIN NoFiles = {"def", "body", "versions", "runtime"} /\ NoFiles.def = FALSE
    BY DEF NoFiles
  <2> QED BY <2>1, <2>2, <2>3 DEF PromptsKept, FileShapes
<1> QED BY <1>1, <1>2, <1>3, <1>4, <1>5, Zenon DEF ServerDoes

LEMMA PromptsStep ==
  ASSUME PromptsKept, PromptNext
  PROVE  PromptsKept'
<1>0. ASSUME UNCHANGED serverVars PROVE PromptsKept'
  BY <1>0 DEF serverVars, PromptsKept, FileShapes, Filed
<1>1. ASSUME PromptPage PROVE UNCHANGED serverVars
  BY <1>1, Zenon DEF PromptPage, OpenNode, BackToLibrary, SwitchTab, TypePrompt, TypeRuntime,
     SavePrompt, RevertPrompt, RestoreVersion, SaveRuntime, ResetRuntime, RemoveNodeDef, Send, KeepRemote
<1>2. ASSUME NodeCreator \/ OpenNodes \/ LeaveNodes \/ PromptAnswered \/ PromptArrives \/ NodeRefetch
      PROVE  UNCHANGED serverVars
  BY <1>2, Zenon DEF NodeCreator, OpenCreator, TypeDef, SendDef, Send, KeepRemote, OpenNodes, LeaveNodes,
     PromptAnswered, PromptArrives, NodeRefetch
<1>3. ASSUME PromptSaved \/ RuntimeSaved \/ NodeRemoved \/ NodeCreated PROVE UNCHANGED serverVars
  BY <1>3, Zenon DEF PromptSaved, RuntimeSaved, NodeRemoved, NodeCreated
<1>4. CASE OtherPrompt
  BY <1>4, SavedKeeps, Zenon DEF OtherPrompt
<1>5. ASSUME NEW kind, PromptCallHandled(kind) PROVE PromptsKept'
  BY <1>0, <1>5, ServerKeeps, Zenon DEF PromptCallHandled
<1> QED BY <1>0, <1>1, <1>2, <1>3, <1>4, <1>5, Zenon DEF PromptNext

\* Every body a node has had is its prompt or one of its versions, and no version is of a
\* node deleted before it, in whatever order the calls arrive. (savePromptBody; nodedefs.go)
THEOREM PromptsAlwaysRecoverable == Spec => []PromptsRecoverable
<1>1. Init => PromptsKept
  <2> SUFFICES ASSUME Init PROVE PromptsKept
    OBVIOUS
  <2>1. PICK body : pServer = [NoFiles EXCEPT !.def = TRUE, !.body = <<body>>] /\ pHeld = {body}
    BY Zenon DEF Init, PromptInit
  <2>2. /\ pServer.def = TRUE /\ pServer.body = <<body>> /\ pServer.versions = <<>>
        /\ DOMAIN pServer = {"def", "body", "versions", "runtime"}
    BY <2>1 DEF NoFiles
  <2>3. /\ <<body>> \in Seq({body}) /\ ToSet(<<body>>) = {body}
        /\ <<>> \in Seq(ToSet(<<>>)) /\ ToSet(<<>>) = {}
    BY EmptySeq DEF ToSet
  <2> QED BY <2>1, <2>2, <2>3 DEF PromptsKept, FileShapes, Filed
<1>2. PromptsKept /\ [Next]_vars => PromptsKept'
  <2> SUFFICES ASSUME PromptsKept, [Next]_vars PROVE PromptsKept'
    OBVIOUS
  <2>1. ASSUME UNCHANGED promptVars PROVE PromptsKept'
    BY <2>1 DEF promptVars, PromptsKept, FileShapes, Filed
  <2> QED BY <2>1, PromptsStep, Zenon DEF Next, Template, Prompt, Profile, Focus, Launch, RunDetail, NightRuns,
                                          Presentation, vars, editorVars
<1>3. PromptsKept => PromptsRecoverable
  BY DEF PromptsKept, Filed, PromptsRecoverable
<1> QED BY <1>1, <1>2, <1>3, PTL DEF Spec

(***************************************************************************)
(* Undo and redo. The line of shapes as Timeline sees it, and what each of  *)
(* the editor's three moves along it does.                                  *)
(***************************************************************************)
LineOf(past, x, future) == past \o <<x>> \o Reverse(future)

LEMMA LineIs ==
  ASSUME NEW S, NEW past \in Seq(S), NEW x \in S, NEW future \in Seq(S)
  PROVE  LET line == LineOf(past, x, future)
         IN  /\ line \in Seq(S) /\ Len(line) = Len(past) + 1 + Len(future)
             /\ \A i \in 1..Len(line) :
                  line[i] = IF i <= Len(past) THEN past[i] ELSE IF i = Len(past) + 1 THEN x
                            ELSE future[Len(past) + Len(future) + 2 - i]
<1> DEFINE back == Reverse(future)
<1> DEFINE head == past \o <<x>>
<1>1. Len(past) \in Nat /\ Len(future) \in Nat
  BY LenProperties
<1>2. /\ back \in Seq(S) /\ Len(back) = Len(future)
      /\ \A i \in 1..Len(future) : back[i] = future[Len(future) - i + 1]
  <2>1. back = [i \in 1..Len(future) |-> future[(Len(future) - i) + 1]]
    BY DEF Reverse
  <2>2. \A i \in 1..Len(future) : future[(Len(future) - i) + 1] \in S
    BY <1>1, ElementOfSeq
  <2>3. back \in [1..Len(future) -> S]
    BY <2>1, <2>2
  <2>4. back \in Seq(S)
    BY <1>1, <2>3, SeqDef
  <2>5. Len(back) = Len(future)
    BY <1>1, <2>3, <2>4, LenProperties
  <2> QED BY <2>1, <2>4, <2>5
<1>3. /\ head \in Seq(S) /\ Len(head) = Len(past) + 1
      /\ \A i \in 1..Len(past) + 1 : head[i] = IF i <= Len(past) THEN past[i] ELSE x
  <2>1. <<x>> \in Seq(S) /\ Len(<<x>>) = 1 /\ <<x>>[1] = x
    OBVIOUS
  <2>2. /\ head \in Seq(S) /\ Len(head) = Len(past) + 1
        /\ \A i \in 1..Len(past) + 1 : head[i] = IF i <= Len(past) THEN past[i] ELSE <<x>>[i - Len(past)]
    BY <2>1, ConcatProperties
  <2>3. \A i \in 1..Len(past) + 1 : i > Len(past) => i - Len(past) = 1
    BY <1>1
  <2> QED BY <2>1, <2>2, <2>3
<1> HIDE DEF back, head
<1>4. /\ head \o back \in Seq(S) /\ Len(head \o back) = Len(head) + Len(back)
      /\ \A i \in 1..Len(head) + Len(back) :
           (head \o back)[i] = IF i <= Len(head) THEN head[i] ELSE back[i - Len(head)]
  <2>1. head \in Seq(S) /\ back \in Seq(S)
    BY <1>2, <1>3
  <2> QED BY ONLY <2>1, ConcatProperties
<1>5. LineOf(past, x, future) = head \o back
  BY DEF LineOf, head, back
<1>6. ASSUME NEW i \in 1..Len(past) + 1 + Len(future)
      PROVE  (head \o back)[i] = IF i <= Len(past) THEN past[i] ELSE IF i = Len(past) + 1 THEN x
                                 ELSE future[Len(past) + Len(future) + 2 - i]
  <2>1. CASE i <= Len(past) + 1
    <3>1. (head \o back)[i] = head[i]
      BY <1>1, <1>2, <1>3, <1>4, <2>1
    <3>2. head[i] = IF i <= Len(past) THEN past[i] ELSE x
      BY <1>1, <1>3, <2>1
    <3> QED BY <1>1, <2>1, <3>1, <3>2
  <2>2. CASE i > Len(past) + 1
    <3> DEFINE k == i - (Len(past) + 1)
    <3>1. k \in 1..Len(future) /\ Len(future) - k + 1 = Len(past) + Len(future) + 2 - i
      BY <1>1, <2>2
    <3>2. (head \o back)[i] = back[k]
      BY <1>1, <1>2, <1>3, <1>4, <2>2
    <3>3. back[k] = future[Len(past) + Len(future) + 2 - i]
      BY <1>2, <3>1
    <3> QED BY <1>1, <2>2, <3>2, <3>3
  <2>3. i <= Len(past) + 1 \/ i > Len(past) + 1
    BY <1>1
  <2> QED BY <2>1, <2>2, <2>3, Zenon
<1> QED BY <1>2, <1>3, <1>4, <1>5, <1>6

\* With nothing ahead the shape on show ends the line.
LEMMA LineEnd ==
  ASSUME NEW S, NEW past \in Seq(S), NEW x \in S, NEW none, none = <<>>
  PROVE  /\ LineOf(past, x, none) \in Seq(S)
         /\ Len(LineOf(past, x, none)) = Len(past) + 1
         /\ \A i \in 1..Len(past) : LineOf(past, x, none)[i] = past[i]
         /\ LineOf(past, x, none)[Len(past) + 1] = x
<1> DEFINE line == LineOf(past, x, none)
<1> DEFINE p == Len(past)
<1>1. none \in Seq(S) /\ Len(none) = 0 /\ p \in Nat
  BY EmptySeq, LenProperties
<1>2. /\ line \in Seq(S) /\ Len(line) = p + 1 + Len(none)
      /\ \A i \in 1..Len(line) : line[i] = IF i <= p THEN past[i] ELSE IF i = p + 1 THEN x
                                           ELSE none[p + Len(none) + 2 - i]
  <2>1. past \in Seq(S) /\ x \in S /\ none \in Seq(S)
    BY <1>1
  <2> QED BY ONLY <2>1, LineIs
<1> HIDE DEF line, p
<1>3. Len(line) = p + 1
  BY <1>1, <1>2
<1>4. (\A i \in 1..p : line[i] = past[i]) /\ line[p + 1] = x
  BY <1>1, <1>2, <1>3
<1> QED BY <1>2, <1>3, <1>4 DEF line, p

\* A fresh history is a line of one shape.
LEMMA LineOfOne ==
  ASSUME NEW x
  PROVE  Len(LineOf(<<>>, x, <<>>)) = 1
<1> DEFINE S == {x}
<1> DEFINE none == <<>>
<1>1. none \in Seq(S) /\ Len(none) = 0 /\ x \in S
  BY EmptySeq
<1>2. none = <<>>
  OBVIOUS
<1> HIDE DEF S, none
<1>3. Len(LineOf(none, x, none)) = Len(none) + 1
  BY ONLY <1>1, <1>2, LineEnd
<1>4. Len(LineOf(none, x, none)) = 1
  BY <1>1, <1>3
<1> QED BY <1>4 DEF none

LEMMA FrontLast ==
  ASSUME NEW S, NEW s \in Seq(S), s # <<>>
  PROVE  /\ Front(s) \in Seq(S) /\ Len(Front(s)) = Len(s) - 1 /\ Len(s) \in Nat \ {0}
         /\ \A i \in 1..Len(s) - 1 : Front(s)[i] = s[i]
         /\ Last(s) = s[Len(s)] /\ Last(s) \in S
<1>1. Len(s) \in Nat \ {0}
  BY EmptySeq
<1>2. \A i \in 1..Len(s) - 1 : s[i] \in S
  BY <1>1, ElementOfSeq
<1>3. /\ SubSeq(s, 1, Len(s) - 1) \in Seq(S)
      /\ Len(SubSeq(s, 1, Len(s) - 1)) = IF 1 <= Len(s) - 1 THEN Len(s) - 1 - 1 + 1 ELSE 0
      /\ \A i \in 1..Len(s) - 1 - 1 + 1 : SubSeq(s, 1, Len(s) - 1)[i] = s[1 + i - 1]
  BY <1>1, <1>2, SubSeqProperties
<1>4. s[Len(s)] \in S
  BY <1>1, ElementOfSeq
<1>5. Front(s) = SubSeq(s, 1, Len(s) - 1) /\ Last(s) = s[Len(s)]
  BY Zenon DEF Front, Last
<1>6. Len(Front(s)) = Len(s) - 1
  <2> DEFINE n == Len(s)
  <2> DEFINE cut == SubSeq(s, 1, n - 1)
  <2>1. n \in Nat \ {0} /\ Len(cut) = IF 1 <= n - 1 THEN n - 1 - 1 + 1 ELSE 0
    BY <1>1, <1>3
  <2>2. Front(s) = cut
    BY <1>5
  <2> HIDE DEF n, cut
  <2>3. Len(Front(s)) = n - 1
    BY <2>1, <2>2
  <2> QED BY <2>3 DEF n
<1>7. \A i \in 1..Len(s) - 1 : Front(s)[i] = s[i]
  BY <1>1, <1>3, <1>5
<1> QED BY <1>1, <1>3, <1>4, <1>5, <1>6, <1>7

\* Undo: the shape goes ahead, the last one behind takes its place.
LEMMA WalkBack ==
  ASSUME NEW S, NEW past \in Seq(S), NEW x \in S, NEW future \in Seq(S), past # <<>>
  PROVE  LineOf(Front(past), Last(past), Append(future, x)) = LineOf(past, x, future)
<1> DEFINE p == Len(past)
<1> DEFINE f == Len(future)
<1> DEFINE ahead == Append(future, x)
<1> DEFINE old == LineOf(past, x, future)
<1> DEFINE new == LineOf(Front(past), Last(past), ahead)
<1>1. p \in Nat \ {0} /\ f \in Nat
  BY EmptySeq, LenProperties
<1>2. /\ Front(past) \in Seq(S) /\ Len(Front(past)) = p - 1 /\ Last(past) = past[p] /\ Last(past) \in S
      /\ \A i \in 1..p - 1 : Front(past)[i] = past[i]
  BY FrontLast
<1>3. /\ ahead \in Seq(S) /\ Len(ahead) = f + 1 /\ ahead[f + 1] = x
      /\ \A i \in 1..f : ahead[i] = future[i]
  BY AppendProperties
<1>4. /\ old \in Seq(S) /\ Len(old) = p + 1 + f
      /\ \A i \in 1..Len(old) : old[i] = IF i <= p THEN past[i] ELSE IF i = p + 1 THEN x ELSE future[p + f + 2 - i]
  BY LineIs
<1>5. /\ new \in Seq(S) /\ Len(new) = Len(Front(past)) + 1 + Len(ahead)
      /\ \A i \in 1..Len(new) :
           new[i] = IF i <= Len(Front(past)) THEN Front(past)[i] ELSE IF i = Len(Front(past)) + 1 THEN Last(past)
                    ELSE ahead[Len(Front(past)) + Len(ahead) + 2 - i]
  <2> HIDE DEF ahead
  <2> QED BY <1>2, <1>3, LineIs, SMTT(30)
<1> HIDE DEF p, f, ahead, old, new
<1>6. Len(new) = p + 1 + f
  BY <1>1, <1>2, <1>3, <1>5
<1>7. ASSUME NEW i \in 1..p + 1 + f PROVE old[i] = new[i]
  <2>1. CASE i <= p - 1
    <3>1. new[i] = Front(past)[i] /\ old[i] = past[i]
      BY <1>1, <1>2, <1>4, <1>5, <1>6, <2>1
    <3> QED BY <1>1, <1>2, <2>1, <3>1
  <2>2. CASE i = p
    BY <1>1, <1>2, <1>4, <1>5, <1>6, <2>2
  <2>3. CASE i = p + 1
    <3>1. new[i] = ahead[(p - 1) + (f + 1) + 2 - i]
      BY <1>1, <1>2, <1>3, <1>5, <1>6, <2>3
    <3> QED BY <1>1, <1>3, <1>4, <2>3, <3>1
  <2>4. CASE i > p + 1
    <3>1. new[i] = ahead[(p - 1) + (f + 1) + 2 - i]
      BY <1>1, <1>2, <1>3, <1>5, <1>6, <2>4, SMTT(30)
    <3>2. (p - 1) + (f + 1) + 2 - i = p + f + 2 - i /\ p + f + 2 - i \in 1..f
      BY <1>1, <2>4
    <3>3. old[i] = future[p + f + 2 - i]
      BY <1>1, <1>4, <2>4
    <3> QED BY <1>3, <3>1, <3>2, <3>3
  <2> QED BY <1>1, <2>1, <2>2, <2>3, <2>4
<1>8. new = old
  BY <1>4, <1>5, <1>6, <1>7, SeqEqual
<1> QED BY <1>8 DEF new, old, ahead

\* Redo is an undo the other way.
LEMMA WalkForth ==
  ASSUME NEW S, NEW past \in Seq(S), NEW x \in S, NEW future \in Seq(S), future # <<>>
  PROVE  LineOf(Append(past, x), Last(future), Front(future)) = LineOf(past, x, future)
<1> DEFINE behind == Append(past, x)
<1>1. behind \in Seq(S) /\ behind # <<>> /\ Len(behind) = Len(past) + 1
  BY AppendProperties
<1>2. Front(future) \in Seq(S) /\ Last(future) \in S
  BY FrontLast
<1>3. Front(behind) = past
  <2>1. /\ Len(Front(behind)) = Len(past) /\ Front(behind) \in Seq(S)
        /\ \A i \in 1..Len(past) : Front(behind)[i] = behind[i]
    <3> HIDE DEF behind
    <3>1. /\ Front(behind) \in Seq(S) /\ Len(Front(behind)) = Len(behind) - 1
          /\ \A i \in 1..Len(behind) - 1 : Front(behind)[i] = behind[i]
      BY <1>1, FrontLast
    <3>2. Len(past) \in Nat /\ Len(behind) - 1 = Len(past)
      BY <1>1, LenProperties
    <3> QED BY <3>1, <3>2
  <2>2. \A i \in 1..Len(past) : behind[i] = past[i]
    BY AppendProperties
  <2> QED BY <2>1, <2>2, SeqEqual
<1>4. Last(behind) = x
  <2>1. Last(behind) = behind[Len(past) + 1]
    BY <1>1, FrontLast
  <2> QED BY <2>1, AppendProperties
<1>5. Append(Front(future), Last(future)) = future
  <2> DEFINE f == Len(future)
  <2>1. /\ Len(Front(future)) = f - 1 /\ f \in Nat \ {0} /\ Last(future) = future[f]
        /\ \A i \in 1..f - 1 : Front(future)[i] = future[i]
    BY FrontLast
  <2>2. /\ Append(Front(future), Last(future)) \in Seq(S)
        /\ Len(Append(Front(future), Last(future))) = Len(Front(future)) + 1
        /\ \A i \in 1..Len(Front(future)) : Append(Front(future), Last(future))[i] = Front(future)[i]
        /\ Append(Front(future), Last(future))[Len(Front(future)) + 1] = Last(future)
    BY <1>2, AppendProperties
  <2> QED BY <2>1, <2>2, SeqEqual
<1> HIDE DEF behind
<1>6. LineOf(Front(behind), Last(behind), Append(Front(future), Last(future)))
        = LineOf(behind, Last(future), Front(future))
  BY <1>1, <1>2, WalkBack, Zenon
<1> QED BY <1>3, <1>4, <1>5, <1>6 DEF behind

\* An edit: what lies ahead goes, and of what lies behind the newest that fit are kept.
LEMMA EditedLine ==
  ASSUME NEW S, NEW past \in Seq(S), NEW x \in S, NEW y \in S, NEW future \in Seq(S)
  PROVE  /\ Append(Latest(past), x) \in Seq(S)
         /\ LineOf(Append(Latest(past), x), y, <<>>)
              = History!Newest(Append(SubSeq(LineOf(past, x, future), 1, Len(past) + 1), y))
         /\ Len(LineOf(Append(Latest(past), x), y, <<>>)) = Len(Append(Latest(past), x)) + 1
         /\ LineOf(Append(Latest(past), x), y, <<>>)[Len(Append(Latest(past), x)) + 1] = y
<1> DEFINE p == Len(past)
<1> DEFINE m == IF p >= HistoryCap THEN p - HistoryCap + 2 ELSE 1
<1> DEFINE line == LineOf(past, x, future)
<1> DEFINE walked == SubSeq(line, 1, p + 1)
<1> DEFINE grown == Append(walked, y)
<1> DEFINE recent == Latest(past)
<1> DEFINE behind == Append(recent, x)
<1> DEFINE new == LineOf(behind, y, <<>>)
<1> DEFINE kept == History!Newest(grown)
<1>1. p \in Nat /\ m \in 1..p + 1
  BY LenProperties, HistoryAssumption
<1>2. /\ line \in Seq(S) /\ Len(line) >= p + 1
      /\ \A i \in 1..p : line[i] = past[i]
      /\ line[p + 1] = x
  <2>1. /\ line \in Seq(S) /\ Len(line) = p + 1 + Len(future) /\ Len(future) \in Nat
        /\ \A i \in 1..Len(line) : line[i] = IF i <= p THEN past[i] ELSE IF i = p + 1 THEN x
                                             ELSE future[p + Len(future) + 2 - i]
    BY LineIs, LenProperties
  <2> HIDE DEF p, line
  <2> QED BY <1>1, <2>1
<1>3. /\ walked \in Seq(S) /\ Len(walked) = p + 1
      /\ \A i \in 1..p + 1 : walked[i] = line[i]
  <2>1. \A i \in 1..p + 1 : line[i] \in S
    <3> HIDE DEF line
    <3> QED BY <1>1, <1>2, LenProperties
  <2> HIDE DEF p, line
  <2>2. /\ walked \in Seq(S) /\ Len(walked) = IF 1 <= p + 1 THEN p + 1 - 1 + 1 ELSE 0
        /\ \A i \in 1..p + 1 - 1 + 1 : walked[i] = line[1 + i - 1]
    BY <1>1, <2>1, SubSeqProperties
  <2> HIDE DEF walked
  <2> QED BY <1>1, <2>2
<1>4. /\ grown \in Seq(S) /\ Len(grown) = p + 2 /\ grown[p + 2] = y
      /\ \A i \in 1..p + 1 : grown[i] = line[i]
  <2> HIDE DEF walked
  <2>1. /\ grown \in Seq(S) /\ Len(grown) = Len(walked) + 1 /\ grown[Len(walked) + 1] = y
        /\ \A i \in 1..Len(walked) : grown[i] = walked[i]
    BY <1>3, AppendProperties
  <2> HIDE DEF p, line, grown
  <2> QED BY <1>1, <1>3, <2>1
<1>5. /\ kept \in Seq(S) /\ Len(kept) = p + 3 - m
      /\ \A i \in 1..p + 3 - m : kept[i] = grown[m + i - 1]
  <2>1. kept = SubSeq(grown, m, p + 2)
    <3> DEFINE from == IF Len(grown) > HistoryCap + 1 THEN Len(grown) - HistoryCap ELSE 1
    <3>1. kept = SubSeq(grown, from, Len(grown))
      BY DEF History!Newest
    <3>2. Len(grown) = p + 2
      BY <1>4
    <3>3. from = m
      <4> HIDE DEF grown
      <4> QED BY <1>1, <3>2, HistoryAssumption
    <3> HIDE DEF p, m, grown, kept, from
    <3> QED BY <3>1, <3>2, <3>3, Zenon
  <2> HIDE DEF p, line, walked, grown, m, kept
  <2>2. \A i \in m..p + 2 : grown[i] \in S
    BY <1>1, <1>4, LenProperties
  <2>3. /\ SubSeq(grown, m, p + 2) \in Seq(S)
        /\ Len(SubSeq(grown, m, p + 2)) = IF m <= p + 2 THEN p + 2 - m + 1 ELSE 0
        /\ \A i \in 1..p + 2 - m + 1 : SubSeq(grown, m, p + 2)[i] = grown[m + i - 1]
    BY <1>1, <2>2, SubSeqProperties
  <2>4. /\ kept \in Seq(S) /\ Len(kept) = IF m <= p + 2 THEN p + 2 - m + 1 ELSE 0
        /\ \A i \in 1..p + 2 - m + 1 : kept[i] = grown[m + i - 1]
    BY <2>1, <2>3
  <2>5. p + 2 - m + 1 = p + 3 - m /\ m <= p + 2
    BY <1>1
  <2> QED BY <2>4, <2>5
<1>6. /\ recent \in Seq(S) /\ Len(recent) = p + 1 - m
      /\ \A i \in 1..p + 1 - m : recent[i] = past[m + i - 1]
  <2>1. recent = SubSeq(past, m, p)
    BY DEF Latest
  <2> HIDE DEF p, m, recent
  <2>2. \A i \in m..p : past[i] \in S
    BY <1>1, LenProperties DEF p
  <2>3. /\ SubSeq(past, m, p) \in Seq(S)
        /\ Len(SubSeq(past, m, p)) = IF m <= p THEN p - m + 1 ELSE 0
        /\ \A i \in 1..p - m + 1 : SubSeq(past, m, p)[i] = past[m + i - 1]
    BY <1>1, <2>2, SubSeqProperties
  <2>4. /\ recent \in Seq(S) /\ Len(recent) = IF m <= p THEN p - m + 1 ELSE 0
        /\ \A i \in 1..p - m + 1 : recent[i] = past[m + i - 1]
    BY <2>1, <2>3
  <2>5. p - m + 1 = p + 1 - m /\ (~ m <= p => p + 1 - m = 0)
    BY <1>1
  <2> QED BY <1>1, <2>4, <2>5
<1>7. /\ behind \in Seq(S) /\ Len(behind) = p + 2 - m /\ behind[p + 2 - m] = x
      /\ \A i \in 1..p + 1 - m : behind[i] = past[m + i - 1]
  <2> HIDE DEF recent
  <2>1. /\ behind \in Seq(S) /\ Len(behind) = Len(recent) + 1 /\ behind[Len(recent) + 1] = x
        /\ \A i \in 1..Len(recent) : behind[i] = recent[i]
    BY <1>6, AppendProperties
  <2> HIDE DEF p, m, behind
  <2>2. p + 1 - m + 1 = p + 2 - m
    BY <1>1
  <2> QED BY <1>6, <2>1, <2>2
<1>8. /\ new \in Seq(S) /\ Len(new) = p + 3 - m /\ new[p + 3 - m] = y
      /\ \A i \in 1..p + 2 - m : new[i] = behind[i]
  <2> HIDE DEF behind
  <2>1. /\ new \in Seq(S) /\ Len(new) = Len(behind) + 1 /\ new[Len(behind) + 1] = y
        /\ \A i \in 1..Len(behind) : new[i] = behind[i]
    <3>1. behind \in Seq(S) /\ y \in S
      BY <1>7
    <3> QED BY ONLY <3>1, LineEnd
  <2> HIDE DEF p, m, new
  <2> QED BY <1>1, <1>7, <2>1
<1> HIDE DEF p, m, line, walked, grown, recent, behind, new, kept
<1>9. ASSUME NEW i \in 1..p + 3 - m PROVE new[i] = kept[i]
  <2>1. kept[i] = grown[m + i - 1]
    BY <1>5
  <2>2. CASE i <= p + 1 - m
    <3>1. new[i] = past[m + i - 1]
      BY <1>1, <1>7, <1>8, <2>2
    <3>2. m + i - 1 \in 1..p
      BY <1>1, <2>2
    <3> QED BY <1>1, <1>2, <1>4, <2>1, <3>1, <3>2
  <2>3. CASE i = p + 2 - m
    <3>1. m + i - 1 = p + 1 /\ i \in 1..p + 2 - m
      BY <1>1, <2>3
    <3> QED BY <1>1, <1>2, <1>4, <1>7, <1>8, <2>1, <2>3, <3>1
  <2>4. CASE i = p + 3 - m
    <3>1. m + i - 1 = p + 2
      BY <1>1, <2>4
    <3> QED BY <1>4, <1>8, <2>1, <2>4, <3>1
  <2>5. i <= p + 1 - m \/ i = p + 2 - m \/ i = p + 3 - m
    BY <1>1
  <2> QED BY <2>2, <2>3, <2>4, <2>5
<1>10. new = kept
  BY <1>5, <1>8, <1>9, SeqEqual
<1>11. Len(behind) + 1 = p + 3 - m
  BY <1>1, <1>7
<1> QED BY <1>7, <1>8, <1>10, <1>11 DEF new, kept, behind, recent, grown, walked, line, p

\* The editor's history is of sequences, over whatever shapes they list.
HistoryShapes == tPast \in Seq(ToSet(tPast)) /\ tFuture \in Seq(ToSet(tFuture))

LEMMA Together ==
  ASSUME NEW x, NEW past, NEW future, past \in Seq(ToSet(past)), future \in Seq(ToSet(future))
  PROVE  \E S : past \in Seq(S) /\ future \in Seq(S) /\ x \in S
<1> DEFINE S == ToSet(past) \cup ToSet(future) \cup {x}
<1>1. past \in Seq(S)
  BY SeqMonotonic
<1>2. future \in Seq(S)
  BY SeqMonotonic
<1> QED BY <1>1, <1>2

Line == LineOf(tPast, tShape, tFuture)
TimelineStep == [History!Next]_<<Line, Len(tPast) + 1>>

LEMMA AppliedEdits ==
  ASSUME HistoryShapes, NEW next, Apply(next)
  PROVE  HistoryShapes' /\ TimelineStep
<1>1. tPast' = Append(Latest(tPast), tShape) /\ tFuture' = <<>> /\ tShape' = next
  BY DEF Apply
<1>2. PICK S0 : tPast \in Seq(S0) /\ tFuture \in Seq(S0) /\ tShape \in S0
  BY Together DEF HistoryShapes
<1> DEFINE S == S0 \cup {next}
<1>3. tPast \in Seq(S) /\ tFuture \in Seq(S) /\ tShape \in S /\ next \in S
  BY <1>2, SeqMonotonic
<1> HIDE DEF S
<1>4. /\ tPast' \in Seq(S) /\ Line' = History!Newest(Append(SubSeq(Line, 1, Len(tPast) + 1), next))
      /\ Len(Line') = Len(tPast') + 1 /\ Line'[Len(tPast') + 1] = next
  BY <1>1, <1>3, EditedLine DEF Line
<1>5. HistoryShapes'
  BY <1>1, <1>4, OverItself, EmptySeq DEF HistoryShapes
<1>6. History!Edit
  BY <1>4 DEF History!Edit, Line, LineOf
<1> QED BY <1>5, <1>6 DEF TimelineStep, History!Next

LEMMA WalkedLine ==
  ASSUME HistoryShapes, Undo \/ Redo
  PROVE  HistoryShapes' /\ TimelineStep
<1>1. PICK S : tPast \in Seq(S) /\ tFuture \in Seq(S) /\ tShape \in S
  BY Together DEF HistoryShapes
<1>2. CASE Undo
  <2>1. /\ tPast # <<>> /\ tPast' = Front(tPast) /\ tFuture' = Append(tFuture, tShape)
        /\ tShape' = Last(tPast)
    BY <1>2 DEF Undo
  <2>2. /\ tPast' \in Seq(S) /\ tFuture' \in Seq(S) /\ Len(tPast') = Len(tPast) - 1 /\ Len(tPast) \in Nat \ {0}
    BY <1>1, <2>1, FrontLast, AppendProperties
  <2>3. Line' = Line
    BY <1>1, <2>1, WalkBack DEF Line
  <2>4. HistoryShapes'
    BY <2>2, OverItself DEF HistoryShapes
  <2>5. History!Back
    <3>1. Len(tPast) + 1 > 1 /\ Len(tPast') + 1 = Len(tPast) + 1 - 1
      BY <2>2
    <3> QED BY <2>3, <3>1 DEF History!Back, Line, LineOf
  <2> QED BY <2>4, <2>5 DEF TimelineStep, History!Next
<1>3. CASE Redo
  <2>1. /\ tFuture # <<>> /\ tFuture' = Front(tFuture) /\ tPast' = Append(tPast, tShape)
        /\ tShape' = Last(tFuture)
    BY <1>3 DEF Redo
  <2>2. /\ tPast' \in Seq(S) /\ tFuture' \in Seq(S) /\ Len(tPast') = Len(tPast) + 1
        /\ Len(tPast) \in Nat /\ Len(tFuture) \in Nat \ {0}
    BY <1>1, <2>1, FrontLast, AppendProperties, LenProperties
  <2>3. Line' = Line
    BY <1>1, <2>1, WalkForth DEF Line
  <2>4. HistoryShapes'
    BY <2>2, OverItself DEF HistoryShapes
  <2>5. History!Forth
    <3>1. Len(Line) = Len(tPast) + 1 + Len(tFuture)
      BY <1>1, LineIs DEF Line
    <3>2. Len(tPast) + 1 < Len(Line) /\ Len(tPast') + 1 = Len(tPast) + 1 + 1
      BY <2>2, <3>1
    <3> QED BY <2>3, <3>2 DEF History!Forth, Line, LineOf
  <2> QED BY <2>4, <2>5 DEF TimelineStep, History!Next
<1> QED BY <1>2, <1>3

LEMMA HistoryStep ==
  ASSUME HistoryShapes, [Next]_vars
  PROVE  HistoryShapes' /\ TimelineStep
<1>1. ASSUME UNCHANGED <<tShape, tPast, tFuture>> PROVE HistoryShapes' /\ TimelineStep
  BY <1>1 DEF HistoryShapes, TimelineStep, Line
<1>2. ASSUME tPast' = <<>>, tFuture' = <<>> PROVE HistoryShapes' /\ TimelineStep
  <2>1. Len(<<>>) = 0 /\ <<>> \in Seq(ToSet(<<>>))
    BY EmptySeq
  <2>2. Len(LineOf(<<>>, tShape', <<>>)) = 1
    BY LineOfOne
  <2>3. Line' = LineOf(<<>>, tShape', <<>>) /\ Len(tPast') + 1 = 1
    BY <1>2, <2>1 DEF Line
  <2>4. History!Begin
    BY <2>2, <2>3 DEF History!Begin, Line, LineOf
  <2> QED BY <1>2, <2>1, <2>4 DEF HistoryShapes, TimelineStep, History!Next
<1>3. CASE Next /\ scene = "template"
  <2>1. LineMoves
    BY <1>3, TemplateSteps DEF Next, Template, TemplateMoves
  <2> QED BY <1>1, <1>2, <2>1, AppliedEdits, WalkedLine, Zenon DEF LineMoves
<1>4. CASE Next /\ scene # "template"
  <2>1. UNCHANGED templateVars
    BY <1>4, Zenon DEF Next, Prompt, Profile, Focus, Launch, RunDetail, NightRuns, Presentation, editorVars
  <2> QED BY <1>1, <2>1 DEF templateVars, shapeVars
<1>5. CASE UNCHANGED vars
  BY <1>1, <1>5 DEF vars, editorVars, templateVars, shapeVars
<1> QED BY <1>3, <1>4, <1>5

\* Undo and redo walk one line of shapes and lose none of them, whatever is edited, saved or
\* fetched in between: the editor's two stacks implement Timeline. (TemplateEditor.tsx, apply)
THEOREM HistoryImplementsTimeline == Spec => ImplementsTimeline
<1>1. Init => HistoryShapes /\ History!Init
  <2> SUFFICES ASSUME Init PROVE HistoryShapes /\ History!Init
    OBVIOUS
  <2>1. tPast = <<>> /\ tFuture = <<>>
    BY DEF Init, TemplateInit
  <2>2. Len(<<>>) = 0 /\ <<>> \in Seq(ToSet(<<>>))
    BY EmptySeq
  <2>3. Len(LineOf(<<>>, tShape, <<>>)) = 1
    BY LineOfOne
  <2> QED BY <2>1, <2>2, <2>3 DEF HistoryShapes, History!Init, LineOf
<1>2. HistoryShapes /\ [Next]_vars => HistoryShapes' /\ TimelineStep
  BY HistoryStep
<1>3. TimelineStep <=> [History!Next]_<<tPast \o <<tShape>> \o Reverse(tFuture), Len(tPast) + 1>>
  BY DEF TimelineStep, Line, LineOf
<1> QED BY <1>1, <1>2, <1>3, PTL DEF Spec, ImplementsTimeline, History!Spec
=============================================================================
