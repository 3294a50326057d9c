----------------------------- MODULE RunLauncher -----------------------------
(***************************************************************************)
(* The form that starts a run: three steps over the cached catalog, the     *)
(* drawing of the run it promises, and the server that resolves what the    *)
(* form sent and mints the run.                                             *)
(***************************************************************************)
EXTENDS GraphShape, ConsoleShell

CONSTANTS
  Shelf,      \* the templates the server may hold, one set per time: templates have an id
  FirstPick,  \* full-delivery, which the form opens on
  LaunchRoles \* what "+ Add node" offers

ASSUME ShelfAssumption ==
  /\ Shelf # {} /\ \A shelf \in Shelf : IsFiniteSet(shelf) /\ \A t \in shelf : WellFormed(t)
  /\ LaunchRoles \subseteq Roles

VARIABLES
  nServer,   \* the server's templates
  nCatalog,  \* the cached ones: Nothing before the first answer
  nStep,     \* 0 outcome, 1 automation, 2 review
  nTemplate, \* the picked template's id
  nCustom,   \* Nothing, or The(the sequence the operator made of it)
  nFilled,   \* which of "repo", "goal", "acceptance" and "finish" are in order
  nLapsed,   \* the finish time has come within ten minutes since the form opened
  nSent,     \* the create call: [pc, template, nodes, draft, budget, known]
  nRun       \* the minted run, with what the review showed at the press

launcherVars == <<nServer, nCatalog, nStep, nTemplate, nCustom, nFilled, nLapsed, nSent, nRun>>
nForm == <<nStep, nTemplate, nCustom, nFilled>>
nFar == <<nServer, nCatalog, nLapsed, nSent, nRun>>

OutcomeParts == {"repo", "goal", "finish"}
NotSent == [pc |-> "idle"]
Launcher == scene = "launch" /\ page = "open"

(***************************************************************************)
(* What the form derives from the catalog and its own state.                *)
(***************************************************************************)
Named(templates, id) == SetToSeq({t \in templates : t.id = id})
KnownTemplates == UNION ToSet(nCatalog)
SelectedTemplate == Named(KnownTemplates, nTemplate)
Untouched == nCustom = Nothing /\ SelectedTemplate # Nothing
LaunchNodes ==
  IF Untouched THEN Path(StagesOf(SelectedTemplate[1]))
  ELSE IF nCustom # Nothing THEN nCustom[1] ELSE <<>>
OnePerStage(nodes) == [i \in DOMAIN nodes |-> <<nodes[i]>>]
PreviewDraft ==
  IF Untouched THEN TemplateToDraft(StagesOf(SelectedTemplate[1]), SelectedTemplate[1].edges)
  ELSE TemplateToDraft(OnePerStage(LaunchNodes), <<>>)
EmissionBudget ==
  LET emitters == IF Untouched THEN SelectedTemplate[1].emitters ELSE <<>>
  IN  FoldLeft(+, 0, [k \in DOMAIN emitters |-> Max({0, emitters[k].max}) + 1])
OutcomeReady == OutcomeParts \subseteq nFilled
CanCreate == OutcomeReady /\ LaunchNodes # <<>> /\ "acceptance" \in nFilled

LauncherInit ==
  /\ nServer \in Chosen("launch", Shelf) /\ nCatalog = Nothing
  /\ nStep = 0 /\ nTemplate = FirstPick /\ nCustom = Nothing /\ nFilled = {} /\ nLapsed = FALSE
  /\ nSent = NotSent /\ nRun = Nothing

OpenLauncher ==
  /\ scene = "launch" /\ page = "home" /\ page' = "open" /\ Spend("nav")
  /\ nStep' = 0 /\ nTemplate' = FirstPick /\ nCustom' = Nothing /\ nFilled' = {"repo", "finish"}
  /\ nLapsed' = FALSE
  /\ UNCHANGED <<scene, guard, nServer, nCatalog, nSent, nRun>>
\* The catalog is fetched when the form finds none, or an old one.
CatalogArrives ==
  /\ Launcher /\ nCatalog # The(nServer) /\ nCatalog' = The(nServer)
  /\ UNCHANGED <<shellVars, nForm, nServer, nLapsed, nSent, nRun>>
\* Someone saves a template while the form is open.
ShelfChanges ==
  /\ Launcher /\ Spend("other") /\ \E shelf \in Shelf \ {nServer} : nServer' = shelf
  /\ UNCHANGED <<scene, page, guard, nForm, nCatalog, nLapsed, nSent, nRun>>
FinishLapses ==
  /\ Launcher /\ ~ nLapsed /\ Spend("other") /\ nLapsed' = TRUE
  /\ UNCHANGED <<scene, page, guard, nForm, nServer, nCatalog, nSent, nRun>>

(***************************************************************************)
(* The steps. Their tabs only go back; the buttons ask for what is missing. *)
(***************************************************************************)
FillOutcome(part) ==
  /\ Launcher /\ nStep = 0 /\ Spend("field")
  /\ nFilled' = IF part \in nFilled THEN nFilled \ {part} ELSE nFilled \cup {part}
  /\ UNCHANGED <<scene, page, guard, nStep, nTemplate, nCustom, nFar>>
GoTo(step) == nStep' = step /\ UNCHANGED <<shellVars, nTemplate, nCustom, nFilled, nFar>>
ChooseAutomation == Launcher /\ nStep = 0 /\ OutcomeReady /\ "acceptance" \in nFilled /\ GoTo(1)
ReviewRun == Launcher /\ nStep = 1 /\ LaunchNodes # <<>> /\ GoTo(2)
StepBack == Launcher /\ \E step \in 0..(nStep - 1) : GoTo(step)

(***************************************************************************)
(* The automation: a template, or the operator's own sequence made from it. *)
(***************************************************************************)
Choosing(kind) ==
  Launcher /\ nStep = 1 /\ Spend(kind) /\ UNCHANGED <<scene, page, guard, nStep, nFilled, nFar>>
PickTemplate ==
  /\ Choosing("pick") /\ \E t \in KnownTemplates : nTemplate' = t.id
  /\ nCustom' = Nothing
Resequence(nodes) == Choosing("edit") /\ nCustom' = The(nodes) /\ UNCHANGED nTemplate
AddNode == \E role \in LaunchRoles : Resequence(Append(LaunchNodes, Plain(role)))
RemoveLaunchNode == \E i \in DOMAIN LaunchNodes : Resequence(RemoveAt(LaunchNodes, i))
MoveNode ==
  \E i \in 2..Len(LaunchNodes) :
    Resequence([LaunchNodes EXCEPT ![i - 1] = LaunchNodes[i], ![i] = LaunchNodes[i - 1]])

(***************************************************************************)
(* Starting the run: what the press sends, and how the server resolves it.  *)
(***************************************************************************)
Create ==
  /\ Launcher /\ nStep = 2 /\ CanCreate /\ nSent = NotSent /\ Spend("other")
  /\ nSent' = [pc |-> "sent", template |-> nTemplate, nodes |-> nCustom,
               draft |-> PreviewDraft, budget |-> EmissionBudget, known |-> SelectedTemplate]
  /\ UNCHANGED <<scene, page, guard, nForm, nServer, nCatalog, nLapsed, nRun>>

\* Nodes become one stage each, and the template's routes, emitters and pins are not
\* looked at; a mutant keeps the routes. An unknown template resolves to nothing.
Sequential(nodes) ==
  [stages |-> OnePerStage(nodes), edges |-> <<>>, emitters |-> <<>>, pins |-> <<>>]
WholeTemplate(t) ==
  [stages |-> StagesOf(t), edges |-> t.edges, emitters |-> t.emitters, pins |-> t.pins]
ResolveKeepsRoutes(nodes, template) ==
  LET t == WholeTemplate(template[1])
  IN  IF template = Nothing THEN Nothing
      ELSE IF nodes = Nothing \/ nodes[1] = <<>> THEN The(t)
      ELSE The([Sequential(nodes[1]) EXCEPT !.edges = t.edges])
ResolveFlowSpec(nodes, template) ==
  IF nodes # Nothing /\ nodes[1] # <<>> THEN The(Sequential(nodes[1]))
  ELSE IF template = Nothing THEN Nothing
  ELSE The(WholeTemplate(template[1]))

Minted(spec) == nRun' = The([spec |-> spec, at |-> nSent, stored |-> Named(nServer, nSent.template)])
CreateHandled ==
  /\ nSent # NotSent /\ nSent.pc = "sent"
  /\ \/ /\ ~ nLapsed \* a finish time under ten minutes away is refused
        /\ \E spec \in ToSet(ResolveFlowSpec(nSent.nodes, Named(nServer, nSent.template))) :
             ServerRefusals(spec) = {} /\ Minted(spec)
        /\ \E pc \in {"done", "failed"} : nSent' = [nSent EXCEPT !.pc = pc]
     \/ nSent' = [nSent EXCEPT !.pc = "failed"] /\ UNCHANGED nRun
  /\ UNCHANGED <<shellVars, nForm, nServer, nCatalog, nLapsed>>
\* Success navigates to the run; a failure leaves the form, and the press may be repeated.
CreateAnswered ==
  /\ nSent # NotSent /\ nSent.pc \in {"done", "failed"} /\ nSent' = NotSent
  /\ page' = IF nSent.pc = "done" THEN "home" ELSE page
  /\ UNCHANGED <<scene, guard, left, nForm, nServer, nCatalog, nLapsed, nRun>>
LeaveLauncher == LeavePage /\ UNCHANGED launcherVars

LauncherNext ==
  \/ OpenLauncher \/ LeaveLauncher \/ CatalogArrives \/ ShelfChanges \/ FinishLapses
  \/ \E part \in OutcomeParts \cup {"acceptance"} : FillOutcome(part)
  \/ ChooseAutomation \/ ReviewRun \/ StepBack
  \/ PickTemplate \/ AddNode \/ RemoveLaunchNode \/ MoveNode
  \/ Create \/ CreateHandled \/ CreateAnswered

(***************************************************************************)
(* Properties.                                                              *)
(***************************************************************************)
LauncherTypeOK ==
  /\ nServer \in Shelf /\ nStep \in 0..2 /\ nFilled \subseteq OutcomeParts \cup {"acceptance"}
  /\ nStep = 2 => LaunchNodes # <<>> \/ nCustom = Nothing
  /\ nCustom # Nothing => nCustom[1] \in Seq(Member)

\* "The graph the run WILL get": unless the picked template was saved again in between, a
\* minted run has the stages, in order, and the routes that the review drew at the press, and
\* it may emit nodes exactly when the review priced some. (FlowsPage.tsx:136-152)
PreviewIsWhatRuns ==
  \A run \in ToSet(nRun) :
    run.at.known = run.stored \/ run.at.nodes # Nothing =>
      /\ run.at.draft.routes = run.spec.edges
      /\ RestoredStages(HappyOf(run.at.draft)) = run.spec.stages
      /\ run.at.budget > 0 <=> run.spec.emitters # <<>>
=============================================================================
