------------------------------- MODULE Console -------------------------------
(***************************************************************************)
(* The web console: one operator, one page at a time, and behind it the     *)
(* server, other writers and answers that come late. A behaviour works on   *)
(* one scene; what it shares with the others is the shell, with its guard   *)
(* against leaving unsaved work.                                            *)
(***************************************************************************)
EXTENDS TemplateEditor, PromptEditor, ProfileEditor, FocusEditor,
        RunLauncher, RunPage, NightPage, Visibility

editorVars == <<templateVars, promptVars, profileVars, focusVars>>
pageVars == <<launcherVars, runVars, nightVars, visibilityVars>>
vars == <<shellVars, editorVars, pageVars>>

Init ==
  /\ ShellInit
  /\ TemplateInit /\ PromptInit /\ ProfileInit /\ FocusInit
  /\ LauncherInit /\ RunInit /\ NightInit /\ VisibilityInit

Template == TemplateNext /\ UNCHANGED <<promptVars, profileVars, focusVars, pageVars>>
Prompt == PromptNext /\ UNCHANGED <<templateVars, profileVars, focusVars, pageVars>>
Profile == ProfileNext /\ UNCHANGED <<templateVars, promptVars, focusVars, pageVars>>
Focus == FocusNext /\ UNCHANGED <<templateVars, promptVars, profileVars, pageVars>>
Launch == LauncherNext /\ UNCHANGED <<editorVars, runVars, nightVars, visibilityVars>>
RunDetail == RunNext /\ UNCHANGED <<editorVars, launcherVars, nightVars, visibilityVars>>
NightRuns == NightNext /\ UNCHANGED <<editorVars, launcherVars, runVars, visibilityVars>>
Presentation == VisibilityNext /\ UNCHANGED <<editorVars, launcherVars, runVars, nightVars>>

Next ==
  \/ scene = "template" /\ Template
  \/ scene = "prompt" /\ Prompt
  \/ scene = "profile" /\ Profile
  \/ scene = "focus" /\ Focus
  \/ scene = "launch" /\ Launch
  \/ scene = "run" /\ RunDetail
  \/ scene = "night" /\ NightRuns
  \/ scene = "tabs" /\ Presentation

(***************************************************************************)
(* The run page's timer fires, its answers arrive, and the calls of its     *)
(* buttons come to an end. Nothing is assumed of the operator.              *)
(***************************************************************************)
Elsewhere == UNCHANGED <<editorVars, launcherVars, nightVars, visibilityVars>>
Fairness ==
  /\ WF_vars(PollAnswered /\ Elsewhere)
  /\ WF_vars(PollArrives /\ Elsewhere)
  /\ WF_vars(RunSettles /\ Elsewhere)

Spec == Init /\ [][Next]_vars /\ Fairness

(***************************************************************************)
(* Properties.                                                              *)
(***************************************************************************)
\* Every variable of every page has its type.
ConsoleTypeOK ==
  /\ ShellTypeOK
  /\ TemplateTypeOK /\ PromptTypeOK /\ ProfileTypeOK /\ FocusTypeOK
  /\ LauncherTypeOK /\ RunTypeOK /\ NightTypeOK /\ VisibilityTypeOK

\* The guard is up exactly while the editor on screen holds unsaved work, whichever of its
\* three inputs moved last: the draft, the copy it is compared with, or the page itself.
\* (navguard.ts:1-15; the effects of the four editors)
GuardFollowsDraft ==
  guard = CASE scene = "template" -> TemplateDirty
            [] scene = "prompt" -> PromptDirty
            [] scene = "profile" -> ProfileDirty
            [] scene = "focus" -> FocusDirty
            [] OTHER -> FALSE
=============================================================================
