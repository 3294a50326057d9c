---------------------------- MODULE ConsoleShell ----------------------------
(***************************************************************************)
(* What the pages of the web console share: one page is mounted at a time,  *)
(* an editor with unsaved work registers one message in the navigation      *)
(* guard, and a session of the operator is a budget of events.              *)
(***************************************************************************)
EXTENDS Integers, Sequences

CONSTANT Sessions  \* [scene, left]: the page worked on and Sessions' bound per event

Scenes == {"template", "prompt", "profile", "focus", "launch", "run", "night", "tabs"}
Events == {"edit", "field", "pick", "history", "nav", "other"}

ASSUME SessionAssumption ==
  /\ \A s \in Sessions : s.scene \in Scenes /\ s.left \in [Events -> Nat]
  /\ Sessions # {}

VARIABLES
  scene,  \* the page this session of the operator works on
  page,   \* "home", or "open" when that page is mounted
  guard,  \* guardMsg is set
  left    \* the events still to come, by kind

shellVars == <<scene, page, guard, left>>

ShellTypeOK ==
  /\ scene \in Scenes /\ page \in {"home", "open"}
  /\ guard \in BOOLEAN /\ left \in [Events -> Nat]

ShellInit ==
  /\ \E s \in Sessions : scene = s.scene /\ left = s.left
  /\ page = "home" /\ guard = FALSE

\* What the pages of other scenes start from does not matter.
Chosen(here, choices) == IF scene = here THEN choices ELSE {CHOOSE c \in choices : TRUE}

Spend(kind) == left[kind] > 0 /\ left' = [left EXCEPT ![kind] = @ - 1]

\* setNavGuard in an effect on [dirty]: it runs when dirty changes, at the mount and,
\* as a clean-up, at the unmount.
GuardEffectIgnoresRefetch(was, is) == guard' = (guard \/ is)
GuardEffect(was, is) == guard' = IF was # is THEN is ELSE guard
GuardMount(is) == guard' = is
GuardUnmount == guard' = FALSE

\* A nav item of the shell asks confirmNav and the operator may agree; crumbs, the logo
\* and a page's own links leave without asking.
ConfirmNav(agreed) == guard => agreed
LeavePage ==
  /\ page = "open"
  /\ \E door \in {"nav", "link"}, agreed \in BOOLEAN : door = "nav" => ConfirmNav(agreed)
  /\ page' = "home"
  /\ GuardUnmount
  /\ UNCHANGED <<scene, left>>
=============================================================================
