---------------------------- MODULE FocusEditor ----------------------------
(***************************************************************************)
(* The focus page: a plain text area over one of the two north-star files,  *)
(* and the ideas that a press appends to the first of them on the server.   *)
(* A file is what the operator wrote and the ideas promoted after it.       *)
(***************************************************************************)
EXTENDS ConsoleShell, SequencesExt

CONSTANTS
  FocusFiles, \* products and projects
  Gate,       \* the file ideas are promoted into: products
  Drafts,     \* what the operator may have written
  Ideas

ASSUME FocusAssumption == Gate \in FocusFiles /\ Drafts # {}

VARIABLES
  fServer,  \* the files on the server: [body, promoted]
  fCache,   \* the cached files
  fAnswer,  \* the files answered and still on their way
  fFile,    \* the file shown
  fShown,   \* the editor is mounted
  fText,    \* the text area
  fBase,    \* the content the editor is diffed against
  fSave,    \* the save under way: [pc, file, content]
  fPromote  \* the promotion under way: [pc, idea]

focusVars == <<fServer, fCache, fAnswer, fFile, fShown, fText, fBase, fSave, fPromote>>
FocusDirty == fShown /\ fText # fCache[fFile]
\* The effect depends on the file too: another file is a mount.
FocusGuarded == GuardEffect(FocusDirty, FocusDirty')

NoFocusSave == [pc |-> "idle", file |-> Gate, content |-> <<>>]
NoPromote == [pc |-> "idle", idea |-> <<>>]
FocusInit ==
  /\ fServer = [f \in FocusFiles |-> [body |-> CHOOSE d \in Drafts : TRUE, promoted |-> <<>>]]
  /\ fCache = fServer /\ fAnswer = <<>> /\ fFile = Gate /\ fShown = FALSE
  /\ fText = fServer[Gate] /\ fBase = fServer[Gate]
  /\ fSave = NoFocusSave /\ fPromote = NoPromote

MountFocus(file, files) ==
  /\ fFile' = file /\ fShown' = TRUE /\ fText' = files[file] /\ fBase' = files[file]
OpenFocus ==
  /\ scene = "focus" /\ page = "home" /\ page' = "open" /\ Spend("nav")
  /\ MountFocus(fFile, fCache) /\ GuardMount(FALSE)
  /\ UNCHANGED <<scene, fServer, fCache, fAnswer, fSave, fPromote>>
LeaveFocus ==
  /\ LeavePage /\ fShown' = FALSE
  /\ UNCHANGED <<fServer, fCache, fAnswer, fFile, fText, fBase, fSave, fPromote>>
SwitchFile ==
  /\ fShown /\ \E agreed \in BOOLEAN : ConfirmNav(agreed)
  /\ \E file \in FocusFiles \ {fFile} : MountFocus(file, fCache)
  /\ GuardMount(FALSE)
  /\ UNCHANGED <<scene, page, left, fServer, fCache, fAnswer, fSave, fPromote>>

TypeFocus ==
  /\ fShown /\ Spend("edit")
  /\ \E body \in Drafts : fText' = [fText EXCEPT !.body = body]
  /\ UNCHANGED <<scene, page, fServer, fCache, fAnswer, fFile, fShown, fBase, fSave, fPromote>>
  /\ FocusGuarded

(***************************************************************************)
(* A fetch arrives. The editor adopts the new content if nothing is unsaved,*)
(* and moves its base either way; a fetch that fails takes the page away.   *)
(***************************************************************************)
AdoptNothing(content) == UNCHANGED fText /\ fBase' = content
Adopt(content) ==
  /\ fText' = IF fText = fBase THEN content ELSE fText
  /\ fBase' = content
FocusAnswered ==
  /\ page = "open" /\ scene = "focus" /\ fAnswer = <<>> /\ fAnswer' = <<fServer>>
  /\ UNCHANGED <<shellVars, fServer, fCache, fFile, fShown, fText, fBase, fSave, fPromote>>
FocusArrives ==
  /\ fAnswer # <<>> /\ fAnswer' = <<>> /\ fCache' = fAnswer[1]
  /\ UNCHANGED <<scene, page, left, fServer, fFile, fSave, fPromote>>
  /\ IF fShown THEN Adopt(fAnswer[1][fFile]) /\ UNCHANGED fShown
     ELSE IF page = "open" THEN MountFocus(fFile, fAnswer[1])
     ELSE UNCHANGED <<fShown, fText, fBase>>
  /\ FocusGuarded
FocusFetchFails ==
  /\ fShown /\ fAnswer = <<>> /\ fShown' = FALSE /\ GuardUnmount
  /\ UNCHANGED <<scene, page, left, fServer, fCache, fAnswer, fFile, fText, fBase, fSave, fPromote>>

(***************************************************************************)
(* Saving the whole text, and promoting an idea. Both invalidate the files, *)
(* which drops an answer on its way and asks again.                         *)
(***************************************************************************)
SaveFocus ==
  /\ FocusDirty /\ fSave.pc = "idle" /\ Spend("other")
  /\ fSave' = [pc |-> "sent", file |-> fFile, content |-> <<fText>>]
  /\ UNCHANGED <<scene, page, guard, fServer, fCache, fAnswer, fFile, fShown, fText, fBase, fPromote>>
PromoteIdea(idea) ==
  /\ fShown /\ fPromote.pc = "idle" /\ Spend("pick")
  /\ fPromote' = [pc |-> "sent", idea |-> <<idea>>]
  /\ UNCHANGED <<scene, page, guard, fServer, fCache, fAnswer, fFile, fShown, fText, fBase, fSave>>

Saved == fServer' = [fServer EXCEPT ![fSave.file] = fSave.content[1]]
Promoted == fServer' = [fServer EXCEPT ![Gate].promoted = @ \o fPromote.idea]
FocusHandled ==
  /\ \/ /\ fSave.pc = "sent" /\ UNCHANGED fPromote
        /\ \/ Saved /\ \E pc \in {"done", "idle"} : fSave' = IF pc = "done" THEN [fSave EXCEPT !.pc = pc] ELSE NoFocusSave
           \/ UNCHANGED fServer /\ fSave' = NoFocusSave
     \/ /\ fPromote.pc = "sent" /\ UNCHANGED fSave
        /\ \/ Promoted /\ \E pc \in {"done", "idle"} : fPromote' = [NoPromote EXCEPT !.pc = pc]
           \/ UNCHANGED fServer /\ fPromote' = NoPromote
  /\ UNCHANGED <<shellVars, fCache, fAnswer, fFile, fShown, fText, fBase>>
FocusInvalidated ==
  /\ \/ fSave.pc = "done" /\ fSave' = NoFocusSave /\ UNCHANGED fPromote
     \/ fPromote.pc = "done" /\ fPromote' = NoPromote /\ UNCHANGED fSave
  /\ fAnswer' = <<>>
  /\ UNCHANGED <<shellVars, fServer, fCache, fFile, fShown, fText, fBase>>

FocusNext ==
  \/ OpenFocus \/ LeaveFocus \/ SwitchFile \/ TypeFocus
  \/ FocusAnswered \/ FocusArrives \/ FocusFetchFails
  \/ SaveFocus \/ \E idea \in Ideas : PromoteIdea(idea)
  \/ FocusHandled \/ FocusInvalidated

(***************************************************************************)
(* Properties.                                                              *)
(***************************************************************************)
FocusTypeOK ==
  /\ fFile \in FocusFiles /\ fText.body \in Drafts /\ fText.promoted \in Seq(Ideas)
  /\ fShown => page = "open" /\ fBase = fCache[fFile]

\* While an editor stays up, unsaved text changes only under the operator's hands, and only
\* they make it unsaved: a promotion, a save or an old answer never does, so a press of
\* Save never writes a document nobody typed over a promoted idea. (FocusPage.tsx:29-43)
TypingSurvives ==
  [][(fShown /\ fShown' /\ fFile' = fFile /\ page' = "open" /\ left'["edit"] = left["edit"])
       => (FocusDirty => fText' = fText) /\ (FocusDirty' => FocusDirty)]_focusVars
=============================================================================
