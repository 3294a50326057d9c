---------------------------- MODULE PromptEditor ----------------------------
(***************************************************************************)
(* The node library of the console: the prompt editor of one node, its      *)
(* runtime panel, its history, the form that creates the node, and the      *)
(* server's prompt file with the versions kept beside it. A revision is a   *)
(* hash of the body, so the body itself stands for it.                      *)
(***************************************************************************)
EXTENDS ConsoleShell, SequencesExt

CONSTANTS
  Bodies,        \* prompt bodies; the text typed may be blank too
  DefaultBody,   \* the built-in body of the node
  Runtimes,      \* what the runtime panel may hold: [minutes, model], each "ok" or not
  DefaultRuntime,
  VersionsShown  \* versions a document lists (20)

ASSUME PromptAssumption ==
  /\ DefaultBody \in Bodies /\ DefaultRuntime \in Runtimes /\ VersionsShown \in Nat \ {0}

VARIABLES
  pBuiltin, \* the node is built in: never created or deleted here
  pServer,  \* its files on the server: [def, body, versions, runtime], body being
            \* <<>> when there is no prompt file
  pHeld,    \* every body this node has had since it was made
  pClock,   \* the time, which names the versions
  pDoc,     \* the cached prompt document: Nothing, or [body, versions]
  pAnswer,  \* a document answered and still on its way
  pNode,    \* the catalog's view of the node: Nothing, or its runtime
  pView,    \* "library", "new", or the tab of the node's page
  pText,    \* the text area
  pPanel,   \* the runtime panel
  pDef,     \* the form of a new node: [id, ready]
  pCalls    \* the mutations under way, one of a kind: [pc, arg, doc]

promptVars == <<pBuiltin, pServer, pHeld, pClock, pDoc, pAnswer, pNode, pView, pText, pPanel, pDef, pCalls>>
serverVars == <<pServer, pHeld, pClock>>
fetchVars == <<pDoc, pAnswer, pNode>>
formVars == <<pView, pText, pPanel, pDef>>

NodeTabs == {"prompt", "runtime", "history"}
Kinds == {"save", "restore", "runtime", "remove", "create"}
NoCall == [pc |-> "idle", arg |-> <<>>, doc |-> <<>>]
NoFiles == [def |-> FALSE, body |-> <<>>, versions |-> <<>>, runtime |-> DefaultRuntime]
NoDef == [id |-> "", ready |-> FALSE]
Nodes == scene = "prompt" /\ page = "open"
NodePage == Nodes /\ pView \in NodeTabs
PromptForm == NodePage /\ pDoc # <<>> /\ pNode # <<>>
PromptDirty == PromptForm /\ pText # pDoc[1].body
PromptGuarded == GuardEffect(PromptDirty, PromptDirty')

PromptInit ==
  /\ pBuiltin \in Chosen("prompt", BOOLEAN)
  /\ \E body \in IF pBuiltin THEN {DefaultBody} ELSE Chosen("prompt", Bodies) :
       pServer = [NoFiles EXCEPT !.def = TRUE, !.body = <<body>>] /\ pHeld = {body}
  /\ pClock = 0 /\ pDoc = <<>> /\ pAnswer = <<>>
  /\ pNode = <<DefaultRuntime>>
  /\ pView = "library" /\ pText = "" /\ pPanel = <<>> /\ pDef = NoDef
  /\ pCalls = [k \in Kinds |-> NoCall]

(***************************************************************************)
(* The server: a body is written over the old one, which becomes a version; *)
(* the same body again changes nothing.                                     *)
(***************************************************************************)
Document ==
  LET all == pServer.versions
  IN  [body |-> pServer.body[1],
       versions |-> SubSeq(all, Max({1, Len(all) - VersionsShown + 1}), Len(all))]
Archived(files, body) ==
  IF files.body = <<body>> THEN files
  ELSE [files EXCEPT !.body = <<body>>,
          !.versions = @ \o [k \in DOMAIN files.body |-> [id |-> pClock, body |-> files.body[k]]]]
SavePromptBody(body) ==
  /\ pServer' = Archived(pServer, body)
  /\ pHeld' = pHeld \cup {body} /\ pClock' = pClock + 1
RestorePrompt(version) ==
  \E v \in ToSet(pServer.versions) : v.id = version /\ SavePromptBody(v.body)
SaveNodeRuntime(runtime) ==
  /\ runtime.minutes = "ok" /\ runtime.model = "ok"
  /\ pServer' = [pServer EXCEPT !.runtime = runtime] /\ UNCHANGED <<pHeld, pClock>>
\* A node a template or an active run uses is refused; prompt and versions go with the node,
\* a mutant leaves them.
DeletedLeavesFiles(files) == [files EXCEPT !.def = FALSE, !.runtime = DefaultRuntime]
Deleted(files) == NoFiles
DeleteNode == /\ ~ pBuiltin
              /\ pServer' = Deleted(pServer) /\ pHeld' = {} /\ UNCHANGED pClock
CreateNode(body) ==
  /\ ~ pServer.def
  /\ pServer' = [Archived(pServer, body) EXCEPT !.def = TRUE]
  /\ pHeld' = {body} /\ pClock' = pClock + 1

ServerDoes(kind, arg) ==
  \/ kind = "create" /\ CreateNode(arg)
  \/ /\ pServer.def
     /\ \/ kind = "save" /\ SavePromptBody(arg)
        \/ kind = "restore" /\ RestorePrompt(arg)
        \/ kind = "runtime" /\ SaveNodeRuntime(arg)
        \/ kind = "remove" /\ DeleteNode
\* The call is handled, refused or lost, and the answer of a handled one may be lost too.
PromptCallHandled(kind) ==
  /\ pCalls[kind].pc = "sent"
  /\ \/ /\ ServerDoes(kind, pCalls[kind].arg)
        /\ \E pc \in {"done", "idle"} :
             pCalls' = [pCalls EXCEPT ![kind] = IF pc = "idle" THEN NoCall ELSE
               [@ EXCEPT !.pc = pc, !.doc = IF pServer'.def THEN <<Document'>> ELSE <<>>]]
     \/ pCalls' = [pCalls EXCEPT ![kind] = NoCall] /\ UNCHANGED serverVars
  /\ UNCHANGED <<shellVars, pBuiltin, fetchVars, formVars>>

(***************************************************************************)
(* Queries. An answer is applied when it arrives, whatever was saved since  *)
(* it left; the form is keyed by the revision and starts again on a new one.*)
(***************************************************************************)
ShowDocument(doc) ==
  /\ pDoc' = <<doc>>
  /\ IF NodePage /\ (pDoc = <<>> \/ pDoc[1].body # doc.body)
     THEN pText' = doc.body /\ pView' = "prompt" /\ pPanel' = <<>> /\ UNCHANGED pDef
     ELSE UNCHANGED formVars
PromptAnswered ==
  /\ NodePage /\ pAnswer = <<>> /\ pServer.def
  /\ pAnswer' = <<Document>>
  /\ UNCHANGED <<shellVars, pBuiltin, serverVars, pDoc, pNode, formVars, pCalls>>
PromptArrives ==
  /\ pAnswer # <<>> /\ pAnswer' = <<>>
  /\ ShowDocument(pAnswer[1])
  /\ UNCHANGED <<scene, page, left, pBuiltin, serverVars, pNode, pCalls>> /\ PromptGuarded

CatalogNode == IF pServer.def THEN <<pServer.runtime>> ELSE <<>>
NodeRefetch ==
  /\ scene = "prompt" /\ pNode # CatalogNode /\ pNode' = CatalogNode
  /\ UNCHANGED <<scene, page, left, pBuiltin, serverVars, pDoc, pAnswer, pView, pDef, pCalls>>
  /\ pPanel' = IF PromptForm' /\ pView = "runtime" THEN pNode' ELSE <<>>
  /\ pText' = IF PromptForm' /\ ~ PromptForm THEN pDoc[1].body ELSE pText
  /\ PromptGuarded

(***************************************************************************)
(* The page of a node.                                                      *)
(***************************************************************************)
KeepRemote == UNCHANGED <<pBuiltin, serverVars, fetchVars, pCalls>>
CloseForm == pView' = "library" /\ pText' = "" /\ pPanel' = <<>> /\ pDef' = NoDef
OpenNode ==
  /\ Nodes /\ pView = "library" /\ pNode # <<>> /\ Spend("nav")
  /\ pView' = "prompt" /\ pText' = IF pDoc = <<>> THEN "" ELSE pDoc[1].body
  /\ pPanel' = <<>> /\ pDef' = NoDef
  /\ UNCHANGED <<scene, page>> /\ KeepRemote /\ PromptGuarded
BackToLibrary ==
  /\ Nodes /\ pView # "library" /\ CloseForm
  /\ UNCHANGED <<scene, page, left>> /\ KeepRemote /\ GuardUnmount
SwitchTab(tab) ==
  /\ PromptForm /\ tab # pView /\ pView' = tab
  /\ pPanel' = IF tab = "runtime" THEN pNode ELSE <<>>
  /\ UNCHANGED <<shellVars, pText, pDef>> /\ KeepRemote
TypePrompt(text) ==
  /\ PromptForm /\ pView = "prompt" /\ text # pText /\ pText' = text
  /\ UNCHANGED <<scene, page, left, pView, pPanel, pDef>> /\ KeepRemote /\ PromptGuarded
TypeRuntime(runtime) ==
  /\ PromptForm /\ pView = "runtime" /\ pPanel # <<runtime>> /\ pPanel' = <<runtime>>
  /\ UNCHANGED <<shellVars, pView, pText, pDef>> /\ KeepRemote

Send(kind, arg) ==
  /\ pCalls[kind].pc = "idle" /\ Spend("other")
  /\ pCalls' = [pCalls EXCEPT ![kind] = [NoCall EXCEPT !.pc = "sent", !.arg = arg]]
  /\ UNCHANGED <<scene, page, guard, pBuiltin, serverVars, fetchVars, formVars>>
SavePrompt == PromptDirty /\ pView = "prompt" /\ pText # "" /\ Send("save", pText)
RevertPrompt ==
  /\ PromptForm /\ pView = "prompt" /\ pBuiltin /\ pDoc[1].body # DefaultBody
  /\ Send("save", DefaultBody)
RestoreVersion ==
  PromptForm /\ pView = "history" /\ \E v \in ToSet(pDoc[1].versions) : Send("restore", v.id)
SaveRuntime ==
  /\ PromptForm /\ pView = "runtime" /\ pPanel # pNode /\ pPanel[1].minutes = "ok"
  /\ Send("runtime", pPanel[1])
ResetRuntime ==
  /\ PromptForm /\ pView = "runtime" /\ pNode[1] # DefaultRuntime
  /\ Send("runtime", DefaultRuntime)
RemoveNodeDef == PromptForm /\ ~ pBuiltin /\ Send("remove", <<>>)

\* What the page does with an answer, mounted or not: a save or a restore shows its document.
Answered(kind) == pCalls[kind].pc = "done" /\ pCalls' = [pCalls EXCEPT ![kind] = NoCall]
PromptSaved ==
  /\ \E kind \in {"save", "restore"} : Answered(kind) /\ pDoc' = pCalls[kind].doc
  /\ IF NodePage THEN /\ pText' = pDoc'[1].body
                      /\ IF pDoc = <<>> \/ pDoc[1].body # pDoc'[1].body
                         THEN pView' = "prompt" /\ pPanel' = <<>> ELSE UNCHANGED <<pView, pPanel>>
     ELSE UNCHANGED <<pText, pView, pPanel>>
  /\ UNCHANGED <<scene, page, left, pBuiltin, serverVars, pAnswer, pNode, pDef>> /\ PromptGuarded
RuntimeSaved == Answered("runtime") /\ UNCHANGED <<shellVars, pBuiltin, serverVars, fetchVars, formVars>>
NodeRemoved ==
  /\ Answered("remove") /\ pNode' = CatalogNode
  /\ page' = "open" /\ CloseForm /\ GuardUnmount
  /\ UNCHANGED <<scene, left, pBuiltin, serverVars, pDoc, pAnswer>>

(***************************************************************************)
(* The form of a new node, and the page itself.                             *)
(***************************************************************************)
OpenCreator ==
  /\ Nodes /\ pView = "library" /\ Spend("nav") /\ pView' = "new" /\ pDef' = NoDef
  /\ UNCHANGED <<scene, page, guard, pText, pPanel>> /\ KeepRemote
TypeDef ==
  /\ Nodes /\ pView = "new"
  /\ \E ready \in BOOLEAN : pDef' = [id |-> "node", ready |-> ready]
  /\ pDef' # pDef /\ UNCHANGED <<shellVars, pView, pText, pPanel>> /\ KeepRemote
SendDef == Nodes /\ pView = "new" /\ pDef.id # "" /\ pDef.ready /\ Send("create", DefaultBody)
NodeCreated ==
  /\ Answered("create") /\ pNode' = CatalogNode
  /\ page' = "open" /\ pView' = "prompt" /\ pText' = IF pDoc = <<>> THEN "" ELSE pDoc[1].body
  /\ pPanel' = <<>> /\ pDef' = NoDef
  /\ UNCHANGED <<scene, left, pBuiltin, serverVars, pDoc, pAnswer>> /\ PromptGuarded

OpenNodes == /\ scene = "prompt" /\ page = "home" /\ page' = "open" /\ Spend("nav")
             /\ UNCHANGED <<scene, guard, formVars>> /\ KeepRemote
LeaveNodes == LeavePage /\ CloseForm /\ KeepRemote
\* Another tab of the console, or an applied proposal, writes the prompt.
OtherPrompt ==
  /\ pServer.def /\ Spend("other")
  /\ \E body \in Bodies \ ToSet(pServer.body) : SavePromptBody(body)
  /\ UNCHANGED <<scene, page, guard, pBuiltin, fetchVars, formVars, pCalls>>

PromptPage ==
  \/ OpenNode \/ BackToLibrary
  \/ \E tab \in NodeTabs : SwitchTab(tab)
  \/ \E text \in Bodies \cup {""} : TypePrompt(text)
  \/ \E runtime \in Runtimes : TypeRuntime(runtime)
  \/ SavePrompt \/ RevertPrompt \/ RestoreVersion \/ SaveRuntime \/ ResetRuntime \/ RemoveNodeDef
NodeCreator == OpenCreator \/ TypeDef \/ SendDef
PromptNext ==
  \/ PromptPage \/ NodeCreator \/ OpenNodes \/ LeaveNodes \/ OtherPrompt
  \/ \E kind \in Kinds : PromptCallHandled(kind)
  \/ PromptAnswered \/ PromptArrives \/ NodeRefetch
  \/ PromptSaved \/ RuntimeSaved \/ NodeRemoved \/ NodeCreated

(***************************************************************************)
(* Properties.                                                              *)
(***************************************************************************)
PromptTypeOK ==
  /\ pServer.def => ToSet(pServer.body) \subseteq Bodies /\ pServer.body # <<>>
  /\ pServer.runtime \in Runtimes
  /\ pView \in NodeTabs \cup {"library", "new"} /\ pText \in Bodies \cup {""}
  /\ pAnswer # <<>> => Len(pAnswer[1].versions) <= VersionsShown

\* Whoever saves, reverts, restores, deletes or creates, in whatever order the calls
\* arrive: every body a node has had is its prompt or one of its versions, and no version
\* is of a node deleted before it. (savePromptBody; nodedefs.go on phantom history)
PromptsRecoverable ==
  pServer.def => ToSet(pServer.body) \cup {v.body : v \in ToSet(pServer.versions)} = pHeld
=============================================================================
