------------------------------ MODULE Visibility ------------------------------
(***************************************************************************)
(* Presentation mode: which agents a tab renders, from its own snapshot of  *)
(* two keys of the browser's storage that all tabs share. A write reaches   *)
(* the other tabs as a storage event, later.                                *)
(***************************************************************************)
EXTENDS ConsoleShell, SequencesExt

CONSTANTS
  Tabs,     \* the open tabs
  Bases,    \* the base agents
  Agents,   \* [name -> base]: workspace.2, gov/playground/ratchet and the like
  Defaults  \* DEFAULT_HIDDEN

ASSUME VisibilityAssumption == Agents \in [DOMAIN Agents -> Bases] /\ Defaults \subseteq Bases

VARIABLES
  vStorage,  \* localStorage: [presenting, hidden]
  vSnapshot, \* by tab, its snapshot: Nothing before it is first read
  vEvents,   \* by tab, the keys of the storage events still to be delivered, in order
  vBlocked   \* [tab, key]: its last write of that key did not reach the storage

visibilityVars == <<vStorage, vSnapshot, vEvents, vBlocked>>

StorageKeys == {"presenting", "hidden"}
VisibilityInit ==
  /\ vStorage = [presenting |-> FALSE, hidden |-> Defaults]
  /\ vSnapshot = [t \in Tabs |-> <<>>] /\ vEvents = [t \in Tabs |-> <<>>] /\ vBlocked = {}

\* An agent belongs to its base agent, whatever the form of its name.
BaseAgent(name) == Agents[name]
IsAgentVisible(name, state) == ~ state.presenting \/ BaseAgent(name) \notin state.hidden
Snapshot(tab) == IF vSnapshot[tab] = <<>> THEN vStorage ELSE vSnapshot[tab][1]
\* Every list a page reads goes through this filter.
Rendered(tab) == {name \in DOMAIN Agents : IsAgentVisible(name, Snapshot(tab))}

OpenTab(tab) ==
  /\ scene = "tabs" /\ Spend("nav") /\ vSnapshot[tab] = <<>>
  /\ vSnapshot' = [vSnapshot EXCEPT ![tab] = <<vStorage>>]
  /\ UNCHANGED <<scene, page, guard, vStorage, vEvents, vBlocked>>

(***************************************************************************)
(* A press writes one key, if the storage lets it, and moves the tab's own   *)
(* snapshot either way. The other tabs hear of a key that changed.          *)
(***************************************************************************)
Press(tab, key, value) ==
  /\ scene = "tabs" /\ vSnapshot[tab] # <<>> /\ Spend("edit")
  /\ vSnapshot' = [vSnapshot EXCEPT ![tab] = <<[Snapshot(tab) EXCEPT ![key] = value]>>]
  /\ \/ /\ vStorage' = [vStorage EXCEPT ![key] = value] /\ vBlocked' = vBlocked \ {<<tab, key>>}
        /\ vEvents' = [t \in Tabs |-> IF t = tab \/ vSnapshot[t] = <<>> \/ vStorage[key] = value THEN vEvents[t]
                                      ELSE Append(vEvents[t], key)]
     \/ vBlocked' = vBlocked \cup {<<tab, key>>} /\ UNCHANGED <<vStorage, vEvents>>
  /\ UNCHANGED <<scene, page, guard>>
SetPresenting(tab) == Press(tab, "presenting", ~ Snapshot(tab).presenting)
SetAgentHidden(tab, name, hide) ==
  LET base == BaseAgent(name)
  IN  Press(tab, "hidden", IF hide THEN Snapshot(tab).hidden \cup {base} ELSE Snapshot(tab).hidden \ {base})

\* The handler reads the storage again, as it is by now, for either key; a mutant only
\* listens to the mode.
HearsOneKey(tab) ==
  vSnapshot' = [vSnapshot EXCEPT ![tab] = IF Head(vEvents[tab]) = "presenting" THEN <<vStorage>> ELSE @]
Hears(tab) ==
  vSnapshot' = [vSnapshot EXCEPT ![tab] = IF Head(vEvents[tab]) \in StorageKeys THEN <<vStorage>> ELSE @]
StorageEvent(tab) ==
  /\ vEvents[tab] # <<>> /\ vEvents' = [vEvents EXCEPT ![tab] = Tail(@)]
  /\ Hears(tab) /\ vBlocked' = vBlocked \ ({tab} \X StorageKeys)
  /\ UNCHANGED <<shellVars, vStorage>>
ReloadTab(tab) ==
  /\ scene = "tabs" /\ Spend("other") /\ vSnapshot[tab] # <<>>
  /\ vSnapshot' = [vSnapshot EXCEPT ![tab] = <<vStorage>>]
  /\ vEvents' = [vEvents EXCEPT ![tab] = <<>>] /\ vBlocked' = vBlocked \ ({tab} \X StorageKeys)
  /\ UNCHANGED <<scene, page, guard, vStorage>>

VisibilityNext ==
  \E tab \in Tabs :
    \/ OpenTab(tab) \/ SetPresenting(tab)
    \/ \E name \in DOMAIN Agents, hide \in BOOLEAN : SetAgentHidden(tab, name, hide)
    \/ StorageEvent(tab) \/ ReloadTab(tab)

(***************************************************************************)
(* Properties.                                                              *)
(***************************************************************************)
VisibilityTypeOK ==
  /\ vStorage.hidden \subseteq Bases /\ vBlocked \subseteq Tabs \X StorageKeys
  /\ \A t \in Tabs : vEvents[t] \in Seq(StorageKeys)

\* Whatever presses in several tabs overlap: once every event is delivered, the tabs whose
\* writes went through render the same agents, those the storage lets them, so a reload
\* brings no hidden agent back on screen. (visibility.ts:65-96)
TabsAgree ==
  (\A t \in Tabs : vEvents[t] = <<>>) =>
    \A t \in Tabs \ {b[1] : b \in vBlocked} :
      Rendered(t) = {name \in DOMAIN Agents : IsAgentVisible(name, vStorage)}
=============================================================================
