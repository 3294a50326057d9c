--------------------------- MODULE ProfileEditor ---------------------------
(***************************************************************************)
(* The night's profiles in the console: the editor of one profile and the   *)
(* form of one wave, the list with its active profile, the proposal inbox,  *)
(* and the server's profiles. Optional values are sequences of at most one. *)
(***************************************************************************)
EXTENDS ConsoleShell, Subsequence, SequencesExt

CONSTANTS
  WaveNames,     \* names a wave may have or be after
  WaveTimes,     \* what is typed as a wave's time: <<>> nothing, as the wave is triggered,
                 \* <<hour, minute>>, or any other text
  WaveKinds,     \* the rest of a wave: [prompt, perTicket, codex]
  ProfileNames,  \* names of stored profiles; "new" opens none of them
  FirstProfiles, \* what the first of them may hold
  ProfileKnobs,  \* deadline and workers: "ok", "other" or "refused" by the server
  Builtin        \* the built-in waves a new profile starts from

VARIABLES
  wServer,   \* the stored profiles, by name
  wActive,   \* the active profile of the agent, "" being the built-in
  wProposal, \* the proposal waiting in the inbox
  wCache,    \* the cached profiles, by name
  wName,     \* the profile the editor is open on
  wDraft,    \* the mounted editor's draft
  wEditing,  \* the wave form: the wave it was opened on, NewWave for a new one
  wSave      \* the save or delete under way: [pc, kind, profile]

profileVars == <<wServer, wActive, wProposal, wCache, wName, wDraft, wEditing, wSave>>
wRemote == <<wServer, wActive, wProposal, wCache, wSave>>

NewWave == [name |-> "", time |-> <<>>, after |-> <<>>, kind |-> [prompt |-> "", perTicket |-> FALSE, codex |-> FALSE]]
NoSave == [pc |-> "idle", kind |-> "save", profile |-> <<>>]
Profiles == scene = "profile" /\ page = "open"
ProfileMounted == Profiles /\ wDraft # <<>>
Names(waves) == {w.name : w \in ToSet(waves)}

\* The times nightOrder can count with, and the ones time.Parse takes.
Readable(waves) == \A w \in ToSet(waves) : w.time \in {<<>>} \cup (Nat \X Nat)
Clock == (0..23) \X (0..59)

\* A ring of waves, each of them triggered by another one, and what parseProfile lets in.
FindCycle(waves) ==
  \E ring \in (SUBSET Names(waves)) \ {{}} :
    \A n \in ring : \E w \in ToSet(waves) : w.name = n /\ ToSet(w.after) \cap ring # {}
Parsed(p) ==
  /\ p.name # "" /\ p.knobs # "refused" /\ p.waves # <<>>
  /\ \A w \in ToSet(p.waves) :
       /\ w.time \in {<<>>} \cup Clock /\ (w.time # <<>> \/ w.after # <<>>)
       /\ w.kind.prompt # "" /\ ~ (w.kind.perTicket /\ (w.kind.codex \/ w.after # <<>>))
       /\ ToSet(w.after) \subseteq Names(p.waves)
  /\ Cardinality(Names(p.waves)) = Len(p.waves) /\ ~ FindCycle(p.waves)

ASSUME WaveAssumption ==
  LET wave == [name : WaveNames, time : WaveTimes, after : Seq(WaveNames), kind : WaveKinds]
  IN  /\ FirstProfiles \subseteq [name : ProfileNames, knobs : ProfileKnobs, waves : Seq(wave)]
      /\ \E p \in FirstProfiles : Parsed(p)
      /\ Builtin \in Seq(wave)
      /\ Cardinality(Names(Builtin)) = Len(Builtin) /\ ~ FindCycle(Builtin)

Seed == [name |-> "", knobs |-> "ok", waves |-> Builtin]
ProfileInitial == IF wName = "new" THEN <<Seed>> ELSE wCache[wName]
ProfileDirty == ProfileMounted /\ wDraft # ProfileInitial
ProfileGuarded == GuardEffect(ProfileDirty, ProfileDirty')

ProfileInit ==
  /\ \E p \in Chosen("profile", {q \in FirstProfiles : Parsed(q)}) :
       wServer = [n \in ProfileNames |-> IF n = p.name THEN <<p>> ELSE <<>>]
  /\ wActive = "" /\ wProposal = <<>> /\ wName = "new" /\ wDraft = <<>> /\ wEditing = <<>>
  /\ wCache = [n \in ProfileNames |-> <<>>] /\ wSave = NoSave

(***************************************************************************)
(* Waves: their order through the night.                                    *)
(***************************************************************************)
Never == 1000000000
NightOrder(t) == IF t[1] < 12 THEN (t[1] + 24) * 60 + t[2] ELSE t[1] * 60 + t[2]
\* Timed waves by their time, a triggered one just after its latest upstream. As many
\* passes as there are waves, each in the order of the list; a mutant places a wave beside
\* its upstream. A wave that has no place is <<>>, and comes last; the sort is stable.
TimedOrder(waves) ==
  [n \in WaveNames |->
     LET timed == {w \in ToSet(waves) : w.name = n /\ w.time # <<>>}
     IN  IF timed = {} THEN <<>> ELSE <<Max({NightOrder(w.time) : w \in timed})>>]
LatestUpstream(order, w) == Max({0} \cup {order[up][1] : up \in ToSet(w.after)})
Waiting(order, w) == w.time # <<>> \/ \E up \in ToSet(w.after) : order[up] = <<>>
PlaceBeside(order, w) ==
  IF Waiting(order, w) THEN order ELSE [order EXCEPT ![w.name] = <<LatestUpstream(order, w)>>]
Place(order, w) ==
  IF Waiting(order, w) THEN order ELSE [order EXCEPT ![w.name] = <<LatestUpstream(order, w) + 1>>]
Pass(order, waves) == FoldLeft(Place, order, waves)
WaveOrder(waves) == FoldLeft(LAMBDA order, again : Pass(order, waves), TimedOrder(waves), waves)
OrderWaves(waves) ==
  LET order == WaveOrder(waves)
      at(i) == IF order[waves[i].name] = <<>> THEN Never ELSE order[waves[i].name][1]
      listed == Ranked(DOMAIN waves, LAMBDA i, k : at(i) < at(k) \/ (at(i) = at(k) /\ i <= k))
  IN  [k \in DOMAIN waves |-> waves[listed[k]]]
\* A time that cannot be read counts as NaN, and so does every comparison with it: the sort
\* may leave the list in any order.
Listings(waves) ==
  IF Readable(waves) THEN {OrderWaves(waves)}
  ELSE {[k \in DOMAIN waves |-> waves[p[k]]] : p \in Permutations(DOMAIN waves)}

(***************************************************************************)
(* The form of a wave: what it refuses, and what it can be left with.       *)
(***************************************************************************)
Others == IF wDraft = <<>> THEN <<>> ELSE wDraft[1].waves
WaveError(w) ==
  \/ w.name = ""
  \/ \E o \in ToSet(Others) : o.name = w.name /\ <<o>> # wEditing
  \/ w.time = <<>> /\ w.after = <<>>
  \/ w.kind.prompt = ""
  \/ w.after # <<>> /\ w.kind.perTicket
  \/ w.kind.codex /\ w.kind.perTicket
  \/ FindCycle(Append(Matching(Others, LAMBDA o : o.name # w.name), w))

\* Each press toggles one of the waves of the profile; at most one is added per form.
AfterChoices(after) ==
  LET names == Names(Others)
      kept(drop) == Matching(after, LAMBDA n : n \notin drop)
  IN  {kept(drop) \o add : drop \in SUBSET names, add \in {<<>>} \cup {<<n>> : n \in names \ ToSet(after)}}
FormWaves ==
  [name : WaveNames \cup {""}, time : WaveTimes, after : AfterChoices(wEditing[1].after), kind : WaveKinds]

EditProfile(draft) ==
  /\ ProfileMounted /\ draft # wDraft[1] /\ wDraft' = <<draft>>
  /\ UNCHANGED <<scene, page, wRemote, wName>>
  /\ ProfileGuarded
OpenWave(wave) ==
  /\ ProfileMounted /\ wEditing = <<>> /\ Spend("edit") /\ wEditing' = <<wave>>
  /\ UNCHANGED <<scene, page, guard, wRemote, wName, wDraft>>
UpsertWave(w) ==
  LET at == {i \in DOMAIN Others : Others[i].name = wEditing[1].name}
  IN  [wDraft[1] EXCEPT !.waves = IF at = {} THEN Append(@, w) ELSE [@ EXCEPT ![Min(at)] = w]]
SaveWave ==
  /\ ProfileMounted /\ wEditing # <<>> /\ wEditing' = <<>> /\ UNCHANGED left
  /\ \E w \in FormWaves : ~ WaveError(w) /\ EditProfile(UpsertWave(w))
RemoveWave(name) ==
  /\ wEditing = <<>> /\ Spend("edit") /\ UNCHANGED wEditing
  /\ EditProfile([wDraft[1] EXCEPT !.waves = Matching(@, LAMBDA w : w.name # name)])
TypeProfile ==
  /\ ProfileMounted /\ wEditing = <<>> /\ Spend("field") /\ UNCHANGED wEditing
  /\ \/ \E knobs \in ProfileKnobs : EditProfile([wDraft[1] EXCEPT !.knobs = knobs])
     \/ wName = "new" /\ \E n \in ProfileNames : EditProfile([wDraft[1] EXCEPT !.name = n])
WaveList ==
  \/ OpenWave(NewWave)
  \/ \E w \in ToSet(Others) : OpenWave(w) \/ RemoveWave(w.name)

(***************************************************************************)
(* The server parses what it stores, and the last writer wins.              *)
(***************************************************************************)
StoreProfile(p) == Parsed(p) /\ wServer' = [wServer EXCEPT ![p.name] = <<p>>] /\ UNCHANGED wActive
DropProfile(name) ==
  /\ wServer[name] # <<>> /\ wServer' = [wServer EXCEPT ![name] = <<>>]
  /\ wActive' = IF wActive = name THEN "" ELSE wActive
ProfileHandled ==
  /\ wSave.pc = "sent"
  /\ \/ /\ IF wSave.kind = "save" THEN StoreProfile(wSave.profile[1]) ELSE DropProfile(wSave.profile[1].name)
        /\ \E pc \in {"done", "idle"} : wSave' = IF pc = "done" THEN [wSave EXCEPT !.pc = pc] ELSE NoSave
     \/ wSave' = NoSave /\ UNCHANGED <<wServer, wActive>>
  /\ UNCHANGED <<shellVars, wProposal, wCache, wName, wDraft, wEditing>>

SendProfile(kind, profile) ==
  /\ ProfileMounted /\ wEditing = <<>> /\ wSave.pc = "idle" /\ Spend("other")
  /\ wSave' = [pc |-> "sent", kind |-> kind, profile |-> <<profile>>]
  /\ UNCHANGED <<scene, page, guard, wServer, wActive, wProposal, wCache, wName, wDraft, wEditing>>
SaveProfile == ProfileMounted /\ wDraft[1].name # "" /\ Others # <<>> /\ SendProfile("save", wDraft[1])
DeleteProfile == ProfileMounted /\ wName # "new" /\ SendProfile("delete", [wDraft[1] EXCEPT !.name = wName])

Unmounted == wDraft' = <<>> /\ wEditing' = <<>> /\ GuardUnmount
\* The page goes back to the studio; the profile's own cache entry is not invalidated.
ProfileSaved ==
  /\ wSave.pc = "done" /\ wSave' = NoSave /\ page' = "home" /\ Unmounted
  /\ UNCHANGED <<scene, left, wServer, wActive, wProposal, wCache, wName>>

(***************************************************************************)
(* Opening a profile. A fetch that arrives mounts the editor or moves what   *)
(* its draft is compared with; one that fails takes the editor away.        *)
(***************************************************************************)
OpenProfile(name) ==
  /\ scene = "profile" /\ page = "home" /\ page' = "open" /\ Spend("nav")
  /\ name # "new" => wServer[name] # <<>>
  /\ UNCHANGED <<scene, wRemote>>
  /\ wName' = name /\ wDraft' = ProfileInitial' /\ wEditing' = <<>>
  /\ GuardMount(ProfileDirty')
ProfileFetched ==
  /\ Profiles /\ wName # "new" /\ wServer[wName] # <<>>
  /\ wCache' = [wCache EXCEPT ![wName] = wServer[wName]]
  /\ wDraft' = IF wDraft = <<>> THEN wServer[wName] ELSE wDraft
  /\ UNCHANGED <<scene, page, left, wServer, wActive, wProposal, wSave, wName, wEditing>> /\ ProfileGuarded
ProfileFetchFails ==
  /\ ProfileMounted /\ wName # "new" /\ Unmounted
  /\ UNCHANGED <<scene, page, left, wRemote, wName>>
LeaveProfile ==
  /\ LeavePage /\ wDraft' = <<>> /\ wEditing' = <<>> /\ UNCHANGED <<wRemote, wName>>

(***************************************************************************)
(* The studio's list: the active profile and the proposals. A proposal is   *)
(* parsed again when it is applied, and is consumed by it.                  *)
(***************************************************************************)
Studio == scene = "profile" /\ page = "home" /\ Spend("other")
          /\ UNCHANGED <<scene, page, guard, wCache, wName, wDraft, wEditing, wSave>>
ActivateProfile ==
  /\ Studio /\ \E n \in ProfileNames \ {wActive} : wServer[n] # <<>> /\ Parsed(wServer[n][1]) /\ wActive' = n
  /\ UNCHANGED <<wServer, wProposal>>
Propose ==
  /\ Studio /\ wProposal = <<>> /\ \E p \in FirstProfiles : wProposal' = <<p>>
  /\ UNCHANGED <<wServer, wActive>>
ApplyProposal == Studio /\ wProposal # <<>> /\ StoreProfile(wProposal[1]) /\ wProposal' = <<>>
DismissProposal == Studio /\ wProposal # <<>> /\ wProposal' = <<>> /\ UNCHANGED <<wServer, wActive>>

ProfileNext ==
  \/ \E name \in ProfileNames \cup {"new"} : OpenProfile(name)
  \/ ProfileFetched \/ ProfileFetchFails \/ LeaveProfile
  \/ WaveList \/ SaveWave \/ TypeProfile \/ SaveProfile \/ DeleteProfile
  \/ ProfileHandled \/ ProfileSaved
  \/ ActivateProfile \/ Propose \/ ApplyProposal \/ DismissProposal

(***************************************************************************)
(* Properties.                                                              *)
(***************************************************************************)
ProfileTypeOK ==
  /\ wActive = "" \/ wActive \in ProfileNames
  /\ \A n \in ProfileNames : wServer[n] # <<>> => wServer[n][1].name = n
  /\ wDraft # <<>> => Names(Others) \subseteq WaveNames

\* In every list the page may show of these waves, a triggered wave whose upstreams are all
\* there, and theirs, comes after each of them.
TriggersFollowed(waves) ==
  LET after(n) == UNION {ToSet(w.after) : w \in {v \in ToSet(waves) : v.name = n}}
      grounded == UNION {s \in SUBSET Names(waves) : \A n \in s : after(n) \subseteq s}
  IN  \A shown \in Listings(waves) :
        LET place(n) == CHOOSE i \in DOMAIN shown : shown[i].name = n
        IN  \A w \in ToSet(waves) :
              (w.time = <<>> /\ w.name \in grounded)
                => \A up \in ToSet(w.after) : place(up) < place(w.name)

\* Whatever is saved, proposed or deleted, a stored profile is listed along its triggers: it has
\* no ring of them and no time that cannot be read, and the list is complete after as many
\* passes as waves. So is a draft, however its waves are added, renamed and removed, while its
\* times can be read; the form does not look at them. (orderWaves, findCycle, err, parseProfile)
WavesFollowTriggers ==
  /\ \A n \in ProfileNames : wServer[n] # <<>> => TriggersFollowed(wServer[n][1].waves)
  /\ ProfileMounted => TriggersFollowed(Others) \/ ~ Readable(Others)
=============================================================================
