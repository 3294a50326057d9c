------------------------------ MODULE MCConsole ------------------------------
(***************************************************************************)
(* Small sessions on every page of the console. A session bounds the events *)
(* of each kind: edits, fields, picks, undo and redo, navigation and the    *)
(* rest; what answers and settles by itself is not bounded.                 *)
(***************************************************************************)
EXTENDS Console

Session(where, edit, field, pick, history, nav, other) ==
  [scene |-> where,
   left |-> [k \in Events |-> CASE k = "edit" -> edit [] k = "field" -> field [] k = "pick" -> pick
                                [] k = "history" -> history [] k = "nav" -> nav [] OTHER -> other]]

\* Two templates an editor is opened on: a comparison written on the box, with a route, and a
\* built-in of two plain stages. Another writer saves one at the limits of the server: as many
\* routes and as long a route as it takes, and an emitter that offers as many roles.
Second(role) == [role |-> role, slot |-> 2]
Compared == <<<<Plain("attempt"), Second("attempt")>>>>
Shipped == <<<<Plain("attempt")>>, <<Plain("validate")>>>>
Fanned == <<[node |-> "attempt", max |-> 1, roles |-> <<"validate">>, fanIn |-> "validate"]>>
Crowd ==
  [e \in 1..4 |-> [node |-> "attempt", append |-> [k \in 1..(IF e = 1 THEN 4 ELSE 1) |-> "validate"]]]
Stored1(stages, edges, emitters) ==
  [id |-> "edited", name |-> "named", schedule |-> "none", emitters |-> emitters, pins |-> <<>>,
   nodes |-> Path(stages), stages |-> stages, edges |-> edges]
Short == Stored1(Compared, <<[node |-> "attempt", append |-> <<"validate">>]>>, <<>>)
MCLibrary == {[body |-> Short, builtin |-> FALSE],
              [body |-> Stored1(Shipped, <<>>, <<>>), builtin |-> TRUE]}
MCOtherWork == {Stored1(<<<<Plain("attempt")>>>>, Crowd, Fanned)}
MCNewNodes == <<Plain("validate")>>
MCRouteDefault == <<"validate">>

\* The templates a run is started from: one saved again with other stages meanwhile, and one
\* whose first node may emit more.
Offer(id, stages, edges, emitters) ==
  [id |-> id, nodes |-> Path(stages), stages |-> stages, edges |-> edges,
   emitters |-> emitters, pins |-> <<>>]
Wide == Offer("full", Compared \o <<<<Plain("validate")>>>>,
              <<[node |-> "validate", append |-> <<"attempt", "validate">>]>>, <<>>)
MCShelf == {{Wide, Offer("fan", Shipped, <<>>, Fanned)},
            {Offer("full", Shipped, <<>>, <<>>), Offer("fan", Shipped, <<>>, Fanned)}}

\* What a runtime panel may hold, in and out of what the server takes.
MCRuntimes == {[minutes |-> m, model |-> o] : m \in {"ok", "outside"}, o \in {"ok", "strange"}}
MCDefaultRuntime == [minutes |-> "ok", model |-> "ok"]

\* A night of three waves, listed against the order they run in, and a proposal with a time
\* that is none.
Kind(perTicket) == [prompt |-> "p", perTicket |-> perTicket, codex |-> FALSE]
MCWaveKinds == {Kind(FALSE), Kind(TRUE)}
MCWaveTimes == {<<>>, <<23, 0>>, <<3, 0>>, <<25, 0>>, <<"9">>}
Wave(name, time, after) == [name |-> name, time |-> time, after |-> after, kind |-> Kind(FALSE)]
MCFirstProfiles ==
  {[name |-> "night", knobs |-> "ok",
    waves |-> <<Wave("c", <<>>, <<"b">>), Wave("b", <<>>, <<"a">>), Wave("a", <<23, 0>>, <<>>)>>],
   [name |-> "night", knobs |-> "ok",
    waves |-> <<Wave("b", <<>>, <<"a">>), Wave("a", <<"9">>, <<>>)>>]}
MCBuiltin == <<Wave("a", <<3, 0>>, <<>>)>>

\* One job there from the start, one that the composer queues.
MCJobFacts ==
  [j \in {"first", "queued"} |->
     IF j = "first" THEN [report |-> FALSE, ledger |-> "no-deliverable"]
     ELSE [report |-> TRUE, ledger |-> ""]]
MCFirstJobs ==
  {[j \in {"first", "queued"} |-> IF j = "first" THEN s ELSE "absent"] : s \in {"gated", "active"}}

MCAgents ==
  [n \in {"workspace", "workspace.2", "gov/playground/ratchet"} |->
     IF n = "gov/playground/ratchet" THEN "playground" ELSE "workspace"]

MCSessions ==
  {Session("template", 1, 0, 1, 0, 2, 0), Session("template", 2, 0, 0, 0, 2, 0), Session("template", 3, 0, 0, 0, 1, 0),
   Session("template", 2, 0, 0, 3, 1, 0), Session("template", 1, 1, 0, 0, 1, 1), Session("template", 1, 0, 1, 0, 1, 1),
   Session("template", 0, 2, 1, 0, 1, 1), Session("template", 0, 2, 0, 0, 1, 2), Session("template", 1, 1, 1, 0, 1, 0),
   Session("template", 1, 0, 0, 0, 3, 1),
   Session("prompt", 0, 0, 0, 0, 3, 3),
   Session("profile", 2, 0, 0, 0, 1, 0), Session("profile", 1, 0, 0, 0, 2, 2),
   Session("profile", 0, 1, 0, 0, 2, 2),
   Session("focus", 2, 0, 1, 0, 2, 2), Session("focus", 3, 0, 2, 0, 1, 1),
   Session("launch", 2, 2, 1, 0, 1, 1), Session("launch", 1, 2, 1, 0, 1, 2),
   Session("run", 2, 0, 0, 0, 1, 1), Session("run", 1, 1, 0, 0, 1, 2), Session("run", 1, 0, 1, 0, 2, 1),
   Session("night", 2, 0, 0, 0, 1, 1), Session("night", 0, 2, 2, 0, 1, 1), Session("night", 2, 0, 0, 0, 2, 0),
   Session("tabs", 4, 0, 0, 0, 2, 1)}
=============================================================================
