----------------------------- MODULE MCFlowRun -----------------------------
(***************************************************************************)
(* Small flows for FlowRun: a chain with an exception edge, and a fan-out.  *)
(***************************************************************************)
EXTENDS FlowRun, TLC

NoRoles == [r \in {} |-> <<>>]
Plain(verdicts) == verdicts \X {0}

\* Two stages, an edge on the first; the second remediates by default.
ChainRoles == {"implement", "review", "amend", "validate"}
Chain == << <<"implement", 1>>, <<"review", 2>> >>
ChainEdges == [r \in {"implement"} |-> <<"amend">>]
ChainAnswers ==
  ("implement" :> Plain({"draft", "needs-work", "complete"}))
    @@ ("review" :> Plain({"needs-work", "complete"}))
    @@ ("amend" :> Plain({"complete", "blocked"}))
    @@ ("validate" :> Plain({"needs-work", "complete"}))
ChainBound == [k \in Events |-> IF k \in {"crash", "append", "auth"} THEN 1 ELSE 0]
AppendOne == <<"amend">>

\* An emitter whose group is tried in parallel, weighed and then judged.
FanRoles == {"explore", "attempt", "weigh", "judge", "amend", "validate"}
Fan == << <<"explore", 1>>, <<"judge", 2>> >>
FanEmitters == [r \in {"explore"} |-> [child |-> "attempt", max |-> 2, fanIn |-> "weigh"]]
FanAnswers ==
  ("explore" :> {<<"ok", 2>>, <<"ok", 3>>})
    @@ ("attempt" :> Plain({"ok", "blocked"}))
    @@ ("weigh" :> Plain({"complete"}))
    @@ ("judge" :> Plain({"ok", "complete"}))
FanBound == [k \in Events |-> IF k \in {"append", "auth"} THEN 0 ELSE 1]

NoEvents == [k \in Events |-> 0]
AuthOnly == [NoEvents EXCEPT !["auth"] = 1]
=============================================================================
