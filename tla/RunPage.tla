------------------------------- MODULE RunPage -------------------------------
(***************************************************************************)
(* One run in the console: the list that opens it, its page over a cached   *)
(* copy that is polled every seven seconds, the four calls the page makes,  *)
(* and the run on the server, which moves on its own.                       *)
(***************************************************************************)
EXTENDS ConsoleShell, SequencesExt

CONSTANTS
  RunStages,  \* nodes a run is minted with
  RunRounds,  \* remediation rounds it may add
  GuidanceTexts  \* what the operator may write, "" included

ASSUME RunAssumption == RunStages \in Nat /\ RunRounds \in Nat /\ "" \in GuidanceTexts

VARIABLES
  rServer,   \* the stored run: [status, guidance, timed, tree, nodes, delivered]
  rList,     \* the cached list's copy of the run: Nothing, or The(run)
  rCache,    \* the page's copy, likewise
  rPoll,     \* an answer to the page's query on its way
  rNode,     \* ?node=: the selected node
  rTyped,    \* the guidance field
  rCalls     \* by kind, the call under way: [pc, value, answer]

runVars == <<rServer, rList, rCache, rPoll, rNode, rTyped, rCalls>>
rForm == <<rNode, rTyped>>

CallKinds == {"deadline", "guidance", "stop", "cleanup"}
Quiet == [pc |-> "idle", value |-> <<>>, answer |-> <<>>]
RunOpen == scene = "run" /\ page = "open"
RunShown == RunOpen /\ rCache # <<>>

FlowTerminal(run) == run.status \in {"complete", "stopped", "deadline", "blocked"}
Finished(run) == run.status \in {"complete", "stopped", "deadline"} \* what the page calls terminal
LiveStatus == {"queued", "running"}

RunInit ==
  /\ rServer = [status |-> "queued", guidance |-> "", timed |-> FALSE, tree |-> "kept",
                nodes |-> RunStages, delivered |-> 0]
  /\ rList = <<>> /\ rCache = <<>> /\ rPoll = <<>> /\ rNode = <<>>
  /\ rTyped = ""
  /\ rCalls = [k \in CallKinds |-> Quiet]

(***************************************************************************)
(* The run on the server, as far as the page can tell: a node starts or     *)
(* delivers, a round of remediation is added, the run ends, the janitor      *)
(* takes the worktree.                                                      *)
(***************************************************************************)
Advance(run) ==
  {[run EXCEPT !.status = "running", !.delivered = n] : n \in run.delivered..Min({run.nodes, run.delivered + 1})}
Remediate(run) ==
  IF run.nodes = RunStages + RunRounds THEN {} ELSE {[run EXCEPT !.nodes = @ + 1]}
Ended(run) == {[run EXCEPT !.status = s] : s \in {"complete", "deadline", "blocked"}}
Cleaned(run) == {[run EXCEPT !.tree = t] : t \in {"cleaned", "retained"}}
Later(run) ==
  IF ~ FlowTerminal(run) THEN Advance(run) \cup Remediate(run) \cup Ended(run)
  ELSE IF run.tree = "cleaned" THEN {} ELSE Cleaned(run)
RunMoves ==
  /\ scene = "run" /\ Spend("edit")
  /\ rServer' \in Later(rServer) \ {rServer}
  /\ UNCHANGED <<scene, page, guard, rList, rCache, rPoll, rForm, rCalls>>

(***************************************************************************)
(* The list, and opening the run from it or from a link.                    *)
(***************************************************************************)
ListPolled ==
  /\ scene = "run" /\ page = "home" /\ rList # <<rServer>> /\ rList' = <<rServer>>
  /\ UNCHANGED <<shellVars, rServer, rCache, rPoll, rForm, rCalls>>
\* The list is the whole of it or what needs attention, live runs before the others.
Attention(run) == run.status \in {"blocked", "deadline"}
ListedAs(attention) ==
  [active |-> SelectSeq(rList, LAMBDA run : run.status \in LiveStatus /\ ~ attention),
   history |-> SelectSeq(rList, LAMBDA run :
                 run.status \notin LiveStatus /\ (attention => Attention(run)))]
OpenRun ==
  /\ scene = "run" /\ page = "home" /\ page' = "open" /\ Spend("nav")
  /\ \E attention \in BOOLEAN : ListedAs(attention).active \o ListedAs(attention).history # <<>>
  /\ rNode' = <<>> /\ rTyped' = ""
  /\ UNCHANGED <<scene, guard, rServer, rList, rCache, rPoll, rCalls>>
LeaveRun == LeavePage /\ UNCHANGED runVars

(***************************************************************************)
(* Polling. The timer never stops, whatever the status; a mutant stops it    *)
(* at the first status that is not live. An answer is the run as it was      *)
(* when the server was asked, and replaces the copy when it arrives.        *)
(***************************************************************************)
PollWhileLive == \A run \in ToSet(rCache) : run.status \in LiveStatus
PollWanted == TRUE
PollAnswered ==
  /\ RunOpen /\ rPoll = <<>> /\ PollWanted /\ rPoll' = <<rServer>>
  /\ UNCHANGED <<shellVars, rServer, rList, rCache, rForm, rCalls>>
PollArrives ==
  /\ rPoll # <<>> /\ rPoll' = <<>> /\ rCache' = rPoll
  /\ UNCHANGED <<shellVars, rServer, rList, rForm, rCalls>>
PollLost ==
  /\ rPoll # <<>> /\ Spend("other") /\ rPoll' = <<>>
  /\ UNCHANGED <<scene, page, guard, rServer, rList, rCache, rForm, rCalls>>

(***************************************************************************)
(* The page: a node selected in the drawing or closed again, the fields,     *)
(* the four buttons.                                                        *)
(***************************************************************************)
LiveToDraft(run) ==
  {[order |-> n, lane |-> IF n > RunStages THEN "route" ELSE "happy",
    traveled |-> n <= run.delivered] : n \in 1..run.nodes}
SelectRunNode ==
  /\ RunShown /\ Spend("pick")
  /\ \E n \in LiveToDraft(rCache[1]) : rNode' = IF rNode = <<n.order>> THEN <<>> ELSE <<n.order>>
  /\ UNCHANGED <<scene, page, guard, rServer, rList, rCache, rPoll, rTyped, rCalls>>
TypeRun ==
  /\ RunShown /\ Spend("field")
  /\ rTyped' \in GuidanceTexts \ {rTyped}
  /\ UNCHANGED <<scene, page, guard, rServer, rList, rCache, rPoll, rNode, rCalls>>

Offered(kind) ==
  CASE kind = "stop" -> ~ Finished(rCache[1]) /\ rCache[1].status # "blocked"
    [] kind = "cleanup" -> Finished(rCache[1]) /\ rCache[1].tree # "cleaned"
    [] OTHER -> TRUE
\* The deadline's field holds a time, or is empty and clears it.
Fielded(kind) ==
  CASE kind = "guidance" -> {<<rTyped>>} [] kind = "deadline" -> {<<TRUE>>, <<FALSE>>} [] OTHER -> {<<>>}
PressRun(kind) ==
  /\ RunShown /\ Offered(kind) /\ rCalls[kind].pc = "idle" /\ Spend("other")
  /\ \E value \in Fielded(kind) :
       rCalls' = [rCalls EXCEPT ![kind] = [Quiet EXCEPT !.pc = "sent", !.value = value]]
  /\ UNCHANGED <<scene, page, guard, rServer, rList, rCache, rPoll, rForm>>

(***************************************************************************)
(* The server's handlers. A refusal changes nothing; all but the guidance's *)
(* answer with the run they meant to save even when the save failed.        *)
(***************************************************************************)
Outcomes(kind, value, run) ==
  CASE kind = "deadline" -> IF FlowTerminal(run) THEN {} ELSE {[run EXCEPT !.timed = value[1]]}
    [] kind = "guidance" -> IF FlowTerminal(run) THEN {} ELSE {[run EXCEPT !.guidance = value[1]]}
    [] kind = "stop" -> IF FlowTerminal(run) THEN {} ELSE {[run EXCEPT !.status = "stopped"]}
    [] OTHER -> IF ~ FlowTerminal(run) THEN {}
                ELSE IF run.tree = "cleaned" THEN {run} ELSE Cleaned(run)
RunHandled(kind) ==
  /\ rCalls[kind].pc = "sent"
  /\ \/ \E run \in Outcomes(kind, rCalls[kind].value, rServer), stored \in BOOLEAN :
          /\ stored \/ kind # "guidance"
          /\ rServer' = IF stored THEN run ELSE rServer
          /\ rCalls' = [rCalls EXCEPT ![kind] = [Quiet EXCEPT !.pc = "done", !.answer = <<run>>]]
     \/ rCalls' = [rCalls EXCEPT ![kind].pc = "failed"] /\ UNCHANGED rServer
  /\ UNCHANGED <<shellVars, rList, rCache, rPoll, rForm>>
\* refresh: the answer replaces the copy, an older poll answer may still be on its way, and
\* the guidance field is cleared whatever it holds by now.
RunAnswered(kind) ==
  /\ rCalls[kind].pc = "done" /\ rCalls' = [rCalls EXCEPT ![kind] = Quiet]
  /\ rCache' = rCalls[kind].answer /\ rList' = <<>>
  /\ rTyped' = IF kind = "guidance" THEN "" ELSE rTyped
  /\ UNCHANGED <<shellVars, rServer, rPoll, rNode>>
RunRefused(kind) ==
  /\ rCalls[kind].pc = "failed" /\ rCalls' = [rCalls EXCEPT ![kind] = Quiet]
  /\ UNCHANGED <<shellVars, rServer, rList, rCache, rPoll, rForm>>
RunSettles == \E kind \in CallKinds : RunHandled(kind) \/ RunAnswered(kind) \/ RunRefused(kind)

RunNext ==
  \/ RunMoves \/ ListPolled \/ OpenRun \/ LeaveRun
  \/ PollAnswered \/ PollArrives \/ PollLost
  \/ SelectRunNode \/ TypeRun \/ \E kind \in CallKinds : PressRun(kind)
  \/ RunSettles

(***************************************************************************)
(* Properties.                                                              *)
(***************************************************************************)
RunTypeOK ==
  /\ rServer.guidance \in GuidanceTexts /\ rServer.nodes \in RunStages..(RunStages + RunRounds)
  /\ rServer.delivered <= rServer.nodes /\ rTyped \in GuidanceTexts

\* Whatever old answers overtake each other, whatever save was lost behind an answer, and
\* however the run ends behind the page, an open page comes to show the run as it is stored,
\* and for good once the run rests. (FlowsPage.tsx:749-753, 773-790)
RunPageCatchesUp == <>[](RunOpen => rCache = <<rServer>>)
=============================================================================
