---------------------------- MODULE TicketBoard ----------------------------
(***************************************************************************)
(* The ticketboard of one agent: ticket files and their claim sidecars.     *)
(* Sessions change them through the nightshift-ticket command line, each    *)
(* command a process of its own that reads the file, decides, and replaces  *)
(* it; the control plane (operator, exec minting, janitor) does the same    *)
(* under nsMu, which the command line knows nothing of.                     *)
(***************************************************************************)
EXTENDS Subsequence

CONSTANTS
  Tickets, Workers, Jobs,
  Refs,         \* pull and merge requests a note may link
  Nobody, NoRef,
  Lane,         \* Lane[t]: "hunt", "improve" or "ops"; none counts as improve
  Backlog,      \* the tickets open at first, oldest first
  HuntWorkers, ImproveWorkers,  \* slots of the exec wave per feature lane
  Bound, AllEvents  \* bounds: Bound[k] events of kind k, AllEvents of all kinds

Events == {"command", "update", "create", "mint", "error", "crash", "age"}
Distinct(s) == \A i, k \in DOMAIN s : s[i] = s[k] => i = k

ASSUME BoardAssumption ==
  /\ Nobody \notin Workers \cup Jobs \cup Tickets /\ Workers \cap Jobs = {} /\ NoRef \notin Refs
  /\ Lane \in [Tickets -> {"hunt", "improve", "ops"}]
  /\ Backlog \in Seq(Tickets) /\ Distinct(Backlog)
  /\ HuntWorkers \in Nat /\ ImproveWorkers \in Nat
  /\ Bound \in [Events -> Nat] /\ AllEvents \in Nat
  /\ IsFiniteSet(Jobs) /\ Cardinality(Jobs) >= Bound["mint"] * (HuntWorkers + ImproveWorkers)

VARIABLES
  ticket,  \* the ticket files: [status, notes], a note being <<by, ref>>
  claim,   \* the sidecars: [file, by], file "none", "fresh" or "stale" (8 h old)
  born,    \* the tickets in the order of their creation
  job,     \* job[j]: the ticket a saved exec job was minted for
  forge,   \* forge[r]: "open", "merged" or "closed" without merging
  cmd,     \* the command a session runs: [op, pc, t, copy]
  cp,      \* the control-plane handler that has nsMu: [op, t, copy, picks, avail, next, j]
  jan,     \* the janitor's pass: [todo, links, t, unread, landed, gone]
  spent    \* how often each bounded event happened

vars == <<ticket, claim, born, job, forge, cmd, cp, jan, spent>>

NoTicket == [status |-> "absent", notes |-> <<>>]
NoClaim == [file |-> "none", by |-> Nobody]
Ready == [op |-> "none", pc |-> "idle", t |-> Nobody, copy |-> NoTicket]
Unlocked == [op |-> "none", t |-> Nobody, copy |-> NoTicket, picks |-> <<>>, avail |-> {},
             next |-> 1, j |-> Nobody]
Resting == [todo |-> {}, links |-> [t \in Tickets |-> {}], t |-> Nobody,
            unread |-> {}, landed |-> FALSE, gone |-> {}]

Spend(kind) ==
  /\ spent[kind] < Bound[kind]
  /\ Cardinality(UNION {{k} \X (1..spent[k]) : k \in Events}) < AllEvents
  /\ spent' = [spent EXCEPT ![kind] = @ + 1]

Init ==
  /\ ticket = [t \in Tickets |->
                 IF \E i \in DOMAIN Backlog : Backlog[i] = t
                 THEN [NoTicket EXCEPT !.status = "open"] ELSE NoTicket]
  /\ claim = [t \in Tickets |-> NoClaim]
  /\ born = Backlog
  /\ job = [j \in Jobs |-> Nobody]
  /\ forge = [r \in Refs |-> "open"]
  /\ cmd = [w \in Workers |-> Ready]
  /\ cp = Unlocked /\ jan = Resting
  /\ spent = [k \in Events |-> 0]

(***************************************************************************)
(* The files.                                                               *)
(***************************************************************************)
Noted(tk, by, ref) == [tk EXCEPT !.notes = Append(@, <<by, ref>>)]
Moved(tk, status, by, ref) == [Noted(tk, by, ref) EXCEPT !.status = status]

\* A whole ticket is replaced.
Replace(t, tk) == ticket' = [ticket EXCEPT ![t] = tk]
Unclaim(t) == claim' = [claim EXCEPT ![t] = NoClaim]

(***************************************************************************)
(* nightshift-ticket, a command per process.                                *)
(***************************************************************************)
\* MUTANT of Create: an id is drawn again, and the file of that ticket replaced.
CreateAgain(t) ==
  /\ Spend("create")
  /\ ticket' = [ticket EXCEPT ![t] = [NoTicket EXCEPT !.status = "open"]]
  /\ born' = Append(born, t)
  /\ UNCHANGED <<claim, job, forge, cmd, cp, jan>>

\* By a session's command or by the operator (handleTicketCreate).
Create(t) ==
  /\ ticket[t].status = "absent" /\ Spend("create")
  /\ ticket' = [ticket EXCEPT ![t].status = "open"]
  /\ born' = Append(born, t)
  /\ UNCHANGED <<claim, job, forge, cmd, cp, jan>>

Begin(w, op, t, pc, copy) ==
  /\ cmd[w] = Ready /\ Spend("command")
  /\ cmd' = [cmd EXCEPT ![w] = [op |-> op, pc |-> pc, t |-> t, copy |-> copy]]
  /\ UNCHANGED <<ticket, claim, born, job, forge, cp, jan>>

Claim(w, t) == ticket[t].status = "open" /\ Begin(w, "claim", t, "lock", NoTicket)

Review(w, t, ref) ==
  /\ ticket[t].status = "open"
  /\ Begin(w, "review", t, "replace", Moved(ticket[t], "review", "agent", ref))

Comment(w, t, ref) ==
  /\ ticket[t].status \in {"open", "review"}
  /\ Begin(w, "comment", t, "replace", Noted(ticket[t], "agent", ref))

Close(w, t) ==
  /\ ticket[t].status = "review"
  /\ Begin(w, "close", t, "replace", Moved(ticket[t], "closed", "agent", NoRef))

At(w, pc) == cmd[w].pc = pc
Go(w, pc) == cmd' = [cmd EXCEPT ![w].pc = pc]
Refuse(w) == cmd' = [cmd EXCEPT ![w] = Ready]
Silent == UNCHANGED <<born, job, forge, cp, jan, spent>>

\* Exclusive creation of the sidecar, empty at first.
Lock(t) ==
  /\ claim[t].file = "none"
  /\ claim' = [claim EXCEPT ![t] = [file |-> "fresh", by |-> Nobody]]

TryLock(w) ==
  /\ At(w, "lock")
  /\ \/ Lock(cmd[w].t) /\ Go(w, "sign")
     \/ claim[cmd[w].t].file # "none" /\ Go(w, "stat") /\ UNCHANGED claim
  /\ UNCHANGED <<ticket>> /\ Silent

\* A fresh lock refuses; a stale one, or one that is gone by now, is stolen.
StatLock(w) ==
  /\ At(w, "stat")
  /\ IF claim[cmd[w].t].file = "fresh" THEN Refuse(w) ELSE Go(w, "steal")
  /\ UNCHANGED <<ticket, claim>> /\ Silent

\* mv: the sidecar that is there now, if one is.
StealLock(w) ==
  /\ At(w, "steal")
  /\ IF claim[cmd[w].t].file = "none" THEN Refuse(w) ELSE Go(w, "relock")
  /\ Unclaim(cmd[w].t)
  /\ UNCHANGED <<ticket>> /\ Silent

Relock(w) ==
  /\ At(w, "relock")
  /\ \/ Lock(cmd[w].t) /\ Go(w, "sign")
     \/ claim[cmd[w].t].file # "none" /\ Refuse(w) /\ UNCHANGED claim
  /\ UNCHANGED <<ticket>> /\ Silent

\* The holder's name goes into the sidecar, whoever's it is by now.
Sign(w) ==
  /\ At(w, "sign") /\ Go(w, "inform")
  /\ claim' = [claim EXCEPT ![cmd[w].t] = [file |-> "fresh", by |-> w]]
  /\ UNCHANGED <<ticket>> /\ Silent

\* claimedBy goes into the ticket, which is read again for it, in any status.
Inform(w) ==
  /\ At(w, "inform")
  /\ cmd' = [cmd EXCEPT ![w].pc = "replace", ![w].copy = ticket[cmd[w].t]]
  /\ UNCHANGED <<ticket, claim>> /\ Silent

\* The replacement that ends a command, or all but ends it.
ReplaceFile(w) ==
  /\ At(w, "replace")
  /\ Replace(cmd[w].t, cmd[w].copy)
  /\ IF cmd[w].op \in {"review", "close"} THEN Go(w, "unclaim") ELSE Refuse(w)
  /\ UNCHANGED claim /\ Silent

RemoveClaim(w) ==
  /\ At(w, "unclaim") /\ Refuse(w)
  /\ Unclaim(cmd[w].t)
  /\ UNCHANGED <<ticket>> /\ Silent

\* The session is killed in the middle of a command.
Die(w) ==
  /\ cmd[w] # Ready /\ Spend("crash") /\ Refuse(w)
  /\ UNCHANGED <<ticket, claim, born, job, forge, cp, jan>>

Command(w) ==
  \/ TryLock(w) \/ StatLock(w) \/ StealLock(w) \/ Relock(w)
  \/ Sign(w) \/ Inform(w) \/ ReplaceFile(w) \/ RemoveClaim(w)

(***************************************************************************)
(* The operator's updates (handleTicketUpdate): any change of status, a     *)
(* note, or both.                                                           *)
(***************************************************************************)
Free == cp.op = "none"
Quiet == UNCHANGED <<born, forge, cmd, spent>>

\* notes: none, or one by the operator.
UpdateLoad(t, status, notes) ==
  /\ Free /\ Spend("update")
  /\ ticket[t].status # "absent" /\ status # ticket[t].status
  /\ status = "" => notes # <<>>
  /\ LET noted == [ticket[t] EXCEPT !.notes = @ \o notes]
     IN  cp' = [Unlocked EXCEPT !.op = "update", !.t = t,
                  !.copy = IF status = "" THEN noted ELSE [noted EXCEPT !.status = status]]
  /\ UNCHANGED <<ticket, claim, born, job, forge, cmd, jan>>

UpdateSave ==
  /\ cp.op = "update" /\ cp' = Unlocked
  /\ \/ Replace(cp.t, cp.copy) /\ UNCHANGED spent
     \/ Spend("error") /\ UNCHANGED ticket
  /\ UNCHANGED <<claim, born, job, forge, cmd, jan>>

(***************************************************************************)
(* The exec wave (execWorkerJobs, mintExecJobs): a job for every open       *)
(* ticket that fits, each claimed once its job is saved.  The sessions that *)
(* fill the slots left over have no ticket and are not modelled.            *)
(***************************************************************************)
\* MUTANT of Available: a claimed ticket is dispatched, too.
AvailableClaimed == {t \in Tickets : ticket[t].status = "open"}

Available == {t \in Tickets : ticket[t].status = "open" /\ claim[t].file # "fresh"}

\* orderLane: created within the last night first, each part oldest first.
Ordered ==
  LET old == Len(Backlog)
  IN  SubSeq(born, old + 1, Len(born)) \o SubSeq(born, 1, old)

InLane(lane) == Kept(Ordered, {t \in Available : Lane[t] = lane})

First(s, n) == SubSeq(s, 1, IF n < Len(s) THEN n ELSE Len(s))
Rest(s, n) == SubSeq(s, n + 1, Len(s))

\* MUTANT of Picked: the ops lane is filled before the features' overflow.
PickedOpsFirst ==
  LET hunt == InLane("hunt")
      improve == InLane("improve")
  IN  First(First(hunt, HuntWorkers) \o First(improve, ImproveWorkers) \o InLane("ops")
              \o Rest(hunt, HuntWorkers) \o Rest(improve, ImproveWorkers),
            HuntWorkers + ImproveWorkers)

Picked ==
  LET hunt == InLane("hunt")
      improve == InLane("improve")
  IN  First(First(hunt, HuntWorkers) \o First(improve, ImproveWorkers)
              \o Rest(hunt, HuntWorkers) \o Rest(improve, ImproveWorkers) \o InLane("ops"),
            HuntWorkers + ImproveWorkers)

MintRead ==
  /\ Free /\ Spend("mint")
  /\ cp' = [Unlocked EXCEPT !.op = "mint", !.picks = Picked, !.avail = Available]
  /\ UNCHANGED <<ticket, claim, born, job, forge, cmd, jan>>

NewJob == CHOOSE j \in Jobs : job[j] = Nobody
Minting == cp.op = "mint" /\ cp.j = Nobody
NextPick == cp.picks[cp.next]

\* MUTANT of MintSave: the claim is written even when the job was not saved.
MintSaveAnyway ==
  /\ Minting /\ cp.next \in DOMAIN cp.picks
  /\ cp' = [cp EXCEPT !.j = NewJob]
  /\ job' = [job EXCEPT ![NewJob] = NextPick] \/ job' = job
  /\ UNCHANGED <<ticket, claim, jan>> /\ Quiet

\* The job of the next pick; one that cannot be saved is passed over.
MintSave ==
  /\ Minting /\ cp.next \in DOMAIN cp.picks
  /\ \/ /\ cp' = [cp EXCEPT !.j = NewJob]
        /\ job' = [job EXCEPT ![NewJob] = NextPick]
        /\ UNCHANGED spent
     \/ /\ cp' = [cp EXCEPT !.next = @ + 1]
        /\ Spend("error") /\ UNCHANGED job
  /\ UNCHANGED <<ticket, claim, born, forge, cmd, jan>>

\* The claim is written over whatever the sidecar holds by now, or is not.
MintClaim ==
  /\ cp.op = "mint" /\ cp.j # Nobody
  /\ \/ claim' = [claim EXCEPT ![NextPick] = [file |-> "fresh", by |-> cp.j]] /\ UNCHANGED spent
     \/ Spend("error") /\ UNCHANGED claim
  /\ cp' = [cp EXCEPT !.j = Nobody, !.next = @ + 1]
  /\ UNCHANGED <<ticket, born, job, forge, cmd, jan>>

MintEnd ==
  /\ Minting /\ cp.next \notin DOMAIN cp.picks /\ cp' = Unlocked
  /\ UNCHANGED <<ticket, claim, job, jan>> /\ Quiet

(***************************************************************************)
(* The janitor: what is in review, then for each ticket its forges without  *)
(* the lock, then the ticket again under it.                                *)
(***************************************************************************)
\* prRefs, mrRefs: the links in notes that are not the janitor's own.
Linked(tk) ==
  {tk.notes[i][2] : i \in {k \in DOMAIN tk.notes : tk.notes[k][1] # "janitor"}} \ {NoRef}

\* A ticket without links is the steward's.
JanitorList ==
  /\ Free /\ jan = Resting
  /\ LET review == {t \in Tickets : ticket[t].status = "review"}
         links == [t \in Tickets |-> IF t \in review THEN Linked(ticket[t]) ELSE {}]
         todo == {t \in review : links[t] # {}}
     IN  todo # {} /\ jan' = [Resting EXCEPT !.todo = todo, !.links = links]
  /\ UNCHANGED <<ticket, claim, job, cp>> /\ Quiet

JanitorTake(t) ==
  /\ t \in jan.todo /\ jan.t = Nobody
  /\ jan' = [jan EXCEPT !.t = t, !.unread = jan.links[t], !.landed = TRUE, !.gone = {}]
  /\ UNCHANGED <<ticket, claim, job, cp>> /\ Quiet

\* The pass is over with the ticket it is at, and after the last one at rest.
Checked ==
  IF jan.todo = {jan.t} THEN Resting
  ELSE [jan EXCEPT !.todo = @ \ {jan.t}, !.t = Nobody, !.unread = {}, !.landed = FALSE, !.gone = {}]

\* MUTANT of Abandoned: every request that has ended is abandoned.
AbandonedByState(r) == forge[r] # "open"

Abandoned(r) == forge[r] = "closed"

\* One request that cannot be read leaves the ticket for the next pass.
JanitorFetch(r) ==
  /\ jan.t # Nobody /\ r \in jan.unread
  /\ \/ /\ jan' = [jan EXCEPT !.unread = @ \ {r},
                     !.landed = @ /\ forge[r] = "merged" /\ ~Abandoned(r),
                     !.gone = IF Abandoned(r) THEN @ \cup {r} ELSE @]
        /\ UNCHANGED spent
     \/ Spend("error") /\ jan' = Checked
  /\ UNCHANGED <<ticket, claim, born, job, forge, cmd, cp>>

\* MUTANT of Unflagged: what was flagged before is flagged again.
UnflaggedAll(tk, gone) == gone

\* The abandoned links the ticket does not say so of yet.
Unflagged(tk, gone) == {r \in gone : \A i \in DOMAIN tk.notes : tk.notes[i] # <<"janitor", r>>}

\* The ticket may have left review while the janitor was on the network.
JanitorLoad ==
  /\ Free /\ jan.t # Nobody /\ jan.unread = {}
  /\ LET tk == ticket[jan.t]
         new == Unflagged(tk, jan.gone)
         flags == CHOOSE s \in [1..Cardinality(new) -> {"janitor"} \X new] : Distinct(s)
     IN  cp' = IF tk.status # "review" \/ (~jan.landed /\ new = {}) THEN cp
               ELSE [Unlocked EXCEPT !.op = "janitor", !.t = jan.t,
                       !.copy = IF jan.landed THEN Moved(tk, "closed", "janitor", NoRef)
                                ELSE [tk EXCEPT !.notes = @ \o flags]]
  /\ jan' = Checked
  /\ UNCHANGED <<ticket, claim, job>> /\ Quiet

\* A save that fails leaves the claim, too.
JanitorSave ==
  /\ cp.op = "janitor"
  /\ \/ /\ Replace(cp.t, cp.copy) /\ UNCHANGED spent
        /\ cp' = IF cp.copy.status = "closed" THEN [cp EXCEPT !.op = "unclaim"] ELSE Unlocked
     \/ Spend("error") /\ cp' = Unlocked /\ UNCHANGED <<ticket>>
  /\ UNCHANGED <<claim, born, job, forge, cmd, jan>>

JanitorUnclaim ==
  /\ cp.op = "unclaim" /\ cp' = Unlocked
  /\ Unclaim(cp.t)
  /\ UNCHANGED <<ticket, job, jan>> /\ Quiet

Janitor ==
  \/ JanitorList \/ JanitorLoad
  \/ \E t \in Tickets : JanitorTake(t)
  \/ \E r \in Refs : JanitorFetch(r)

Handler ==
  \/ UpdateSave \/ MintSave \/ MintClaim \/ MintEnd \/ JanitorSave \/ JanitorUnclaim

\* The control plane is restarted: the handler and the pass are gone.
Crash ==
  /\ Spend("crash") /\ cp' = Unlocked /\ jan' = Resting
  /\ UNCHANGED <<ticket, claim, born, job, forge, cmd>>

(***************************************************************************)
(* Around it: eight hours pass for a claim, and pull requests end.          *)
(***************************************************************************)
\* No command and no handler takes that long.
Age(t) ==
  /\ claim[t].file = "fresh" /\ Spend("age")
  /\ Free /\ \A w \in Workers : cmd[w] = Ready
  /\ claim' = [claim EXCEPT ![t].file = "stale"]
  /\ UNCHANGED <<ticket, born, job, forge, cmd, cp, jan>>

\* A request ends, or is reopened when it was closed without merging.  One no
\* ticket links yet makes no difference.
Settle(r, state) ==
  /\ \E t \in Tickets : r \in Linked(ticket[t])
  /\ <<forge[r], state>> \in {<<"open", "merged">>, <<"open", "closed">>, <<"closed", "open">>}
  /\ forge' = [forge EXCEPT ![r] = state]
  /\ UNCHANGED <<ticket, claim, born, job, cmd, cp, jan, spent>>

Next ==
  \/ \E t \in Tickets :
       \/ Create(t) \/ Age(t)
       \/ \E status \in {"", "open", "review", "closed"},
             notes \in {<<>>} \cup {<<<<"operator", ref>>>> : ref \in Refs} :
            UpdateLoad(t, status, notes)
       \/ \E w \in Workers :
            \/ Claim(w, t) \/ Close(w, t)
            \/ \E ref \in Refs \cup {NoRef} : Review(w, t, ref) \/ Comment(w, t, ref)
  \/ \E w \in Workers : Command(w) \/ Die(w)
  \/ \E r \in Refs, state \in {"open", "merged", "closed"} : Settle(r, state)
  \/ MintRead \/ Handler \/ Janitor \/ Crash

\* The janitor's goroutine runs for ever, and a handler that has nsMu goes on.
Fairness == WF_vars(Handler) /\ WF_vars(Janitor)

Spec == Init /\ [][Next]_vars
FairSpec == Spec /\ Fairness

-----------------------------------------------------------------------------
Statuses == {"absent", "open", "review", "closed"}
Notes == {"agent", "operator", "janitor"} \X (Refs \cup {NoRef})

\* Types of the files, the commands and the handlers.
TypeOK ==
  /\ \A t \in Tickets :
       /\ ticket[t].status \in Statuses /\ ticket[t].notes \in Seq(Notes)
       /\ claim[t].file \in {"none", "fresh", "stale"}
       /\ claim[t].by \in Workers \cup Jobs \cup {Nobody}
  /\ born \in Seq(Tickets) /\ Distinct(born)
  /\ job \in [Jobs -> Tickets \cup {Nobody}]
  /\ forge \in [Refs -> {"open", "merged", "closed"}]
  /\ \A w \in Workers : cmd[w].t \in Tickets \cup {Nobody}
  /\ cp.t \in Tickets \cup {Nobody} /\ cp.picks \in Seq(Tickets)
  /\ cp.next \in 1..(Len(cp.picks) + 1)
  /\ jan.todo \subseteq Tickets /\ jan.unread \subseteq Refs /\ jan.gone \subseteq Refs

\* A ticket the scheduler has claimed has a job that was saved for it: whatever
\* fails or crashes in a wave, no claim keeps a ticket from the queue for eight
\* hours with no worker coming (mintExecJobs).
ScheduledHaveJobs ==
  \A t \in Tickets : claim[t].by \in Jobs => job[claim[t].by] = t

\* No job is minted for a ticket while the claim of an earlier one is fresh,
\* over waves, errors and crashes in the middle of a wave (execWorkerJobs).
NoDoubleMint ==
  [][\A j \in Jobs, t \in Tickets :
       job[j] # t /\ job'[j] = t => ~(claim[t].file = "fresh" /\ claim[t].by \in Jobs)]_vars

\* The exec wave fills its slots as long as there are tickets; ops gets one only
\* when both feature lanes are served, each of which has its own slots; and in
\* a lane the tickets of this night come first, then the oldest (execWorkerJobs).
PicksAreFair ==
  cp.op = "mint" =>
    LET Least(a, b) == IF a < b THEN a ELSE b
        chosen == {cp.picks[i] : i \in DOMAIN cp.picks}
        Of(S, lane) == Cardinality({t \in S : Lane[t] = lane})
        Rank(t) == CHOOSE i \in DOMAIN born : born[i] = t
        Tonight(t) == Rank(t) > Len(Backlog)
        Before(t, u) == IF Tonight(t) = Tonight(u) THEN Rank(t) < Rank(u) ELSE Tonight(t)
    IN  /\ Distinct(cp.picks) /\ chosen \subseteq cp.avail
        /\ Len(cp.picks) = Least(HuntWorkers + ImproveWorkers, Cardinality(cp.avail))
        /\ Of(chosen, "hunt") >= Least(HuntWorkers, Of(cp.avail, "hunt"))
        /\ Of(chosen, "improve") >= Least(ImproveWorkers, Of(cp.avail, "improve"))
        /\ Of(chosen, "ops") > 0 => \A t \in cp.avail \ chosen : Lane[t] = "ops"
        /\ \A t \in cp.avail \ chosen, u \in chosen : Lane[t] = Lane[u] => Before(u, t)

\* The janitor says of an abandoned request once that it was abandoned, over its
\* passes, its restarts and commands that write back an older ticket.
AbandonedNotedOnce ==
  \A t \in Tickets : \A i, k \in DOMAIN ticket[t].notes :
    LET notes == ticket[t].notes
    IN  notes[i] = notes[k] /\ notes[i][1] = "janitor" /\ notes[i][2] # NoRef => i = k

\* A ticket in review whose requests are all merged does not stay that way: the
\* janitor closes it, however often a request cannot be read or a save fails.
Landed(t) ==
  /\ ticket[t].status = "review" /\ Linked(ticket[t]) # {}
  /\ \A r \in Linked(ticket[t]) : forge[r] = "merged"

LandedCloses == \A t \in Tickets : Landed(t) ~> ~Landed(t)

\* A claim that steals moves away a stale sidecar, never the lock another claim
\* has just taken: "mv is the atomic arbiter (exactly one mv of the stale sidecar
\* succeeds); the loser exits refused" (nightshift-ticket claim).
StealTakesStale ==
  [][\A w \in Workers :
       At(w, "steal") /\ cmd'[w].pc = "relock" => claim[cmd[w].t].file = "stale"]_vars
=============================================================================
