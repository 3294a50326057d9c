------------------------------ MODULE SlotPool ------------------------------
(***************************************************************************)
(* What the launch queue promises about sessions: they hold slots of the    *)
(* box and of their group, one is taken at a time and only within both      *)
(* limits, and they are given back in any number at any time.               *)
(***************************************************************************)
EXTENDS Integers, FiniteSets

CONSTANTS Sessions, Group, GroupLimit, BoxLimit

VARIABLE busy

Members(s) == {r \in busy : Group[r] = Group[s]}

\* 0 is no limit.
Below(taken, limit) == limit = 0 \/ Cardinality(taken) < limit

Init == busy = {}

Acquire(s) ==
  /\ s \notin busy
  /\ Below(busy, BoxLimit)
  /\ Below(Members(s), GroupLimit[s])
  /\ busy' = busy \cup {s}

Release == busy # {} /\ \E rest \in SUBSET busy : rest # busy /\ busy' = rest

Next == Release \/ \E s \in Sessions : Acquire(s)

Spec == Init /\ [][Next]_busy
=============================================================================
