------------------------- MODULE TicketBoardProofs --------------------------
(***************************************************************************)
(* Proofs about TicketBoard, for every set of tickets, sessions and jobs and *)
(* every number of slots: what the exec wave picks (orderLane,               *)
(* execWorkerJobs), and what claims, waves and the janitor's notes promise  *)
(* while commands, handlers and crashes interleave.                         *)
(***************************************************************************)
EXTENDS TicketBoard, SubsequenceProofs

(***************************************************************************)
(* The exec wave's picks.  Sooner(t, u): t is dispatched before u when both *)
(* are in one lane.                                                         *)
(***************************************************************************)
Old == Len(Backlog)

\* What the order of creation is worth: every ticket once, the backlog first.
BornWell == born \in Seq(Tickets) /\ Distinct(born) /\ Old <= Len(born)

Sooner(t, u) ==
  \E i, k \in DOMAIN born :
    /\ born[i] = t /\ born[k] = u
    /\ IF i > Old <=> k > Old THEN i < k ELSE i > Old

\* The order of dispatch is that of creation, with tonight's tickets moved to the
\* front (orderLane).
LEMMA OrderedTurns ==
  ASSUME BornWell
  PROVE  /\ Ordered \in Seq(Tickets) /\ Len(Ordered) = Len(born)
         /\ \A i \in 1..Len(born) :
              Ordered[i] = born[IF i <= Len(born) - Old THEN Old + i
                                ELSE i - (Len(born) - Old)]
<1> DEFINE late == SubSeq(born, Old + 1, Len(born))
           early == SubSeq(born, 1, Old)
<1>1. /\ Len(born) \in Nat /\ Old \in Nat /\ Old <= Len(born)
      /\ \A i \in 1..Len(born) : born[i] \in Tickets
  BY BoardAssumption, LenProperties DEF BornWell, Old
<1>2. /\ late \in Seq(Tickets) /\ Len(late) = Len(born) - Old
      /\ \A i \in 1..(Len(born) - Old) : late[i] = born[Old + i]
  BY <1>1, SubSeqProperties
<1>3. /\ early \in Seq(Tickets) /\ Len(early) = Old
      /\ \A i \in 1..Old : early[i] = born[i]
  BY <1>1, SubSeqProperties
<1> HIDE DEF late, early
<1>4. /\ late \o early \in Seq(Tickets) /\ Len(late \o early) = Len(born)
      /\ \A i \in 1..Len(born) :
           (late \o early)[i] = IF i <= Len(late) THEN late[i] ELSE early[i - Len(late)]
  BY <1>1, <1>2, <1>3, ConcatProperties
<1>5. Ordered = late \o early
  BY DEF Ordered, Old, late, early
<1>6. ASSUME NEW i \in 1..Len(born)
      PROVE  Ordered[i] = born[IF i <= Len(born) - Old THEN Old + i
                               ELSE i - (Len(born) - Old)]
  <2>1. CASE i <= Len(born) - Old
    <3>1. Ordered[i] = late[i] /\ i \in 1..(Len(born) - Old)
      BY <1>1, <1>2, <1>4, <1>5, <2>1
    <3> QED BY <3>1, <2>1, <1>2
  <2>2. CASE ~ (i <= Len(born) - Old)
    <3>1. Ordered[i] = early[i - Len(late)] /\ i - Len(late) \in 1..Old
      BY <1>1, <1>2, <1>4, <1>5, <2>2
    <3> QED BY <3>1, <2>2, <1>2, <1>3
  <2> QED BY <2>1, <2>2
<1> QED BY <1>4, <1>5, <1>6

\* A place of the order of creation for every place of the order of dispatch.
LEMMA OrderedKeeps ==
  ASSUME BornWell
  PROVE  /\ \A i, k \in DOMAIN Ordered :
              /\ i < k => Sooner(Ordered[i], Ordered[k])
              /\ Ordered[i] = Ordered[k] => i = k
         /\ \A i \in DOMAIN born : \E k \in DOMAIN Ordered : Ordered[k] = born[i]
<1> DEFINE n == Len(born)
           turn(i) == IF i <= n - Old THEN Old + i ELSE i - (n - Old)
           back(i) == IF i > Old THEN i - Old ELSE i + (n - Old)
<1>1. n \in Nat /\ Old \in Nat /\ Old <= n /\ DOMAIN born = 1..n
  BY BoardAssumption, LenProperties DEF BornWell, Old
<1>2. DOMAIN Ordered = 1..n /\ \A i \in 1..n : Ordered[i] = born[turn(i)]
  BY OrderedTurns, LenProperties
<1>3. \A i \in 1..n : turn(i) \in 1..n /\ back(i) \in 1..n /\ turn(back(i)) = i
  BY <1>1
<1>4. ASSUME NEW i \in 1..n, NEW k \in 1..n
      PROVE  /\ i < k => Sooner(Ordered[i], Ordered[k])
             /\ Ordered[i] = Ordered[k] => i = k
  <2>1. /\ i < k => IF turn(i) > Old <=> turn(k) > Old THEN turn(i) < turn(k)
                    ELSE turn(i) > Old
        /\ turn(i) = turn(k) => i = k
    BY <1>1
  <2>2. /\ turn(i) \in DOMAIN born /\ turn(k) \in DOMAIN born
        /\ Ordered[i] = born[turn(i)] /\ Ordered[k] = born[turn(k)]
    BY <1>1, <1>2, <1>3
  <2> HIDE DEF turn, n
  <2> QED BY <2>1, <2>2 DEF Sooner, BornWell, Distinct
<1>5. \A i \in 1..n : Ordered[back(i)] = born[i]
  <2> HIDE DEF turn, back
  <2> QED BY <1>2, <1>3
<1> HIDE DEF turn, back, n
<1> QED BY <1>1, <1>2, <1>3, <1>4, <1>5

\* A lane in order: every available ticket of it once, sooner ones first.
LaneOf(avail, lane) == {t \in avail : Lane[t] = lane}

LaneIs(seq, S) ==
  /\ seq \in Seq(S) /\ IsFiniteSet(S) /\ Len(seq) = Cardinality(S)
  /\ \A k, l \in DOMAIN seq : k < l => Sooner(seq[k], seq[l])
  /\ \A k, l \in DOMAIN seq : seq[k] = seq[l] => k = l
  /\ \A t \in S : \E k \in DOMAIN seq : seq[k] = t

\* Kept in the order of dispatch, the available tickets of a lane are one (orderLane).
LEMMA LaneListed ==
  ASSUME BornWell, NEW lane, \A t \in Available : \E i \in DOMAIN born : born[i] = t
  PROVE  LaneIs(InLane(lane), LaneOf(Available, lane))
<1> DEFINE S == LaneOf(Available, lane)
           Q == Kept(Ordered, S)
           at == Places(Ordered, S)
<1>1. Ordered \in Seq(Tickets)
  BY OrderedTurns
<1>2. PICK place \in Bijection(1..Len(Q), at) :
        /\ \A k \in DOMAIN place : Q[k] = Ordered[place[k]]
        /\ \A k, l \in DOMAIN place : k < l => place[k] < place[l]
  BY <1>1, KeptInOrder, SMTT(30)
<1>3. Q \in Seq(Tickets) /\ Len(Q) = Cardinality(at) /\ DOMAIN Q = 1..Len(Q) /\ Len(Q) \in Nat
  BY <1>1, KeptInOrder, LenProperties
<1>4. /\ place \in [1..Len(Q) -> at]
      /\ \A k, l \in 1..Len(Q) : place[k] = place[l] => k = l
      /\ \A i \in at : \E k \in 1..Len(Q) : place[k] = i
  <2> HIDE DEF at, Q
  <2> QED BY ONLY <1>2, Fun_BijectionProperties
<1>5. at \subseteq DOMAIN Ordered /\ \A i \in at : Ordered[i] \in S
  BY DEF Places
<1>6. \A t \in S : \E i \in at : Ordered[i] = t
  <2> SUFFICES ASSUME NEW t \in S PROVE \E i \in at : Ordered[i] = t
    OBVIOUS
  <2>1. t \in Available
    BY DEF LaneOf
  <2>2. PICK i \in DOMAIN born : born[i] = t
    BY <2>1
  <2>3. PICK k \in DOMAIN Ordered : Ordered[k] = t
    BY <2>2, OrderedKeeps
  <2> QED BY <2>3 DEF Places
<1> HIDE DEF at, Q, S
<1>7. \A k \in 1..Len(Q) : Q[k] \in S
  BY <1>2, <1>4, <1>5
<1>8. Q \in Seq(S)
  BY <1>3, <1>7
<1>9. \A k, l \in 1..Len(Q) :
        (k < l => Sooner(Q[k], Q[l])) /\ (Q[k] = Q[l] => k = l)
  <2> SUFFICES ASSUME NEW k \in 1..Len(Q), NEW l \in 1..Len(Q)
               PROVE  /\ k < l => Sooner(Q[k], Q[l])
                      /\ Q[k] = Q[l] => k = l
    OBVIOUS
  <2>1. /\ place[k] \in DOMAIN Ordered /\ place[l] \in DOMAIN Ordered
        /\ Q[k] = Ordered[place[k]] /\ Q[l] = Ordered[place[l]]
        /\ k < l => place[k] < place[l]
        /\ place[k] = place[l] => k = l
    BY <1>2, <1>4, <1>5
  <2> QED BY <2>1, OrderedKeeps
<1>10. \A t \in S : \E k \in 1..Len(Q) : Q[k] = t
  BY <1>2, <1>4, <1>6
<1>11. IsFiniteSet(S) /\ Len(Q) = Cardinality(S)
  <2>1. Q \in Bijection(1..Len(Q), S)
    <3>1. Q \in [1..Len(Q) -> S]
      BY <1>8, LenProperties
    <3>2. /\ \A k, l \in 1..Len(Q) : Q[k] = Q[l] => k = l
          /\ \A t \in S : \E k \in 1..Len(Q) : Q[k] = t
      BY <1>9, <1>10
    <3> QED BY <3>1, <3>2, Fun_IsBij
  <2>2. ExistsBijection(1..Len(Q), S)
    BY <2>1, Fun_ExistsBij
  <2>3. IsFiniteSet(1..Len(Q)) /\ Cardinality(1..Len(Q)) = Len(Q)
    BY <1>3, FS_Interval
  <2> QED BY <2>2, <2>3, FS_Bijection
<1> QED
  <2>1. InLane(lane) = Q
    BY DEF InLane, Q, S, LaneOf
  <2>2. LaneIs(Q, S)
    BY <1>3, <1>8, <1>9, <1>10, <1>11 DEF LaneIs
  <2> QED BY <2>1, <2>2 DEF S

\* How the picks of three lanes are laid out before the cut: first hunt's budget,
\* then improve's, then what is left of each, then ops (execWorkerJobs).
Mix(hunt, improve, ops) ==
  First(hunt, HuntWorkers) \o First(improve, ImproveWorkers)
    \o Rest(hunt, HuntWorkers) \o Rest(improve, ImproveWorkers) \o ops

Least(a, b) == IF a < b THEN a ELSE b

\* A budget takes the front of a lane and leaves the rest (execWorkerJobs).
LEMMA Cut ==
  ASSUME NEW T, NEW s \in Seq(T), NEW n \in Nat
  PROVE  LET c == Least(n, Len(s))
         IN  /\ First(s, n) \in Seq(T) /\ Len(First(s, n)) = c
             /\ \A k \in 1..c : First(s, n)[k] = s[k]
             /\ Rest(s, n) \in Seq(T) /\ Len(Rest(s, n)) = Len(s) - c
             /\ \A k \in 1..(Len(s) - c) : Rest(s, n)[k] = s[c + k]
<1> DEFINE c == Least(n, Len(s))
<1>1. Len(s) \in Nat /\ \A k \in 1..Len(s) : s[k] \in T
  BY LenProperties
<1>2. /\ c \in Nat /\ c <= Len(s) /\ c <= n /\ (c = n \/ c = Len(s))
  BY <1>1 DEF Least
<1>3. /\ First(s, n) = SubSeq(s, 1, c)
      /\ Rest(s, n) = SubSeq(s, n + 1, Len(s))
  BY DEF First, Rest, Least
<1> HIDE DEF c
<1>4. /\ SubSeq(s, 1, c) \in Seq(T) /\ Len(SubSeq(s, 1, c)) = c
      /\ \A k \in 1..c : SubSeq(s, 1, c)[k] = s[k]
  BY <1>1, <1>2, SubSeqProperties
<1>5. /\ SubSeq(s, n + 1, Len(s)) \in Seq(T)
      /\ Len(SubSeq(s, n + 1, Len(s))) = IF n + 1 <= Len(s) THEN Len(s) - n ELSE 0
      /\ \A k \in 1..(Len(s) - n) : SubSeq(s, n + 1, Len(s))[k] = s[n + k]
  BY <1>1, SubSeqProperties
<1>6. Len(Rest(s, n)) = Len(s) - c
  <2>1. CASE c = n
    BY <2>1, <1>1, <1>2, <1>3, <1>5
  <2>2. CASE c = Len(s) /\ c # n
    BY <2>2, <1>1, <1>2, <1>3, <1>5
  <2> QED BY <2>1, <2>2, <1>2
<1>7. ASSUME NEW k \in 1..(Len(s) - c) PROVE Rest(s, n)[k] = s[c + k]
  <2>1. c = n /\ k \in 1..(Len(s) - n)
    BY <1>1, <1>2
  <2> QED BY <2>1, <1>3, <1>5
<1> QED BY <1>3, <1>4, <1>5, <1>6, <1>7 DEF c

\* One sequence after another.
LEMMA Glue ==
  ASSUME NEW T, NEW s \in Seq(T), NEW t \in Seq(T), NEW r, r = s \o t
  PROVE  /\ r \in Seq(T) /\ Len(r) = Len(s) + Len(t)
         /\ \A k \in 1..Len(s) : r[k] = s[k]
         /\ \A k \in 1..Len(t) : r[Len(s) + k] = t[k]
<1>1. Len(s) \in Nat /\ Len(t) \in Nat
  BY LenProperties
<1>2. /\ s \o t \in Seq(T) /\ Len(s \o t) = Len(s) + Len(t)
      /\ \A k \in 1..(Len(s) + Len(t)) :
           (s \o t)[k] = IF k <= Len(s) THEN s[k] ELSE t[k - Len(s)]
  BY ConcatProperties
<1> QED BY <1>1, <1>2

\* Where each lane's tickets stand among all.
LaidOut(W, H, I, O) ==
  LET h == Len(H)
      i == Len(I)
      a == Least(HuntWorkers, h)
      b == Least(ImproveWorkers, i)
  IN  /\ Len(W) = h + i + Len(O)
      /\ \A k \in 1..a : W[k] = H[k]
      /\ \A k \in 1..b : W[a + k] = I[k]
      /\ \A k \in 1..(h - a) : W[a + b + k] = H[a + k]
      /\ \A k \in 1..(i - b) : W[h + b + k] = I[b + k]
      /\ \A k \in 1..Len(O) : W[h + i + k] = O[k]

\* The budgets and the overflow are laid out one after the other (execWorkerJobs).
LEMMA MixLayout ==
  ASSUME NEW T, NEW H \in Seq(T), NEW I \in Seq(T), NEW O \in Seq(T)
  PROVE  Mix(H, I, O) \in Seq(T) /\ LaidOut(Mix(H, I, O), H, I, O)
<1> DEFINE h == Len(H)
           i == Len(I)
           o == Len(O)
           a == Least(HuntWorkers, h)
           b == Least(ImproveWorkers, i)
           FH == First(H, HuntWorkers)
           FI == First(I, ImproveWorkers)
           RH == Rest(H, HuntWorkers)
           RI == Rest(I, ImproveWorkers)
           A1 == FH \o FI
           A2 == A1 \o RH
           A3 == A2 \o RI
           A4 == A3 \o O
<1>1. /\ h \in Nat /\ i \in Nat /\ o \in Nat /\ HuntWorkers \in Nat /\ ImproveWorkers \in Nat
  BY BoardAssumption, LenProperties
<1>2. /\ a \in Nat /\ b \in Nat /\ a <= h /\ b <= i
  BY <1>1 DEF Least
<1>3. /\ FH \in Seq(T) /\ Len(FH) = a /\ \A k \in 1..a : FH[k] = H[k]
      /\ RH \in Seq(T) /\ Len(RH) = h - a
      /\ \A k \in 1..(h - a) : RH[k] = H[a + k]
  BY <1>1, Cut
<1>4. /\ FI \in Seq(T) /\ Len(FI) = b /\ \A k \in 1..b : FI[k] = I[k]
      /\ RI \in Seq(T) /\ Len(RI) = i - b
      /\ \A k \in 1..(i - b) : RI[k] = I[b + k]
  BY <1>1, Cut
<1>5. O \in Seq(T) /\ Len(O) = o
  OBVIOUS
<1> HIDE DEF a, b, h, i, o, FH, FI, RH, RI
<1>6. /\ A1 \in Seq(T) /\ Len(A1) = a + b
      /\ \A k \in 1..a : A1[k] = H[k]
      /\ \A k \in 1..b : A1[a + k] = I[k]
  <2>0. A1 = FH \o FI
    OBVIOUS
  <2> HIDE DEF A1
  <2>1. /\ A1 \in Seq(T) /\ Len(A1) = Len(FH) + Len(FI)
        /\ \A k \in 1..Len(FH) : A1[k] = FH[k]
        /\ \A k \in 1..Len(FI) : A1[Len(FH) + k] = FI[k]
    <3>1. FH \in Seq(T) /\ FI \in Seq(T)
      BY <1>3, <1>4
    <3>2. A1 \in Seq(T) /\ Len(A1) = Len(FH) + Len(FI)
      BY <2>0, <3>1, Glue
    <3>3. \A k \in 1..Len(FH) : A1[k] = FH[k]
      BY <2>0, <3>1, Glue
    <3>4. \A k \in 1..Len(FI) : A1[Len(FH) + k] = FI[k]
      BY <2>0, <3>1, Glue
    <3> QED BY <3>2, <3>3, <3>4
  <2> QED BY <2>1, <1>3, <1>4
<1> HIDE DEF A1
<1>7. /\ A2 \in Seq(T) /\ Len(A2) = h + b
      /\ \A k \in 1..(a + b) : A2[k] = A1[k]
      /\ \A k \in 1..(h - a) : A2[a + b + k] = H[a + k]
  <2>1. a + b + (h - a) = h + b
    BY <1>1, <1>2
  <2>0. A2 = A1 \o RH
    OBVIOUS
  <2> HIDE DEF A2
  <2>2. /\ A2 \in Seq(T) /\ Len(A2) = Len(A1) + Len(RH)
        /\ \A k \in 1..Len(A1) : A2[k] = A1[k]
        /\ \A k \in 1..Len(RH) : A2[Len(A1) + k] = RH[k]
    <3>1. A1 \in Seq(T) /\ RH \in Seq(T)
      BY <1>3, <1>6
    <3>2. A2 \in Seq(T) /\ Len(A2) = Len(A1) + Len(RH)
      BY <2>0, <3>1, Glue
    <3>3. \A k \in 1..Len(A1) : A2[k] = A1[k]
      BY <2>0, <3>1, Glue
    <3>4. \A k \in 1..Len(RH) : A2[Len(A1) + k] = RH[k]
      BY <2>0, <3>1, Glue
    <3> QED BY <3>2, <3>3, <3>4
  <2> QED BY <2>1, <2>2, <1>3, <1>6
<1> HIDE DEF A2
<1>8. /\ A3 \in Seq(T) /\ Len(A3) = h + i
      /\ \A k \in 1..(h + b) : A3[k] = A2[k]
      /\ \A k \in 1..(i - b) : A3[h + b + k] = I[b + k]
  <2>1. h + b + (i - b) = h + i
    BY <1>1, <1>2
  <2>0. A3 = A2 \o RI
    OBVIOUS
  <2> HIDE DEF A3
  <2>2. /\ A3 \in Seq(T) /\ Len(A3) = Len(A2) + Len(RI)
        /\ \A k \in 1..Len(A2) : A3[k] = A2[k]
        /\ \A k \in 1..Len(RI) : A3[Len(A2) + k] = RI[k]
    <3>1. A2 \in Seq(T) /\ RI \in Seq(T)
      BY <1>4, <1>7
    <3>2. A3 \in Seq(T) /\ Len(A3) = Len(A2) + Len(RI)
      BY <2>0, <3>1, Glue
    <3>3. \A k \in 1..Len(A2) : A3[k] = A2[k]
      BY <2>0, <3>1, Glue
    <3>4. \A k \in 1..Len(RI) : A3[Len(A2) + k] = RI[k]
      BY <2>0, <3>1, Glue
    <3> QED BY <3>2, <3>3, <3>4
  <2> QED BY <2>1, <2>2, <1>4, <1>7
<1> HIDE DEF A3
<1>9. /\ A4 \in Seq(T) /\ Len(A4) = h + i + o
      /\ \A k \in 1..(h + i) : A4[k] = A3[k]
      /\ \A k \in 1..o : A4[h + i + k] = O[k]
  <2>0. A4 = A3 \o O
    OBVIOUS
  <2> HIDE DEF A4
  <2>1. /\ A4 \in Seq(T) /\ Len(A4) = Len(A3) + Len(O)
        /\ \A k \in 1..Len(A3) : A4[k] = A3[k]
        /\ \A k \in 1..Len(O) : A4[Len(A3) + k] = O[k]
    <3>1. A3 \in Seq(T) /\ O \in Seq(T)
      BY <1>5, <1>8
    <3>2. A4 \in Seq(T) /\ Len(A4) = Len(A3) + Len(O)
      BY <2>0, <3>1, Glue
    <3>3. \A k \in 1..Len(A3) : A4[k] = A3[k]
      BY <2>0, <3>1, Glue
    <3>4. \A k \in 1..Len(O) : A4[Len(A3) + k] = O[k]
      BY <2>0, <3>1, Glue
    <3> QED BY <3>2, <3>3, <3>4
  <2> QED BY <2>1, <1>5, <1>8
<1> HIDE DEF A4
<1>10. \A k \in 1..a : A4[k] = H[k]
  <2> SUFFICES ASSUME NEW k \in 1..a PROVE A4[k] = H[k]
    OBVIOUS
  <2>1. k \in 1..(a + b) /\ k \in 1..(h + b) /\ k \in 1..(h + i)
    BY <1>1, <1>2
  <2> QED BY <2>1, <1>6, <1>7, <1>8, <1>9
<1>11. \A k \in 1..b : A4[a + k] = I[k]
  <2> SUFFICES ASSUME NEW k \in 1..b PROVE A4[a + k] = I[k]
    OBVIOUS
  <2>1. /\ a + k \in 1..(a + b) /\ a + k \in 1..(h + b) /\ a + k \in 1..(h + i)
    BY <1>1, <1>2
  <2> QED BY <2>1, <1>6, <1>7, <1>8, <1>9
<1>12. \A k \in 1..(h - a) : A4[a + b + k] = H[a + k]
  <2> SUFFICES ASSUME NEW k \in 1..(h - a) PROVE A4[a + b + k] = H[a + k]
    OBVIOUS
  <2>1. /\ a + b + k \in 1..(h + b) /\ a + b + k \in 1..(h + i)
    BY <1>1, <1>2
  <2> QED BY <2>1, <1>7, <1>8, <1>9
<1>13. \A k \in 1..(i - b) : A4[h + b + k] = I[b + k]
  <2> SUFFICES ASSUME NEW k \in 1..(i - b) PROVE A4[h + b + k] = I[b + k]
    OBVIOUS
  <2>1. h + b + k \in 1..(h + i)
    BY <1>1, <1>2
  <2> QED BY <2>1, <1>8, <1>9
<1>14. Mix(H, I, O) = A4
  BY DEF Mix, A4, A3, A2, A1, FH, FI, RH, RI
<1> QED BY <1>9, <1>10, <1>11, <1>12, <1>13, <1>14 DEF h, i, o, a, b, LaidOut

\* All the available tickets, lane by lane, each once and in the order in which
\* the wave would take them (execWorkerJobs).
AllInOrder(W, avail) ==
  /\ W \in Bijection(1..Len(W), avail) /\ W \in Seq(avail)
  /\ \A k, l \in 1..Len(W) : k < l /\ Lane[W[k]] = Lane[W[l]] => Sooner(W[k], W[l])
  /\ \A k, l \in 1..Len(W) : Lane[W[k]] = "ops" /\ Lane[W[l]] # "ops" => l < k

\* Mixed as execWorkerJobs mixes them, the lanes are all in that order, the slots of
\* each lane first.
LEMMA MixIsAll ==
  ASSUME NEW avail \in SUBSET Tickets, NEW H, NEW I, NEW O,
         LaneIs(H, LaneOf(avail, "hunt")), LaneIs(I, LaneOf(avail, "improve")),
         LaneIs(O, LaneOf(avail, "ops"))
  PROVE  LET a == Least(HuntWorkers, Len(H))
             b == Least(ImproveWorkers, Len(I))
             W == Mix(H, I, O)
         IN  /\ AllInOrder(W, avail) /\ Len(W) \in Nat
             /\ a \in Nat /\ b \in Nat /\ a + b <= Len(W)
             /\ \A k \in 1..a : Lane[W[k]] = "hunt"
             /\ \A k \in 1..b : Lane[W[a + k]] = "improve"
<1> DEFINE h == Len(H)
           i == Len(I)
           o == Len(O)
           a == Least(HuntWorkers, h)
           b == Least(ImproveWorkers, i)
           W == Mix(H, I, O)
           n == Len(W)
<1>1. /\ \A t \in LaneOf(avail, "hunt") : t \in avail /\ Lane[t] = "hunt"
      /\ \A t \in LaneOf(avail, "improve") : t \in avail /\ Lane[t] = "improve"
      /\ \A t \in LaneOf(avail, "ops") : t \in avail /\ Lane[t] = "ops"
      /\ \A t \in avail : \/ t \in LaneOf(avail, "hunt") \/ t \in LaneOf(avail, "improve")
                          \/ t \in LaneOf(avail, "ops")
  BY BoardAssumption DEF LaneOf
<1>2. /\ H \in Seq(LaneOf(avail, "hunt")) /\ I \in Seq(LaneOf(avail, "improve"))
      /\ O \in Seq(LaneOf(avail, "ops"))
  BY DEF LaneIs
<1>3. /\ H \in Seq(avail) /\ I \in Seq(avail) /\ O \in Seq(avail)
  <2>1. /\ LaneOf(avail, "hunt") \subseteq avail /\ LaneOf(avail, "improve") \subseteq avail
        /\ LaneOf(avail, "ops") \subseteq avail
    BY <1>1
  <2> QED BY <1>2, <2>1, SeqMonotonic
<1>4. /\ h \in Nat /\ i \in Nat /\ o \in Nat
      /\ DOMAIN H = 1..h /\ DOMAIN I = 1..i /\ DOMAIN O = 1..o
  BY <1>2, LenProperties
<1>5. /\ a \in Nat /\ b \in Nat /\ a <= h /\ b <= i
  BY <1>4, BoardAssumption DEF Least
<1>6. /\ W \in Seq(avail) /\ n = h + i + o
      /\ \A k \in 1..a : W[k] = H[k]
      /\ \A k \in 1..b : W[a + k] = I[k]
      /\ \A k \in 1..(h - a) : W[a + b + k] = H[a + k]
      /\ \A k \in 1..(i - b) : W[h + b + k] = I[b + k]
      /\ \A k \in 1..o : W[h + i + k] = O[k]
  <2>1. W \in Seq(avail) /\ LaidOut(W, H, I, O)
    BY <1>3, MixLayout
  <2> HIDE DEF W
  <2> QED BY <2>1 DEF LaidOut
<1> HIDE DEF h, i, o, a, b, W, n
<1> DEFINE isH(k) == k <= a \/ (a + b < k /\ k <= h + b)
           isI(k) == (a < k /\ k <= a + b) \/ (h + b < k /\ k <= h + i)
           isO(k) == h + i < k
           hx(k) == IF k <= a THEN k ELSE k - b
           ix(k) == IF k <= a + b THEN k - a ELSE k - h
           ox(k) == k - (h + i)
<1>7. ASSUME NEW k \in 1..n
      PROVE  /\ isH(k) \/ isI(k) \/ isO(k)
             /\ isH(k) => hx(k) \in 1..h /\ W[k] = H[hx(k)] /\ Lane[W[k]] = "hunt"
             /\ isI(k) => ix(k) \in 1..i /\ W[k] = I[ix(k)] /\ Lane[W[k]] = "improve"
             /\ isO(k) => ox(k) \in 1..o /\ W[k] = O[ox(k)] /\ Lane[W[k]] = "ops"
  <2>1. isH(k) \/ isI(k) \/ isO(k)
    BY <1>4, <1>5
  <2>2. ASSUME isH(k) PROVE hx(k) \in 1..h /\ W[k] = H[hx(k)]
    <3>1. CASE k <= a
      BY <3>1, <1>4, <1>5, <1>6
    <3>2. CASE a + b < k /\ k <= h + b
      <4>1. k - (a + b) \in 1..(h - a) /\ k = a + b + (k - (a + b)) /\ ~ (k <= a)
            /\ k - b = a + (k - (a + b)) /\ k - b \in 1..h
        BY <3>2, <1>4, <1>5
      <4> QED BY <4>1, <1>6
    <3> QED BY <3>1, <3>2, <2>2
  <2>3. ASSUME isI(k) PROVE ix(k) \in 1..i /\ W[k] = I[ix(k)]
    <3>1. CASE a < k /\ k <= a + b
      <4>1. k - a \in 1..b /\ k = a + (k - a) /\ k - a \in 1..i
        BY <3>1, <1>4, <1>5
      <4> QED BY <4>1, <3>1, <1>6
    <3>2. CASE h + b < k /\ k <= h + i
      <4>1. k - (h + b) \in 1..(i - b) /\ k = h + b + (k - (h + b)) /\ ~ (k <= a + b)
            /\ k - h = b + (k - (h + b)) /\ k - h \in 1..i
        BY <3>2, <1>4, <1>5
      <4> QED BY <4>1, <1>6
    <3> QED BY <3>1, <3>2, <2>3
  <2>4. ASSUME isO(k) PROVE ox(k) \in 1..o /\ W[k] = O[ox(k)]
    <3>1. k - (h + i) \in 1..o /\ k = h + i + (k - (h + i))
      BY <2>4, <1>4, <1>6
    <3> QED BY <3>1, <1>6
  <2>5. /\ \A m \in 1..h : Lane[H[m]] = "hunt"
        /\ \A m \in 1..i : Lane[I[m]] = "improve"
        /\ \A m \in 1..o : Lane[O[m]] = "ops"
    BY <1>1, <1>2, <1>4, LenProperties
  <2> HIDE DEF isH, isI, isO, hx, ix, ox
  <2> QED BY <2>1, <2>2, <2>3, <2>4, <2>5
<1>8. ASSUME NEW k \in 1..n, NEW l \in 1..n, k < l
      PROVE  /\ isH(k) /\ isH(l) => hx(k) < hx(l)
             /\ isI(k) /\ isI(l) => ix(k) < ix(l)
             /\ isO(k) /\ isO(l) => ox(k) < ox(l)
             /\ isO(k) => isO(l)
  BY <1>4, <1>5, <1>6, <1>8
<1>9. /\ \A m \in 1..h : \E k \in 1..n : isH(k) /\ hx(k) = m
      /\ \A m \in 1..i : \E k \in 1..n : isI(k) /\ ix(k) = m
      /\ \A m \in 1..o : \E k \in 1..n : isO(k) /\ ox(k) = m
  <2>1. ASSUME NEW m \in 1..h PROVE \E k \in 1..n : isH(k) /\ hx(k) = m
    <3>1. (IF m <= a THEN m ELSE m + b) \in 1..n
      BY <1>4, <1>5, <1>6
    <3>2. isH((IF m <= a THEN m ELSE m + b)) /\ hx((IF m <= a THEN m ELSE m + b)) = m
      BY <1>4, <1>5, <1>6
    <3> HIDE DEF isH, hx
    <3> QED BY <3>1, <3>2
  <2>2. ASSUME NEW m \in 1..i PROVE \E k \in 1..n : isI(k) /\ ix(k) = m
    <3>1. (IF m <= b THEN m + a ELSE m + h) \in 1..n
      BY <1>4, <1>5, <1>6
    <3>2. isI((IF m <= b THEN m + a ELSE m + h)) /\ ix((IF m <= b THEN m + a ELSE m + h)) = m
      BY <1>4, <1>5, <1>6
    <3> HIDE DEF isI, ix
    <3> QED BY <3>1, <3>2
  <2>3. ASSUME NEW m \in 1..o PROVE \E k \in 1..n : isO(k) /\ ox(k) = m
    <3>1. m + (h + i) \in 1..n
      BY <1>4, <1>5, <1>6
    <3>2. isO(m + (h + i)) /\ ox(m + (h + i)) = m
      BY <1>4, <1>5, <1>6
    <3> HIDE DEF isO, ox
    <3> QED BY <3>1, <3>2
  <2> QED BY <2>1, <2>2, <2>3
<1>10. /\ \A k \in 1..a : isH(k) /\ k \in 1..n
       /\ \A k \in 1..b : isI(a + k) /\ a + k \in 1..n
       /\ n \in Nat /\ a + b <= n
  BY <1>4, <1>5, <1>6
<1> HIDE DEF isH, isI, isO, hx, ix, ox
<1>11. ASSUME NEW k \in 1..n, NEW l \in 1..n, k < l, Lane[W[k]] = Lane[W[l]]
       PROVE  Sooner(W[k], W[l]) /\ W[k] # W[l]
  <2>1. CASE isH(k)
    <3>1. isH(l) /\ hx(k) < hx(l) /\ W[k] = H[hx(k)] /\ W[l] = H[hx(l)]
          /\ hx(k) \in 1..h /\ hx(l) \in 1..h
      BY <2>1, <1>7, <1>8, <1>11
    <3> QED BY <3>1, <1>4 DEF LaneIs
  <2>2. CASE isI(k)
    <3>1. isI(l) /\ ix(k) < ix(l) /\ W[k] = I[ix(k)] /\ W[l] = I[ix(l)]
          /\ ix(k) \in 1..i /\ ix(l) \in 1..i
      BY <2>2, <1>7, <1>8, <1>11
    <3> QED BY <3>1, <1>4 DEF LaneIs
  <2>3. CASE isO(k)
    <3>1. isO(l) /\ ox(k) < ox(l) /\ W[k] = O[ox(k)] /\ W[l] = O[ox(l)]
          /\ ox(k) \in 1..o /\ ox(l) \in 1..o
      BY <2>3, <1>7, <1>8, <1>11
    <3> QED BY <3>1, <1>4 DEF LaneIs
  <2> QED BY <2>1, <2>2, <2>3, <1>7
<1>12. \A t \in avail : \E k \in 1..n : W[k] = t
  <2> SUFFICES ASSUME NEW t \in avail PROVE \E k \in 1..n : W[k] = t
    OBVIOUS
  <2>1. CASE t \in LaneOf(avail, "hunt")
    <3>1. PICK m \in 1..h : H[m] = t
      BY <2>1, <1>4 DEF LaneIs
    <3> QED BY <3>1, <1>7, <1>9
  <2>2. CASE t \in LaneOf(avail, "improve")
    <3>1. PICK m \in 1..i : I[m] = t
      BY <2>2, <1>4 DEF LaneIs
    <3> QED BY <3>1, <1>7, <1>9
  <2>3. CASE t \in LaneOf(avail, "ops")
    <3>1. PICK m \in 1..o : O[m] = t
      BY <2>3, <1>4 DEF LaneIs
    <3> QED BY <3>1, <1>7, <1>9
  <2> QED BY <2>1, <2>2, <2>3, <1>1
<1>13. W \in Bijection(1..n, avail)
  <2>1. W \in [1..n -> avail]
    BY <1>6, LenProperties DEF n
  <2>2. \A k, l \in 1..n : W[k] = W[l] => k = l
    <3> SUFFICES ASSUME NEW k \in 1..n, NEW l \in 1..n, W[k] = W[l], k # l PROVE FALSE
      OBVIOUS
    <3>1. k < l \/ l < k
      BY <1>10
    <3> QED BY <3>1, <1>11
  <2> QED BY <2>1, <2>2, <1>12, Fun_IsBij
<1>14. \A k, l \in 1..n : Lane[W[k]] = "ops" /\ Lane[W[l]] # "ops" => l < k
  <2> SUFFICES ASSUME NEW k \in 1..n, NEW l \in 1..n, Lane[W[k]] = "ops", Lane[W[l]] # "ops"
               PROVE  l < k
    OBVIOUS
  <2>1. isO(k) /\ ~ isO(l)
    BY <1>7
  <2>2. ~ (k < l) /\ k # l
    BY <2>1, <1>8
  <2> QED BY <2>2, <1>10
<1>15. AllInOrder(W, avail)
  BY <1>6, <1>11, <1>13, <1>14 DEF AllInOrder, n
<1>16. /\ \A k \in 1..a : Lane[W[k]] = "hunt"
       /\ \A k \in 1..b : Lane[W[a + k]] = "improve"
  BY <1>7, <1>10
<1> QED BY <1>5, <1>10, <1>15, <1>16 DEF a, b, W, n, h, i

(***************************************************************************)
(* What a wave's picks are worth (execWorkerJobs).                          *)
(***************************************************************************)
Slots == HuntWorkers + ImproveWorkers
Chosen(picks) == {picks[i] : i \in DOMAIN picks}

PicksWell(picks, avail) ==
  /\ picks \in Seq(Tickets) /\ avail \in SUBSET Tickets /\ Distinct(picks)
  /\ Chosen(picks) \subseteq avail
  /\ Len(picks) = Least(Slots, Cardinality(avail))
  /\ Cardinality(LaneOf(Chosen(picks), "hunt"))
       >= Least(HuntWorkers, Cardinality(LaneOf(avail, "hunt")))
  /\ Cardinality(LaneOf(Chosen(picks), "improve"))
       >= Least(ImproveWorkers, Cardinality(LaneOf(avail, "improve")))
  /\ LaneOf(Chosen(picks), "ops") # {} => \A t \in avail \ Chosen(picks) : Lane[t] = "ops"
  /\ IsFiniteSet(avail) /\ IsFiniteSet(Chosen(picks))
  /\ \A t \in avail \ Chosen(picks), u \in Chosen(picks) : Lane[t] = Lane[u] => Sooner(u, t)

\* So many different members are that many.
LEMMA CountAtLeast ==
  ASSUME NEW S, IsFiniteSet(S), NEW n \in Nat, NEW f \in [1..n -> S],
         \A k, l \in 1..n : f[k] = f[l] => k = l
  PROVE  Cardinality(S) >= n
<1>1. f \in Injection(1..n, S)
  BY Fun_IsInj
<1>2. Cardinality(1..n) <= Cardinality(S)
  BY <1>1, FS_Injection
<1>3. Cardinality(1..n) = n /\ Cardinality(S) \in Nat
  BY FS_Interval, FS_CardinalityType
<1> QED BY <1>2, <1>3

\* The first Slots of the tickets in order serve every lane its budget, ops last.
LEMMA CutIsWell ==
  ASSUME NEW avail \in SUBSET Tickets, NEW W, AllInOrder(W, avail), Len(W) \in Nat,
         NEW a \in Nat, NEW b \in Nat, a + b <= Len(W), a <= HuntWorkers, b <= ImproveWorkers,
         a = Least(HuntWorkers, Cardinality(LaneOf(avail, "hunt"))),
         b = Least(ImproveWorkers, Cardinality(LaneOf(avail, "improve"))),
         \A k \in 1..a : Lane[W[k]] = "hunt",
         \A k \in 1..b : Lane[W[a + k]] = "improve"
  PROVE  PicksWell(First(W, Slots), avail)
<1> DEFINE P == First(W, Slots)
           n == Len(W)
           c == Least(Slots, n)
<1>1. /\ HuntWorkers \in Nat /\ ImproveWorkers \in Nat /\ Slots = HuntWorkers + ImproveWorkers
      /\ Slots \in Nat
  BY BoardAssumption DEF Slots
<1>2. /\ W \in [1..n -> avail] /\ W \in Seq(avail)
      /\ \A k, l \in 1..n : W[k] = W[l] => k = l
      /\ \A t \in avail : \E k \in 1..n : W[k] = t
  BY Fun_BijectionProperties DEF AllInOrder
<1>3. /\ c \in Nat /\ c <= n /\ a + b <= c /\ (c = n \/ c = Slots)
  BY <1>1 DEF Least
<1>4. /\ P \in Seq(avail) /\ Len(P) = c /\ \A k \in 1..c : P[k] = W[k]
  BY <1>1, <1>2, Cut, SMTT(30)
<1>5. DOMAIN P = 1..c
  BY <1>4, LenProperties
<1> HIDE DEF P, c
<1>6. P \in Seq(Tickets)
  BY <1>4, SeqMonotonic
<1>7. Distinct(P)
  BY <1>2, <1>3, <1>4, <1>5 DEF Distinct
<1>8. Chosen(P) \subseteq avail
  BY <1>2, <1>3, <1>4, <1>5 DEF Chosen
<1>9. IsFiniteSet(avail) /\ Cardinality(avail) = n
  <2>1. IsFiniteSet(1..n) /\ Cardinality(1..n) = n
    <3>1. n \in Nat
      OBVIOUS
    <3> HIDE DEF n
    <3> QED BY ONLY <3>1, FS_Interval
  <2>2. ExistsBijection(1..n, avail)
    BY Fun_ExistsBij DEF AllInOrder
  <2> QED BY <2>1, <2>2, FS_Bijection
<1>10. IsFiniteSet(Chosen(P))
  BY <1>8, <1>9, FS_Subset
<1>11. \A lane : IsFiniteSet(LaneOf(Chosen(P), lane))
  <2> SUFFICES ASSUME NEW lane PROVE IsFiniteSet(LaneOf(Chosen(P), lane))
    OBVIOUS
  <2>1. LaneOf(Chosen(P), lane) \in SUBSET Chosen(P)
    BY DEF LaneOf
  <2> QED BY <2>1, <1>10, FS_Subset
<1>12. Cardinality(LaneOf(Chosen(P), "hunt")) >= a
  <2> DEFINE f == [k \in 1..a |-> W[k]]
             S == LaneOf(Chosen(P), "hunt")
  <2>1. \A k \in 1..a : k \in 1..c /\ k \in 1..n
    BY <1>3
  <2>2. f \in [1..a -> S]
    BY <2>1, <1>4, <1>5 DEF LaneOf, Chosen
  <2>3. \A k, l \in 1..a : f[k] = f[l] => k = l
    BY <2>1, <1>2
  <2> HIDE DEF f, S
  <2>4. IsFiniteSet(S)
    BY <1>11 DEF S
  <2>5. Cardinality(S) >= a
    BY <2>2, <2>3, <2>4, CountAtLeast
  <2> QED BY <2>5 DEF S
<1>13. Cardinality(LaneOf(Chosen(P), "improve")) >= b
  <2> DEFINE f == [k \in 1..b |-> W[a + k]]
             S == LaneOf(Chosen(P), "improve")
  <2>1. \A k \in 1..b : a + k \in 1..c /\ a + k \in 1..n
    BY <1>3
  <2>2. f \in [1..b -> S]
    BY <2>1, <1>4, <1>5, ZenonT(40) DEF LaneOf, Chosen
  <2>3. \A k, l \in 1..b : f[k] = f[l] => k = l
    <3> SUFFICES ASSUME NEW k \in 1..b, NEW l \in 1..b, W[a + k] = W[a + l] PROVE k = l
      OBVIOUS
    <3>1. a + k = a + l
      BY <2>1, <1>2
    <3> QED BY <3>1
  <2> HIDE DEF f, S
  <2>4. IsFiniteSet(S)
    BY <1>11 DEF S
  <2>5. Cardinality(S) >= b
    BY <2>2, <2>3, <2>4, CountAtLeast
  <2> QED BY <2>5 DEF S
<1>14. \A t \in avail \ Chosen(P) : \E l \in 1..n : W[l] = t /\ c < l
  <2> SUFFICES ASSUME NEW t \in avail \ Chosen(P) PROVE \E l \in 1..n : W[l] = t /\ c < l
    OBVIOUS
  <2>1. PICK l \in 1..n : W[l] = t
    BY <1>2
  <2>2. ~ (l \in 1..c)
    BY <2>1, <1>4, <1>5 DEF Chosen
  <2> QED BY <2>1, <2>2, <1>3
<1>15. \A u \in Chosen(P) : \E k \in 1..n : W[k] = u /\ k <= c
  BY <1>3, <1>4, <1>5 DEF Chosen
<1>16. LaneOf(Chosen(P), "ops") # {} => \A t \in avail \ Chosen(P) : Lane[t] = "ops"
  <2> SUFFICES ASSUME NEW u \in LaneOf(Chosen(P), "ops"), NEW t \in avail \ Chosen(P)
               PROVE  Lane[t] = "ops"
    OBVIOUS
  <2>1. u \in Chosen(P) /\ Lane[u] = "ops"
    BY DEF LaneOf
  <2>2. PICK k \in 1..n : W[k] = u /\ k <= c
    BY <2>1, <1>15
  <2>3. PICK l \in 1..n : W[l] = t /\ c < l
    BY <1>14
  <2>4. ~ (l < k)
    BY <2>2, <2>3, <1>3
  <2> QED BY <2>1, <2>2, <2>3, <2>4 DEF AllInOrder
<1>17. \A t \in avail \ Chosen(P), u \in Chosen(P) : Lane[t] = Lane[u] => Sooner(u, t)
  <2> SUFFICES ASSUME NEW t \in avail \ Chosen(P), NEW u \in Chosen(P), Lane[t] = Lane[u]
               PROVE  Sooner(u, t)
    OBVIOUS
  <2>1. PICK k \in 1..n : W[k] = u /\ k <= c
    BY <1>15
  <2>2. PICK l \in 1..n : W[l] = t /\ c < l
    BY <1>14
  <2>3. k < l
    BY <2>1, <2>2, <1>3
  <2> QED BY <2>1, <2>2, <2>3 DEF AllInOrder
<1>18. Len(P) = Least(Slots, Cardinality(avail))
  BY <1>4, <1>9 DEF c
<1>19. PicksWell(P, avail)
  BY <1>6, <1>7, <1>8, <1>9, <1>10, <1>12, <1>13, <1>16, <1>17, <1>18 DEF PicksWell
<1> QED BY <1>19 DEF P

\* What execWorkerJobs picks is well picked.
LEMMA PickedWell ==
  ASSUME BornWell, Available \in SUBSET Tickets,
         \A t \in Available : \E i \in DOMAIN born : born[i] = t
  PROVE  PicksWell(Picked, Available)
<1> DEFINE H == InLane("hunt")
           I == InLane("improve")
           O == InLane("ops")
           W == Mix(H, I, O)
           a == Least(HuntWorkers, Len(H))
           b == Least(ImproveWorkers, Len(I))
<1>1. /\ LaneIs(H, LaneOf(Available, "hunt")) /\ LaneIs(I, LaneOf(Available, "improve"))
      /\ LaneIs(O, LaneOf(Available, "ops"))
  BY LaneListed
<1>2. Picked = First(W, Slots)
  BY DEF Picked, Mix, Slots
<1> HIDE DEF H, I, O
<1>3. /\ AllInOrder(W, Available) /\ Len(W) \in Nat
      /\ a \in Nat /\ b \in Nat /\ a + b <= Len(W)
      /\ \A k \in 1..a : Lane[W[k]] = "hunt"
      /\ \A k \in 1..b : Lane[W[a + k]] = "improve"
  BY <1>1, MixIsAll
<1>4. /\ Len(H) = Cardinality(LaneOf(Available, "hunt")) /\ Len(H) \in Nat
      /\ Len(I) = Cardinality(LaneOf(Available, "improve")) /\ Len(I) \in Nat
  BY <1>1, LenProperties DEF LaneIs
<1>5. a <= HuntWorkers /\ b <= ImproveWorkers
  BY <1>4, BoardAssumption DEF Least
<1>6. /\ a = Least(HuntWorkers, Cardinality(LaneOf(Available, "hunt")))
      /\ b = Least(ImproveWorkers, Cardinality(LaneOf(Available, "improve")))
  BY <1>4
<1> HIDE DEF W, a, b
<1> QED BY <1>2, <1>3, <1>5, <1>6, CutIsWell

(***************************************************************************)
(* The inductive invariant, in parts.  First the types; TypeOK leaves out    *)
(* what a command or a handler holds between two of its steps.              *)
(***************************************************************************)
Docs == [status : Statuses, notes : Seq(Notes)]
Sidecars == [file : {"none", "fresh", "stale"}, by : Workers \cup Jobs \cup {Nobody}]
Steps == {"idle", "lock", "stat", "steal", "relock", "sign", "inform", "replace", "unclaim"}

FileTypes ==
  /\ ticket \in [Tickets -> Docs]
  /\ claim \in [Tickets -> Sidecars]
  /\ job \in [Jobs -> Tickets \cup {Nobody}]
  /\ forge \in [Refs -> {"open", "merged", "closed"}]

Cmds == [op : {"none", "claim", "review", "comment", "close"}, pc : Steps,
         t : Tickets \cup {Nobody}, copy : Docs]

Handlers ==
  [op : {"none", "update", "mint", "janitor", "unclaim"}, t : Tickets \cup {Nobody}, copy : Docs,
   picks : Seq(Tickets), avail : SUBSET Tickets, next : Nat \ {0}, j : Jobs \cup {Nobody}]

Passes ==
  [todo : SUBSET Tickets, links : [Tickets -> SUBSET Refs], t : Tickets \cup {Nobody},
   unread : SUBSET Refs, landed : BOOLEAN, gone : SUBSET Refs]

RecordTypes == cmd \in [Workers -> Cmds] /\ cp \in Handlers /\ jan \in Passes /\ IsFiniteSet(jan.gone)

SpentTypes == spent \in [Events -> Nat] /\ \A k \in Events : spent[k] <= Bound[k]

\* A file that is held to be replaced is that of a ticket there is.
Held ==
  /\ \A w \in Workers : cmd[w].pc # "idle" =>
       /\ cmd[w].t \in Tickets /\ ticket[cmd[w].t].status # "absent"
       /\ cmd[w].pc = "replace" => cmd[w].copy.status # "absent"
  /\ cp.op \in {"update", "janitor", "unclaim"} =>
       cp.t \in Tickets /\ ticket[cp.t].status # "absent"
  /\ cp.op \in {"update", "janitor"} => cp.copy.status # "absent"

\* The tickets there are, and only they, were created, each once.
Bred ==
  /\ born \in Seq(Tickets) /\ Distinct(born) /\ Old <= Len(born)
  /\ \A i \in DOMAIN born : ticket[born[i]].status # "absent"
  /\ \A t \in Tickets : ticket[t].status # "absent" => \E i \in DOMAIN born : born[i] = t

\* A wave is at one of its picks or past the last one; it holds a job only for a
\* pick, and only a wave holds one.
AtPick ==
  /\ cp.next <= Len(cp.picks) + 1
  /\ cp.j # Nobody => cp.op = "mint" /\ cp.next <= Len(cp.picks)
  /\ cp.op = "mint" => PicksWell(cp.picks, cp.avail)

TypeInv == FileTypes /\ RecordTypes /\ SpentTypes /\ Held /\ Bred /\ AtPick

(***************************************************************************)
(* Jobs are never used up: a wave mints one per slot at most, and there are *)
(* as many as the slots of all waves.                                       *)
(***************************************************************************)
Used == {j \in Jobs : job[j] # Nobody}

\* How many jobs the waves so far may have used.
Minted ==
  IF cp.op = "mint"
  THEN (spent["mint"] - 1) * Slots + (cp.next - 1) + (IF cp.j = Nobody THEN 0 ELSE 1)
  ELSE spent["mint"] * Slots

JobsLeft ==
  /\ Cardinality(Used) <= Minted
  /\ cp.op = "mint" => spent["mint"] >= 1

\* Every claim by a job is for the ticket the job was saved for, also the claim
\* the wave is about to write.
ClaimsHaveJobs ==
  /\ \A t \in Tickets : claim[t].by \in Jobs => job[claim[t].by] = t
  /\ cp.j # Nobody => job[cp.j] = NextPick

\* No pick the wave has still to claim is claimed by a job and fresh.
Claimed(t) == claim[t].file = "fresh" /\ claim[t].by \in Jobs
PicksUnclaimed ==
  cp.op = "mint" => \A i \in DOMAIN cp.picks : i >= cp.next => ~Claimed(cp.picks[i])

\* A ticket, or a copy of it that is to replace it, says once that a request was
\* abandoned.
OnceIn(notes) ==
  \A i, k \in DOMAIN notes :
    notes[i] = notes[k] /\ notes[i][1] = "janitor" /\ notes[i][2] # NoRef => i = k
NotedOnce(tk) == OnceIn(tk.notes)
NotesInv ==
  /\ \A t \in Tickets : NotedOnce(ticket[t])
  /\ \A w \in Workers : NotedOnce(cmd[w].copy)
  /\ NotedOnce(cp.copy)

-----------------------------------------------------------------------------
(***************************************************************************)
(* Which steps write which file or which record.                            *)
(***************************************************************************)
Opens(w) ==
  \E t \in Tickets :
    \/ Claim(w, t) \/ Close(w, t)
    \/ \E ref \in Refs \cup {NoRef} : Review(w, t, ref) \/ Comment(w, t, ref)
Updates ==
  \E t \in Tickets, status \in {"", "open", "review", "closed"},
     notes \in {<<>>} \cup {<<<<"operator", ref>>>> : ref \in Refs} : UpdateLoad(t, status, notes)
Settles == \E r \in Refs, state \in {"open", "merged", "closed"} : Settle(r, state)

\* Next, its quantifiers sorted by action.
LEMMA StepKinds ==
  [Next]_vars <=>
    \/ (\E t \in Tickets : Create(t) \/ Age(t)) \/ Updates \/ Settles
    \/ (\E w \in Workers : Opens(w) \/ Command(w) \/ Die(w))
    \/ MintRead \/ Handler \/ Janitor \/ Crash \/ UNCHANGED vars
BY DEF Next, Opens, Updates, Settles

\* A budget is spent one by one.
LEMMA SpendIs ==
  ASSUME NEW k, Spend(k)
  PROVE  spent[k] < Bound[k] /\ spent' = [spent EXCEPT ![k] = @ + 1]
BY DEF Spend

\* A ticket file changes when a ticket is created, and when a command, the
\* operator's update or the janitor replaces it.
LEMMA TicketWrites ==
  ASSUME [Next]_vars
  PROVE  \/ ticket' = ticket
         \/ \E t \in Tickets : Create(t)
         \/ \E w \in Workers : ReplaceFile(w)
         \/ UpdateSave \/ JanitorSave
<1>1. ASSUME NEW t \in Tickets, Age(t) PROVE ticket' = ticket
  BY <1>1 DEF Age
<1>2. ASSUME Updates \/ Settles PROVE ticket' = ticket
  BY <1>2 DEF Updates, Settles, UpdateLoad, Settle
<1>3. ASSUME NEW w \in Workers, Opens(w) \/ Command(w) \/ Die(w), ~ReplaceFile(w)
      PROVE  ticket' = ticket
  BY <1>3 DEF Opens, Claim, Close, Review, Comment, Begin, Die, Command,
              TryLock, StatLock, StealLock, Relock, Sign, Inform, RemoveClaim
<1>4. ASSUME MintRead \/ Handler \/ Janitor \/ Crash, ~UpdateSave, ~JanitorSave
      PROVE  ticket' = ticket
  BY <1>4 DEF MintRead, Handler, MintSave, MintClaim, MintEnd, JanitorUnclaim, Crash,
              Janitor, JanitorList, JanitorTake, JanitorFetch, JanitorLoad
<1>5. ASSUME UNCHANGED vars PROVE ticket' = ticket
  BY <1>5 DEF vars
<1> QED BY <1>1, <1>2, <1>3, <1>4, <1>5, StepKinds

\* A sidecar changes in a claim command, in the commands and handlers that remove
\* it, in a wave, and as time passes.
LEMMA ClaimWrites ==
  ASSUME [Next]_vars
  PROVE  \/ claim' = claim
         \/ \E w \in Workers : TryLock(w) \/ StealLock(w) \/ Relock(w) \/ Sign(w) \/ RemoveClaim(w)
         \/ MintClaim \/ JanitorUnclaim
         \/ \E t \in Tickets : Age(t)
<1>1. ASSUME NEW t \in Tickets, Create(t) PROVE claim' = claim
  BY <1>1 DEF Create
<1>2. ASSUME Updates \/ Settles PROVE claim' = claim
  BY <1>2 DEF Updates, Settles, UpdateLoad, Settle
<1>3. ASSUME NEW w \in Workers, Opens(w) \/ StatLock(w) \/ Inform(w) \/ ReplaceFile(w) \/ Die(w)
      PROVE  claim' = claim
  BY <1>3 DEF Opens, Claim, Close, Review, Comment, Begin, Die, StatLock, Inform, ReplaceFile
<1>4. ASSUME MintRead \/ UpdateSave \/ MintSave \/ MintEnd \/ JanitorSave \/ Janitor \/ Crash
      PROVE  claim' = claim
  BY <1>4 DEF MintRead, UpdateSave, MintSave, MintEnd, JanitorSave, Crash,
              Janitor, JanitorList, JanitorTake, JanitorFetch, JanitorLoad
<1>5. ASSUME UNCHANGED vars PROVE claim' = claim
  BY <1>5 DEF vars
<1> QED BY <1>1, <1>2, <1>3, <1>4, <1>5, StepKinds DEF Command, Handler

\* Jobs are saved by a wave only, tickets are born in Create only, and a forge
\* changes for itself.
LEMMA OtherWrites ==
  ASSUME [Next]_vars
  PROVE  /\ job' = job \/ MintSave
         /\ born' = born \/ \E t \in Tickets : Create(t)
         /\ forge' = forge \/ Settles
<1>1. ASSUME NEW t \in Tickets, Create(t) \/ Age(t)
      PROVE  job' = job /\ forge' = forge /\ (born' = born \/ Create(t))
  BY <1>1 DEF Create, Age
<1>2. ASSUME Updates PROVE job' = job /\ born' = born /\ forge' = forge
  BY <1>2 DEF Updates, UpdateLoad
<1>3. ASSUME Settles PROVE job' = job /\ born' = born
  BY <1>3 DEF Settles, Settle
<1>4. ASSUME NEW w \in Workers, Opens(w) \/ Command(w) \/ Die(w)
      PROVE  job' = job /\ born' = born /\ forge' = forge
  BY <1>4 DEF Opens, Claim, Close, Review, Comment, Begin, Die, Command, Silent, TryLock,
              StatLock, StealLock, Relock, Sign, Inform, ReplaceFile, RemoveClaim
<1>5. ASSUME MintRead \/ Handler \/ Janitor \/ Crash
      PROVE  (job' = job \/ MintSave) /\ born' = born /\ forge' = forge
  BY <1>5 DEF MintRead, Handler, UpdateSave, MintSave, MintClaim, MintEnd, JanitorSave,
              JanitorUnclaim, Crash, Janitor, JanitorList, JanitorTake, JanitorFetch,
              JanitorLoad, Quiet
<1>6. ASSUME UNCHANGED vars PROVE job' = job /\ born' = born /\ forge' = forge
  BY <1>6 DEF vars
<1> QED BY <1>1, <1>2, <1>3, <1>4, <1>5, <1>6, StepKinds

\* A session's command is moved on by the session, the handler's record by a
\* handler, the janitor's by the janitor; all of the control plane's is gone when
\* it crashes.
LEMMA RecordWrites ==
  ASSUME [Next]_vars
  PROVE  /\ cmd' = cmd \/ \E w \in Workers : Opens(w) \/ Command(w) \/ Die(w)
         /\ cp' = cp \/ Updates \/ MintRead \/ Handler \/ JanitorLoad \/ Crash
         /\ jan' = jan \/ Janitor \/ Crash
<1>1. ASSUME NEW t \in Tickets, Create(t) \/ Age(t)
      PROVE  cmd' = cmd /\ cp' = cp /\ jan' = jan
  BY <1>1 DEF Create, Age
<1>2. ASSUME Updates \/ Settles PROVE cmd' = cmd /\ (cp' = cp \/ Updates) /\ jan' = jan
  BY <1>2 DEF Updates, Settles, UpdateLoad, Settle
<1>3. ASSUME NEW w \in Workers, Opens(w) \/ Command(w) \/ Die(w)
      PROVE  cp' = cp /\ jan' = jan
  BY <1>3 DEF Opens, Claim, Close, Review, Comment, Begin, Die, Command, Silent, TryLock,
              StatLock, StealLock, Relock, Sign, Inform, ReplaceFile, RemoveClaim
<1>4. ASSUME MintRead \/ Handler \/ Crash PROVE cmd' = cmd /\ (jan' = jan \/ Crash)
  BY <1>4 DEF MintRead, Handler, UpdateSave, MintSave, MintClaim, MintEnd, JanitorSave,
              JanitorUnclaim, Crash, Quiet
<1>5. ASSUME Janitor PROVE cmd' = cmd /\ (cp' = cp \/ JanitorLoad)
  BY <1>5 DEF Janitor, JanitorList, JanitorTake, JanitorFetch, JanitorLoad, Quiet
<1>6. ASSUME UNCHANGED vars PROVE cmd' = cmd /\ cp' = cp /\ jan' = jan
  BY <1>6 DEF vars
<1> QED BY <1>1, <1>2, <1>3, <1>4, <1>5, <1>6, StepKinds

\* Every event is spent from its budget, that of waves by MintRead alone.
LEMMA SpentWrites ==
  ASSUME [Next]_vars
  PROVE  \/ spent' = spent
         \/ MintRead /\ Spend("mint")
         \/ \E k \in {"command", "update", "create", "error", "crash", "age"} : Spend(k) /\ ~MintRead
<1>1. ASSUME NEW t \in Tickets, Create(t) \/ Age(t)
      PROVE  Spend("create") \/ Spend("age")
  BY <1>1 DEF Create, Age
<1>2. ASSUME Updates \/ Settles PROVE Spend("update") \/ spent' = spent
  BY <1>2 DEF Updates, Settles, UpdateLoad, Settle
<1>3. ASSUME NEW w \in Workers, Opens(w) \/ Command(w) \/ Die(w)
      PROVE  Spend("command") \/ Spend("crash") \/ spent' = spent
  BY <1>3 DEF Opens, Claim, Close, Review, Comment, Begin, Die, Command, Silent, TryLock,
              StatLock, StealLock, Relock, Sign, Inform, ReplaceFile, RemoveClaim
<1>4. ASSUME Handler \/ Janitor \/ Crash
      PROVE  Spend("error") \/ Spend("crash") \/ spent' = spent
  BY <1>4 DEF Handler, UpdateSave, MintSave, MintClaim, MintEnd, JanitorSave,
              JanitorUnclaim, Crash, Janitor, JanitorList, JanitorTake, JanitorFetch,
              JanitorLoad, Quiet
<1>5. ASSUME MintRead PROVE Spend("mint")
  BY <1>5 DEF MintRead
<1>6. ASSUME UNCHANGED vars PROVE spent' = spent
  BY <1>6 DEF vars
<1> QED BY <1>1, <1>2, <1>3, <1>4, <1>5, <1>6, StepKinds

-----------------------------------------------------------------------------
(***************************************************************************)
(* Types.                                                                   *)
(***************************************************************************)
\* No event happens more often than its bound.
LEMMA SpentStep ==
  ASSUME SpentTypes, [Next]_vars
  PROVE  SpentTypes'
<1>1. ASSUME NEW k \in Events, Spend(k) PROVE SpentTypes'
  <2>1. spent[k] < Bound[k] /\ spent' = [spent EXCEPT ![k] = @ + 1]
    BY <1>1, SpendIs
  <2>2. Bound \in [Events -> Nat]
    BY BoardAssumption
  <2>3. spent \in [Events -> Nat] /\ \A i \in Events : spent[i] <= Bound[i]
    BY DEF SpentTypes
  <2>4. spent' \in [Events -> Nat]
    BY ONLY <2>1, <2>3
  <2>5. \A i \in Events : spent'[i] = (IF i = k THEN spent[k] + 1 ELSE spent[i])
    BY ONLY <2>1, <2>3
  <2>6. \A i \in Events : spent'[i] <= Bound[i]
    BY ONLY <2>1, <2>2, <2>3, <2>5
  <2> QED BY ONLY <2>4, <2>6 DEF SpentTypes
<1>2. ASSUME spent' = spent PROVE SpentTypes'
  BY <1>2 DEF SpentTypes
<1>3. {"command", "update", "create", "error", "crash", "age"} \subseteq Events /\ "mint" \in Events
  BY DEF Events
<1>4. \/ spent' = spent
      \/ \E k \in Events : Spend(k)
  BY <1>3, SpentWrites
<1> QED BY <1>1, <1>2, <1>4

\* A note keeps a ticket a ticket (comment).
LEMMA NotedDocs ==
  ASSUME NEW tk \in Docs, NEW by \in {"agent", "operator", "janitor"}, NEW ref \in Refs \cup {NoRef}
  PROVE  /\ Noted(tk, by, ref) \in Docs
         /\ Noted(tk, by, ref).status = tk.status
         /\ Noted(tk, by, ref).notes = Append(tk.notes, <<by, ref>>)
<1> DEFINE noted == Append(tk.notes, <<by, ref>>)
<1>1. tk.notes \in Seq(Notes) /\ tk.status \in Statuses /\ DOMAIN tk = {"status", "notes"}
  BY DEF Docs
<1>2. noted \in Seq(Notes)
  <2>1. <<by, ref>> \in Notes
    BY DEF Notes
  <2> QED BY <1>1, <2>1, AppendProperties
<1>3. Noted(tk, by, ref) = [tk EXCEPT !.notes = noted]
  BY DEF Noted
<1> HIDE DEF noted
<1>4. [tk EXCEPT !.notes = noted] \in Docs
  BY <1>2 DEF Docs
<1>5. /\ [tk EXCEPT !.notes = noted].status = tk.status
      /\ [tk EXCEPT !.notes = noted].notes = noted
  BY <1>1
<1> QED BY <1>3, <1>4, <1>5 DEF noted

\* A move gives it its status, too (review, close).
LEMMA MovedDocs ==
  ASSUME NEW tk \in Docs, NEW by \in {"agent", "operator", "janitor"}, NEW ref \in Refs \cup {NoRef},
         NEW status \in Statuses
  PROVE  /\ Moved(tk, status, by, ref) \in Docs
         /\ Moved(tk, status, by, ref).status = status
         /\ Moved(tk, status, by, ref).notes = Append(tk.notes, <<by, ref>>)
<1> DEFINE noted == Noted(tk, by, ref)
<1>1. noted \in Docs /\ noted.notes = Append(tk.notes, <<by, ref>>)
  BY NotedDocs
<1>2. Moved(tk, status, by, ref) = [noted EXCEPT !.status = status]
  BY DEF Moved
<1> HIDE DEF noted
<1>3. /\ [noted EXCEPT !.status = status] \in Docs
      /\ [noted EXCEPT !.status = status].status = status
      /\ [noted EXCEPT !.status = status].notes = noted.notes
  BY <1>1 DEF Docs
<1> QED BY <1>1, <1>2, <1>3

\* The records at rest have their types.
LEMMA AtRest ==
  /\ NoTicket \in Docs /\ NoTicket.status = "absent" /\ NoTicket.notes = <<>>
  /\ NoClaim \in Sidecars
  /\ Ready \in Cmds /\ Ready.pc = "idle" /\ Ready.copy = NoTicket
  /\ Unlocked \in Handlers /\ Resting \in Passes /\ IsFiniteSet(Resting.gone)
<1>1. NoTicket \in Docs /\ NoTicket.status = "absent" /\ NoTicket.notes = <<>>
  <2>1. <<>> \in Seq(Notes)
    BY EmptySeq
  <2> QED BY <2>1 DEF NoTicket, Docs, Statuses
<1>2. NoClaim \in Sidecars
  BY DEF NoClaim, Sidecars
<1>3. Ready \in Cmds /\ Ready.pc = "idle" /\ Ready.copy = NoTicket
  BY <1>1 DEF Ready, Cmds, Steps
<1>4. Unlocked \in Handlers
  <2>1. <<>> \in Seq(Tickets)
    BY EmptySeq
  <2> QED BY <1>1, <2>1 DEF Unlocked, Handlers
<1>5. Resting \in Passes /\ Resting.gone = {}
  BY DEF Resting, Passes
<1> QED BY <1>1, <1>2, <1>3, <1>4, <1>5, FS_EmptySet

\* Files stay files: what is written into one is a ticket, a sidecar or a job.
LEMMA FileStep ==
  ASSUME TypeInv, [Next]_vars
  PROVE  FileTypes'
<1> USE DEF FileTypes
<1>1. ticket' \in [Tickets -> Docs]
  <2>1. ASSUME NEW t \in Tickets, Create(t) PROVE ticket' \in [Tickets -> Docs]
    <3>1. ticket' = [ticket EXCEPT ![t] = [@ EXCEPT !.status = "open"]]
      BY <2>1 DEF Create
    <3>2. ticket[t] \in Docs /\ ticket \in [Tickets -> Docs]
      BY DEF TypeInv
    <3>3. [ticket[t] EXCEPT !.status = "open"] \in Docs
      BY ONLY <3>2 DEF Docs, Statuses
    <3> QED BY ONLY <3>1, <3>2, <3>3
  <2>2. ASSUME NEW w \in Workers, ReplaceFile(w) PROVE ticket' \in [Tickets -> Docs]
    <3>1. cmd[w].copy \in Docs
      BY DEF TypeInv, RecordTypes, Cmds
    <3>2. ticket' = [ticket EXCEPT ![cmd[w].t] = cmd[w].copy]
      BY <2>2 DEF ReplaceFile, Replace
    <3> QED BY <3>1, <3>2 DEF TypeInv
  <2>3. ASSUME UpdateSave \/ JanitorSave PROVE ticket' \in [Tickets -> Docs]
    <3>1. cp.copy \in Docs
      BY DEF TypeInv, RecordTypes, Handlers
    <3>2. ticket' = ticket \/ ticket' = [ticket EXCEPT ![cp.t] = cp.copy]
      BY <2>3 DEF UpdateSave, JanitorSave, Replace
    <3> QED BY <3>1, <3>2 DEF TypeInv
  <2>4. ASSUME ticket' = ticket PROVE ticket' \in [Tickets -> Docs]
    BY <2>4 DEF TypeInv
  <2> QED BY <2>1, <2>2, <2>3, <2>4, TicketWrites
<1>2. claim' \in [Tickets -> Sidecars]
  <2>1. claim \in [Tickets -> Sidecars]
    BY DEF TypeInv
  <2>2. ASSUME NEW t, NEW c \in Sidecars, claim' = [claim EXCEPT ![t] = c]
        PROVE  claim' \in [Tickets -> Sidecars]
    BY <2>1, <2>2
  <2>3. ASSUME NEW w \in Workers, TryLock(w) \/ StealLock(w) \/ Relock(w) \/ Sign(w) \/ RemoveClaim(w)
        PROVE  claim' \in [Tickets -> Sidecars]
    <3>1. /\ NoClaim \in Sidecars /\ [file |-> "fresh", by |-> Nobody] \in Sidecars
          /\ [file |-> "fresh", by |-> w] \in Sidecars
      BY AtRest DEF Sidecars
    <3>2. \/ claim' = claim
          \/ claim' = [claim EXCEPT ![cmd[w].t] = NoClaim]
          \/ claim' = [claim EXCEPT ![cmd[w].t] = [file |-> "fresh", by |-> Nobody]]
          \/ claim' = [claim EXCEPT ![cmd[w].t] = [file |-> "fresh", by |-> w]]
      BY <2>3 DEF TryLock, StealLock, Relock, Sign, RemoveClaim, Lock, Unclaim
    <3> QED BY <2>1, <2>2, <3>1, <3>2
  <2>4. ASSUME MintClaim \/ JanitorUnclaim PROVE claim' \in [Tickets -> Sidecars]
    <3>1. cp.j \in Jobs \cup {Nobody}
      BY DEF TypeInv, RecordTypes, Handlers
    <3>2. NoClaim \in Sidecars /\ [file |-> "fresh", by |-> cp.j] \in Sidecars
      BY <3>1, AtRest DEF Sidecars
    <3>3. \/ claim' = claim
          \/ claim' = [claim EXCEPT ![cp.t] = NoClaim]
          \/ claim' = [claim EXCEPT ![NextPick] = [file |-> "fresh", by |-> cp.j]]
      BY <2>4 DEF MintClaim, JanitorUnclaim, Unclaim
    <3> QED BY <2>1, <2>2, <3>2, <3>3
  <2>5. ASSUME NEW t \in Tickets, Age(t) PROVE claim' \in [Tickets -> Sidecars]
    <3>1. claim' = [claim EXCEPT ![t] = [@ EXCEPT !.file = "stale"]]
      BY <2>5 DEF Age
    <3>2. [claim[t] EXCEPT !.file = "stale"] \in Sidecars
      BY <2>1 DEF Sidecars
    <3> QED BY <2>1, <3>1, <3>2
  <2> QED BY <2>1, <2>3, <2>4, <2>5, ClaimWrites
<1>3. job' \in [Jobs -> Tickets \cup {Nobody}]
  <2>1. ASSUME MintSave PROVE job' \in [Jobs -> Tickets \cup {Nobody}]
    <3>1. NextPick \in Tickets
      BY <2>1 DEF MintSave, NextPick, TypeInv, RecordTypes, Handlers
    <3>2. job' = job \/ job' = [job EXCEPT ![NewJob] = NextPick]
      BY <2>1 DEF MintSave
    <3> QED BY <3>1, <3>2 DEF TypeInv
  <2> QED BY <2>1, OtherWrites DEF TypeInv
<1>4. forge' \in [Refs -> {"open", "merged", "closed"}]
  <2>1. ASSUME Settles PROVE forge' \in [Refs -> {"open", "merged", "closed"}]
    BY <2>1 DEF Settles, Settle, TypeInv
  <2> QED BY <2>1, OtherWrites DEF TypeInv
<1> QED BY <1>1, <1>2, <1>3, <1>4

(***************************************************************************)
(* What a command may become.                                               *)
(***************************************************************************)
Opened(w, c) ==
  /\ c \in Cmds /\ cmd[w] = Ready /\ cmd' = [cmd EXCEPT ![w] = c]
  /\ c.pc \in {"lock", "replace"} /\ c.t \in Tickets /\ ticket[c.t].status # "absent"
  /\ c.pc = "replace" => c.copy.status # "absent"
  /\ \/ c.copy = NoTicket
     \/ \E ref \in Refs \cup {NoRef} : c.copy.notes = Append(ticket[c.t].notes, <<"agent", ref>>)

\* A command starts on a ticket there is, and holds at most a copy with one more
\* note of the agent (the command line reads the file once).
LEMMA OpensOne ==
  ASSUME TypeInv, NEW w \in Workers, Opens(w)
  PROVE  \E c : Opened(w, c)
<1>1. \A t \in Tickets : ticket[t] \in Docs
  BY DEF TypeInv, FileTypes
<1>2. ASSUME NEW op \in {"claim", "review", "comment", "close"}, NEW t \in Tickets,
             NEW pc \in {"lock", "replace"}, NEW copy \in Docs, Begin(w, op, t, pc, copy),
             ticket[t].status # "absent", pc = "replace" => copy.status # "absent",
             \/ copy = NoTicket
             \/ \E ref \in Refs \cup {NoRef} : copy.notes = Append(ticket[t].notes, <<"agent", ref>>)
      PROVE  \E c : Opened(w, c)
  <2> DEFINE c == [op |-> op, pc |-> pc, t |-> t, copy |-> copy]
  <2>1. cmd[w] = Ready /\ cmd' = [cmd EXCEPT ![w] = c]
    BY <1>2 DEF Begin
  <2>2. c \in Cmds
    BY DEF Cmds, Steps
  <2>3. Opened(w, c)
    BY <1>2, <2>1, <2>2 DEF Opened
  <2> QED BY <2>3
<1>3. ASSUME NEW t \in Tickets, Claim(w, t) PROVE \E c : Opened(w, c)
  BY <1>2, <1>3, AtRest DEF Claim
<1>4. ASSUME NEW t \in Tickets, NEW ref \in Refs \cup {NoRef},
             Review(w, t, ref) \/ Comment(w, t, ref) \/ Close(w, t)
      PROVE  \E c : Opened(w, c)
  <2> DEFINE noted == Noted(ticket[t], "agent", ref)
  <2>1. /\ noted \in Docs /\ noted.status = ticket[t].status
        /\ noted.notes = Append(ticket[t].notes, <<"agent", ref>>)
    <3>1. ticket[t] \in Docs /\ "open" \in Statuses /\ "agent" \in {"agent", "operator", "janitor"}
      BY <1>1 DEF Statuses
    <3> QED BY <3>1, NotedDocs
  <2>5. \A s \in Statuses, r \in Refs \cup {NoRef} :
          /\ Moved(ticket[t], s, "agent", r) \in Docs
          /\ Moved(ticket[t], s, "agent", r).status = s
          /\ Moved(ticket[t], s, "agent", r).notes = Append(ticket[t].notes, <<"agent", r>>)
    <3>1. ticket[t] \in Docs /\ "agent" \in {"agent", "operator", "janitor"}
      BY <1>1
    <3> QED BY <3>1, MovedDocs, ZenonT(40)
  <2>2. CASE Review(w, t, ref)
    <3>1. ticket[t].status # "absent" /\ Begin(w, "review", t, "replace", Moved(ticket[t], "review", "agent", ref))
      BY <2>2 DEF Review
    <3>2. "review" \in Statuses /\ "review" # "absent"
      BY DEF Statuses
    <3> QED BY <1>2, <2>5, <3>1, <3>2
  <2>3. CASE Comment(w, t, ref)
    <3>1. ticket[t].status # "absent" /\ Begin(w, "comment", t, "replace", Noted(ticket[t], "agent", ref))
      BY <2>3 DEF Comment
    <3> QED BY <1>2, <2>1, <3>1
  <2>4. CASE Close(w, t)
    <3>1. ticket[t].status # "absent" /\ Begin(w, "close", t, "replace", Moved(ticket[t], "closed", "agent", NoRef))
      BY <2>4 DEF Close
    <3>2. "closed" \in Statuses /\ "closed" # "absent" /\ NoRef \in Refs \cup {NoRef}
      BY DEF Statuses
    <3> QED BY <1>2, <2>5, <3>1, <3>2
  <2> QED BY <1>4, <2>2, <2>3, <2>4
<1> QED BY <1>3, <1>4 DEF Opens

MovedOn(w, c) ==
  /\ c \in Cmds /\ cmd' = [cmd EXCEPT ![w] = c]
  /\ \/ c = Ready
     \/ /\ cmd[w].pc # "idle" /\ c.t = cmd[w].t
        /\ c.pc = "replace" => c.copy = ticket[c.t]
        /\ c.copy = cmd[w].copy \/ c.copy = ticket[c.t]

\* A command that goes on stays with its ticket; a copy it takes up is that of
\* the file at that moment.
LEMMA CommandGoesOn ==
  ASSUME TypeInv, NEW w \in Workers, Command(w) \/ Die(w)
  PROVE  \E c : MovedOn(w, c)
<1>1. cmd \in [Workers -> Cmds] /\ cmd[w] \in Cmds
  BY DEF TypeInv, RecordTypes
<1>2. ASSUME Refuse(w) PROVE \E c : MovedOn(w, c)
  BY <1>2, AtRest DEF Refuse, MovedOn
<1>3. ASSUME NEW pc \in Steps \ {"replace"}, cmd[w].pc # "idle", Go(w, pc) PROVE \E c : MovedOn(w, c)
  <2> DEFINE c == [cmd[w] EXCEPT !.pc = pc]
  <2>1. cmd' = [cmd EXCEPT ![w] = c]
    BY <1>3 DEF Go
  <2>2. c \in Cmds /\ c.t = cmd[w].t /\ c.pc = pc /\ c.copy = cmd[w].copy
    BY ONLY <1>1, pc \in Steps DEF Cmds
  <2>3. MovedOn(w, c)
    BY <1>3, <2>1, <2>2 DEF MovedOn
  <2> QED BY <2>3
<1>4. CASE Inform(w)
  <2> DEFINE c == [[cmd[w] EXCEPT !.pc = "replace"] EXCEPT !.copy = ticket[cmd[w].t]]
  <2>1. cmd[w].pc = "inform" /\ cmd[w].t \in Tickets
    BY <1>4 DEF Inform, At, TypeInv, Held
  <2>2. ticket[cmd[w].t] \in Docs
    BY <2>1 DEF TypeInv, FileTypes
  <2>3. cmd' = [cmd EXCEPT ![w] = c]
    BY ONLY <1>1, <1>4 DEF Inform
  <2>4. c \in Cmds /\ c.t = cmd[w].t /\ c.copy = ticket[cmd[w].t]
    BY ONLY <1>1, <2>2 DEF Cmds, Steps
  <2>5. MovedOn(w, c)
    BY <2>1, <2>3, <2>4 DEF MovedOn
  <2> QED BY <2>5
<1>5. {"sign", "stat", "steal", "relock", "inform", "unclaim"} \subseteq Steps \ {"replace"}
  BY DEF Steps
<1>6. CASE TryLock(w) \/ StatLock(w) \/ StealLock(w) \/ Relock(w) \/ Sign(w)
  <2>1. cmd[w].pc # "idle" /\ (Refuse(w) \/ \E pc \in Steps \ {"replace"} : Go(w, pc))
    BY <1>5, <1>6 DEF TryLock, StatLock, StealLock, Relock, Sign, At
  <2> QED BY <1>2, <1>3, <2>1
<1>7. CASE ReplaceFile(w) \/ RemoveClaim(w) \/ Die(w)
  <2>1. Refuse(w) \/ (cmd[w].pc # "idle" /\ Go(w, "unclaim"))
    BY <1>7 DEF ReplaceFile, RemoveClaim, Die, At
  <2> QED BY <1>2, <1>3, <1>5, <2>1
<1> QED BY <1>4, <1>6, <1>7 DEF Command

(***************************************************************************)
(* What a handler of the control plane takes up under nsMu.                  *)
(***************************************************************************)
\* Notes added at the end leave a ticket saying things once, if they say them once
\* themselves and say nothing that was said (noteExists).
LEMMA OnceConcat ==
  ASSUME NEW m \in Seq(Notes), NEW n \in Seq(Notes), OnceIn(m), OnceIn(n),
         \A i \in DOMAIN m, k \in DOMAIN n :
           n[k][1] = "janitor" /\ n[k][2] # NoRef => m[i] # n[k]
  PROVE  m \o n \in Seq(Notes) /\ OnceIn(m \o n)
<1>1. /\ m \o n \in Seq(Notes) /\ Len(m \o n) = Len(m) + Len(n)
      /\ Len(m) \in Nat /\ Len(n) \in Nat
      /\ DOMAIN (m \o n) = 1..(Len(m) + Len(n))
      /\ DOMAIN m = 1..Len(m) /\ DOMAIN n = 1..Len(n)
  BY ConcatProperties, LenProperties
<1>2. \A i \in 1..(Len(m) + Len(n)) :
        (m \o n)[i] = IF i <= Len(m) THEN m[i] ELSE n[i - Len(m)]
  BY ConcatProperties, LenProperties
<1> DEFINE mn == m \o n
<1>3. ASSUME NEW i \in DOMAIN mn, NEW k \in DOMAIN mn,
             mn[i] = mn[k], mn[i][1] = "janitor", mn[i][2] # NoRef
      PROVE  i = k
  <2>1. i \in 1..(Len(m) + Len(n)) /\ k \in 1..(Len(m) + Len(n))
    BY <1>1
  <2>2. /\ mn[i] = IF i <= Len(m) THEN m[i] ELSE n[i - Len(m)]
        /\ mn[k] = IF k <= Len(m) THEN m[k] ELSE n[k - Len(m)]
    BY <1>2, <2>1
  <2> HIDE DEF mn
  <2>3. CASE i <= Len(m) /\ k <= Len(m)
    <3>1. i \in DOMAIN m /\ k \in DOMAIN m
      BY <1>1, <2>1, <2>3
    <3> QED BY <1>3, <2>2, <2>3, <3>1 DEF OnceIn
  <2>4. CASE ~(i <= Len(m)) /\ ~(k <= Len(m))
    <3>1. i - Len(m) \in DOMAIN n /\ k - Len(m) \in DOMAIN n
      BY <1>1, <2>1, <2>4
    <3>2. i - Len(m) = k - Len(m)
      BY <1>3, <2>2, <2>4, <3>1 DEF OnceIn
    <3> QED BY <1>1, <2>1, <3>2
  <2>5. CASE i <= Len(m) /\ ~(k <= Len(m))
    <3>1. i \in DOMAIN m /\ k - Len(m) \in DOMAIN n
      BY <1>1, <2>1, <2>5
    <3> QED BY <1>3, <2>2, <2>5, <3>1
  <2>6. CASE ~(i <= Len(m)) /\ k <= Len(m)
    <3>1. k \in DOMAIN m /\ i - Len(m) \in DOMAIN n
      BY <1>1, <2>1, <2>6
    <3> QED BY <1>3, <2>2, <2>6, <3>1
  <2> QED BY <2>3, <2>4, <2>5, <2>6
<1> QED BY <1>1, <1>3 DEF OnceIn

\* No note, and one.
LEMMA FewNotes ==
  /\ <<>> \in Seq(Notes) /\ DOMAIN <<>> = {} /\ OnceIn(<<>>)
  /\ \A note \in Notes :
       <<note>> \in Seq(Notes) /\ DOMAIN <<note>> = {1} /\ <<note>>[1] = note /\ OnceIn(<<note>>)
<1>1. <<>> \in Seq(Notes) /\ DOMAIN <<>> = {}
  OBVIOUS
<1>2. ASSUME NEW note \in Notes
      PROVE  <<note>> \in Seq(Notes) /\ DOMAIN <<note>> = {1} /\ <<note>>[1] = note
  OBVIOUS
<1>3. OnceIn(<<>>)
  BY <1>1 DEF OnceIn
<1>4. ASSUME NEW note \in Notes PROVE OnceIn(<<note>>)
  BY ONLY <1>2, <1>4, note \in Notes DEF OnceIn
<1> QED BY <1>1, <1>2, <1>3, <1>4

\* One more note that is not the janitor's about a request changes nothing.
LEMMA OnceAppend ==
  ASSUME NEW m \in Seq(Notes), OnceIn(m), NEW note \in Notes,
         note[1] # "janitor" \/ note[2] = NoRef
  PROVE  Append(m, note) \in Seq(Notes) /\ OnceIn(Append(m, note))
<1>1. /\ <<note>> \in Seq(Notes) /\ Len(<<note>>) = 1 /\ <<note>>[1] = note
      /\ DOMAIN <<note>> = {1}
  OBVIOUS
<1>2. OnceIn(<<note>>)
  BY ONLY <1>1 DEF OnceIn
<1>3. m \o <<note>> \in Seq(Notes) /\ OnceIn(m \o <<note>>)
  BY ONLY <1>1, <1>2, OnceConcat, OnceIn(m), m \in Seq(Notes), note[1] # "janitor" \/ note[2] = NoRef
<1>4. Append(m, note) = m \o <<note>>
  BY AppendIsConcat
<1> QED BY <1>3, <1>4

\* The flags the janitor adds: one for every abandoned request the ticket does not
\* speak of yet (janitorCheckTicket).
Flags(new) == CHOOSE s \in [1..Cardinality(new) -> {"janitor"} \X new] : Distinct(s)

\* With them the ticket still says everything once.
LEMMA FlagsOnce ==
  ASSUME NEW tk \in Docs, NEW gone \in SUBSET Refs, IsFiniteSet(gone), NotedOnce(tk)
  PROVE  LET flags == Flags(Unflagged(tk, gone))
         IN  tk.notes \o flags \in Seq(Notes) /\ OnceIn(tk.notes \o flags)
<1> DEFINE new == Unflagged(tk, gone)
           n == Cardinality(new)
           flags == Flags(new)
<1>1. new \in SUBSET gone /\ IsFiniteSet(new) /\ n \in Nat
  BY FS_Subset, FS_CardinalityType DEF Unflagged
<1>2. PICK f \in Bijection(1..n, new) : TRUE
  BY <1>1, FS_CardinalityType DEF ExistsBijection
<1>3. flags \in [1..n -> {"janitor"} \X new] /\ Distinct(flags)
  <2> DEFINE s == [i \in 1..n |-> <<"janitor", f[i]>>]
  <2>1. f \in [1..n -> new] /\ \A i, k \in 1..n : f[i] = f[k] => i = k
    BY <1>2, Fun_BijectionProperties DEF Bijection, Injection, IsInjective
  <2> HIDE DEF n, new
  <2>2. s \in [1..n -> {"janitor"} \X new] /\ DOMAIN s = 1..n
    BY <2>1
  <2>3. Distinct(s)
    BY <2>1 DEF Distinct
  <2>4. \E x \in [1..n -> {"janitor"} \X new] : Distinct(x)
    <3> HIDE DEF s
    <3> QED BY <2>2, <2>3
  <2> QED BY <2>4 DEF flags, Flags, n
<1> HIDE DEF flags
<1>4. tk.notes \in Seq(Notes) /\ OnceIn(tk.notes)
  BY DEF Docs, NotedOnce
<1>5. flags \in Seq(Notes)
  <2> HIDE DEF n
  <2>1. {"janitor"} \X new \subseteq Notes
    BY <1>1 DEF Notes
  <2>2. flags \in [1..n -> Notes]
    BY <1>3, <2>1
  <2> QED BY <1>1, <2>2
<1>6. DOMAIN flags = 1..n /\ \A k \in 1..n : flags[k] \in {"janitor"} \X new
  BY <1>3
<1>7. OnceIn(flags)
  BY <1>3 DEF OnceIn, Distinct
<1>8. \A i \in DOMAIN tk.notes, k \in DOMAIN flags : tk.notes[i] # flags[k]
  <2> SUFFICES ASSUME NEW i \in DOMAIN tk.notes, NEW k \in DOMAIN flags
               PROVE  tk.notes[i] # flags[k]
    OBVIOUS
  <2>1. PICK r \in new : flags[k] = <<"janitor", r>>
    BY <1>6
  <2>2. tk.notes[i] # <<"janitor", r>>
    BY DEF Unflagged
  <2> QED BY <2>1, <2>2
<1>9. tk.notes \o flags \in Seq(Notes) /\ OnceIn(tk.notes \o flags)
  BY <1>4, <1>5, <1>7, <1>8, OnceConcat
<1> QED BY <1>9 DEF flags

Took(op, t, copy) ==
  /\ cp' = [Unlocked EXCEPT !.op = op, !.t = t, !.copy = copy]
  /\ ticket[t].status # "absent" /\ copy.status # "absent"
  /\ NotedOnce(copy)

Takes == \E op \in {"update", "janitor"}, t \in Tickets, copy \in Docs : Took(op, t, copy)

\* The operator's update holds the ticket with one note more at most
\* (UpdateByOperator).
LEMMA UpdateTakes ==
  ASSUME TypeInv, NotesInv, Updates
  PROVE  Takes
<1>1. PICK t \in Tickets, status \in {"", "open", "review", "closed"},
           notes \in {<<>>} \cup {<<<<"operator", ref>>>> : ref \in Refs} : UpdateLoad(t, status, notes)
  BY DEF Updates
<1> DEFINE tk == ticket[t]
           added == tk.notes \o notes
           noted == [tk EXCEPT !.notes = added]
           copy == IF status = "" THEN noted ELSE [noted EXCEPT !.status = status]
<1>2. tk \in Docs /\ tk.notes \in Seq(Notes)
  BY DEF TypeInv, FileTypes, Docs
<1>3. notes \in Seq(Notes) /\ OnceIn(notes) /\ \A k \in DOMAIN notes : notes[k][1] # "janitor"
  <2>1. CASE notes = <<>>
    BY <2>1, FewNotes
  <2>2. ASSUME NEW ref \in Refs, notes = <<<<"operator", ref>>>>
        PROVE  notes \in Seq(Notes) /\ OnceIn(notes) /\ \A k \in DOMAIN notes : notes[k][1] # "janitor"
    <3> DEFINE note == <<"operator", ref>>
    <3>1. note \in Notes /\ note[1] # "janitor"
      BY DEF Notes
    <3> HIDE DEF note
    <3>2. <<note>> \in Seq(Notes) /\ DOMAIN <<note>> = {1} /\ <<note>>[1] = note /\ OnceIn(<<note>>)
      BY ONLY <3>1, FewNotes
    <3>3. notes = <<note>>
      BY <2>2 DEF note
    <3> QED BY ONLY <3>1, <3>2, <3>3
  <2> QED BY <2>1, <2>2
<1>4. added \in Seq(Notes)
  BY <1>2, <1>3, ConcatProperties
<1>5. OnceIn(added)
  <2>1. OnceIn(tk.notes)
    BY DEF NotesInv, NotedOnce
  <2> QED BY <1>2, <1>3, <2>1, OnceConcat
<1>6. cp' = [Unlocked EXCEPT !.op = "update", !.t = t, !.copy = copy] /\ tk.status # "absent"
  BY <1>1 DEF UpdateLoad
<1> HIDE DEF tk, added
<1>7. noted \in Docs /\ noted.status = tk.status /\ noted.notes = added
  BY <1>2, <1>4 DEF Docs
<1> HIDE DEF noted
<1>8. copy \in Docs /\ copy.notes = added /\ copy.status # "absent"
  BY <1>6, <1>7 DEF Docs, Statuses
<1>9. NotedOnce(copy)
  BY <1>5, <1>8 DEF NotedOnce
<1> HIDE DEF copy
<1>10. Took("update", t, copy)
  BY <1>6, <1>8, <1>9 DEF Took, tk
<1> QED BY <1>8, <1>10 DEF Takes

\* The janitor holds the ticket as it is under the lock, closed or flagged
\* (janitorCheckTicket: fresh).
LEMMA JanitorTakes ==
  ASSUME TypeInv, NotesInv, JanitorLoad
  PROVE  cp' = cp \/ Takes
<1> DEFINE tk == ticket[jan.t]
           new == Unflagged(tk, jan.gone)
           flagged == tk.notes \o Flags(new)
           copy == IF jan.landed THEN Moved(tk, "closed", "janitor", NoRef)
                   ELSE [tk EXCEPT !.notes = flagged]
<1> SUFFICES ASSUME cp' # cp PROVE Takes
  OBVIOUS
<1>1. cp' = [Unlocked EXCEPT !.op = "janitor", !.t = jan.t, !.copy = copy] /\ tk.status = "review"
  BY DEF JanitorLoad, Flags
<1>2. jan.t \in Tickets
  BY DEF JanitorLoad, TypeInv, RecordTypes, Passes
<1>3. tk \in Docs /\ tk.notes \in Seq(Notes) /\ jan.gone \in SUBSET Refs /\ IsFiniteSet(jan.gone)
  BY <1>2 DEF TypeInv, FileTypes, RecordTypes, Passes, Docs
<1>4. NotedOnce(tk) /\ OnceIn(tk.notes)
  BY <1>2 DEF NotesInv, NotedOnce
<1>5. CASE jan.landed
  <2> DEFINE closed == Moved(tk, "closed", "janitor", NoRef)
  <2>1. "closed" \in Statuses /\ NoRef \in Refs \cup {NoRef} /\ "janitor" \in {"agent", "operator", "janitor"}
    BY DEF Statuses
  <2>2. /\ closed \in Docs /\ closed.status = "closed"
        /\ closed.notes = Append(tk.notes, <<"janitor", NoRef>>)
    <3>1. tk \in Docs
      BY <1>3
    <3> HIDE DEF tk
    <3> QED BY ONLY <2>1, <3>1, MovedDocs
  <2>3. <<"janitor", NoRef>> \in Notes /\ <<"janitor", NoRef>>[2] = NoRef
    BY DEF Notes
  <2>4. NotedOnce(closed)
    BY <1>3, <1>4, <2>2, <2>3, OnceAppend DEF NotedOnce
  <2>5. copy = closed
    BY <1>5
  <2> HIDE DEF closed, copy
  <2>6. Took("janitor", jan.t, copy)
    BY <1>1, <2>2, <2>4, <2>5 DEF Took
  <2> QED BY <1>2, <2>2, <2>5, <2>6 DEF Takes
<1>6. CASE ~jan.landed
  <2>1. flagged \in Seq(Notes) /\ OnceIn(flagged)
    BY <1>3, <1>4, FlagsOnce
  <2>2. copy = [tk EXCEPT !.notes = flagged]
    BY <1>6
  <2> HIDE DEF copy, flagged, tk
  <2>3. copy \in Docs /\ copy.status = tk.status /\ copy.notes = flagged
    BY <1>3, <2>1, <2>2 DEF Docs
  <2>4. NotedOnce(copy)
    BY <2>1, <2>3 DEF NotedOnce
  <2>5. Took("janitor", jan.t, copy)
    BY <1>1, <2>3, <2>4 DEF Took, tk
  <2> QED BY <1>2, <2>3, <2>5 DEF Takes
<1> QED BY <1>5, <1>6

(***************************************************************************)
(* A job for every slot.                                                    *)
(***************************************************************************)
\* The jobs the waves so far may have used leave one for the pick a wave is at
\* (newRunID never runs out).
LEMMA JobFree ==
  ASSUME TypeInv, JobsLeft, MintSave
  PROVE  NewJob \in Jobs /\ job[NewJob] = Nobody
<1>1. /\ cp.op = "mint" /\ cp.j = Nobody /\ cp.next \in 1..Len(cp.picks)
      /\ cp.picks \in Seq(Tickets) /\ Len(cp.picks) \in Nat
  BY LenProperties DEF MintSave, Minting, TypeInv, RecordTypes, Handlers
<1>2. Slots \in Nat /\ Bound["mint"] \in Nat /\ Cardinality(Jobs) >= Bound["mint"] * Slots
  BY BoardAssumption DEF Slots, Events
<1>3. Len(cp.picks) <= Slots
  <2>1. Len(cp.picks) = Least(Slots, Cardinality(cp.avail)) /\ IsFiniteSet(cp.avail)
    BY <1>1 DEF TypeInv, AtPick, PicksWell
  <2>2. Cardinality(cp.avail) \in Nat
    BY <2>1, FS_CardinalityType
  <2> QED BY <1>2, <2>1, <2>2 DEF Least
<1> DEFINE n == spent["mint"]
<1>4. n \in Nat /\ n >= 1 /\ n <= Bound["mint"]
  BY <1>1 DEF TypeInv, SpentTypes, JobsLeft, Events
<1>5. Cardinality(Used) <= (n - 1) * Slots + (cp.next - 1)
  <2> DEFINE a == (n - 1) * Slots
  <2>1. Minted = a + (cp.next - 1) + 0
    BY <1>1, Zenon DEF Minted
  <2>2. a \in Int
    BY <1>2, <1>4
  <2>3. Cardinality(Used) <= Minted
    BY DEF JobsLeft
  <2> HIDE DEF a
  <2>4. a + (cp.next - 1) + 0 = a + (cp.next - 1)
    BY <1>1, <2>2
  <2> QED BY ONLY <2>1, <2>3, <2>4 DEF a
<1>6. IsFiniteSet(Jobs) /\ Used \in SUBSET Jobs
  BY BoardAssumption DEF Used
<1>7. Cardinality(Used) \in Nat
  BY <1>6, FS_Subset, FS_CardinalityType
<1> HIDE DEF n
<1>8. (n - 1) * Slots + Slots <= Bound["mint"] * Slots
  <2>1. (n - 1) * Slots + Slots = n * Slots
    BY <1>2, <1>4
  <2>2. n * Slots <= Bound["mint"] * Slots
    BY <1>2, <1>4
  <2> QED BY <2>1, <2>2
<1>9. Cardinality(Used) < Cardinality(Jobs)
  <2> DEFINE a == (n - 1) * Slots
             b == Bound["mint"] * Slots
  <2>1. a \in Int /\ b \in Int /\ a + Slots <= b /\ Cardinality(Used) <= a + (cp.next - 1)
    BY <1>2, <1>4, <1>5, <1>8
  <2>2. Cardinality(Jobs) \in Nat /\ Cardinality(Jobs) >= b
    BY <1>2, <1>6, FS_CardinalityType
  <2> HIDE DEF a, b
  <2> QED BY <1>1, <1>2, <1>3, <1>7, <2>1, <2>2
<1>10. Used # Jobs
  BY <1>9, <1>7
<1>11. \E j \in Jobs : job[j] = Nobody
  BY <1>6, <1>10 DEF Used
<1> QED BY <1>11 DEF NewJob

(***************************************************************************)
(* What becomes of the handler's record.                                    *)
(***************************************************************************)
\* A ticket taken up is held, and nothing else.
LEMMA TakenRecord ==
  ASSUME NEW op \in {"update", "janitor"}, NEW t \in Tickets, NEW copy \in Docs, Took(op, t, copy)
  PROVE  /\ cp' \in Handlers /\ cp'.op = op /\ cp'.t = t /\ cp'.copy = copy
         /\ cp'.picks = <<>> /\ cp'.next = 1 /\ cp'.j = Nobody
<1>1. cp' = [op |-> op, t |-> t, copy |-> copy, picks |-> <<>>, avail |-> {}, next |-> 1, j |-> Nobody]
  BY DEF Took, Unlocked
<1>2. <<>> \in Seq(Tickets)
  BY EmptySeq
<1> QED BY <1>1, <1>2 DEF Handlers

\* A wave begins at the first of its picks.
LEMMA ReadRecord ==
  ASSUME TypeInv, MintRead
  PROVE  /\ cp' \in Handlers /\ cp'.op = "mint" /\ cp'.copy = NoTicket
         /\ cp'.picks = Picked /\ cp'.avail = Available /\ cp'.next = 1 /\ cp'.j = Nobody
         /\ PicksWell(Picked, Available)
<1>1. BornWell /\ Available \in SUBSET Tickets
  BY DEF TypeInv, Bred, BornWell, Available
<1>2. \A t \in Available : \E i \in DOMAIN born : born[i] = t
  BY DEF TypeInv, Bred, Available
<1>3. PicksWell(Picked, Available)
  BY <1>1, <1>2, PickedWell
<1>4. Picked \in Seq(Tickets)
  BY <1>3 DEF PicksWell
<1>5. cp' = [op |-> "mint", t |-> Nobody, copy |-> NoTicket, picks |-> Picked,
             avail |-> Available, next |-> 1, j |-> Nobody]
  BY DEF MintRead, Unlocked
<1> QED BY <1>1, <1>3, <1>4, <1>5, AtRest DEF Handlers

SameWave ==
  /\ cp' \in Handlers /\ cp'.op = "mint" /\ cp'.copy = cp.copy
  /\ cp'.picks = cp.picks /\ cp'.avail = cp.avail

\* It saves a job for the pick it is at, or passes it over; then it claims
\* (mintExecJobs).
LEMMA WaveRecord ==
  ASSUME TypeInv, JobsLeft, MintSave \/ MintClaim
  PROVE  /\ SameWave /\ cp.op = "mint" /\ cp.next \in DOMAIN cp.picks
         /\ \/ /\ MintSave /\ cp.j = Nobody /\ cp'.next = cp.next
               /\ cp'.j = NewJob /\ job' = [job EXCEPT ![NewJob] = NextPick]
            \/ MintSave /\ cp.j = Nobody /\ cp'.next = cp.next + 1 /\ cp'.j = Nobody /\ job' = job
            \/ MintClaim /\ cp.j # Nobody /\ cp'.next = cp.next + 1 /\ cp'.j = Nobody /\ job' = job
<1>1. cp \in Handlers /\ cp.next \in Nat \ {0} /\ cp.next + 1 \in Nat \ {0}
  BY DEF TypeInv, RecordTypes, Handlers
<1>2. ASSUME MintSave, cp' = [cp EXCEPT !.j = NewJob], job' = [job EXCEPT ![NewJob] = NextPick]
      PROVE  /\ SameWave /\ cp.op = "mint" /\ cp.next \in DOMAIN cp.picks
             /\ MintSave /\ cp.j = Nobody /\ cp'.next = cp.next
             /\ cp'.j = NewJob /\ job' = [job EXCEPT ![NewJob] = NextPick]
  <2>1. NewJob \in Jobs /\ cp.op = "mint" /\ cp.j = Nobody /\ cp.next \in DOMAIN cp.picks
    BY <1>2, JobFree DEF MintSave, Minting
  <2>2. /\ cp' \in Handlers /\ cp'.op = cp.op /\ cp'.copy = cp.copy /\ cp'.picks = cp.picks
        /\ cp'.avail = cp.avail /\ cp'.next = cp.next /\ cp'.j = NewJob
    BY ONLY <1>1, <1>2, <2>1 DEF Handlers
  <2> QED BY <1>2, <2>1, <2>2 DEF SameWave
<1>3. ASSUME MintSave, cp' = [cp EXCEPT !.next = @ + 1], job' = job
      PROVE  /\ SameWave /\ cp.op = "mint" /\ cp.next \in DOMAIN cp.picks
             /\ MintSave /\ cp.j = Nobody /\ cp'.next = cp.next + 1 /\ cp'.j = Nobody /\ job' = job
  <2>1. cp.op = "mint" /\ cp.j = Nobody /\ cp.next \in DOMAIN cp.picks
    BY <1>3 DEF MintSave, Minting
  <2>2. /\ cp' \in Handlers /\ cp'.op = cp.op /\ cp'.copy = cp.copy /\ cp'.picks = cp.picks
        /\ cp'.avail = cp.avail /\ cp'.next = cp.next + 1 /\ cp'.j = cp.j
    BY ONLY <1>1, <1>3, <2>1 DEF Handlers
  <2> QED BY <1>3, <2>1, <2>2 DEF SameWave
<1>4. ASSUME MintClaim
      PROVE  /\ SameWave /\ cp.op = "mint" /\ cp.next \in DOMAIN cp.picks
             /\ MintClaim /\ cp.j # Nobody /\ cp'.next = cp.next + 1 /\ cp'.j = Nobody /\ job' = job
  <2>1. cp.op = "mint" /\ cp.j # Nobody /\ job' = job
    BY <1>4 DEF MintClaim
  <2>2. cp.next \in DOMAIN cp.picks
    <3>1. cp.next <= Len(cp.picks)
      BY <2>1 DEF TypeInv, AtPick
    <3>2. cp.picks \in Seq(Tickets)
      BY <1>1 DEF Handlers
    <3> QED BY <1>1, <3>1, <3>2, LenProperties
  <2>3. cp' = [[cp EXCEPT !.j = Nobody] EXCEPT !.next = cp.next + 1]
    BY ONLY <1>1, <1>4 DEF MintClaim, Handlers
  <2>4. /\ cp' \in Handlers /\ cp'.op = cp.op /\ cp'.copy = cp.copy /\ cp'.picks = cp.picks
        /\ cp'.avail = cp.avail /\ cp'.next = cp.next + 1 /\ cp'.j = Nobody
    BY ONLY <1>1, <2>3 DEF Handlers
  <2> QED BY <1>4, <2>1, <2>2, <2>4 DEF SameWave
<1>5. CASE MintSave
  <2>1. \/ cp' = [cp EXCEPT !.j = NewJob] /\ job' = [job EXCEPT ![NewJob] = NextPick]
        \/ cp' = [cp EXCEPT !.next = @ + 1] /\ job' = job
    BY <1>5 DEF MintSave
  <2> QED BY <1>2, <1>3, <1>5, <2>1
<1> QED BY <1>4, <1>5

\* A handler's record changes in one of these ways.
LEMMA CpMoves ==
  ASSUME TypeInv, NotesInv, [Next]_vars
  PROVE  \/ cp' = cp \/ cp' = Unlocked \/ Takes \/ MintRead \/ MintSave \/ MintClaim
         \/ /\ cp.op = "janitor" /\ cp' = [cp EXCEPT !.op = "unclaim"]
            /\ ticket' = [ticket EXCEPT ![cp.t] = cp.copy]
<1>1. ASSUME UpdateSave \/ MintEnd \/ JanitorUnclaim \/ Crash PROVE cp' = Unlocked
  BY <1>1 DEF UpdateSave, MintEnd, JanitorUnclaim, Crash
<1>2. ASSUME JanitorSave
      PROVE  \/ cp' = Unlocked
             \/ /\ cp.op = "janitor" /\ cp' = [cp EXCEPT !.op = "unclaim"]
                /\ ticket' = [ticket EXCEPT ![cp.t] = cp.copy]
  BY <1>2 DEF JanitorSave, Replace
<1>3. cp' = cp \/ Updates \/ MintRead \/ Handler \/ JanitorLoad \/ Crash
  BY RecordWrites
<1> QED BY <1>1, <1>2, <1>3, UpdateTakes, JanitorTakes DEF Handler

\* What a command, a handler and the janitor hold keeps its type.
LEMMA RecordStep ==
  ASSUME TypeInv, NotesInv, JobsLeft, [Next]_vars
  PROVE  RecordTypes'
<1> USE DEF RecordTypes
<1>1. cmd' \in [Workers -> Cmds]
  <2>1. ASSUME NEW w \in Workers, Opens(w) \/ Command(w) \/ Die(w) PROVE cmd' \in [Workers -> Cmds]
    <3>1. \E c : Opened(w, c) \/ MovedOn(w, c)
      BY <2>1, OpensOne, CommandGoesOn
    <3>2. \E c \in Cmds : cmd' = [cmd EXCEPT ![w] = c]
      BY <3>1 DEF Opened, MovedOn
    <3> QED BY <3>2 DEF TypeInv
  <2> QED BY <2>1, RecordWrites DEF TypeInv
<1>2. cp' \in Handlers
  <2>1. CASE Takes
    BY <2>1, TakenRecord DEF Takes
  <2>2. CASE MintRead
    BY <2>2, ReadRecord
  <2>3. CASE MintSave \/ MintClaim
    BY <2>3, WaveRecord DEF SameWave
  <2>4. CASE cp' = [cp EXCEPT !.op = "unclaim"]
    <3>1. cp \in Handlers
      BY DEF TypeInv
    <3> QED BY ONLY <2>4, <3>1 DEF Handlers
  <2> QED BY <2>1, <2>2, <2>3, <2>4, CpMoves, AtRest DEF TypeInv
<1>3. jan' \in Passes /\ IsFiniteSet(jan'.gone)
  <2>1. jan \in Passes /\ IsFiniteSet(jan.gone)
    BY DEF TypeInv
  <2>2. CASE JanitorList
    <3> DEFINE review == {t \in Tickets : ticket[t].status = "review"}
               links == [t \in Tickets |-> IF t \in review THEN Linked(ticket[t]) ELSE {}]
               todo == {t \in review : links[t] # {}}
    <3>1. links \in [Tickets -> SUBSET Refs]
      <4>1. \A t \in Tickets : Linked(ticket[t]) \subseteq Refs
        BY DEF Linked, TypeInv, FileTypes, Docs, Notes
      <4> QED BY <4>1
    <3>2. jan' = [Resting EXCEPT !.todo = todo, !.links = links]
      BY <2>2 DEF JanitorList
    <3>3. todo \in SUBSET Tickets
      OBVIOUS
    <3> HIDE DEF links, todo
    <3>4. jan' = [todo |-> todo, links |-> links, t |-> Nobody, unread |-> {},
                  landed |-> FALSE, gone |-> {}]
      BY <3>2 DEF Resting
    <3>5. jan' \in Passes /\ jan'.gone = {}
      BY ONLY <3>1, <3>3, <3>4 DEF Passes
    <3> QED BY <3>5, FS_EmptySet
  <2>3. ASSUME NEW t \in Tickets, JanitorTake(t) PROVE jan' \in Passes /\ IsFiniteSet(jan'.gone)
    <3>1. jan' = [jan EXCEPT !.t = t, !.unread = jan.links[t], !.landed = TRUE, !.gone = {}]
      BY <2>3 DEF JanitorTake
    <3>2. jan' \in Passes /\ jan'.gone = {}
      BY ONLY <2>1, <3>1, t \in Tickets DEF Passes
    <3> QED BY <3>2, FS_EmptySet
  <2>4. Checked \in Passes /\ Checked.gone = {}
    <3>1. [jan EXCEPT !.todo = @ \ {jan.t}, !.t = Nobody, !.unread = {}, !.landed = FALSE, !.gone = {}]
            \in Passes
      BY ONLY <2>1 DEF Passes
    <3>2. [jan EXCEPT !.todo = @ \ {jan.t}, !.t = Nobody, !.unread = {}, !.landed = FALSE, !.gone = {}].gone
            = {}
      BY ONLY <2>1 DEF Passes
    <3>3. Resting \in Passes /\ Resting.gone = {}
      BY AtRest DEF Resting
    <3> QED BY <3>1, <3>2, <3>3 DEF Checked
  <2>5. ASSUME NEW r \in Refs, JanitorFetch(r) PROVE jan' \in Passes /\ IsFiniteSet(jan'.gone)
    <3> DEFINE landed == jan.landed /\ forge[r] = "merged" /\ ~Abandoned(r)
               gone == IF Abandoned(r) THEN jan.gone \cup {r} ELSE jan.gone
    <3>1. \/ jan' = Checked
          \/ jan' = [jan EXCEPT !.unread = @ \ {r}, !.landed = landed, !.gone = gone]
      BY <2>5 DEF JanitorFetch
    <3>2. gone \in SUBSET Refs /\ IsFiniteSet(gone)
      <4>1. jan.gone \in SUBSET Refs /\ IsFiniteSet(jan.gone \cup {r})
        BY <2>1, FS_AddElement DEF Passes
      <4> QED BY <2>1, <4>1
    <3>3. landed \in BOOLEAN
      OBVIOUS
    <3> HIDE DEF landed, gone
    <3>4. CASE jan' = [jan EXCEPT !.unread = @ \ {r}, !.landed = landed, !.gone = gone]
      <4>1. jan' \in Passes /\ jan'.gone = gone
        BY ONLY <2>1, <3>2, <3>3, <3>4 DEF Passes
      <4> QED BY <3>2, <4>1
    <3> QED BY <2>4, <3>1, <3>4, FS_EmptySet
  <2>6. CASE JanitorLoad
    <3>1. jan' = Checked
      BY <2>6 DEF JanitorLoad
    <3> QED BY <2>4, <3>1, FS_EmptySet
  <2>7. CASE Crash
    <3>1. jan' = Resting
      BY <2>7 DEF Crash
    <3> QED BY <3>1, AtRest
  <2> QED BY <2>1, <2>2, <2>3, <2>5, <2>6, <2>7, RecordWrites DEF Janitor
<1> QED BY <1>1, <1>2, <1>3

(***************************************************************************)
(* A ticket there is stays, whatever is written into its file.               *)
(***************************************************************************)
LEMMA NeverAbsent ==
  ASSUME TypeInv, [Next]_vars, NEW t \in Tickets
  PROVE  /\ ticket[t].status # "absent" => ticket'[t].status # "absent"
         /\ ticket[t].status = "absent" /\ ticket'[t].status # "absent" => Create(t)
<1>1. ticket \in [Tickets -> Docs]
  BY DEF TypeInv, FileTypes
<1>2. ASSUME NEW u \in Tickets, NEW copy \in Docs, ticket' = [ticket EXCEPT ![u] = copy],
             ticket[u].status # "absent", copy.status # "absent"
      PROVE  /\ ticket[t].status # "absent" => ticket'[t].status # "absent"
             /\ ~(ticket[t].status = "absent" /\ ticket'[t].status # "absent")
  BY <1>1, <1>2
<1>3. CASE \E u \in Tickets : Create(u)
  <2>1. PICK u \in Tickets : Create(u)
    BY <1>3
  <2>2. ticket' = [ticket EXCEPT ![u] = [@ EXCEPT !.status = "open"]] /\ ticket[u].status = "absent"
    BY <2>1 DEF Create
  <2>3. CASE t = u
    <3>1. ticket'[t] = [ticket[t] EXCEPT !.status = "open"] /\ ticket[t] \in Docs
      BY <1>1, <2>2, <2>3
    <3> QED BY <2>1, <2>3, <3>1 DEF Docs
  <2>4. CASE t # u
    BY <1>1, <2>2, <2>4
  <2> QED BY <2>3, <2>4
<1>4. CASE \E w \in Workers : ReplaceFile(w)
  <2>1. PICK w \in Workers : ReplaceFile(w)
    BY <1>4
  <2>2. cmd[w].pc = "replace" /\ ticket' = [ticket EXCEPT ![cmd[w].t] = cmd[w].copy]
    BY <2>1 DEF ReplaceFile, Replace, At
  <2>3. /\ cmd[w].t \in Tickets /\ cmd[w].copy \in Docs
        /\ ticket[cmd[w].t].status # "absent" /\ cmd[w].copy.status # "absent"
    BY <2>2 DEF TypeInv, Held, RecordTypes, Cmds
  <2> QED BY <1>2, <2>2, <2>3
<1>5. CASE UpdateSave \/ JanitorSave
  <2>1. cp.op \in {"update", "janitor"} /\ (ticket' = ticket \/ ticket' = [ticket EXCEPT ![cp.t] = cp.copy])
    BY <1>5 DEF UpdateSave, JanitorSave, Replace
  <2>2. /\ cp.t \in Tickets /\ cp.copy \in Docs
        /\ ticket[cp.t].status # "absent" /\ cp.copy.status # "absent"
    BY <2>1 DEF TypeInv, Held, RecordTypes, Handlers
  <2> QED BY <1>2, <2>1, <2>2
<1> QED BY <1>3, <1>4, <1>5, TicketWrites

\* What is held to be replaced was there when it was read, and is there still.
LEMMA HeldStep ==
  ASSUME TypeInv, NotesInv, JobsLeft, [Next]_vars
  PROVE  Held'
<1>1. \A w \in Workers : cmd[w].pc # "idle" =>
        /\ cmd[w].t \in Tickets /\ ticket'[cmd[w].t].status # "absent"
        /\ cmd[w].pc = "replace" => cmd[w].copy.status # "absent"
  BY NeverAbsent DEF TypeInv, Held
<1>2. ASSUME NEW w \in Workers, cmd'[w].pc # "idle"
      PROVE  /\ cmd'[w].t \in Tickets /\ ticket'[cmd'[w].t].status # "absent"
             /\ cmd'[w].pc = "replace" => cmd'[w].copy.status # "absent"
  <2>1. CASE cmd'[w] = cmd[w]
    BY <1>1, <1>2, <2>1
  <2>2. ASSUME NEW v \in Workers, NEW c, cmd' = [cmd EXCEPT ![v] = c]
        PROVE  cmd'[w] = cmd[w] \/ (v = w /\ cmd'[w] = c)
    BY <2>2 DEF TypeInv, RecordTypes
  <2>3. ASSUME NEW c, Opened(w, c), cmd'[w] = c
        PROVE  /\ cmd'[w].t \in Tickets /\ ticket'[cmd'[w].t].status # "absent"
               /\ cmd'[w].pc = "replace" => cmd'[w].copy.status # "absent"
    BY <2>3, NeverAbsent DEF Opened
  <2>4. ASSUME NEW c, MovedOn(w, c), cmd'[w] = c
        PROVE  /\ cmd'[w].t \in Tickets /\ ticket'[cmd'[w].t].status # "absent"
               /\ cmd'[w].pc = "replace" => cmd'[w].copy.status # "absent"
    <3>1. c # Ready
      BY <1>2, <2>4, AtRest
    <3>2. /\ cmd[w].pc # "idle" /\ c.t = cmd[w].t
          /\ c.pc = "replace" => c.copy = ticket[c.t]
      BY <2>4, <3>1 DEF MovedOn
    <3>3. cmd[w].t \in Tickets /\ ticket[cmd[w].t].status # "absent"
      BY <3>2 DEF TypeInv, Held
    <3> QED BY <2>4, <3>2, <3>3, NeverAbsent
  <2>5. ASSUME NEW v \in Workers, Opens(v) \/ Command(v) \/ Die(v), cmd'[w] # cmd[w]
        PROVE  \E c : (Opened(w, c) \/ MovedOn(w, c)) /\ cmd'[w] = c
    <3>1. PICK c : Opened(v, c) \/ MovedOn(v, c)
      BY <2>5, OpensOne, CommandGoesOn
    <3>2. cmd' = [cmd EXCEPT ![v] = c]
      BY <3>1 DEF Opened, MovedOn
    <3>3. v = w /\ cmd'[w] = c
      BY <2>2, <2>5, <3>2
    <3> QED BY <3>1, <3>3
  <2> QED BY <2>1, <2>3, <2>4, <2>5, RecordWrites
<1>3. /\ cp'.op \in {"update", "janitor", "unclaim"} =>
           cp'.t \in Tickets /\ ticket'[cp'.t].status # "absent"
      /\ cp'.op \in {"update", "janitor"} => cp'.copy.status # "absent"
  <2>1. CASE cp' = cp
    BY <2>1, NeverAbsent DEF TypeInv, Held
  <2>2. CASE cp' = Unlocked
    BY <2>2 DEF Unlocked
  <2>3. CASE Takes
    <3>1. PICK op \in {"update", "janitor"}, t \in Tickets, copy \in Docs : Took(op, t, copy)
      BY <2>3 DEF Takes
    <3>2. cp'.t = t /\ cp'.copy = copy
      BY <3>1, TakenRecord
    <3> QED BY <3>1, <3>2, NeverAbsent DEF Took
  <2>4. CASE MintRead \/ MintSave \/ MintClaim
    <3>1. cp'.op = "mint"
      BY <2>4, ReadRecord, WaveRecord DEF SameWave
    <3> QED BY <3>1
  <2>5. CASE cp.op = "janitor" /\ cp' = [cp EXCEPT !.op = "unclaim"]
    <3>1. cp'.op = "unclaim" /\ cp'.t = cp.t
      BY <2>5 DEF TypeInv, RecordTypes, Handlers
    <3>2. cp.t \in Tickets /\ ticket[cp.t].status # "absent"
      BY <2>5 DEF TypeInv, Held
    <3> QED BY <3>1, <3>2, NeverAbsent
  <2> QED BY <2>1, <2>2, <2>3, <2>4, <2>5, CpMoves
<1> QED BY <1>2, <1>3 DEF Held

\* Creation adds a ticket that was not there (create draws a new id).
LEMMA BredStep ==
  ASSUME TypeInv, [Next]_vars
  PROVE  Bred'
<1> USE DEF Bred
<1>1. born \in Seq(Tickets) /\ Distinct(born) /\ Old <= Len(born) /\ Len(born) \in Nat /\ DOMAIN born = 1..Len(born)
  BY LenProperties DEF TypeInv
<1>2. Old \in Nat
  BY BoardAssumption, LenProperties DEF Old
<1>3. ASSUME NEW t \in Tickets, Create(t)
      PROVE  Bred'
  <2>1. born' = Append(born, t) /\ ticket[t].status = "absent" /\ ticket'[t].status # "absent"
    <3>1. ticket' = [ticket EXCEPT ![t] = [@ EXCEPT !.status = "open"]] /\ ticket[t] \in Docs
      BY <1>3 DEF Create, TypeInv, FileTypes
    <3>2. ticket'[t] = [ticket[t] EXCEPT !.status = "open"]
      BY <3>1 DEF TypeInv, FileTypes
    <3>3. ticket'[t].status = "open"
      BY <3>1, <3>2 DEF Docs
    <3> QED BY <1>3, <3>3 DEF Create
  <2>2. /\ born' \in Seq(Tickets) /\ Len(born') = Len(born) + 1
        /\ DOMAIN born' = 1..(Len(born) + 1)
        /\ \A i \in 1..Len(born) : born'[i] = born[i]
        /\ born'[Len(born) + 1] = t
    BY <1>1, <2>1, AppendProperties, LenProperties
  <2>3. \A i \in 1..Len(born) : born[i] # t /\ born[i] \in Tickets /\ ticket[born[i]].status # "absent"
    BY <1>1, <2>1, LenProperties DEF TypeInv
  <2>4. Distinct(born')
    <3>1. \A i, k \in 1..Len(born) : born[i] = born[k] => i = k
      BY <1>1 DEF Distinct
    <3>2. \A i, k \in 1..(Len(born) + 1) : born'[i] = born'[k] => i = k
      BY ONLY <1>1, <2>2, <2>3, <3>1
    <3> QED BY <2>2, <3>2 DEF Distinct
  <2>5. \A i \in DOMAIN born' : ticket'[born'[i]].status # "absent"
    <3>1. \A i \in 1..Len(born) : ticket'[born'[i]].status # "absent"
      BY <2>2, <2>3, NeverAbsent
    <3> QED BY <1>1, <2>1, <2>2, <3>1
  <2>6. ASSUME NEW u \in Tickets, ticket'[u].status # "absent"
        PROVE  \E i \in DOMAIN born' : born'[i] = u
    <3>1. CASE u = t
      BY <1>1, <2>2, <3>1
    <3>2. CASE u # t
      <4>1. ticket' = [ticket EXCEPT ![t] = [@ EXCEPT !.status = "open"]]
        BY <1>3 DEF Create
      <4>2. ticket'[u] = ticket[u]
        BY <3>2, <4>1 DEF TypeInv, FileTypes
      <4>3. PICK i \in 1..Len(born) : born[i] = u
        BY <1>1, <2>6, <4>2 DEF TypeInv
      <4>4. i \in DOMAIN born' /\ born'[i] = u
        BY <1>1, <2>2, <4>3
      <4> QED BY <4>4
    <3> QED BY <3>1, <3>2
  <2>7. Old <= Len(born')
    BY <1>1, <1>2, <2>2
  <2> QED BY <2>2, <2>4, <2>5, <2>6, <2>7 DEF Old
<1>4. CASE born' = born /\ ~\E t \in Tickets : Create(t)
  <2>1. \A t \in Tickets : ticket'[t].status # "absent" <=> ticket[t].status # "absent"
    BY <1>4, NeverAbsent
  <2>2. \A i \in DOMAIN born : born[i] \in Tickets
    BY <1>1
  <2> QED BY <1>1, <1>4, <2>1, <2>2 DEF TypeInv, Distinct, Old
<1> QED BY <1>3, <1>4, OtherWrites

(***************************************************************************)
(* What a wave has picked stays well picked: tickets that are filed while it *)
(* claims come after those it has read.                                     *)
(***************************************************************************)
LEMMA AtPickStep ==
  ASSUME TypeInv, NotesInv, JobsLeft, [Next]_vars
  PROVE  AtPick'
<1>1. \A t, u \in Tickets : Sooner(t, u) => Sooner(t, u)'
  <2>1. CASE born' = born
    BY <2>1 DEF Sooner
  <2>2. ASSUME NEW t \in Tickets, born' = Append(born, t)
        PROVE  DOMAIN born \subseteq DOMAIN born' /\ \A i \in DOMAIN born : born'[i] = born[i]
    <3>1. born \in Seq(Tickets) /\ Len(born) \in Nat /\ DOMAIN born = 1..Len(born)
      BY LenProperties DEF TypeInv, Bred
    <3>2. Len(born') = Len(born) + 1 /\ DOMAIN born' = 1..(Len(born) + 1)
      BY <2>2, <3>1, AppendProperties, LenProperties
    <3> QED BY <2>2, <3>1, <3>2, AppendProperties
  <2>3. CASE \E t \in Tickets : Create(t)
    <3>1. DOMAIN born \subseteq DOMAIN born' /\ \A i \in DOMAIN born : born'[i] = born[i]
      BY <2>2, <2>3 DEF Create
    <3> QED BY <3>1 DEF Sooner
  <2> QED BY <2>1, <2>3, OtherWrites
<1>2. cp.picks \in Seq(Tickets) /\ Len(cp.picks) \in Nat /\ DOMAIN cp.picks = 1..Len(cp.picks)
      /\ cp.next \in Nat
  BY LenProperties DEF TypeInv, RecordTypes, Handlers
<1>3. AtPick
  BY DEF TypeInv
<1>4. ASSUME cp'.picks = cp.picks, cp'.avail = cp.avail, cp.op = "mint" PROVE PicksWell(cp.picks, cp.avail)'
  <2>1. PicksWell(cp.picks, cp.avail)
    BY <1>3, <1>4 DEF AtPick
  <2>2. \A t \in cp.avail \ Chosen(cp.picks), u \in Chosen(cp.picks) :
          Lane[t] = Lane[u] => Sooner(u, t)'
    <3>1. cp.avail \subseteq Tickets /\ Chosen(cp.picks) \subseteq cp.avail
      BY <2>1 DEF PicksWell
    <3> QED BY <1>1, <2>1, <3>1 DEF PicksWell
  <2> QED BY <1>4, <2>1, <2>2 DEF PicksWell, Chosen, Distinct
<1>5. CASE cp' = cp
  <2>1. cp'.op = cp.op /\ cp'.picks = cp.picks /\ cp'.avail = cp.avail /\ cp'.next = cp.next /\ cp'.j = cp.j
    BY <1>5
  <2> QED BY <1>3, <1>4, <2>1 DEF AtPick
<1>6. CASE cp' = Unlocked
  <2>1. cp'.op = "none" /\ cp'.picks = <<>> /\ cp'.next = 1 /\ cp'.j = Nobody
    BY <1>6 DEF Unlocked
  <2> QED BY <2>1, EmptySeq DEF AtPick
<1>7. CASE Takes
  <2>1. cp'.op # "mint" /\ cp'.picks = <<>> /\ cp'.next = 1 /\ cp'.j = Nobody
    BY <1>7, TakenRecord DEF Takes
  <2> QED BY <2>1, EmptySeq DEF AtPick
<1>8. CASE MintRead
  <2>1. /\ cp'.op = "mint" /\ cp'.picks = Picked /\ cp'.avail = Available
        /\ cp'.next = 1 /\ cp'.j = Nobody /\ PicksWell(Picked, Available)
    BY <1>8, ReadRecord
  <2> DEFINE p == Picked
             av == Available
  <2>2. \A t \in av \ Chosen(p), u \in Chosen(p) : Lane[t] = Lane[u] => Sooner(u, t)'
    <3>1. av \subseteq Tickets /\ Chosen(p) \subseteq av
      BY <2>1 DEF PicksWell
    <3> QED BY <1>1, <2>1, <3>1 DEF PicksWell
  <2>5. PicksWell(p, av) /\ cp'.picks = p /\ cp'.avail = av
    BY <2>1
  <2> HIDE DEF p, av
  <2>3. PicksWell(cp.picks, cp.avail)'
    <3>1. Chosen(cp.picks)' = Chosen(p)
      BY ONLY <2>5 DEF Chosen
    <3>2. Distinct(cp.picks)'
      BY ONLY <2>5 DEF PicksWell, Distinct
    <3>3. Len(cp.picks)' = Len(p)
      BY ONLY <2>5
    <3> QED BY ONLY <2>2, <2>5, <3>1, <3>2, <3>3 DEF PicksWell
  <2>4. Len(Picked) \in Nat
    BY <2>1, LenProperties DEF PicksWell
  <2> QED BY <2>1, <2>3, <2>4 DEF AtPick
<1>9. CASE MintSave \/ MintClaim
  <2>1. /\ cp.op = "mint" /\ cp.next \in DOMAIN cp.picks /\ cp'.op = "mint"
        /\ cp'.picks = cp.picks /\ cp'.avail = cp.avail
        /\ cp'.next = cp.next \/ (cp'.next = cp.next + 1 /\ cp'.j = Nobody)
    BY <1>9, WaveRecord DEF SameWave
  <2>2. PicksWell(cp.picks, cp.avail)'
    BY <1>4, <2>1
  <2> QED BY <1>2, <2>1, <2>2 DEF AtPick
<1>10. CASE cp.op = "janitor" /\ cp' = [cp EXCEPT !.op = "unclaim"]
  <2>1. cp'.op = "unclaim" /\ cp'.picks = cp.picks /\ cp'.next = cp.next /\ cp'.j = cp.j
    BY <1>10 DEF TypeInv, RecordTypes, Handlers
  <2> QED BY <1>3, <1>10, <2>1 DEF AtPick
<1> QED BY <1>5, <1>6, <1>7, <1>8, <1>9, <1>10, CpMoves

\* The type invariant is inductive beside the count of jobs and the notes.
LEMMA TypeStep ==
  ASSUME TypeInv, NotesInv, JobsLeft, [Next]_vars
  PROVE  TypeInv'
<1>1. SpentTypes
  BY DEF TypeInv
<1>2. FileTypes' /\ RecordTypes' /\ SpentTypes' /\ Held' /\ Bred' /\ AtPick'
  BY <1>1, FileStep, RecordStep, SpentStep, HeldStep, BredStep, AtPickStep
<1> QED BY <1>2 DEF TypeInv

\* A wave uses up a job for a pick once, and a new wave has its own slots.
LEMMA JobsStep ==
  ASSUME TypeInv, NotesInv, JobsLeft, [Next]_vars
  PROVE  JobsLeft'
<1> DEFINE n == spent["mint"]
           m == spent'["mint"]
<1>1. n \in Nat /\ m \in Nat /\ Slots \in Nat
  <2>1. SpentTypes
    BY DEF TypeInv
  <2>2. SpentTypes'
    BY <2>1, SpentStep
  <2> QED BY <2>1, <2>2, BoardAssumption DEF SpentTypes, Events, Slots
<1>2. m = n \/ (MintRead /\ m = n + 1)
  <2>1. ASSUME NEW k \in {"command", "update", "create", "error", "crash", "age"}, Spend(k) PROVE m = n
    <3>1. spent' = [spent EXCEPT ![k] = @ + 1] /\ k # "mint"
      BY <2>1, SpendIs
    <3> QED BY <3>1 DEF TypeInv, SpentTypes, Events
  <2>2. ASSUME Spend("mint") PROVE m = n + 1
    <3>1. spent' = [spent EXCEPT !["mint"] = @ + 1]
      BY <2>2, SpendIs
    <3> QED BY <3>1 DEF TypeInv, SpentTypes, Events
  <2> QED BY <2>1, <2>2, SpentWrites
<1>3. IsFiniteSet(Used) /\ Cardinality(Used) \in Nat /\ Cardinality(Used) <= Minted
      /\ (cp.op = "mint" => n >= 1)
  <2>1. IsFiniteSet(Jobs) /\ Used \in SUBSET Jobs
    BY BoardAssumption DEF Used
  <2> QED BY <2>1, FS_Subset, FS_CardinalityType DEF JobsLeft
<1>4. /\ cp.next \in Nat \ {0} /\ cp.picks \in Seq(Tickets) /\ Len(cp.picks) \in Nat
      /\ cp.next <= Len(cp.picks) + 1
      /\ cp.j # Nobody => cp.op = "mint" /\ cp.next <= Len(cp.picks)
      /\ cp.op = "mint" => Len(cp.picks) <= Slots
  <2>1. cp.next \in Nat \ {0} /\ cp.picks \in Seq(Tickets) /\ Len(cp.picks) \in Nat /\ AtPick
    BY LenProperties DEF TypeInv, RecordTypes, Handlers
  <2>2. ASSUME cp.op = "mint" PROVE Len(cp.picks) <= Slots
    <3>1. Len(cp.picks) = Least(Slots, Cardinality(cp.avail)) /\ IsFiniteSet(cp.avail)
      BY <2>1, <2>2 DEF AtPick, PicksWell
    <3>2. Cardinality(cp.avail) \in Nat
      BY <3>1, FS_CardinalityType
    <3> QED BY <1>1, <3>1, <3>2 DEF Least
  <2> QED BY <2>1, <2>2 DEF AtPick
<1> DEFINE a == (n - 1) * Slots
           b == n * Slots
<1>5. a \in Int /\ b \in Int /\ a + Slots = b
  BY <1>1
<1>6. /\ cp.op = "mint" /\ cp.j = Nobody => Minted = a + (cp.next - 1) + 0
      /\ cp.op = "mint" /\ cp.j # Nobody => Minted = a + (cp.next - 1) + 1
      /\ cp.op # "mint" => Minted = b
  BY Zenon DEF Minted
<1> HIDE DEF a, b
<1>7. Minted <= b /\ Minted \in Int
  BY <1>1, <1>4, <1>5, <1>6
<1>8. ASSUME job' = job, cp'.op # "mint", m = n PROVE JobsLeft'
  <2>1. Minted' = b
    BY <1>8, Zenon DEF Minted, b
  <2>2. Used' = Used
    BY <1>8 DEF Used
  <2> QED BY <1>3, <1>5, <1>7, <1>8, <2>1, <2>2 DEF JobsLeft
<1>9. CASE MintRead
  <2>1. cp'.op = "mint" /\ cp'.next = 1 /\ cp'.j = Nobody
    BY <1>9, ReadRecord
  <2>2. cp.op # "mint" /\ job' = job /\ Spend("mint")
    BY <1>9 DEF MintRead, Free
  <2>3. m = n + 1
    BY <2>2, SpendIs DEF TypeInv, SpentTypes, Events
  <2>4. Minted' = (m - 1) * Slots + (1 - 1) + 0
    BY <2>1, Zenon DEF Minted
  <2>5. Minted' = b
    <3>1. m - 1 = n
      BY <1>1, <2>3
    <3>2. Minted' = b + (1 - 1) + 0
      BY <2>4, <3>1 DEF b
    <3> QED BY <1>5, <3>2
  <2>6. Used' = Used /\ Minted = b
    BY <1>6, <2>2 DEF Used
  <2>7. Cardinality(Used') <= Minted'
    BY <1>3, <2>5, <2>6
  <2> QED BY <1>1, <2>3, <2>7 DEF JobsLeft
<1>10. CASE MintSave \/ MintClaim
  <2>1. /\ cp.op = "mint" /\ cp'.op = "mint"
        /\ \/ /\ MintSave /\ cp.j = Nobody /\ cp'.next = cp.next
              /\ cp'.j = NewJob /\ job' = [job EXCEPT ![NewJob] = NextPick]
           \/ MintSave /\ cp.j = Nobody /\ cp'.next = cp.next + 1 /\ cp'.j = Nobody /\ job' = job
           \/ MintClaim /\ cp.j # Nobody /\ cp'.next = cp.next + 1 /\ cp'.j = Nobody /\ job' = job
    BY <1>10, WaveRecord DEF SameWave
  <2>2. m = n
    BY <1>2, <2>1 DEF MintRead, Free
  <2>3. /\ cp'.j = Nobody => Minted' = a + (cp'.next - 1) + 0
        /\ cp'.j # Nobody => Minted' = a + (cp'.next - 1) + 1
    BY <2>1, <2>2, Zenon DEF Minted, a
  <2>4. CASE cp'.j = Nobody /\ cp'.next = cp.next + 1 /\ job' = job
    <3>1. Used' = Used
      BY <2>4 DEF Used
    <3>2. Minted <= Minted'
      BY <1>4, <1>5, <1>6, <2>1, <2>3, <2>4
    <3>3. Minted' \in Int
      BY <1>4, <1>5, <2>3, <2>4
    <3> QED BY <1>3, <1>7, <2>1, <2>2, <3>1, <3>2, <3>3 DEF JobsLeft
  <2>5. CASE /\ MintSave /\ cp.j = Nobody /\ cp'.next = cp.next
             /\ cp'.j = NewJob /\ job' = [job EXCEPT ![NewJob] = NextPick]
    <3>1. NewJob \in Jobs /\ NewJob # Nobody
      BY <2>5, JobFree, BoardAssumption
    <3>2. Used' \in SUBSET (Used \cup {NewJob})
      BY <2>5 DEF Used, TypeInv, FileTypes
    <3>3. /\ IsFiniteSet(Used \cup {NewJob})
          /\ Cardinality(Used \cup {NewJob}) <= Cardinality(Used) + 1
      <4>1. /\ IsFiniteSet(Used \cup {NewJob})
            /\ Cardinality(Used \cup {NewJob})
                 = IF NewJob \in Used THEN Cardinality(Used) ELSE Cardinality(Used) + 1
        BY <1>3, FS_AddElement
      <4> QED BY ONLY <1>3, <4>1
    <3>4. IsFiniteSet(Used') /\ Cardinality(Used') <= Cardinality(Used \cup {NewJob})
      BY <3>2, <3>3, FS_Subset
    <3>5. Cardinality(Used') \in Nat /\ Cardinality(Used \cup {NewJob}) \in Nat
      BY <3>3, <3>4, FS_CardinalityType
    <3>6. Minted' = Minted + 1
      BY <1>4, <1>5, <1>6, <2>1, <2>3, <2>5, <3>1
    <3> QED BY <1>3, <1>7, <2>1, <2>2, <3>3, <3>4, <3>5, <3>6 DEF JobsLeft
  <2> QED BY <2>1, <2>4, <2>5
<1>11. CASE job' = job /\ m = n /\ cp' = cp
  <2>1. Minted' = Minted /\ Used' = Used
    BY <1>11 DEF Minted, Used
  <2> QED BY <1>3, <1>11, <2>1 DEF JobsLeft
<1>12. CASE ~MintRead /\ ~MintSave /\ ~MintClaim
  <2>1. job' = job /\ m = n
    BY <1>2, <1>12, OtherWrites
  <2>2. cp' = cp \/ cp'.op # "mint"
    <3>1. cp' = Unlocked => cp'.op # "mint"
      BY DEF Unlocked
    <3>2. Takes => cp'.op # "mint"
      BY TakenRecord DEF Takes
    <3>3. cp' = [cp EXCEPT !.op = "unclaim"] => cp'.op # "mint"
      BY DEF TypeInv, RecordTypes, Handlers
    <3> QED BY <1>12, <3>1, <3>2, <3>3, CpMoves
  <2> QED BY <1>8, <1>11, <2>1, <2>2
<1> QED BY <1>9, <1>10, <1>12

-----------------------------------------------------------------------------
(***************************************************************************)
(* Claims and jobs.                                                         *)
(***************************************************************************)
\* Only a wave puts a job's name into a sidecar, and only into that of the pick it
\* is at (writeTicketClaim).
LEMMA JobClaims ==
  ASSUME TypeInv, [Next]_vars, NEW t \in Tickets
  PROVE  \/ claim'[t] = claim[t]
         \/ claim'[t].by \notin Jobs
         \/ claim'[t].by = claim[t].by /\ claim'[t].file = "stale"
         \/ MintClaim /\ t = NextPick /\ claim'[t] = [file |-> "fresh", by |-> cp.j]
<1>1. claim \in [Tickets -> Sidecars] /\ claim[t] \in Sidecars
  BY DEF TypeInv, FileTypes
<1>2. Nobody \notin Jobs /\ Workers \cap Jobs = {} /\ NoClaim.by = Nobody
  BY BoardAssumption DEF NoClaim
<1>3. ASSUME NEW u, NEW c, c.by \notin Jobs, claim' = [claim EXCEPT ![u] = c]
      PROVE  claim'[t] = claim[t] \/ claim'[t].by \notin Jobs
  BY <1>1, <1>3
<1>4. CASE \E w \in Workers : TryLock(w) \/ StealLock(w) \/ Relock(w) \/ Sign(w) \/ RemoveClaim(w)
  <2>1. PICK w \in Workers : TryLock(w) \/ StealLock(w) \/ Relock(w) \/ Sign(w) \/ RemoveClaim(w)
    BY <1>4
  <2>2. \/ claim' = claim
        \/ claim' = [claim EXCEPT ![cmd[w].t] = NoClaim]
        \/ claim' = [claim EXCEPT ![cmd[w].t] = [file |-> "fresh", by |-> Nobody]]
        \/ claim' = [claim EXCEPT ![cmd[w].t] = [file |-> "fresh", by |-> w]]
    BY <2>1 DEF TryLock, StealLock, Relock, Sign, RemoveClaim, Lock, Unclaim
  <2>3. /\ NoClaim.by \notin Jobs /\ [file |-> "fresh", by |-> Nobody].by \notin Jobs
        /\ [file |-> "fresh", by |-> w].by \notin Jobs
    BY <1>2
  <2> QED BY <1>3, <2>2, <2>3
<1>5. CASE MintClaim
  <2>1. \/ claim' = claim
        \/ claim' = [claim EXCEPT ![NextPick] = [file |-> "fresh", by |-> cp.j]]
    BY <1>5 DEF MintClaim
  <2> QED BY <1>1, <1>5, <2>1
<1>6. CASE JanitorUnclaim
  <2>1. claim' = [claim EXCEPT ![cp.t] = NoClaim]
    BY <1>6 DEF JanitorUnclaim, Unclaim
  <2> QED BY <1>2, <1>3, <2>1
<1>7. CASE \E u \in Tickets : Age(u)
  <2>1. PICK u \in Tickets : Age(u)
    BY <1>7
  <2>2. claim' = [claim EXCEPT ![u] = [@ EXCEPT !.file = "stale"]]
    BY <2>1 DEF Age
  <2>3. CASE u = t
    <3>1. claim'[t] = [claim[t] EXCEPT !.file = "stale"]
      BY <1>1, <2>2, <2>3
    <3> QED BY <1>1, <3>1 DEF Sidecars
  <2>4. CASE u # t
    BY <1>1, <2>2, <2>4
  <2> QED BY <2>3, <2>4
<1> QED BY <1>4, <1>5, <1>6, <1>7, ClaimWrites

\* A job stays that of the ticket it was saved for: no wave draws a job anew.
LEMMA JobsKept ==
  ASSUME TypeInv, JobsLeft, [Next]_vars, NEW j \in Jobs, job[j] # Nobody
  PROVE  job'[j] = job[j]
<1>1. CASE MintSave
  <2>1. job' = job \/ job' = [job EXCEPT ![NewJob] = NextPick]
    BY <1>1 DEF MintSave
  <2>2. NewJob # j
    BY <1>1, JobFree
  <2> QED BY <2>1, <2>2 DEF TypeInv, FileTypes
<1> QED BY <1>1, OtherWrites

\* A claim by a job is for the job's ticket, also the one a wave is about to write.
LEMMA ClaimsStep ==
  ASSUME TypeInv, NotesInv, JobsLeft, ClaimsHaveJobs, [Next]_vars
  PROVE  ClaimsHaveJobs'
<1>1. Nobody \notin Tickets /\ Nobody \notin Jobs
  BY BoardAssumption
<1>2. cp.j # Nobody => cp.j \in Jobs /\ NextPick \in Tickets /\ job[cp.j] = NextPick
  <2>1. ASSUME cp.j # Nobody PROVE NextPick \in Tickets
    <3>1. cp.next \in DOMAIN cp.picks /\ cp.picks \in Seq(Tickets)
      BY <2>1, LenProperties DEF TypeInv, AtPick, RecordTypes, Handlers
    <3> QED BY <3>1 DEF NextPick
  <2> QED BY <2>1 DEF ClaimsHaveJobs, TypeInv, RecordTypes, Handlers
<1>3. ASSUME NEW t \in Tickets, claim'[t].by \in Jobs
      PROVE  job'[claim'[t].by] = t
  <2>1. CASE claim'[t].by = claim[t].by
    <3>1. job[claim[t].by] = t
      BY <1>3, <2>1 DEF ClaimsHaveJobs
    <3> QED BY <1>1, <1>3, <2>1, <3>1, JobsKept
  <2>2. CASE MintClaim /\ t = NextPick /\ claim'[t] = [file |-> "fresh", by |-> cp.j]
    <3>1. cp.j # Nobody /\ job' = job /\ claim'[t].by = cp.j
      BY <2>2 DEF MintClaim
    <3> QED BY <1>2, <2>2, <3>1
  <2> QED BY <1>3, <2>1, <2>2, JobClaims
<1>4. ASSUME cp'.j # Nobody PROVE job'[cp'.j] = NextPick'
  <2>1. CASE cp' = cp
    <3>1. NextPick' = NextPick /\ cp'.j = cp.j
      BY <2>1 DEF NextPick
    <3> QED BY <1>1, <1>2, <1>4, <3>1, JobsKept
  <2>2. CASE MintSave \/ MintClaim
    <3>1. /\ cp'.picks = cp.picks /\ cp'.next = cp.next
          /\ MintSave /\ cp'.j = NewJob /\ job' = [job EXCEPT ![NewJob] = NextPick]
      BY <1>4, <2>2, WaveRecord DEF SameWave
    <3>2. NewJob \in Jobs
      BY <3>1, JobFree
    <3>3. NextPick' = NextPick
      BY <3>1 DEF NextPick
    <3> QED BY <3>1, <3>2, <3>3 DEF TypeInv, FileTypes
  <2>3. cp' # Unlocked /\ ~Takes /\ ~MintRead
    BY <1>4, TakenRecord, ReadRecord DEF Takes, Unlocked
  <2>4. CASE cp.op = "janitor" /\ cp' = [cp EXCEPT !.op = "unclaim"]
    <3>1. cp'.j = cp.j /\ cp.j = Nobody
      BY <2>4 DEF TypeInv, RecordTypes, Handlers, AtPick
    <3> QED BY <1>4, <3>1
  <2> QED BY <2>1, <2>2, <2>3, <2>4, CpMoves
<1> QED BY <1>3, <1>4 DEF ClaimsHaveJobs

\* What the wave has still to claim no job claims meanwhile, since the wave holds
\* nsMu and commands sign with a session's name.
LEMMA UnclaimedStep ==
  ASSUME TypeInv, NotesInv, JobsLeft, PicksUnclaimed, [Next]_vars
  PROVE  PicksUnclaimed'
<1>1. /\ cp.picks \in Seq(Tickets) /\ Len(cp.picks) \in Nat /\ DOMAIN cp.picks = 1..Len(cp.picks)
      /\ cp.next \in Nat
  BY LenProperties DEF TypeInv, RecordTypes, Handlers
<1>2. ASSUME NEW t \in Tickets, ~Claimed(t), ~MintClaim PROVE ~Claimed(t)'
  BY <1>2, JobClaims DEF Claimed
<1>3. CASE cp' = cp /\ ~MintClaim
  <2>1. cp'.op = cp.op /\ cp'.picks = cp.picks /\ cp'.next = cp.next
    BY <1>3
  <2>2. \A i \in DOMAIN cp.picks : cp.picks[i] \in Tickets
    BY <1>1
  <2>3. \A t \in Tickets : ~Claimed(t) => ~(claim'[t].file = "fresh" /\ claim'[t].by \in Jobs)
    BY <1>2, <1>3 DEF Claimed
  <2> QED BY <2>1, <2>2, <2>3 DEF PicksUnclaimed, Claimed
<1>4. CASE MintRead
  <2>1. cp'.op = "mint" /\ cp'.picks = Picked /\ PicksWell(Picked, Available) /\ claim' = claim
    BY <1>4, ReadRecord DEF MintRead
  <2>2. \A i \in DOMAIN Picked : Picked[i] \in Available
    BY <2>1 DEF PicksWell, Chosen
  <2>3. \A i \in DOMAIN Picked : claim[Picked[i]].file # "fresh"
    BY <2>2 DEF Available
  <2> QED BY <2>1, <2>3 DEF PicksUnclaimed, Claimed
<1>5. CASE MintSave
  <2>1. /\ cp.op = "mint" /\ cp'.picks = cp.picks /\ cp'.next \in {cp.next, cp.next + 1}
        /\ claim' = claim
    BY <1>5, WaveRecord DEF SameWave, MintSave
  <2> QED BY <1>1, <2>1 DEF PicksUnclaimed, Claimed
<1>6. CASE MintClaim
  <2>1. /\ cp.op = "mint" /\ cp'.picks = cp.picks /\ cp'.next = cp.next + 1
        /\ cp.next \in DOMAIN cp.picks
        /\ claim' = claim \/ claim' = [claim EXCEPT ![NextPick] = [file |-> "fresh", by |-> cp.j]]
    BY <1>6, WaveRecord DEF SameWave, MintClaim, MintSave, Minting
  <2>2. Distinct(cp.picks)
    BY <2>1 DEF TypeInv, AtPick, PicksWell
  <2>3. ASSUME NEW i \in DOMAIN cp.picks, i >= cp.next + 1
        PROVE  claim'[cp.picks[i]] = claim[cp.picks[i]] /\ ~Claimed(cp.picks[i])
    <3>1. i # cp.next /\ i >= cp.next
      BY <1>1, <2>3
    <3>2. cp.picks[i] # NextPick /\ cp.picks[i] \in Tickets
      BY <1>1, <2>1, <2>2, <3>1 DEF NextPick, Distinct
    <3>3. ~Claimed(cp.picks[i])
      BY <2>1, <3>1 DEF PicksUnclaimed
    <3> QED BY <2>1, <3>2, <3>3 DEF TypeInv, FileTypes
  <2> QED BY <2>1, <2>3 DEF PicksUnclaimed, Claimed
<1>7. CASE cp'.op # "mint"
  BY <1>7 DEF PicksUnclaimed
<1>8. ASSUME ~(cp' = cp) \/ MintClaim, ~MintRead, ~MintSave, ~MintClaim PROVE cp'.op # "mint"
  <2>1. cp' = Unlocked => cp'.op # "mint"
    BY DEF Unlocked
  <2>2. Takes => cp'.op # "mint"
    BY TakenRecord DEF Takes
  <2>3. cp' = [cp EXCEPT !.op = "unclaim"] => cp'.op # "mint"
    BY DEF TypeInv, RecordTypes, Handlers
  <2> QED BY <1>8, <2>1, <2>2, <2>3, CpMoves
<1> QED BY <1>3, <1>4, <1>5, <1>6, <1>7, <1>8

-----------------------------------------------------------------------------
(***************************************************************************)
(* The janitor's notes.                                                     *)
(***************************************************************************)
\* No file and no copy of one ever says twice that a request was abandoned: a copy
\* is a file of some moment with at most what that moment did not say
\* (janitorCheckTicket; the command line's read and os.replace).
LEMMA NotesStep ==
  ASSUME TypeInv, NotesInv, JobsLeft, [Next]_vars
  PROVE  NotesInv'
<1>1. \A t \in Tickets : ticket[t] \in Docs /\ NotedOnce(ticket[t])
  BY DEF TypeInv, FileTypes, NotesInv
<1>2. NotedOnce(NoTicket)
  BY AtRest, FewNotes DEF NotedOnce
<1>3. ASSUME NEW t \in Tickets PROVE NotedOnce(ticket'[t])
  <2>1. ASSUME NEW u, NEW copy, ticket' = [ticket EXCEPT ![u] = copy], NotedOnce(copy)
        PROVE  NotedOnce(ticket'[t])
    <3>1. ticket'[t] = copy \/ ticket'[t] = ticket[t]
      BY <2>1 DEF TypeInv, FileTypes
    <3> QED BY <1>1, <2>1, <3>1
  <2>2. ASSUME NEW u \in Tickets, Create(u) PROVE NotedOnce(ticket'[t])
    <3> DEFINE copy == [ticket[u] EXCEPT !.status = "open"]
    <3>1. ticket' = [ticket EXCEPT ![u] = copy]
      BY <2>2 DEF Create
    <3>2. copy.notes = ticket[u].notes
      BY <1>1 DEF Docs
    <3>3. NotedOnce(copy)
      BY <1>1, <3>2 DEF NotedOnce
    <3> QED BY <2>1, <3>1, <3>3
  <2>3. ASSUME NEW w \in Workers, ReplaceFile(w) PROVE NotedOnce(ticket'[t])
    <3>1. ticket' = [ticket EXCEPT ![cmd[w].t] = cmd[w].copy] /\ NotedOnce(cmd[w].copy)
      BY <2>3 DEF ReplaceFile, Replace, NotesInv
    <3> QED BY <2>1, <3>1
  <2>4. ASSUME UpdateSave \/ JanitorSave PROVE NotedOnce(ticket'[t])
    <3>1. ticket' = ticket \/ ticket' = [ticket EXCEPT ![cp.t] = cp.copy]
      BY <2>4 DEF UpdateSave, JanitorSave, Replace
    <3>2. NotedOnce(cp.copy)
      BY DEF NotesInv
    <3> QED BY <1>1, <2>1, <3>1, <3>2
  <2> QED BY <1>1, <2>2, <2>3, <2>4, TicketWrites
<1>4. ASSUME NEW w \in Workers PROVE NotedOnce(cmd'[w].copy)
  <2>1. NotedOnce(cmd[w].copy)
    BY DEF NotesInv
  <2>2. ASSUME NEW v \in Workers, NEW c, cmd' = [cmd EXCEPT ![v] = c], NotedOnce(c.copy)
        PROVE  NotedOnce(cmd'[w].copy)
    <3>1. cmd'[w] = c \/ cmd'[w] = cmd[w]
      BY <2>2, SMTT(30) DEF TypeInv, RecordTypes
    <3> QED BY <2>1, <2>2, <3>1
  <2>3. ASSUME NEW v \in Workers, NEW c, Opened(v, c) PROVE NotedOnce(cmd'[w].copy)
    <3>1. cmd' = [cmd EXCEPT ![v] = c] /\ c.t \in Tickets
      BY <2>3 DEF Opened
    <3>2. CASE c.copy = NoTicket
      BY <1>2, <2>2, <3>1, <3>2
    <3>3. ASSUME NEW ref \in Refs \cup {NoRef},
                 c.copy.notes = Append(ticket[c.t].notes, <<"agent", ref>>)
          PROVE  NotedOnce(c.copy)
      <4>1. ticket[c.t].notes \in Seq(Notes) /\ OnceIn(ticket[c.t].notes)
        BY <1>1, <3>1 DEF Docs, NotedOnce
      <4>2. <<"agent", ref>> \in Notes /\ <<"agent", ref>>[1] # "janitor"
        BY DEF Notes
      <4>3. OnceIn(Append(ticket[c.t].notes, <<"agent", ref>>))
        BY <4>1, <4>2, OnceAppend
      <4> QED BY <3>3, <4>3 DEF NotedOnce
    <3> QED BY <2>2, <2>3, <3>1, <3>2, <3>3 DEF Opened
  <2>4. ASSUME NEW v \in Workers, NEW c, MovedOn(v, c) PROVE NotedOnce(cmd'[w].copy)
    <3>1. cmd' = [cmd EXCEPT ![v] = c]
      BY <2>4 DEF MovedOn
    <3>2. CASE c = Ready
      BY <1>2, <2>2, <3>1, <3>2, AtRest
    <3>3. CASE c # Ready
      <4>1. cmd[v].pc # "idle" /\ c.t = cmd[v].t /\ (c.copy = cmd[v].copy \/ c.copy = ticket[c.t])
        BY <2>4, <3>3 DEF MovedOn
      <4>2. c.t \in Tickets
        BY <4>1 DEF TypeInv, Held
      <4>3. NotedOnce(c.copy)
        BY <1>1, <4>1, <4>2 DEF NotesInv
      <4> QED BY <2>2, <3>1, <4>3
    <3> QED BY <3>2, <3>3
  <2>5. ASSUME NEW v \in Workers, Opens(v) \/ Command(v) \/ Die(v)
        PROVE  \E c : Opened(v, c) \/ MovedOn(v, c)
    BY <2>5, OpensOne, CommandGoesOn
  <2> QED BY <2>1, <2>3, <2>4, <2>5, RecordWrites
<1>5. NotedOnce(cp'.copy)
  <2>1. NotedOnce(cp.copy)
    BY DEF NotesInv
  <2>2. CASE cp' = Unlocked
    BY <1>2, <2>2 DEF Unlocked
  <2>3. CASE Takes
    <3>1. PICK op \in {"update", "janitor"}, t \in Tickets, copy \in Docs : Took(op, t, copy)
      BY <2>3 DEF Takes
    <3>2. cp'.copy = copy /\ NotedOnce(copy)
      BY <3>1, TakenRecord DEF Took
    <3> QED BY ONLY <3>2
  <2>4. CASE MintRead \/ MintSave \/ MintClaim
    BY <1>2, <2>1, <2>4, ReadRecord, WaveRecord DEF SameWave
  <2>5. CASE cp' = [cp EXCEPT !.op = "unclaim"]
    <3>1. cp'.copy = cp.copy
      BY <2>5 DEF TypeInv, RecordTypes, Handlers
    <3> QED BY <2>1, <3>1
  <2> QED BY <2>1, <2>2, <2>3, <2>4, <2>5, CpMoves
<1> QED BY <1>3, <1>4, <1>5 DEF NotesInv

-----------------------------------------------------------------------------
(***************************************************************************)
(* The invariant, and what follows from it.                                 *)
(***************************************************************************)
IInv == TypeInv /\ NotesInv /\ JobsLeft /\ ClaimsHaveJobs /\ PicksUnclaimed

\* A board at first has its backlog, no claim, no job and no note.
LEMMA InitIsGood ==
  ASSUME Init
  PROVE  IInv
<1> USE DEF Init
<1>1. ticket \in [Tickets -> Docs] /\ \A t \in Tickets : ticket[t].notes = <<>>
  <2>1. [NoTicket EXCEPT !.status = "open"] \in Docs /\ [NoTicket EXCEPT !.status = "open"].notes = <<>>
    BY AtRest DEF Docs, Statuses
  <2> QED BY <2>1, AtRest
<1>2. FileTypes
  BY <1>1, AtRest DEF FileTypes
<1>3. RecordTypes
  BY AtRest DEF RecordTypes
<1>4. SpentTypes
  BY BoardAssumption DEF SpentTypes
<1>5. /\ \A w \in Workers : cmd[w].pc = "idle" /\ cmd[w].copy = NoTicket
      /\ cp.op = "none" /\ cp.copy = NoTicket /\ cp.next = 1 /\ cp.j = Nobody /\ cp.picks = <<>>
  BY AtRest DEF Unlocked
<1>6. Held
  BY <1>5 DEF Held
<1>7. \A t \in Tickets : ticket[t].status # "absent" <=> \E i \in DOMAIN Backlog : Backlog[i] = t
  <2>1. [NoTicket EXCEPT !.status = "open"].status # "absent"
    BY AtRest DEF Docs
  <2> QED BY <2>1, AtRest
<1>8. Bred
  <2>1. /\ born = Backlog /\ Backlog \in Seq(Tickets) /\ Distinct(Backlog)
        /\ Old = Len(Backlog) /\ Len(Backlog) \in Nat
        /\ \A i \in DOMAIN Backlog : Backlog[i] \in Tickets
    BY BoardAssumption, LenProperties DEF Old
  <2> QED BY <1>7, <2>1 DEF Bred
<1>9. AtPick
  BY <1>5, EmptySeq DEF AtPick
<1>10. NotesInv
  BY <1>1, <1>5, AtRest, FewNotes DEF NotesInv, NotedOnce
<1>11. JobsLeft
  <2>1. Used = {}
    BY DEF Used
  <2>2. Minted = 0 * Slots
    BY <1>5, Zenon DEF Minted, Events
  <2>3. Slots \in Nat
    BY BoardAssumption DEF Slots
  <2> QED BY <1>5, <2>1, <2>2, <2>3, FS_EmptySet DEF JobsLeft
<1>12. ClaimsHaveJobs
  <2>1. \A t \in Tickets : claim[t].by = Nobody
    BY DEF NoClaim
  <2> QED BY <1>5, <2>1, BoardAssumption DEF ClaimsHaveJobs
<1>13. PicksUnclaimed
  BY <1>5 DEF PicksUnclaimed
<1> QED BY <1>2, <1>3, <1>4, <1>6, <1>8, <1>9, <1>10, <1>11, <1>12, <1>13 DEF IInv, TypeInv

\* Every step of a session, of the control plane and of time keeps the invariant.
LEMMA StepIsGood ==
  ASSUME IInv, [Next]_vars
  PROVE  IInv'
<1>1. TypeInv /\ NotesInv /\ JobsLeft /\ ClaimsHaveJobs /\ PicksUnclaimed
  BY DEF IInv
<1>2. TypeInv' /\ NotesInv' /\ JobsLeft' /\ ClaimsHaveJobs' /\ PicksUnclaimed'
  BY <1>1, TypeStep, NotesStep, JobsStep, ClaimsStep, UnclaimedStep
<1> QED BY <1>2 DEF IInv

\* Whatever sessions, handlers and crashes do, the invariant holds.
THEOREM Invariance == Spec => []IInv
<1>1. Init => IInv
  BY InitIsGood
<1>2. IInv /\ [Next]_vars => IInv'
  BY StepIsGood
<1> QED BY <1>1, <1>2, PTL DEF Spec

\* The files, the commands and the handlers keep their types, and no ticket is born
\* twice.
THEOREM TypesKept == Spec => []TypeOK
<1>1. IInv => TypeOK
  <2> SUFFICES ASSUME IInv PROVE TypeOK
    OBVIOUS
  <2>1. FileTypes /\ RecordTypes /\ Bred /\ AtPick
    BY DEF IInv, TypeInv
  <2>2. \A t \in Tickets :
          /\ ticket[t].status \in Statuses /\ ticket[t].notes \in Seq(Notes)
          /\ claim[t].file \in {"none", "fresh", "stale"}
          /\ claim[t].by \in Workers \cup Jobs \cup {Nobody}
    BY <2>1 DEF FileTypes, Docs, Sidecars
  <2>3. /\ cp.t \in Tickets \cup {Nobody} /\ cp.picks \in Seq(Tickets) /\ cp.next \in Nat \ {0}
        /\ \A w \in Workers : cmd[w].t \in Tickets \cup {Nobody}
        /\ jan.todo \subseteq Tickets /\ jan.unread \subseteq Refs /\ jan.gone \subseteq Refs
    BY <2>1 DEF RecordTypes, Cmds, Handlers, Passes
  <2>4. cp.next \in 1..(Len(cp.picks) + 1)
    <3>1. Len(cp.picks) \in Nat
      BY <2>3, LenProperties
    <3> QED BY <2>1, <2>3, <3>1 DEF AtPick
  <2> QED BY <2>1, <2>2, <2>3, <2>4 DEF TypeOK, FileTypes, Bred
<1> QED BY <1>1, Invariance, PTL

\* A claim by a job is never left without the job (mintExecJobs).
THEOREM NoOrphanClaim == Spec => []ScheduledHaveJobs
<1>1. IInv => ScheduledHaveJobs
  BY DEF IInv, ClaimsHaveJobs, ScheduledHaveJobs
<1> QED BY <1>1, Invariance, PTL

\* No ticket says twice that a request was abandoned (noteExists).
THEOREM FlaggedOnce == Spec => []AbandonedNotedOnce
<1>1. IInv => AbandonedNotedOnce
  BY DEF IInv, NotesInv, NotedOnce, OnceIn, AbandonedNotedOnce
<1> QED BY <1>1, Invariance, PTL

\* No wave saves a job for a ticket that a job claims (execWorkerJobs).
THEOREM NeverMintedTwice == Spec => NoDoubleMint
<1> DEFINE Once == \A j \in Jobs, t \in Tickets :
                     job[j] # t /\ job'[j] = t => ~(claim[t].file = "fresh" /\ claim[t].by \in Jobs)
<1>1. IInv /\ [Next]_vars => [Once]_vars
  <2> SUFFICES ASSUME IInv, [Next]_vars, NEW j \in Jobs, NEW t \in Tickets,
                      job[j] # t, job'[j] = t
               PROVE  ~Claimed(t)
    BY DEF Claimed
  <2>1. TypeInv /\ JobsLeft /\ PicksUnclaimed
    BY DEF IInv
  <2>2. MintSave
    BY OtherWrites
  <2>3. cp.op = "mint" /\ cp.next \in DOMAIN cp.picks
    BY <2>2 DEF MintSave, Minting
  <2>4. t = NextPick
    <3>1. job' = job \/ job' = [job EXCEPT ![NewJob] = NextPick]
      BY <2>2 DEF MintSave
    <3> QED BY <2>1, <3>1 DEF TypeInv, FileTypes
  <2>5. cp.next >= cp.next
    BY <2>1 DEF TypeInv, RecordTypes, Handlers
  <2> QED BY <2>1, <2>3, <2>4, <2>5 DEF PicksUnclaimed, NextPick
<1> QED BY <1>1, Invariance, PTL DEF Spec, NoDoubleMint

\* A wave fills its slots, serves each feature lane its own before ops, and takes
\* the tickets of a lane in the order of dispatch (execWorkerJobs, orderLane).
THEOREM WavesAreFair == Spec => []PicksAreFair
<1>1. IInv => PicksAreFair
  <2> SUFFICES ASSUME IInv, cp.op = "mint" PROVE PicksAreFair
    BY DEF PicksAreFair
  <2> DEFINE chosen == Chosen(cp.picks)
             rank(t) == CHOOSE i \in DOMAIN born : born[i] = t
             tonight(t) == rank(t) > Len(Backlog)
             before(t, u) == IF tonight(t) = tonight(u) THEN rank(t) < rank(u) ELSE tonight(t)
  <2>1. PicksWell(cp.picks, cp.avail) /\ Distinct(born)
    BY DEF IInv, TypeInv, AtPick, Bred
  <2>2. \A i \in DOMAIN born : rank(born[i]) = i
    BY <2>1 DEF Distinct
  <2>3. ASSUME NEW t \in cp.avail \ chosen, NEW u \in chosen, Lane[t] = Lane[u]
        PROVE  before(u, t)
    <3>1. Sooner(u, t)
      BY <2>1, <2>3 DEF PicksWell
    <3>2. PICK i \in DOMAIN born, k \in DOMAIN born :
            /\ born[i] = u /\ born[k] = t
            /\ IF i > Old <=> k > Old THEN i < k ELSE i > Old
      BY <3>1 DEF Sooner
    <3>3. rank(u) = i /\ rank(t) = k
      BY <2>2, <3>2
    <3> HIDE DEF rank
    <3>4. (tonight(u) <=> i > Old) /\ (tonight(t) <=> k > Old)
      BY <3>3 DEF Old
    <3>5. tonight(u) \in BOOLEAN /\ tonight(t) \in BOOLEAN
      OBVIOUS
    <3> HIDE DEF tonight
    <3>6. (tonight(u) = tonight(t)) <=> (i > Old <=> k > Old)
      BY <3>4, <3>5
    <3>7. IF tonight(u) = tonight(t) THEN rank(u) < rank(t) ELSE tonight(u)
      BY <3>2, <3>3, <3>4, <3>6
    <3> QED BY <3>7
  <2>4. Cardinality(LaneOf(chosen, "ops")) > 0 => LaneOf(chosen, "ops") # {}
    BY FS_EmptySet
  <2>5. /\ Distinct(cp.picks) /\ chosen \subseteq cp.avail
        /\ Len(cp.picks) = Least(HuntWorkers + ImproveWorkers, Cardinality(cp.avail))
        /\ Cardinality(LaneOf(chosen, "hunt")) >= Least(HuntWorkers, Cardinality(LaneOf(cp.avail, "hunt")))
        /\ Cardinality(LaneOf(chosen, "improve"))
             >= Least(ImproveWorkers, Cardinality(LaneOf(cp.avail, "improve")))
        /\ Cardinality(LaneOf(chosen, "ops")) > 0 => \A t \in cp.avail \ chosen : Lane[t] = "ops"
    BY <2>1, <2>4 DEF PicksWell, Slots
  <2> HIDE DEF before
  <2>6. \A t \in cp.avail \ chosen, u \in chosen : Lane[t] = Lane[u] => before(u, t)
    BY <2>3
  <2> QED BY <2>5, <2>6, Zenon DEF PicksAreFair, Chosen, Least, LaneOf, before
<1> QED BY <1>1, Invariance, PTL
=============================================================================
