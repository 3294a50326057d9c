------------------------- MODULE ConsoleShapeProofs -------------------------
(***************************************************************************)
(* What the pages of Console hold, for every catalog, shelf, agent and tab: *)
(* a refresh keeps the graph, the server refuses nothing the editor did not *)
(* foresee, a run is the one that was previewed, triggered waves stand      *)
(* below what triggers them, and every variable has its type.               *)
(*                                                                          *)
(* The argument: whatever the server, a cache, a draft, the history, a call *)
(* or an answer holds is well formed (a template no stage of which is       *)
(* empty, a profile without a ring of triggers, a document of known text),  *)
(* and a drawing of something well formed reads back as what was drawn.     *)
(***************************************************************************)
EXTENDS ConsoleProofs, SubsequenceProofs

(***************************************************************************)
(* Drawing an automation and reading it back.                               *)
(***************************************************************************)
Filleds == Seq(Member) \ {<<>>}
DrawnAt(stages, i, j) == Drawn(Happy(i, j, stages[i][j]), i)

\* The nodes drawn on the path are those of the stages.
LEMMA HappyDrawn ==
  ASSUME NEW stages \in Seq(Filleds), NEW edges
  PROVE  HappyOf(TemplateToDraft(stages, edges))
           = UNION {{DrawnAt(stages, i, j) : j \in DOMAIN stages[i]} : i \in DOMAIN stages}
<1>1. \A i, j : DrawnAt(stages, i, j).id.lane = "happy"
  BY DEF DrawnAt, Drawn, Happy
<1>2. \A e, j, m, s : Drawn(Route(e, j, m), s).id.lane # "happy"
  BY DEF Drawn, Route
<1> QED BY <1>1, <1>2 DEF HappyOf, TemplateToDraft, DrawnAt

\* What a stage list in Seq(Filleds) says of its stages and members.
LEMMA ShapeIsSound ==
  ASSUME NEW stages \in Seq(Filleds)
  PROVE  /\ Len(stages) \in Nat /\ DOMAIN stages = 1..Len(stages)
         /\ \A i \in DOMAIN stages :
              /\ stages[i] \in Seq(Member) /\ stages[i] # <<>>
              /\ Len(stages[i]) \in Nat \ {0} /\ DOMAIN stages[i] = 1..Len(stages[i])
              /\ \A j \in DOMAIN stages[i] : stages[i][j] \in Member
<1>1. Len(stages) \in Nat /\ DOMAIN stages = 1..Len(stages) /\ \A i \in DOMAIN stages : stages[i] \in Filleds
  BY LenProperties
<1>2. ASSUME NEW i \in DOMAIN stages
      PROVE  /\ stages[i] \in Seq(Member) /\ stages[i] # <<>>
             /\ Len(stages[i]) \in Nat \ {0} /\ DOMAIN stages[i] = 1..Len(stages[i])
             /\ \A j \in DOMAIN stages[i] : stages[i][j] \in Member
  <2>1. stages[i] \in Seq(Member) /\ stages[i] # <<>>
    BY <1>1 DEF Filleds
  <2> QED BY <2>1, LenProperties, EmptySeq
<1> QED BY <1>1, <1>2

\* The stage numbers of a drawing, listed, count its stages.
LEMMA NumbersListed ==
  ASSUME NEW n \in Nat
  PROVE  Ranked(1..n, ByNumber) = [k \in 1..n |-> k]
<1> DEFINE e == [k \in 1..n |-> k]
           R == {p \in (1..n) \X (1..n) : p[1] <= p[2]}
<1>1. e \in [1..n -> 1..n] /\ \A x \in 1..n : \E k \in 1..n : e[k] = x
  OBVIOUS
<1>2. \A k, l \in 1..n : <<e[k], e[l]>> \in R <=> k <= l
  OBVIOUS
<1>3. /\ Cardinality(1..n) = n
      /\ \A k \in 1..n : \A x \in 1..n : Cardinality(Below(1..n, R, x)) = k <=> x = e[k]
  <2> HIDE DEF e, R
  <2>1. Enumerates(e, n, 1..n, R)
    BY <1>1, <1>2 DEF Enumerates
  <2> QED BY <2>1, Enumerated
<1>4. \A x \in 1..n : Below(1..n, R, x) = {y \in 1..n : y <= x}
  BY DEF Below
<1>5. \A k \in 1..n : \A x \in 1..n : Cardinality({y \in 1..n : y <= x}) = k <=> x = k
  <2>1. \A k \in 1..n : e[k] = k
    OBVIOUS
  <2> HIDE DEF e, R
  <2> SUFFICES ASSUME NEW k \in 1..n, NEW x \in 1..n
               PROVE  Cardinality({y \in 1..n : y <= x}) = k <=> x = k
    OBVIOUS
  <2>2. Cardinality(Below(1..n, R, x)) = k <=> x = e[k]
    BY ONLY <1>3, k \in 1..n, x \in 1..n
  <2>3. Below(1..n, R, x) = {y \in 1..n : y <= x} /\ e[k] = k
    BY ONLY <1>4, <2>1, k \in 1..n, x \in 1..n
  <2> QED BY ONLY <2>2, <2>3
<1> DEFINE r(k) == CHOOSE x \in 1..n : Cardinality({y \in 1..n : y <= x}) = k
<1>6. \A k \in 1..n : r(k) = k
  BY <1>5
<1>7. Ranked(1..n, ByNumber) = [k \in 1..Cardinality(1..n) |-> r(k)]
  BY DEF Ranked, ByNumber
<1> HIDE DEF r
<1> QED BY <1>3, <1>6, <1>7

\* The nodes of one stage, listed by their order, are its members in their order.
Row(stages, i) == {DrawnAt(stages, i, j) : j \in DOMAIN stages[i]}
\* The nodes of a row, by their places, are the members of the stage.
LEMMA RowListed ==
  ASSUME NEW stages \in Seq(Filleds), NEW i \in DOMAIN stages
  PROVE  Ranked(Row(stages, i), ByOrder) = [j \in DOMAIN stages[i] |-> DrawnAt(stages, i, j)]
<1> DEFINE S == Row(stages, i)
           n == Len(stages[i])
           e == [k \in 1..n |-> DrawnAt(stages, i, k)]
           R == {p \in S \X S : ByOrder(p[1], p[2])}
<1>0. n \in Nat /\ DOMAIN stages[i] = 1..n
  BY ShapeIsSound
<1>1. e \in [1..n -> S] /\ \A x \in S : \E k \in 1..n : e[k] = x
  BY <1>0 DEF Row
<1>2. \A k \in 1..n : e[k].order = k
  BY DEF DrawnAt, Drawn, Happy
<1>3. \A k, l \in 1..n : <<e[k], e[l]>> \in R <=> k <= l
  <2> HIDE DEF e, S, n
  <2> QED BY <1>1, <1>2 DEF ByOrder
<1>4. /\ Cardinality(S) = n
      /\ \A k \in 1..n : \A x \in S : Cardinality(Below(S, R, x)) = k <=> x = e[k]
  <2> HIDE DEF e, S, n, R
  <2>1. Enumerates(e, n, S, R)
    BY <1>0, <1>1, <1>3 DEF Enumerates
  <2> QED BY <2>1, Enumerated
<1>5. \A x \in S : Below(S, R, x) = {y \in S : ByOrder(y, x)}
  <2> HIDE DEF S
  <2> QED BY DEF Below
<1> DEFINE r(k) == CHOOSE x \in S : Cardinality({y \in S : ByOrder(y, x)}) = k
<1>6. \A k \in 1..n : r(k) = e[k]
  <2>1. \A k \in 1..n : \A x \in S : Cardinality({y \in S : ByOrder(y, x)}) = k <=> x = e[k]
    <3> HIDE DEF e, S, n, R
    <3> QED BY <1>4, <1>5
  <2>2. \A k \in 1..n : e[k] \in S
    <3> HIDE DEF e, S, n, R
    <3> QED BY <1>1
  <2> HIDE DEF e, S, n, R
  <2> QED BY <2>1, <2>2
<1>7. Ranked(S, ByOrder) = [k \in 1..Cardinality(S) |-> r(k)]
  BY DEF Ranked
<1> HIDE DEF r, S, R
<1>8. Ranked(S, ByOrder) = [k \in 1..n |-> DrawnAt(stages, i, k)]
  BY <1>4, <1>6, <1>7
<1> QED BY <1>0, <1>8 DEF S

\* Reading a drawing back gives the stages that were drawn. (GraphShape, flow-graph.ts)
LEMMA DrawingRestored ==
  ASSUME NEW stages \in Seq(Filleds), NEW edges
  PROVE  RestoredStages(HappyOf(TemplateToDraft(stages, edges))) = stages
<1> DEFINE happy == HappyOf(TemplateToDraft(stages, edges))
           n == Len(stages)
           numbers == Ranked({x.stage : x \in happy}, ByNumber)
           row(s) == Ranked({x \in happy : x.stage = s}, ByOrder)
<1>1. n \in Nat /\ DOMAIN stages = 1..n
  BY ShapeIsSound
<1>2. happy = UNION {Row(stages, i) : i \in DOMAIN stages}
  BY HappyDrawn DEF Row
<1>3. \A i, j : DrawnAt(stages, i, j).stage = i /\ DrawnAt(stages, i, j).member = stages[i][j]
  BY DEF DrawnAt, Drawn, Happy
<1> HIDE DEF happy
<1>4. {x.stage : x \in happy} = 1..n
  <2>1. ASSUME NEW x \in happy PROVE x.stage \in 1..n
    <3>1. PICK i \in DOMAIN stages : x \in Row(stages, i)
      BY <1>2
    <3> QED BY <1>1, <1>3, <3>1 DEF Row
  <2>2. ASSUME NEW i \in 1..n PROVE \E x \in happy : x.stage = i
    <3>1. 1 \in DOMAIN stages[i] /\ i \in DOMAIN stages
      BY <1>1, ShapeIsSound
    <3>2. DrawnAt(stages, i, 1) \in happy
      BY <1>2, <3>1 DEF Row
    <3> QED BY <1>3, <3>2
  <2> QED BY <2>1, <2>2
<1>5. numbers = [k \in 1..n |-> k]
  BY <1>1, <1>4, NumbersListed
<1>6. ASSUME NEW i \in 1..n
      PROVE  row(i) = [j \in DOMAIN stages[i] |-> DrawnAt(stages, i, j)]
  <2>1. {x \in happy : x.stage = i} = Row(stages, i)
    BY <1>1, <1>2, <1>3 DEF Row
  <2> QED BY <1>1, <2>1, RowListed
<1>7. RestoredStages(happy) =
        [k \in DOMAIN numbers |-> [j \in DOMAIN row(numbers[k]) |-> row(numbers[k])[j].member]]
  BY DEF RestoredStages, MemberOrRole
<1> HIDE DEF row, numbers
<1>8. DOMAIN numbers = 1..n /\ \A k \in 1..n : numbers[k] = k
  BY <1>5
<1>9. ASSUME NEW i \in 1..n
      PROVE  [j \in DOMAIN row(i) |-> row(i)[j].member] = stages[i]
  <2>1. stages[i] = [j \in DOMAIN stages[i] |-> stages[i][j]]
    <3>1. stages[i] \in Seq(Member)
      BY <1>1, ShapeIsSound
    <3> QED BY <3>1, LenProperties
  <2>2. DOMAIN row(i) = DOMAIN stages[i]
    BY <1>6
  <2>3. \A j \in DOMAIN stages[i] : row(i)[j].member = stages[i][j]
    BY <1>3, <1>6
  <2> QED BY <2>1, <2>2, <2>3
<1>10. RestoredStages(happy) = [k \in 1..n |-> stages[k]]
  BY <1>7, <1>8, <1>9
<1>11. stages = [k \in 1..n |-> stages[k]]
  BY <1>1, LenProperties
<1> QED BY <1>10, <1>11 DEF happy

(***************************************************************************)
(* The run form.                                                            *)
(***************************************************************************)
LEMMA ListedOnce ==
  ASSUME NEW S, IsFiniteSet(S)
  PROVE  /\ SetToSeq(S) \in Seq(S)
         /\ SetToSeq(S) = <<>> <=> S = {}
         /\ SetToSeq(S) # <<>> => SetToSeq(S)[1] \in S
<1>1. Cardinality(S) \in Nat /\ (Cardinality(S) = 0 <=> S = {})
  BY FS_CardinalityType, FS_EmptySet
<1> DEFINE n == Cardinality(S)
           r == SetToSeq(S)
<1>2. \E f \in [1..n -> S] : IsInjective(f)
  <2>1. PICK f \in Bijection(1..n, S) : TRUE
    BY FS_CardinalityType DEF ExistsBijection
  <2>2. f \in [1..n -> S] /\ IsInjective(f)
    BY <2>1 DEF Bijection, Injection, IsInjective
  <2> QED BY <2>2
<1>3. r \in [1..n -> S]
  BY <1>2 DEF SetToSeq
<1> HIDE DEF r, n
<1>4. r \in Seq(S) /\ Len(r) = n
  BY <1>1, <1>3, LenProperties DEF n
<1> QED BY <1>1, <1>4, EmptySeq, LenProperties DEF r, n

\* A template found by its id is one of the catalog.
LEMMA NamedIs ==
  ASSUME NEW S, IsFiniteSet(S), \A t \in S : WellFormed(t), NEW id, Named(S, id) # Nothing
  PROVE  Named(S, id)[1] \in S /\ WellFormed(Named(S, id)[1])
<1> DEFINE H == {t \in S : t.id = id}
<1>1. IsFiniteSet(H) /\ H \subseteq S
  BY FS_Subset
<1>2. Named(S, id) = SetToSeq(H)
  BY DEF Named
<1> HIDE DEF H
<1> QED BY <1>1, <1>2, ListedOnce DEF Nothing

\* Custom nodes, one per stage, and a template's stages leave no stage empty.
LEMMA SinglesFilled ==
  ASSUME NEW ns \in Seq(Member)
  PROVE  OnePerStage(ns) \in Seq(Filleds)
<1>1. Len(ns) \in Nat /\ DOMAIN ns = 1..Len(ns) /\ \A i \in DOMAIN ns : ns[i] \in Member
  BY LenProperties
<1>2. \A m \in Member : <<m>> \in Filleds
  BY DEF Filleds
<1>3. OnePerStage(ns) \in [1..Len(ns) -> Filleds]
  BY <1>1, <1>2 DEF OnePerStage
<1> QED BY <1>1, <1>3, SeqDef

LEMMA StagesFilled ==
  ASSUME NEW t, WellFormed(t)
  PROVE  StagesOf(t) \in Seq(Filleds)
<1>1. t.stages \in Seq(Filleds) /\ t.nodes \in Seq(Member)
  BY DEF WellFormed, Filleds
<1>2. OnePerStage(t.nodes) \in Seq(Filleds)
  BY <1>1, SinglesFilled
<1> QED BY <1>1, <1>2 DEF StagesOf, OnePerStage

\* The path of a stage list goes through all its members.
LEMMA PathTyped ==
  ASSUME NEW stages \in Seq(Filleds)
  PROVE  Path(stages) \in Seq(Member) /\ Located(Path(stages), stages)
<1>1. stages \in Seq(Seq(Member))
  <2>1. Len(stages) \in Nat /\ stages \in [1..Len(stages) -> Filleds]
    BY LenProperties
  <2>2. stages \in [1..Len(stages) -> Seq(Member)]
    BY <2>1 DEF Filleds
  <2> QED BY <2>1, <2>2, SeqDef
<1> QED BY <1>1, Flattened DEF Path

\* What is known of the form, of the call under way and of the run it came to.
Catalogued == nCatalog = Nothing \/ \E shelf \in Shelf : nCatalog = The(shelf)
Customized == nCustom = Nothing \/ \E ns \in Seq(Member) : nCustom = The(ns)
Reviewed == nStep = 2 /\ nCustom # Nothing => nCustom[1] # <<>>
SentIsRecord(sent) ==
  sent = [pc |-> sent.pc, template |-> sent.template, nodes |-> sent.nodes,
          draft |-> sent.draft, budget |-> sent.budget, known |-> sent.known]
CustomSent(sent) ==
  /\ sent.nodes[1] \in Filleds
  /\ sent.draft = TemplateToDraft(OnePerStage(sent.nodes[1]), <<>>) /\ sent.budget = 0
TemplateSent(sent) ==
  /\ sent.known # Nothing /\ WellFormed(sent.known[1])
  /\ sent.draft = TemplateToDraft(StagesOf(sent.known[1]), sent.known[1].edges)
  /\ sent.budget > 0 <=> sent.known[1].emitters # <<>>
AsDrawn(sent) == SentIsRecord(sent) /\ IF sent.nodes # Nothing THEN CustomSent(sent) ELSE TemplateSent(sent)
LauncherHolds ==
  /\ nServer \in Shelf /\ nStep \in 0..2 /\ nFilled \subseteq OutcomeParts \cup {"acceptance"}
  /\ Catalogued /\ Customized /\ Reviewed
  /\ nSent = NotSent \/ AsDrawn(nSent)
  /\ PreviewIsWhatRuns

\* The template picked is a well-formed one.
LEMMA SelectionIs ==
  ASSUME Catalogued, SelectedTemplate # Nothing
  PROVE  WellFormed(SelectedTemplate[1])
<1>1. ASSUME NEW shelf \in Shelf, nCatalog = The(shelf) PROVE WellFormed(SelectedTemplate[1])
  <2>1. ToSet(nCatalog) = {shelf}
    BY <1>1 DEF ToSet, The
  <2>2. KnownTemplates = shelf
    BY <2>1 DEF KnownTemplates
  <2>3. IsFiniteSet(shelf) /\ \A t \in shelf : WellFormed(t)
    BY ShelfAssumption
  <2> QED BY <2>2, <2>3, NamedIs DEF SelectedTemplate
<1>2. ASSUME nCatalog = Nothing PROVE WellFormed(SelectedTemplate[1])
  <2>1. ToSet(nCatalog) = {}
    BY <1>2 DEF ToSet, Nothing
  <2>2. KnownTemplates = {} /\ IsFiniteSet({})
    BY <2>1, FS_EmptySet DEF KnownTemplates
  <2> QED BY <2>2, NamedIs DEF SelectedTemplate
<1> QED BY <1>1, <1>2 DEF Catalogued

\* What the form would run is a list of members.
LEMMA NodesTyped ==
  ASSUME Catalogued, Customized
  PROVE  LaunchNodes \in Seq(Member)
<1>1. CASE Untouched
  BY <1>1, SelectionIs, StagesFilled, PathTyped DEF LaunchNodes, Untouched
<1>2. CASE ~ Untouched
  BY <1>2 DEF LaunchNodes, Customized, The, Nothing
<1> QED BY <1>1, <1>2

\* The preview shows a budget exactly when there are emitters to spend it.
LEMMA BudgetIs ==
  ASSUME Untouched, WellFormed(SelectedTemplate[1])
  PROVE  EmissionBudget > 0 <=> SelectedTemplate[1].emitters # <<>>
<1> DEFINE emitters == SelectedTemplate[1].emitters
           s == [k \in DOMAIN emitters |-> Max({0, emitters[k].max}) + 1]
           budget == FoldLeft(+, 0, s)
<1>1. emitters \in Seq(Emitter)
  BY DEF WellFormed
<1>2. EmissionBudget = budget
  BY DEF EmissionBudget
<1> HIDE DEF emitters
<1>3. Len(emitters) \in Nat /\ DOMAIN emitters = 1..Len(emitters) /\ (emitters = <<>> <=> Len(emitters) = 0)
  BY <1>1, LenProperties, EmptySeq
<1>4. ASSUME NEW k \in DOMAIN emitters PROVE s[k] \in Nat /\ s[k] > 0
  <2>1. emitters[k].max \in Int
    <3>1. emitters[k] \in Emitter
      BY <1>1, <1>3, LenProperties
    <3> QED BY <3>1 DEF Emitter
  <2>2. \A m \in Int : Max({0, m}) \in Nat
    <3> SUFFICES ASSUME NEW m \in Int PROVE Max({0, m}) \in Nat
      OBVIOUS
    <3>1. \E x \in {0, m} : \A y \in {0, m} : x >= y
      BY <2>1
    <3> QED BY <3>1 DEF Max
  <2> QED BY <2>1, <2>2
<1>5. s \in Seq(Nat) /\ (s = <<>> <=> emitters = <<>>) /\ DOMAIN s = DOMAIN emitters
  <2>1. s \in [1..Len(emitters) -> Nat]
    BY <1>3, <1>4
  <2> HIDE DEF s
  <2>2. s \in Seq(Nat) /\ Len(s) = Len(emitters)
    BY <1>3, <2>1, LenProperties
  <2> QED BY <1>3, <2>1, <2>2, EmptySeq
<1>6. budget \in Nat /\ (s = <<>> => budget = 0) /\ (s # <<>> => budget > 0)
  <2>1. \A k \in DOMAIN s : s[k] > 0
    BY <1>4, <1>5
  <2> HIDE DEF s
  <2> QED BY <1>5, <2>1, SumBounds
<1> HIDE DEF budget, s
<1> QED BY <1>2, <1>5, <1>6 DEF emitters

\* What is sent is what the form showed.
LEMMA CreateStep ==
  ASSUME LauncherHolds, Create
  PROVE  LauncherHolds'
<1>1. /\ UNCHANGED <<nServer, nCatalog, nStep, nTemplate, nCustom, nFilled, nRun>>
      /\ LaunchNodes # <<>> /\ Catalogued /\ Customized
  BY DEF Create, CanCreate, nForm, LauncherHolds
<1>2. nSent' = [pc |-> "sent", template |-> nTemplate, nodes |-> nCustom,
                draft |-> PreviewDraft, budget |-> EmissionBudget, known |-> SelectedTemplate]
  BY DEF Create
<1> DEFINE sent == [pc |-> "sent", template |-> nTemplate, nodes |-> nCustom,
                    draft |-> PreviewDraft, budget |-> EmissionBudget, known |-> SelectedTemplate]
<1>3. AsDrawn(sent)
  <2>0. SentIsRecord(sent)
    BY DEF SentIsRecord
  <2>1. ASSUME nCustom # Nothing PROVE CustomSent(sent)
    <3>1. ~ Untouched /\ LaunchNodes = nCustom[1]
      BY <2>1 DEF Untouched, LaunchNodes
    <3>2. nCustom[1] \in Filleds
      BY <1>1, <2>1, <3>1 DEF Customized, The, Filleds
    <3>3. PreviewDraft = TemplateToDraft(OnePerStage(nCustom[1]), <<>>)
      BY <3>1 DEF PreviewDraft
    <3>4. EmissionBudget = 0
      <4> DEFINE s == [k \in DOMAIN <<>> |-> Max({0, <<>>[k].max}) + 1]
                 budget == FoldLeft(+, 0, s)
      <4>1. EmissionBudget = budget
        BY <3>1 DEF EmissionBudget
      <4>2. s = <<>>
        OBVIOUS
      <4>3. budget = 0
        <5>1. s \in Seq(Nat)
          <6> HIDE DEF s
          <6> QED BY <4>2, EmptySeq
        <5> HIDE DEF s
        <5> QED BY <4>2, <5>1, SumBounds
      <4> QED BY <4>1, <4>3
    <3> QED BY <3>2, <3>3, <3>4 DEF CustomSent
  <2>2. ASSUME nCustom = Nothing PROVE TemplateSent(sent)
    <3>1. Untouched
      BY <1>1, <2>2 DEF LaunchNodes, Untouched
    <3>2. SelectedTemplate # Nothing /\ WellFormed(SelectedTemplate[1])
      BY <1>1, <3>1, SelectionIs DEF Untouched
    <3>3. PreviewDraft = TemplateToDraft(StagesOf(SelectedTemplate[1]), SelectedTemplate[1].edges)
      BY <3>1 DEF PreviewDraft
    <3>4. EmissionBudget > 0 <=> SelectedTemplate[1].emitters # <<>>
      BY <3>1, <3>2, BudgetIs
    <3> QED BY <3>2, <3>3, <3>4 DEF TemplateSent
  <2> QED BY <2>0, <2>1, <2>2 DEF AsDrawn
<1> QED BY <1>1, <1>2, <1>3 DEF LauncherHolds, Catalogued, Customized, Reviewed, PreviewIsWhatRuns

\* The server resolves what was sent.
LEMMA MintedAsDrawn ==
  ASSUME NEW sent, AsDrawn(sent), NEW stored,
         NEW spec \in ToSet(ResolveFlowSpec(sent.nodes, stored)),
         sent.known = stored \/ sent.nodes # Nothing
  PROVE  /\ sent.draft.routes = spec.edges
         /\ RestoredStages(HappyOf(sent.draft)) = spec.stages
         /\ sent.budget > 0 <=> spec.emitters # <<>>
<1>0. \A x : ToSet(The(x)) = {x} /\ The(x)[1] = x
  BY DEF ToSet, The
<1>1. CASE sent.nodes # Nothing
  <2>1. CustomSent(sent) /\ sent.nodes[1] # <<>> /\ sent.nodes[1] \in Seq(Member)
    BY <1>1 DEF AsDrawn, CustomSent, Filleds
  <2>2. spec = Sequential(sent.nodes[1])
    BY <1>0, <1>1, <2>1 DEF ResolveFlowSpec
  <2>3. OnePerStage(sent.nodes[1]) \in Seq(Filleds)
    BY <2>1, SinglesFilled
  <2>4. RestoredStages(HappyOf(sent.draft)) = OnePerStage(sent.nodes[1])
    BY <2>1, <2>3, DrawingRestored DEF CustomSent
  <2>5. sent.draft.routes = <<>> /\ sent.budget = 0
    BY <2>1 DEF CustomSent, TemplateToDraft
  <2> QED BY <2>2, <2>4, <2>5 DEF Sequential
<1>2. CASE sent.nodes = Nothing
  <2>1. TemplateSent(sent) /\ sent.known = stored
    BY <1>2 DEF AsDrawn
  <2>2. spec = WholeTemplate(stored[1])
    BY <1>0, <1>2, <2>1 DEF ResolveFlowSpec, TemplateSent
  <2>3. StagesOf(stored[1]) \in Seq(Filleds)
    BY <2>1, StagesFilled DEF TemplateSent
  <2>4. RestoredStages(HappyOf(sent.draft)) = StagesOf(stored[1])
    BY <2>1, <2>3, DrawingRestored DEF TemplateSent
  <2>5. sent.draft.routes = stored[1].edges
    BY <2>1 DEF TemplateSent, TemplateToDraft
  <2> QED BY <2>1, <2>2, <2>4, <2>5 DEF WholeTemplate, TemplateSent
<1> QED BY <1>1, <1>2

\* The server runs what was sent, or refuses it because the template has changed since.
LEMMA HandledRun ==
  ASSUME LauncherHolds, CreateHandled
  PROVE  LauncherHolds'
<1>1. /\ UNCHANGED <<nServer, nCatalog, nStep, nTemplate, nCustom, nFilled>>
      /\ nSent # NotSent /\ AsDrawn(nSent)
  BY DEF CreateHandled, nForm, LauncherHolds
<1>2. \/ /\ \E spec \in ToSet(ResolveFlowSpec(nSent.nodes, Named(nServer, nSent.template))) : Minted(spec)
         /\ \E pc \in {"done", "failed"} : nSent' = [nSent EXCEPT !.pc = pc]
      \/ nSent' = [nSent EXCEPT !.pc = "failed"] /\ UNCHANGED nRun
  BY DEF CreateHandled
<1>3. AsDrawn(nSent')
  <2>1. PICK pc : nSent' = [nSent EXCEPT !.pc = pc]
    BY <1>2
  <2>2. nSent' = [pc |-> pc, template |-> nSent.template, nodes |-> nSent.nodes,
                  draft |-> nSent.draft, budget |-> nSent.budget, known |-> nSent.known]
    BY <1>1, <2>1 DEF AsDrawn, SentIsRecord
  <2> QED BY <1>1, <2>2 DEF AsDrawn, SentIsRecord, CustomSent, TemplateSent
<1>4. PreviewIsWhatRuns'
  <2>1. CASE UNCHANGED nRun
    BY <2>1 DEF LauncherHolds, PreviewIsWhatRuns
  <2>2. ASSUME NEW spec \in ToSet(ResolveFlowSpec(nSent.nodes, Named(nServer, nSent.template))), Minted(spec)
        PROVE  PreviewIsWhatRuns'
    <3> DEFINE run == [spec |-> spec, at |-> nSent, stored |-> Named(nServer, nSent.template)]
    <3>1. ToSet(nRun') = {run}
      BY <2>2 DEF Minted, The, ToSet
    <3>2. run.spec = spec /\ run.at = nSent /\ run.stored = Named(nServer, nSent.template)
      OBVIOUS
    <3> HIDE DEF run
    <3>3. run.at.known = run.stored \/ run.at.nodes # Nothing =>
            /\ run.at.draft.routes = run.spec.edges
            /\ RestoredStages(HappyOf(run.at.draft)) = run.spec.stages
            /\ run.at.budget > 0 <=> run.spec.emitters # <<>>
      <4> DEFINE stored == Named(nServer, nSent.template)
      <4>1. spec \in ToSet(ResolveFlowSpec(nSent.nodes, stored)) /\ run.stored = stored
        BY <3>2
      <4> HIDE DEF stored
      <4> SUFFICES ASSUME nSent.known = stored \/ nSent.nodes # Nothing
                   PROVE  /\ nSent.draft.routes = spec.edges
                          /\ RestoredStages(HappyOf(nSent.draft)) = spec.stages
                          /\ nSent.budget > 0 <=> spec.emitters # <<>>
        BY <3>2, <4>1
      <4> QED BY <1>1, <4>1, MintedAsDrawn
    <3> QED BY <3>1, <3>3 DEF PreviewIsWhatRuns
  <2> QED BY <1>2, <2>1, <2>2
<1> QED BY <1>1, <1>3, <1>4 DEF LauncherHolds, Catalogued, Customized, Reviewed

\* Every step of the run form.
LEMMA LauncherStep ==
  ASSUME LauncherHolds, LauncherNext
  PROVE  LauncherHolds'
<1>1. /\ nServer \in Shelf /\ nStep \in 0..2 /\ nFilled \subseteq OutcomeParts \cup {"acceptance"}
      /\ Catalogued /\ Customized /\ Reviewed
      /\ nSent = NotSent \/ AsDrawn(nSent)
      /\ PreviewIsWhatRuns
  BY DEF LauncherHolds
<1>2. ASSUME UNCHANGED <<nSent, nRun>>
      PROVE  (nSent = NotSent \/ AsDrawn(nSent))' /\ PreviewIsWhatRuns'
  BY <1>1, <1>2 DEF PreviewIsWhatRuns
<1>3. ASSUME OpenLauncher PROVE LauncherHolds'
  BY <1>1, <1>2, <1>3 DEF OpenLauncher, LauncherHolds, Catalogued, Customized, Reviewed, OutcomeParts
<1>4. ASSUME LeaveLauncher PROVE LauncherHolds'
  BY <1>1, <1>2, <1>4 DEF LeaveLauncher, launcherVars, LauncherHolds, Catalogued, Customized, Reviewed
<1>5. ASSUME CatalogArrives PROVE LauncherHolds'
  BY <1>1, <1>2, <1>5 DEF CatalogArrives, nForm, LauncherHolds, Catalogued, Customized, Reviewed
<1>6. ASSUME ShelfChanges \/ FinishLapses PROVE LauncherHolds'
  BY <1>1, <1>2, <1>6 DEF ShelfChanges, FinishLapses, nForm, LauncherHolds, Catalogued, Customized, Reviewed
<1>7. ASSUME NEW part \in OutcomeParts \cup {"acceptance"}, FillOutcome(part) PROVE LauncherHolds'
  BY <1>1, <1>2, <1>7 DEF FillOutcome, nFar, LauncherHolds, Catalogued, Customized, Reviewed
<1>8. ASSUME NEW step \in 0..2, GoTo(step), step = 2 => LaunchNodes # <<>> \/ nStep = 2 PROVE LauncherHolds'
  <2>1. step = 2 /\ nCustom # Nothing => nCustom[1] # <<>>
    BY <1>1, <1>8 DEF LaunchNodes, Untouched, Reviewed
  <2> QED BY <1>1, <1>2, <1>8, <2>1 DEF GoTo, nFar, LauncherHolds, Catalogued, Customized, Reviewed
<1>9. ASSUME ChooseAutomation \/ ReviewRun \/ StepBack PROVE LauncherHolds'
  <2>1. ASSUME ChooseAutomation PROVE LauncherHolds'
    BY <1>8, <2>1 DEF ChooseAutomation
  <2>2. ASSUME ReviewRun PROVE LauncherHolds'
    BY <1>8, <2>2 DEF ReviewRun
  <2>3. ASSUME StepBack PROVE LauncherHolds'
    <3>1. PICK step \in 0..(nStep - 1) : GoTo(step)
      BY <2>3 DEF StepBack
    <3>2. step \in 0..2 /\ step # 2
      BY <1>1
    <3> QED BY <1>8, <3>1, <3>2
  <2> QED BY <1>9, <2>1, <2>2, <2>3
<1>10. ASSUME NEW kind, Choosing(kind), Customized' PROVE LauncherHolds'
  <2>1. nStep = 1 /\ nStep' = 1
    BY <1>10 DEF Choosing
  <2> QED BY <1>1, <1>2, <1>10, <2>1 DEF Choosing, nFar, LauncherHolds, Catalogued, Reviewed
<1>11. ASSUME PickTemplate PROVE LauncherHolds'
  <2>1. Choosing("pick") /\ nCustom' = Nothing
    BY <1>11, Zenon DEF PickTemplate
  <2> QED BY <1>10, <2>1 DEF Customized
<1>12. ASSUME NEW nodes \in Seq(Member), Resequence(nodes) PROVE LauncherHolds'
  <2>1. Choosing("edit") /\ nCustom' = The(nodes)
    BY <1>12, Zenon DEF Resequence
  <2> QED BY <1>10, <2>1 DEF Customized
<1>13. LaunchNodes \in Seq(Member)
  BY <1>1, NodesTyped
<1> DEFINE nodes == LaunchNodes
<1>14. nodes \in Seq(Member) /\ Len(nodes) \in Nat /\ DOMAIN nodes = 1..Len(nodes)
  BY <1>13, LenProperties
<1>15. ASSUME AddNode PROVE LauncherHolds'
  <2>1. PICK role \in LaunchRoles : Resequence(Append(nodes, Plain(role)))
    BY <1>15 DEF AddNode
  <2>2. Plain(role) \in Member
    BY ShelfAssumption DEF Plain, Member
  <2> HIDE DEF nodes
  <2>3. Append(nodes, Plain(role)) \in Seq(Member)
    BY <1>14, <2>2, AppendProperties
  <2> QED BY <1>12, <2>1, <2>3
<1>16. ASSUME RemoveLaunchNode PROVE LauncherHolds'
  <2>1. PICK i \in DOMAIN nodes : Resequence(RemoveAt(nodes, i))
    BY <1>16 DEF RemoveLaunchNode
  <2> HIDE DEF nodes
  <2>2. RemoveAt(nodes, i) \in Seq(Member)
    BY <1>14, Removed
  <2> QED BY <1>12, <2>1, <2>2
<1>17. ASSUME MoveNode PROVE LauncherHolds'
  <2>1. PICK i \in 2..Len(nodes) : Resequence([nodes EXCEPT ![i - 1] = nodes[i], ![i] = nodes[i - 1]])
    BY <1>17 DEF MoveNode
  <2> HIDE DEF nodes
  <2>2. i \in DOMAIN nodes /\ i - 1 \in DOMAIN nodes
    BY <1>14
  <2>3. [nodes EXCEPT ![i - 1] = nodes[i], ![i] = nodes[i - 1]] \in Seq(Member)
    BY <1>14, <2>2, ExceptSeq
  <2> QED BY <1>12, <2>1, <2>3
<1>18. ASSUME CreateAnswered PROVE LauncherHolds'
  BY <1>1, <1>18 DEF CreateAnswered, nForm, LauncherHolds, Catalogued, Customized, Reviewed, PreviewIsWhatRuns
<1> QED BY <1>3, <1>4, <1>5, <1>6, <1>7, <1>9, <1>11, <1>15, <1>16, <1>17, <1>18, CreateStep, HandledRun
        DEF LauncherNext

LEMMA LauncherStart == Init => LauncherHolds
<1> SUFFICES ASSUME Init PROVE LauncherHolds
  OBVIOUS
<1>1. LauncherInit
  BY DEF Init
<1>2. nServer \in Shelf
  BY <1>1, ShelfAssumption DEF LauncherInit, Chosen
<1>3. PreviewIsWhatRuns
  BY <1>1 DEF LauncherInit, PreviewIsWhatRuns, ToSet, Nothing
<1> QED BY <1>1, <1>2, <1>3 DEF LauncherInit, LauncherHolds, Catalogued, Customized, Reviewed

(***************************************************************************)
(* The template editor keeps its shape one that can be drawn and saved.     *)
(***************************************************************************)
Loose == {s \in Seq(Member) : Len(s) <= StageMax}
Fitting == Loose \ {<<>>}
Shapes == [stages : Seq(Fitting), edges : Seq(Edge)]

\* Stages of the editor are filled and within the width.
LEMMA FittingIs ==
  /\ Fitting \subseteq Filleds /\ Fitting \subseteq Loose /\ Seq(Fitting) \subseteq Seq(Filleds)
  /\ \A m \in Member : <<m>> \in Fitting
  /\ \A role \in Roles : Plain(role) \in Member
<1>1. Fitting \subseteq Filleds /\ Fitting \subseteq Loose
  BY DEF Fitting, Loose, Filleds
<1>2. ASSUME NEW m \in Member PROVE <<m>> \in Fitting
  <2>1. <<m>> \in Seq(Member) /\ Len(<<m>>) = 1 /\ <<m>> # <<>>
    OBVIOUS
  <2>2. StageMax \in Nat \ {0}
    BY GraphAssumption
  <2> QED BY <2>1, <2>2 DEF Fitting, Loose
<1> QED BY <1>1, <1>2, SeqMonotonic DEF Plain, Member

\* The shape of a well-formed template is one the editor can hold.
LEMMA ShapesFit ==
  ASSUME NEW t, WellFormed(t)
  PROVE  Shape(t) \in Shapes
<1>1. t.stages \in Seq(Filleds) /\ t.nodes \in Seq(Member) /\ t.edges \in Seq(Edge)
      /\ \A s \in ToSet(t.stages) : Len(s) <= StageMax
  BY DEF WellFormed, Filleds
<1>2. t.stages \in Seq(Fitting)
  <2>1. DOMAIN t.stages = 1..Len(t.stages) /\ Len(t.stages) \in Nat
        /\ \A i \in DOMAIN t.stages : t.stages[i] \in Filleds /\ t.stages[i] \in ToSet(t.stages)
    BY <1>1, LenProperties DEF ToSet
  <2>2. \A i \in DOMAIN t.stages : t.stages[i] \in Fitting
    BY <1>1, <2>1 DEF Fitting, Loose, Filleds
  <2>3. t.stages \in [1..Len(t.stages) -> Fitting]
    <3>1. t.stages \in [1..Len(t.stages) -> Filleds]
      BY <1>1, LenProperties
    <3> QED BY <2>1, <2>2, <3>1
  <2> QED BY <2>1, <2>3, SeqDef
<1>3. [i \in DOMAIN t.nodes |-> <<t.nodes[i]>>] \in Seq(Fitting)
  <2>1. DOMAIN t.nodes = 1..Len(t.nodes) /\ Len(t.nodes) \in Nat /\ \A i \in DOMAIN t.nodes : t.nodes[i] \in Member
    BY <1>1, LenProperties
  <2>2. [i \in DOMAIN t.nodes |-> <<t.nodes[i]>>] \in [1..Len(t.nodes) -> Fitting]
    BY <2>1, FittingIs
  <2> QED BY <2>1, <2>2, SeqDef
<1> QED BY <1>1, <1>2, <1>3 DEF Shape, StagesOf, Shapes

\* What a shape says of its stages and edges.
LEMMA ShapeParts ==
  ASSUME tShape \in Shapes
  PROVE  /\ Stages \in Seq(Fitting) /\ Stages \in Seq(Filleds) /\ Edges \in Seq(Edge)
         /\ tShape = [stages |-> Stages, edges |-> Edges]
         /\ Len(Stages) \in Nat /\ DOMAIN Stages = 1..Len(Stages)
         /\ Len(Edges) \in Nat /\ DOMAIN Edges = 1..Len(Edges)
         /\ \A e \in DOMAIN Edges :
              /\ Edges[e] \in Edge /\ Len(Edges[e].append) \in Nat \ {0}
              /\ DOMAIN Edges[e].append = 1..Len(Edges[e].append)
<1>1. /\ Stages \in Seq(Fitting) /\ Edges \in Seq(Edge)
      /\ tShape = [stages |-> Stages, edges |-> Edges]
  BY DEF Shapes, Stages, Edges
<1>2. Stages \in Seq(Filleds)
  BY <1>1, FittingIs
<1>3. ASSUME NEW e \in DOMAIN Edges
      PROVE  /\ Edges[e] \in Edge /\ Len(Edges[e].append) \in Nat \ {0}
             /\ DOMAIN Edges[e].append = 1..Len(Edges[e].append)
  <2>1. Edges[e] \in Edge
    BY <1>1, LenProperties
  <2>2. Edges[e].append \in Seq(Roles) /\ Edges[e].append # <<>>
    BY <2>1 DEF Edge
  <2> QED BY <2>1, <2>2, EmptySeq, LenProperties
<1> QED BY <1>1, <1>2, <1>3, LenProperties

\* What a shape says of one of its stages.
LEMMA StageParts ==
  ASSUME tShape \in Shapes, NEW i \in DOMAIN Stages
  PROVE  /\ Stages[i] \in Fitting /\ Stages[i] \in Seq(Member) /\ Stages[i] # <<>>
         /\ Len(Stages[i]) \in 1..StageMax /\ DOMAIN Stages[i] = 1..Len(Stages[i])
         /\ \A j \in DOMAIN Stages[i] : Stages[i][j] \in Member /\ Stages[i][j].role \in Roles
<1>1. Stages[i] \in Fitting
  BY ShapeParts, LenProperties
<1>2. Stages[i] \in Seq(Member) /\ Stages[i] # <<>> /\ Len(Stages[i]) <= StageMax
  BY <1>1 DEF Fitting, Loose
<1>3. Len(Stages[i]) \in Nat \ {0} /\ DOMAIN Stages[i] = 1..Len(Stages[i]) /\ StageMax \in Nat
  BY <1>2, EmptySeq, LenProperties, GraphAssumption
<1>4. \A j \in DOMAIN Stages[i] : Stages[i][j] \in Member
  BY <1>2, LenProperties
<1>5. \A m \in Member : m.role \in Roles
  BY DEF Member
<1> QED BY <1>1, <1>2, <1>3, <1>4, <1>5

\* A stage is replaced, or one is put in beside the others.
LEMMA StageSet ==
  ASSUME tShape \in Shapes, NEW i \in DOMAIN Stages, NEW stage \in Fitting
  PROVE  [Stages EXCEPT ![i] = stage] \in Seq(Fitting) /\ Len([Stages EXCEPT ![i] = stage]) = Len(Stages)
BY ShapeParts, ExceptSeq

\* The empty stage goes.
LEMMA FilledFits ==
  ASSUME NEW stages \in Seq(Loose)
  PROVE  Filled(stages) \in Seq(Fitting)
<1> DEFINE S == {stages[i] : i \in {k \in DOMAIN stages : stages[k] # <<>>}}
<1>1. Filled(stages) = Kept(stages, S)
  BY DEF Filled, Matching
<1>2. Loose \cap S \subseteq Fitting
  BY DEF Fitting
<1> HIDE DEF S
<1>3. Kept(stages, S) \in Seq(Loose \cap S)
  BY KeptMembers
<1> QED BY <1>1, <1>2, <1>3, SeqMonotonic

\* A stage with a member taken out, a shape with the stage so cut, and one widened.
LEMMA CutStage ==
  ASSUME tShape \in Shapes, NEW i \in DOMAIN Stages, NEW j \in DOMAIN Stages[i]
  PROVE  /\ RemoveAt(Stages[i], j) \in Loose
         /\ Len(Stages[i]) # 1 => RemoveAt(Stages[i], j) \in Fitting
<1>1. Stages[i] \in Seq(Member) /\ Len(Stages[i]) \in 1..StageMax /\ j \in 1..Len(Stages[i]) /\ StageMax \in Nat
  BY StageParts, GraphAssumption
<1>2. RemoveAt(Stages[i], j) \in Seq(Member) /\ Len(RemoveAt(Stages[i], j)) = Len(Stages[i]) - 1
  BY <1>1, Removed
<1>3. RemoveAt(Stages[i], j) \in Loose
  BY <1>1, <1>2 DEF Loose
<1>4. ASSUME Len(Stages[i]) # 1 PROVE RemoveAt(Stages[i], j) # <<>>
  BY <1>1, <1>2, <1>4, EmptySeq
<1> QED BY <1>3, <1>4 DEF Fitting

LEMMA WithoutFits ==
  ASSUME tShape \in Shapes, NEW i \in DOMAIN Stages, NEW j \in DOMAIN Stages[i]
  PROVE  Without(i, j) \in Seq(Fitting)
<1>1. Stages \in Seq(Loose)
  BY ShapeParts, FittingIs, SeqMonotonic
<1>2. RemoveAt(Stages[i], j) \in Loose
  BY CutStage
<1>3. [Stages EXCEPT ![i] = RemoveAt(Stages[i], j)] \in Seq(Loose)
  BY <1>1, <1>2, ShapeParts, ExceptSeq
<1> QED BY <1>3, FilledFits DEF Without

\* The first free slot of a role makes a member of it.
LEMMA SlotIsMember ==
  ASSUME NEW stage, NEW role \in Roles, NextMemberSlot(stage, role) # Nothing
  PROVE  \E m \in Member : m.role = role /\ NextMemberSlot(stage, role) = <<m>>
<1> DEFINE S == FreeSlots(stage, role)
<1>1. S # {} /\ NextMemberSlot(stage, role) = <<[role |-> role, slot |-> Min(S)]>>
  BY DEF NextMemberSlot, Nothing, The
<1>2. S \subseteq {0} \cup 2..SlotMax /\ SlotMax \in Nat
  BY GraphAssumption DEF FreeSlots
<1> HIDE DEF S
<1>3. \E x \in S : \A y \in S : x <= y
  <2>1. CASE 0 \in S
    BY <1>2, <2>1
  <2>2. CASE 0 \notin S
    <3>1. S \in SUBSET (1..SlotMax)
      BY <1>2, <2>2
    <3> QED BY <1>1, <1>2, <3>1, Extremes
  <2> QED BY <2>1, <2>2
<1>4. Min(S) \in S
  BY <1>3 DEF Min
<1>5. [role |-> role, slot |-> Min(S)] \in Member
  BY <1>2, <1>4 DEF Member
<1> QED BY <1>1, <1>5

LEMMA WidenedFits ==
  ASSUME tShape \in Shapes, NEW i \in DOMAIN Stages, NEW role \in Roles,
         Len(Stages[i]) < StageMax, NextMemberSlot(Stages[i], role) # Nothing
  PROVE  [Stages EXCEPT ![i] = @ \o NextMemberSlot(@, role)] \in Seq(Fitting)
<1>1. PICK m \in Member : NextMemberSlot(Stages[i], role) = <<m>>
  BY SlotIsMember
<1>2. Stages[i] \in Seq(Member) /\ Len(Stages[i]) \in 1..StageMax /\ StageMax \in Nat
  BY StageParts, GraphAssumption
<1>3. <<m>> \in Seq(Member) /\ Len(<<m>>) = 1
  OBVIOUS
<1>4. Stages[i] \o <<m>> \in Seq(Member) /\ Len(Stages[i] \o <<m>>) = Len(Stages[i]) + Len(<<m>>)
  BY <1>2, <1>3, ConcatProperties
<1>5. Stages[i] \o <<m>> \in Fitting
  <2>1. Stages[i] \o <<m>> # <<>>
    BY <1>2, <1>3, <1>4, EmptySeq
  <2> QED BY <1>2, <1>3, <1>4, <2>1 DEF Fitting, Loose
<1>6. [Stages EXCEPT ![i] = Stages[i] \o <<m>>] \in Seq(Fitting)
  BY <1>5, StageSet
<1> QED BY <1>1, <1>6

\* What the nodes on the canvas stand for.
LEMMA FoundHappy ==
  ASSUME tShape \in Shapes, NEW id, FindHappy(id) # {}
  PROVE  /\ id.i \in DOMAIN Stages /\ id.j \in DOMAIN Stages[id.i]
         /\ id.name = Stages[id.i][id.j] /\ id.name \in Member /\ id.name.role \in Roles
<1>1. Stages \in Seq(Filleds)
  BY ShapeParts
<1>2. HappyOf(Drawing) = UNION {{DrawnAt(Stages, i, j) : j \in DOMAIN Stages[i]} : i \in DOMAIN Stages}
  BY <1>1, HappyDrawn DEF Drawing, Stages
<1>0. PICK i \in DOMAIN Stages : \E j \in DOMAIN Stages[i] : id = DrawnAt(Stages, i, j).id
  BY <1>2 DEF FindHappy
<1>3. PICK j \in DOMAIN Stages[i] : id = DrawnAt(Stages, i, j).id
  BY <1>0
<1>4. id.i = i /\ id.j = j /\ id.name = Stages[i][j]
  BY <1>3 DEF DrawnAt, Drawn, Happy
<1> QED BY <1>4, StageParts

\* A node on the canvas is a member of a stage or a role of an edge.
LEMMA FoundOnCanvas ==
  ASSUME tShape \in Shapes, NEW id \in OnCanvas
  PROVE  \/ id.lane = "happy" /\ FindHappy(id) # {}
         \/ id.lane # "happy" /\ id.i \in DOMAIN Edges /\ id.j \in DOMAIN Edges[id.i].append
<1>1. PICK n \in Drawing.nodes : n.id = id
  BY DEF OnCanvas, Ids
<1>2. CASE id.lane = "happy"
  BY <1>1, <1>2 DEF FindHappy, HappyOf
<1>3. CASE id.lane # "happy"
  <2>1. \A i, j : Drawn(Happy(i, j, Stages[i][j]), i).id.lane = "happy"
    BY DEF Drawn, Happy
  <2>0. PICK e \in DOMAIN Edges : \E j \in DOMAIN Edges[e].append :
          n = Drawn(Route(e, j, Plain(Edges[e].append[j])), RouteStage(Stages, Edges[e].node))
    BY <1>1, <1>3, <2>1 DEF Drawing, TemplateToDraft, Stages, Edges
  <2>2. PICK j \in DOMAIN Edges[e].append :
          n = Drawn(Route(e, j, Plain(Edges[e].append[j])), RouteStage(Stages, Edges[e].node))
    BY <2>0
  <2>3. id.i = e /\ id.j = j
    BY <1>1, <2>2 DEF Drawn, Route
  <2> QED BY <1>3, <2>3
<1> QED BY <1>2, <1>3

\* An edit to a shape that fits.
Fits == \E next \in Shapes : Apply(next)
\* Setting stages or edges that fit leaves a shape that fits.
LEMMA StagesFit ==
  ASSUME tShape \in Shapes, NEW stages \in Seq(Fitting), SetStages(stages)
  PROVE  Fits
<1> DEFINE next == [tShape EXCEPT !.stages = stages]
<1>1. next \in Shapes
  BY DEF Shapes
<1>2. Apply(next)
  BY DEF SetStages
<1> HIDE DEF next
<1> QED BY <1>1, <1>2 DEF Fits
LEMMA EdgesFit ==
  ASSUME tShape \in Shapes, NEW edges \in Seq(Edge), SetEdges(edges)
  PROVE  Fits
<1> DEFINE next == [tShape EXCEPT !.edges = edges]
<1>1. next \in Shapes
  BY DEF Shapes
<1>2. Apply(next)
  BY DEF SetEdges
<1> HIDE DEF next
<1> QED BY <1>1, <1>2 DEF Fits

LEMMA OneStage ==
  ASSUME NEW role \in Roles
  PROVE  <<Plain(role)>> \in Fitting
BY FittingIs

\* The stage list: adding, widening, moving and removing stages and members.
LEMMA StageListFits ==
  ASSUME tShape \in Shapes, StageList
  PROVE  Fits
<1>0. Catalog \subseteq Roles
  BY GraphAssumption
<1>1. ASSUME NEW role \in Catalog, AddStage(role) PROVE Fits
  <2>1. Append(Stages, <<Plain(role)>>) \in Seq(Fitting)
    BY <1>0, OneStage, ShapeParts, AppendProperties
  <2> QED BY <1>1, <2>1, StagesFit DEF AddStage
<1>2. ASSUME NEW i \in DOMAIN Stages, NEW delta \in {-1, 1}, MoveStage(i, delta) PROVE Fits
  <2>1. i + delta \in DOMAIN Stages /\ SetStages(Swapped(Stages, i, i + delta))
    BY <1>2 DEF MoveStage
  <2>2. Swapped(Stages, i, i + delta) \in Seq(Fitting)
    BY <2>1, ShapeParts, Exchanged DEF Swapped
  <2> QED BY <2>1, <2>2, StagesFit
<1>3. ASSUME NEW i \in DOMAIN Stages, NEW j \in DOMAIN Stages[i], RemoveMember(i, j) PROVE Fits
  BY <1>3, WithoutFits, StagesFit DEF RemoveMember
<1>4. ASSUME NEW i \in DOMAIN Stages, NEW role \in Catalog, AddParallel(i, role) PROVE Fits
  <2>1. [Stages EXCEPT ![i] = @ \o NextMemberSlot(@, role)] \in Seq(Fitting)
    BY <1>0, <1>4, WidenedFits DEF AddParallel
  <2> QED BY <1>4, <2>1, StagesFit DEF AddParallel
<1> QED BY <1>1, <1>2, <1>3, <1>4 DEF StageList

\* The roles offered for a new edge are roles.
LEMMA RolesOnPath ==
  ASSUME tShape \in Shapes
  PROVE  StageRoles \subseteq Roles /\ (Path(Stages) # <<>> => FirstRole \in Roles)
<1>1. Path(Stages) \in Seq(Member)
  BY ShapeParts, PathTyped
<1>2. Len(Path(Stages)) \in Nat /\ DOMAIN Path(Stages) = 1..Len(Path(Stages))
      /\ \A k \in DOMAIN Path(Stages) : Path(Stages)[k] \in Member
  BY <1>1, LenProperties
<1>3. \A m \in Member : m.role \in Roles
  BY DEF Member
<1>4. Path(Stages) # <<>> => 1 \in DOMAIN Path(Stages)
  BY <1>1, <1>2, EmptySeq
<1> QED BY <1>2, <1>3, <1>4 DEF StageRoles, RolesOf, ToSet, FirstRole

LEMMA RouteIsEdge ==
  ASSUME NEW role \in Roles
  PROVE  NewRoute(role) \in Edge
BY LibraryAssumption DEF NewRoute, Edge

\* An edge with an appended role taken out.
LEMMA AppendCutFits ==
  ASSUME tShape \in Shapes, NEW e \in DOMAIN Edges, NEW k \in DOMAIN Edges[e].append
  PROVE  AppendCut(e, k) \in Seq(Edge)
<1>1. Edges \in Seq(Edge) /\ e \in 1..Len(Edges) /\ Edges[e] \in Edge
      /\ Len(Edges[e].append) \in Nat \ {0} /\ k \in 1..Len(Edges[e].append)
  BY ShapeParts
<1>2. CASE Len(Edges[e].append) = 1
  BY <1>1, <1>2, Removed DEF AppendCut
<1>3. CASE Len(Edges[e].append) # 1
  <2>1. Edges[e].append \in Seq(Roles)
    BY <1>1 DEF Edge
  <2>2. RemoveAt(Edges[e].append, k) \in Seq(Roles) /\ Len(RemoveAt(Edges[e].append, k)) = Len(Edges[e].append) - 1
    BY <1>1, <2>1, Removed
  <2>3. RemoveAt(Edges[e].append, k) # <<>>
    <3> DEFINE cut == RemoveAt(Edges[e].append, k)
               n == Len(Edges[e].append)
    <3>1. cut \in Seq(Roles) /\ Len(cut) = n - 1 /\ n \in Nat \ {0} /\ n # 1
      BY <1>1, <1>3, <2>2
    <3> HIDE DEF cut, n
    <3>2. cut # <<>>
      BY <3>1, EmptySeq
    <3> QED BY <3>2 DEF cut
  <2>4. [Edges[e] EXCEPT !.append = RemoveAt(@, k)] \in Edge
    BY <1>1, <2>2, <2>3 DEF Edge
  <2>5. AppendCut(e, k) = [Edges EXCEPT ![e] = [Edges[e] EXCEPT !.append = RemoveAt(@, k)]]
    BY <1>3 DEF AppendCut
  <2> QED BY <1>1, <2>4, <2>5, ExceptSeq
<1> QED BY <1>2, <1>3

\* The edge list.
LEMMA EdgeListFits ==
  ASSUME tShape \in Shapes, EdgeList
  PROVE  Fits
<1>0. Catalog \subseteq Roles /\ StageRoles \subseteq Roles
  BY GraphAssumption, RolesOnPath
<1>1. ASSUME AddEdge PROVE Fits
  <2>1. NewRoute(FirstRole) \in Edge /\ SetEdges(Append(Edges, NewRoute(FirstRole)))
    BY <1>1, RolesOnPath, RouteIsEdge DEF AddEdge
  <2>2. Append(Edges, NewRoute(FirstRole)) \in Seq(Edge)
    BY <2>1, ShapeParts, AppendProperties
  <2> QED BY <2>1, <2>2, EdgesFit
<1>2. ASSUME NEW e \in DOMAIN Edges, NEW role \in StageRoles, SetSource(e, role) PROVE Fits
  <2>1. [Edges[e] EXCEPT !.node = role] \in Edge
    BY <1>0, ShapeParts DEF Edge
  <2>2. [Edges EXCEPT ![e] = [Edges[e] EXCEPT !.node = role]] \in Seq(Edge)
    BY <2>1, ShapeParts, ExceptSeq
  <2>3. SetEdges([Edges EXCEPT ![e] = [Edges[e] EXCEPT !.node = role]])
    BY <1>2 DEF SetSource
  <2> QED BY <2>2, <2>3, EdgesFit
<1>3. ASSUME NEW e \in DOMAIN Edges, NEW role \in Catalog, AddAppend(e, role) PROVE Fits
  <2>1. Edges[e] \in Edge /\ Edges[e].append \in Seq(Roles)
    BY ShapeParts DEF Edge
  <2>2. Append(Edges[e].append, role) \in Seq(Roles) /\ Append(Edges[e].append, role) # <<>>
    BY <1>0, <2>1, AppendProperties, EmptySeq
  <2>3. [Edges[e] EXCEPT !.append = Append(@, role)] \in Edge
    BY <2>1, <2>2 DEF Edge
  <2>4. [Edges EXCEPT ![e] = [Edges[e] EXCEPT !.append = Append(@, role)]] \in Seq(Edge)
    BY <2>3, ShapeParts, ExceptSeq
  <2>5. SetEdges([Edges EXCEPT ![e] = [Edges[e] EXCEPT !.append = Append(@, role)]])
    BY <1>3 DEF AddAppend
  <2> QED BY <2>4, <2>5, EdgesFit
<1>4. ASSUME NEW e \in DOMAIN Edges, NEW k \in DOMAIN Edges[e].append, RemoveAppend(e, k) PROVE Fits
  BY <1>4, AppendCutFits, EdgesFit DEF RemoveAppend
<1> QED BY <1>1, <1>2, <1>3, <1>4 DEF EdgeList

\* The toolbar, the keyboard and the canvas.
LEMMA ToolbarFits ==
  ASSUME tShape \in Shapes, Toolbar
  PROVE  Fits
<1>1. ASSUME NEW id, RemoveNode(id) PROVE Fits
  <2>1. CASE id.lane = "happy"
    <3>1. SetStages(Without(id.i, id.j)) /\ FindHappy(id) # {}
      BY <1>1, <2>1, FoundOnCanvas DEF RemoveNode
    <3> QED BY <3>1, FoundHappy, WithoutFits, StagesFit
  <2>2. CASE id.lane # "happy"
    <3>1. SetEdges(AppendCut(id.i, id.j)) /\ id.i \in DOMAIN Edges /\ id.j \in DOMAIN Edges[id.i].append
      BY <1>1, <2>2, FoundOnCanvas DEF RemoveNode
    <3> QED BY <3>1, AppendCutFits, EdgesFit
  <2> QED BY <2>1, <2>2
<1>2. ASSUME NEW id, DuplicateParallel(id) PROVE Fits
  <2>1. /\ FindHappy(id) # {} /\ Len(Stages[id.i]) < StageMax
        /\ NextMemberSlot(Stages[id.i], id.name.role) # Nothing
        /\ SetStages([Stages EXCEPT ![id.i] = @ \o NextMemberSlot(@, id.name.role)])
    BY <1>2 DEF DuplicateParallel
  <2>2. id.i \in DOMAIN Stages /\ id.name.role \in Roles
    BY <2>1, FoundHappy
  <2>3. [Stages EXCEPT ![id.i] = @ \o NextMemberSlot(@, id.name.role)] \in Seq(Fitting)
    BY <2>1, <2>2, WidenedFits
  <2> QED BY <2>1, <2>3, StagesFit
<1>3. ASSUME NEW id, AddRouteFrom(id) PROVE Fits
  <2>1. FindHappy(id) # {} /\ SetEdges(Append(Edges, NewRoute(id.name.role)))
    BY <1>3 DEF AddRouteFrom
  <2>2. NewRoute(id.name.role) \in Edge
    BY <2>1, FoundHappy, RouteIsEdge
  <2>3. Append(Edges, NewRoute(id.name.role)) \in Seq(Edge)
    BY <2>2, ShapeParts, AppendProperties
  <2> QED BY <2>1, <2>3, EdgesFit
<1> QED BY <1>1, <1>2, <1>3, Zenon DEF Toolbar, Selecting

LEMMA KeyboardFits ==
  ASSUME tShape \in Shapes, Keyboard
  PROVE  Fits
<1>1. ASSUME NEW id, NEW delta \in {-1, 1}, MoveVertical(id, delta) PROVE Fits
  <2> DEFINE i == id.i
             at == IF delta > 0 THEN i + 1 ELSE i
             cut == RemoveAt(Stages[i], id.j)
             alone == Len(Stages[i]) = 1
  <2>0. FindHappy(id) # {} /\ (alone => i + delta \in DOMAIN Stages)
    BY <1>1 DEF MoveVertical
  <2>1. i \in DOMAIN Stages /\ id.j \in DOMAIN Stages[i] /\ id.name.role \in Roles
    BY <2>0, FoundHappy
  <2>2. CASE alone
    <3>1. SetStages(Swapped(Stages, i, i + delta))
      BY <1>1, <2>2 DEF MoveVertical
    <3>2. Swapped(Stages, i, i + delta) \in Seq(Fitting)
      BY <2>0, <2>1, <2>2, ShapeParts, Exchanged DEF Swapped
    <3> QED BY <3>1, <3>2, StagesFit
  <2>3. CASE ~ alone
    <3>1. SetStages(InsertAt([Stages EXCEPT ![i] = cut], at, <<Plain(id.name.role)>>))
      BY <1>1, <2>3 DEF MoveVertical
    <3>2. cut \in Fitting
      BY <2>1, <2>3, CutStage
    <3> HIDE DEF cut, i
    <3>3. [Stages EXCEPT ![i] = cut] \in Seq(Fitting) /\ Len([Stages EXCEPT ![i] = cut]) = Len(Stages)
      BY <2>1, <3>2, StageSet
    <3>4. at \in 1..(Len(Stages) + 1)
      BY <2>1, ShapeParts
    <3>5. InsertAt([Stages EXCEPT ![i] = cut], at, <<Plain(id.name.role)>>) \in Seq(Fitting)
      <4> HIDE DEF at
      <4> QED BY <2>1, <3>3, <3>4, OneStage, InsertedAt
    <3> QED BY <3>1, <3>5, StagesFit
  <2> QED BY <2>2, <2>3
<1>2. ASSUME NEW id, NEW delta \in {-1, 1}, ReorderNode(id, delta) PROVE Fits
  <2> DEFINE moved == Swapped(Stages[id.i], id.j, id.j + delta)
  <2>1. FindHappy(id) # {} /\ id.j + delta \in DOMAIN Stages[id.i]
        /\ SetStages([Stages EXCEPT ![id.i] = moved])
    BY <1>2 DEF ReorderNode
  <2>2. id.i \in DOMAIN Stages /\ id.j \in DOMAIN Stages[id.i]
    BY <2>1, FoundHappy
  <2>3. Stages[id.i] \in Seq(Member) /\ Len(Stages[id.i]) \in 1..StageMax /\ StageMax \in Nat
    BY <2>2, StageParts, GraphAssumption
  <2>4. moved \in Seq(Member) /\ Len(moved) = Len(Stages[id.i])
    BY <2>1, <2>2, <2>3, Exchanged DEF Swapped
  <2> HIDE DEF moved
  <2>5. moved \in Fitting
    BY <2>3, <2>4, EmptySeq DEF Fitting, Loose
  <2> QED BY <2>1, <2>2, <2>5, StageSet, StagesFit
<1> QED BY <1>1, <1>2, Zenon DEF Keyboard, Selecting

\* A node dragged to another stage, or to a stage of its own.
LEMMA MovedNodeFits ==
  ASSUME tShape \in Shapes, NEW id, NEW toStage \in 1..(Len(Stages) + 1), NEW toOrder \in 1..StageMax,
         MoveGraphNode(id, toStage, toOrder)
  PROVE  Fits
<1> DEFINE i == id.i
           lifted == Without(i, id.j)
           gone == Len(Stages[i]) = 1
           aim == IF gone /\ toStage > i THEN toStage - 1 ELSE toStage
           landing == Min({aim, Len(lifted) + 1})
           order == IF landing > Len(lifted) THEN 1 ELSE Min({toOrder, Len(lifted[landing]) + 1})
           placed == IF landing > Len(lifted) THEN Append(lifted, <<id.name>>)
                     ELSE [lifted EXCEPT ![landing] = InsertAt(@, order, id.name)]
<1>1. /\ FindHappy(id) # {} /\ SetStages(placed)
      /\ landing <= Len(lifted) => Len(lifted[landing]) < StageMax
  BY DEF MoveGraphNode
<1>2. i \in DOMAIN Stages /\ id.j \in DOMAIN Stages[i] /\ id.name \in Member
  BY <1>1, FoundHappy
<1>3. lifted \in Seq(Fitting)
  BY <1>2, WithoutFits
<1>4. \A a, b \in Nat \ {0} : Min({a, b}) \in Nat \ {0} /\ Min({a, b}) <= a /\ Min({a, b}) <= b
  <2> SUFFICES ASSUME NEW a \in Nat \ {0}, NEW b \in Nat \ {0}
               PROVE  Min({a, b}) \in Nat \ {0} /\ Min({a, b}) <= a /\ Min({a, b}) <= b
    OBVIOUS
  <2>1. \E x \in {a, b} : \A y \in {a, b} : x <= y
    OBVIOUS
  <2> QED BY <2>1 DEF Min
<1>5. aim \in Nat \ {0}
  <2>1. i \in Nat \ {0}
    BY <1>2, ShapeParts
  <2> HIDE DEF i
  <2> QED BY <2>1, ShapeParts
<1> HIDE DEF aim, lifted
<1>6. Len(lifted) \in Nat /\ DOMAIN lifted = 1..Len(lifted)
  BY <1>3, LenProperties
<1>7. landing \in 1..(Len(lifted) + 1)
  BY <1>4, <1>5, <1>6
<1> HIDE DEF landing
<1>8. CASE landing > Len(lifted)
  <2>1. <<id.name>> \in Fitting
    BY <1>2, FittingIs
  <2>2. placed = Append(lifted, <<id.name>>)
    BY <1>8
  <2>3. placed \in Seq(Fitting)
    BY <1>3, <2>1, <2>2, AppendProperties
  <2> HIDE DEF placed
  <2> QED BY <1>1, <2>3, StagesFit
<1>9. CASE ~ (landing > Len(lifted))
  <2>1. landing \in DOMAIN lifted /\ Len(lifted[landing]) < StageMax
    BY <1>1, <1>6, <1>7, <1>9
  <2>2. lifted[landing] \in Seq(Member) /\ StageMax \in Nat
    BY <1>3, <2>1, LenProperties, GraphAssumption DEF Fitting, Loose
  <2>3. Len(lifted[landing]) \in Nat
    BY <2>2, LenProperties
  <2>4. order = Min({toOrder, Len(lifted[landing]) + 1}) /\ order \in 1..(Len(lifted[landing]) + 1)
    BY <1>4, <1>9, <2>3
  <2>5. placed = [lifted EXCEPT ![landing] = InsertAt(lifted[landing], order, id.name)]
    BY <1>9
  <2> HIDE DEF order, placed
  <2> DEFINE row == InsertAt(lifted[landing], order, id.name)
  <2>6. row \in Seq(Member) /\ Len(row) = Len(lifted[landing]) + 1
    BY <1>2, <2>2, <2>4, InsertedAt
  <2> HIDE DEF row
  <2>7. row \in Fitting
    BY <2>1, <2>2, <2>3, <2>6, EmptySeq DEF Fitting, Loose
  <2>8. placed \in Seq(Fitting)
    BY <1>3, <1>6, <2>1, <2>5, <2>7, ExceptSeq DEF row
  <2> QED BY <1>1, <2>8, StagesFit
<1> QED BY <1>8, <1>9

LEMMA CanvasFits ==
  ASSUME tShape \in Shapes, Canvas
  PROVE  Fits \/ Points
<1>1. ASSUME NEW n \in HappyOf(Drawing), NEW s \in 1..(Len(Stages) + 1), NEW o \in 1..StageMax, MoveGraphNode(n.id, s, o)
      PROVE  Fits
  BY <1>1, MovedNodeFits
<1>2. ASSUME NEW id, NEW side, OpenPicker(id, side) PROVE Points
  BY <1>2 DEF OpenPicker, Points
<1>3. ASSUME ClosePicker PROVE Points
  BY <1>3 DEF ClosePicker, Points
<1>4. ASSUME NEW role \in Catalog, InsertRole(role) PROVE Fits
  <2> DEFINE id == tPicker[1].id
             at == IF FindHappy(id) = {} THEN Len(Stages) + 1
                   ELSE IF tPicker[1].side = "after" THEN id.i + 1 ELSE id.i
  <2>1. SetStages(InsertAt(Stages, at, <<Plain(role)>>))
    BY <1>4 DEF InsertRole
  <2>2. at \in 1..(Len(Stages) + 1)
    <3>1. Len(Stages) \in Nat /\ DOMAIN Stages = 1..Len(Stages)
      BY ShapeParts
    <3>2. CASE FindHappy(id) = {}
      BY <3>1, <3>2
    <3>3. CASE FindHappy(id) # {}
      <4>1. id.i \in 1..Len(Stages)
        BY <3>1, <3>3, FoundHappy
      <4> HIDE DEF id
      <4> QED BY <3>1, <3>3, <4>1
    <3> QED BY <3>2, <3>3
  <2> HIDE DEF at
  <2>3. <<Plain(role)>> \in Fitting
    BY OneStage, GraphAssumption
  <2>4. InsertAt(Stages, at, <<Plain(role)>>) \in Seq(Fitting)
    BY <2>2, <2>3, ShapeParts, InsertedAt
  <2> QED BY <2>1, <2>4, StagesFit
<1>5. ASSUME NEW choice, SelectNode(choice) PROVE Points
  BY <1>5 DEF SelectNode, Points
<1> QED BY <1>1, <1>2, <1>3, <1>4, <1>5, Zenon DEF Canvas

(***************************************************************************)
(* What the template editor keeps.                                          *)
(***************************************************************************)
LineHolds ==
  /\ tShape \in Shapes /\ tPast \in Seq(Shapes) /\ tFuture \in Seq(Shapes)
  /\ Len(tPast) + Len(tFuture) <= HistoryCap
DraftHolds ==
  /\ tDraft = [id |-> tDraft.id, name |-> tDraft.name, schedule |-> tDraft.schedule,
               emitters |-> tDraft.emitters, pins |-> tDraft.pins]
  /\ tDraft.emitters \in Seq(Emitter)
Stocked(map) ==
  /\ map = [i \in Stored |-> map[i]]
  /\ \A i \in Stored : map[i] # Nothing => WellFormed(map[i][1].body)
SaveHolds ==
  /\ tSave = [pc |-> tSave.pc, body |-> tSave.body, issues |-> tSave.issues]
  /\ tSave.pc \in {"idle", "sent", "saved", "refused", "failed", "leaving"}
  /\ tSave.body # Nothing => WellFormed(tSave.body[1])
StockHolds ==
  /\ Stocked(tServer) /\ Stocked(tCache) /\ SaveHolds
  /\ tBuiltin # Nothing => WellFormed(tBuiltin[1])
Addressed(raw) ==
  raw = Nothing \/ \E id, revision : \E s \in Shapes :
                     raw = EncodeGraphState(id, revision, TemplateToDraft(s.stages, s.edges))
PlaceHolds == tPath \in {"edited", "new", "copy"} /\ Addressed(tQuery) /\ Addressed(tUrl)
TemplateHolds == LineHolds /\ DraftHolds /\ StockHolds /\ PlaceHolds

\* The template an editor opens on is well formed.
LEMMA InitialFormed ==
  ASSUME NEW cache, Stocked(cache), NEW t,
         \/ t = Blank
         \/ cache[Edited] # Nothing /\ t = cache[Edited][1].body
         \/ cache[Edited] # Nothing /\ t = [cache[Edited][1].body EXCEPT !.id = NoId, !.name = "copy", !.schedule = "none"]
  PROVE  WellFormed(t)
<1>1. WellFormed(Blank)
  <2>1. Blank = [id |-> NoId, name |-> "", schedule |-> "none", emitters |-> <<>>, pins |-> <<>>,
                 nodes |-> NewNodes, stages |-> <<>>, edges |-> <<>>]
    BY DEF Blank
  <2>2. NewNodes \in Seq(Member)
    BY LibraryAssumption
  <2>3. ToSet(<<>>) = {}
    BY DEF ToSet
  <2>4. <<>> \in Seq(Edge) /\ <<>> \in Seq(Emitter) /\ <<>> \in Seq(Seq(Member) \ {<<>>})
    BY EmptySeq
  <2> QED BY <2>1, <2>2, <2>3, <2>4 DEF WellFormed
<1>2. ASSUME cache[Edited] # Nothing PROVE WellFormed(cache[Edited][1].body)
  BY <1>2 DEF Stocked, Stored
<1>3. ASSUME NEW b, WellFormed(b), t = [b EXCEPT !.id = NoId, !.name = "copy", !.schedule = "none"]
      PROVE  WellFormed(t)
  <2>1. {"stages", "nodes", "edges", "emitters"} \subseteq DOMAIN b
    BY <1>3 DEF WellFormed
  <2>2. DOMAIN t = DOMAIN b /\ t.stages = b.stages /\ t.nodes = b.nodes /\ t.edges = b.edges /\ t.emitters = b.emitters
    BY <1>3, <2>1
  <2> QED BY <1>3, <2>1, <2>2 DEF WellFormed
<1> QED BY <1>1, <1>2, <1>3

LEMMA InitialIs ==
  ASSUME NEW path
  PROVE  /\ Stocked(tCache) => WellFormed(Initial(path))
         /\ Stocked(tCache') => WellFormed(Initial(tPath)')
         /\ Stocked(tCache') => WellFormed(Initial(path)')
<1>1. Stocked(tCache) => WellFormed(Initial(path))
  BY InitialFormed DEF Initial
<1>2. Stocked(tCache') => WellFormed(Initial(tPath)')
  BY InitialFormed DEF Initial
<1>3. Stocked(tCache') => WellFormed(Initial(path)')
  BY InitialFormed DEF Initial
<1> QED BY <1>1, <1>2, <1>3

\* A shape drawn and read back is the shape.
LEMMA DrawnBack ==
  ASSUME NEW s \in Shapes
  PROVE  /\ s.stages \in Seq(Fitting) /\ s.edges \in Seq(Edge)
         /\ TemplateToDraft(s.stages, s.edges).routes = s.edges
         /\ RestoredStages(HappyOf(TemplateToDraft(s.stages, s.edges))) = s.stages
         /\ s.stages # <<>> => HappyOf(TemplateToDraft(s.stages, s.edges)) # {}
<1>1. s.stages \in Seq(Fitting) /\ s.edges \in Seq(Edge) /\ s.stages \in Seq(Filleds)
  BY FittingIs DEF Shapes
<1>2. RestoredStages(HappyOf(TemplateToDraft(s.stages, s.edges))) = s.stages
  BY <1>1, DrawingRestored
<1>3. TemplateToDraft(s.stages, s.edges).routes = s.edges
  BY DEF TemplateToDraft
<1>4. ASSUME s.stages # <<>> PROVE HappyOf(TemplateToDraft(s.stages, s.edges)) # {}
  <2>1. 1 \in DOMAIN s.stages
    BY <1>1, <1>4, LenProperties, EmptySeq
  <2>2. 1 \in DOMAIN s.stages[1]
    BY <1>1, <2>1, ShapeIsSound
  <2>3. DrawnAt(s.stages, 1, 1) \in HappyOf(TemplateToDraft(s.stages, s.edges))
    BY <1>1, <2>1, <2>2, HappyDrawn
  <2> QED BY <2>3
<1> QED BY <1>1, <1>2, <1>3, <1>4

\* A shape restored from the address bar fits, or is the template's own.
LEMMA RestoredFits ==
  ASSUME NEW raw, Addressed(raw), NEW t, WellFormed(t), NEW id, NEW revision
  PROVE  Restored(DecodeGraphState(raw, id, revision), t) \in Shapes
<1> DEFINE draft == DecodeGraphState(raw, id, revision)
<1>1. StagesOf(t) \in Seq(Fitting) /\ t.edges \in Seq(Edge)
  BY ShapesFit DEF Shape, Shapes
<1>2. draft = Nothing \/ \E s \in Shapes : draft # Nothing /\ draft[1] = TemplateToDraft(s.stages, s.edges)
  BY DEF DecodeGraphState, Addressed, EncodeGraphState, The, Nothing
<1> HIDE DEF draft
<1>3. ASSUME draft = Nothing PROVE Restored(draft, t) \in Shapes
  BY <1>1, <1>3 DEF Restored, Shapes
<1>4. ASSUME NEW s \in Shapes, draft # Nothing, draft[1] = TemplateToDraft(s.stages, s.edges)
      PROVE  Restored(draft, t) \in Shapes
  <2>1. Restored(draft, t).edges \in Seq(Edge)
    BY <1>4, DrawnBack DEF Restored
  <2>2. Restored(draft, t).stages \in Seq(Fitting)
    BY <1>1, <1>4, DrawnBack DEF Restored
  <2> QED BY <2>1, <2>2 DEF Restored, Shapes
<1>5. Restored(draft, t) \in Shapes
  BY <1>2, <1>3, <1>4
<1> QED BY <1>5 DEF draft

\* An editor opens with no history.
LEMMA FreshLine ==
  ASSUME tShape' \in Shapes, tPast' = <<>>, tFuture' = <<>>
  PROVE  LineHolds'
<1>1. <<>> \in Seq(Shapes) /\ Len(<<>>) = 0 /\ HistoryCap \in Nat
  BY EmptySeq, HistoryAssumption
<1> QED BY <1>1 DEF LineHolds

\* Opening the editor.
LEMMA MountHolds ==
  ASSUME NEW t, NEW revision, WellFormed(t), Addressed(tQuery'), Mount(t, revision)
  PROVE  LineHolds' /\ DraftHolds'
<1>1. tShape' \in Shapes
  BY RestoredFits DEF Mount
<1>2. LineHolds'
  BY <1>1, FreshLine DEF Mount
<1>3. tDraft' = [id |-> t.id, name |-> t.name, schedule |-> t.schedule, emitters |-> t.emitters, pins |-> t.pins]
  BY DEF Mount, Fields
<1>4. t.emitters \in Seq(Emitter)
  BY DEF WellFormed
<1> QED BY <1>2, <1>3, <1>4 DEF DraftHolds

\* The template a save would send is well formed.
LEMMA ShapedFormed ==
  ASSUME LineHolds, DraftHolds
  PROVE  WellFormed(Shaped)
<1>1. Stages \in Seq(Fitting) /\ Stages \in Seq(Filleds) /\ Edges \in Seq(Edge)
  BY ShapeParts DEF LineHolds
<1>2. Path(Stages) \in Seq(Member)
  BY <1>1, PathTyped
<1>3. \A s \in ToSet(Stages) : Len(s) <= StageMax
  <2>1. DOMAIN Stages = 1..Len(Stages) /\ \A i \in DOMAIN Stages : Stages[i] \in Fitting
    BY <1>1, LenProperties
  <2> QED BY <2>1 DEF ToSet, Fitting, Loose
<1>4. /\ Shaped.stages = Stages /\ Shaped.edges = Edges /\ Shaped.nodes = Path(Stages) /\ Shaped.emitters = tDraft.emitters
      /\ {"stages", "nodes", "edges", "emitters"} \subseteq DOMAIN Shaped
  BY DEF Shaped, Stages, Edges
<1>5. Stages \in Seq(Seq(Member) \ {<<>>})
  BY <1>1 DEF Filleds
<1> QED BY <1>1, <1>2, <1>3, <1>4, <1>5 DEF WellFormed, DraftHolds

(***************************************************************************)
(* The steps.                                                               *)
(***************************************************************************)
LEMMA KeptFields ==
  ASSUME TemplateHolds, UNCHANGED <<remoteVars, placeVars>>
  PROVE  StockHolds' /\ PlaceHolds'
BY DEF TemplateHolds, StockHolds, SaveHolds, PlaceHolds, remoteVars, placeVars

\* An edit that fits, and a walk along the history.
LEMMA AppliedHolds ==
  ASSUME TemplateHolds, Fits
  PROVE  TemplateHolds'
<1>1. PICK next \in Shapes : Apply(next)
  BY DEF Fits
<1>2. /\ tPast' = Append(Latest(tPast), tShape) /\ tFuture' = <<>> /\ tShape' = next
      /\ UNCHANGED <<remoteVars, placeVars>> /\ UNCHANGED tDraft
  BY <1>1 DEF Apply, KeepFields
<1>3. tPast \in Seq(Shapes) /\ tShape \in Shapes /\ HistoryCap \in Nat \ {0}
      /\ Len(tPast) \in Nat /\ Len(tFuture) \in Nat /\ Len(tPast) <= HistoryCap
  BY HistoryAssumption, LenProperties DEF TemplateHolds, LineHolds
<1> DEFINE n == Len(tPast)
           from == IF n >= HistoryCap THEN n - HistoryCap + 2 ELSE 1
           recent == SubSeq(tPast, from, n)
<1>4. recent \in Seq(Shapes) /\ Len(recent) < HistoryCap /\ Len(recent) \in Nat
  <2>1. n \in Nat /\ n <= HistoryCap
    BY <1>3
  <2>2. from \in Nat \ {0} /\ n - from + 1 < HistoryCap
    <3> HIDE DEF n
    <3>1. CASE n >= HistoryCap
      BY <1>3, <2>1, <3>1
    <3>2. CASE ~ (n >= HistoryCap)
      BY <1>3, <2>1, <3>2
    <3> QED BY <3>1, <3>2
  <2>3. \A i \in from..n : tPast[i] \in Shapes
    <3> HIDE DEF from
    <3> QED BY <1>3, <2>2, ElementOfSeq
  <2>4. recent \in Seq(Shapes) /\ Len(recent) = IF from <= n THEN n - from + 1 ELSE 0
    <3> HIDE DEF from, n
    <3> QED BY <2>1, <2>2, <2>3, SubSeqProperties
  <2> HIDE DEF recent, from, n
  <2> QED BY <1>3, <2>1, <2>2, <2>4
<1>5. Latest(tPast) = recent
  BY DEF Latest
<1> HIDE DEF recent
<1>6. tPast' \in Seq(Shapes) /\ Len(tPast') <= HistoryCap /\ Len(tPast') \in Nat
  <2>1. tPast' \in Seq(Shapes) /\ Len(tPast') = Len(recent) + 1
    BY <1>2, <1>3, <1>4, <1>5, AppendProperties
  <2> QED BY <1>3, <1>4, <2>1
<1>7. <<>> \in Seq(Shapes) /\ Len(<<>>) = 0
  BY EmptySeq
<1>8. LineHolds'
  BY <1>1, <1>2, <1>3, <1>6, <1>7 DEF LineHolds
<1> QED BY <1>2, <1>8, KeptFields DEF TemplateHolds, DraftHolds

LEMMA WalkedHolds ==
  ASSUME TemplateHolds, Undo \/ Redo
  PROVE  TemplateHolds'
<1>1. UNCHANGED <<remoteVars, placeVars>> /\ UNCHANGED tDraft
  BY DEF Undo, Redo, KeepFields
<1>2. /\ tPast \in Seq(Shapes) /\ tShape \in Shapes /\ tFuture \in Seq(Shapes)
      /\ Len(tPast) \in Nat /\ Len(tFuture) \in Nat /\ Len(tPast) + Len(tFuture) <= HistoryCap /\ HistoryCap \in Nat
  BY HistoryAssumption, LenProperties DEF TemplateHolds, LineHolds
<1>3. LineHolds'
  <2>1. CASE Undo
    <3>1. tPast # <<>> /\ tPast' = Front(tPast) /\ tFuture' = Append(tFuture, tShape) /\ tShape' = Last(tPast)
      BY <2>1 DEF Undo
    <3>2. tPast' \in Seq(Shapes) /\ Len(tPast') = Len(tPast) - 1 /\ tShape' \in Shapes
      BY <1>2, <3>1, FrontLast
    <3>3. tFuture' \in Seq(Shapes) /\ Len(tFuture') = Len(tFuture) + 1
      BY <1>2, <3>1, AppendProperties
    <3> QED BY <1>2, <3>2, <3>3 DEF LineHolds
  <2>2. CASE Redo
    <3>1. tFuture # <<>> /\ tFuture' = Front(tFuture) /\ tPast' = Append(tPast, tShape) /\ tShape' = Last(tFuture)
      BY <2>2 DEF Redo
    <3>2. tFuture' \in Seq(Shapes) /\ Len(tFuture') = Len(tFuture) - 1 /\ tShape' \in Shapes
      BY <1>2, <3>1, FrontLast
    <3>3. tPast' \in Seq(Shapes) /\ Len(tPast') = Len(tPast) + 1
      BY <1>2, <3>1, AppendProperties
    <3> QED BY <1>2, <3>2, <3>3 DEF LineHolds
  <2> QED BY <2>1, <2>2
<1> QED BY <1>1, <1>3, KeptFields DEF TemplateHolds, DraftHolds

\* Steps that leave the shape, its history and the draft alone.
LEMMA StillHolds ==
  ASSUME TemplateHolds, UNCHANGED <<tShape, tPast, tFuture, tDraft>>
  PROVE  LineHolds' /\ DraftHolds'
BY DEF TemplateHolds, LineHolds, DraftHolds

LEMMA PointsHold ==
  ASSUME TemplateHolds, Points
  PROVE  TemplateHolds'
<1>1. UNCHANGED <<tShape, tPast, tFuture, tDraft>> /\ UNCHANGED <<remoteVars, placeVars>>
  BY DEF Points, KeepFields
<1> QED BY <1>1, StillHolds, KeptFields DEF TemplateHolds

\* A field of the form changes and the emitters stay emitters.
LEMMA FieldsHold ==
  ASSUME TemplateHolds, NEW fields, SetDraft(fields), NEW emitters \in Seq(Emitter), NEW d,
         d = [id |-> d.id, name |-> d.name, schedule |-> d.schedule, emitters |-> d.emitters, pins |-> d.pins],
         fields = d, d.emitters = emitters
  PROVE  TemplateHolds'
<1>1. tDraft' = d /\ UNCHANGED <<tShape, tPast, tFuture>> /\ UNCHANGED <<remoteVars, placeVars>>
  BY DEF SetDraft, shapeVars
<1>2. DraftHolds' /\ LineHolds'
  BY <1>1 DEF DraftHolds, TemplateHolds, LineHolds
<1> QED BY <1>1, <1>2, KeptFields DEF TemplateHolds

\* The other steps of the editor: its fields,
LEMMA EmittersFit ==
  ASSUME TemplateHolds, NEW role, NEW spec \in Seq(Emitter), SetEmitter(role, spec)
  PROVE  TemplateHolds'
<1> DEFINE kept == Matching(tDraft.emitters, LAMBDA e : e.node # role)
           emitters == kept \o spec
           d == [tDraft EXCEPT !.emitters = emitters]
<1>1. /\ tDraft = [id |-> tDraft.id, name |-> tDraft.name, schedule |-> tDraft.schedule,
                   emitters |-> tDraft.emitters, pins |-> tDraft.pins]
      /\ tDraft.emitters \in Seq(Emitter)
  BY DEF TemplateHolds, DraftHolds
<1>2. kept \in Seq(Emitter)
  <2> DEFINE S == {tDraft.emitters[i] : i \in {k \in DOMAIN tDraft.emitters : tDraft.emitters[k].node # role}}
  <2>1. kept = Kept(tDraft.emitters, S)
    BY DEF Matching
  <2> HIDE DEF S, kept
  <2>2. Kept(tDraft.emitters, S) \in Seq(Emitter)
    BY <1>1, KeptMembers
  <2> QED BY <2>1, <2>2
<1>3. SetDraft(d)
  BY DEF SetEmitter
<1> HIDE DEF kept
<1>4. emitters \in Seq(Emitter)
  BY <1>2, ConcatProperties
<1> HIDE DEF emitters
<1>5. d = [id |-> d.id, name |-> d.name, schedule |-> d.schedule, emitters |-> d.emitters, pins |-> d.pins]
      /\ d.emitters = emitters
  BY <1>1
<1> HIDE DEF d
<1> QED BY <1>3, <1>4, <1>5, FieldsHold

\* The emitter panel.
LEMMA OneEmitter ==
  ASSUME NEW e \in Emitter
  PROVE  The(e) \in Seq(Emitter)
BY DEF The

LEMMA EmittersOf ==
  ASSUME TemplateHolds, NEW role, NEW e \in ToSet(EmitterOf(role))
  PROVE  e \in Emitter
<1> DEFINE S == {tDraft.emitters[i] : i \in {k \in DOMAIN tDraft.emitters : tDraft.emitters[k].node = role}}
<1>1. EmitterOf(role) = Kept(tDraft.emitters, S)
  BY DEF EmitterOf, Matching
<1>2. tDraft.emitters \in Seq(Emitter)
  BY DEF TemplateHolds, DraftHolds
<1> HIDE DEF S
<1>5. Kept(tDraft.emitters, S) \in Seq(Emitter)
  BY <1>2, KeptMembers
<1>3. EmitterOf(role) \in Seq(Emitter)
  BY <1>1, <1>5
<1>4. DOMAIN EmitterOf(role) = 1..Len(EmitterOf(role)) /\ \A k \in DOMAIN EmitterOf(role) : EmitterOf(role)[k] \in Emitter
  BY <1>3, LenProperties
<1> QED BY <1>4 DEF ToSet

LEMMA EmitsHold ==
  ASSUME TemplateHolds, EmitsPanel
  PROVE  TemplateHolds'
<1>0. Catalog \subseteq Roles /\ EmitterWidth \in Nat \ {0} /\ <<>> \in Seq(Emitter)
  BY GraphAssumption, EmptySeq
<1>1. ASSUME NEW role \in Catalog, ToggleEmitter(role) PROVE TemplateHolds'
  <2>1. PICK other \in Catalog :
          SetEmitter(role, IF EmitterOf(role) = <<>> THEN The(DefaultEmitter(role, other)) ELSE <<>>)
    BY <1>1 DEF ToggleEmitter
  <2>2. DefaultEmitter(role, other) \in Emitter
    BY <1>0 DEF DefaultEmitter, Emitter
  <2>3. The(DefaultEmitter(role, other)) \in Seq(Emitter)
    BY <2>2, OneEmitter
  <2> QED BY <1>0, <2>1, <2>3, EmittersFit
<1>2. ASSUME NEW e \in Emitter, NEW max \in 0..EmitterWidth + 1, SetEmissionCap(e, max) PROVE TemplateHolds'
  <2>1. [e EXCEPT !.max = max] \in Emitter
    BY <1>0 DEF Emitter
  <2> QED BY <1>2, <2>1, OneEmitter, EmittersFit DEF SetEmissionCap
<1>3. ASSUME NEW e \in Emitter, NEW role \in Catalog, SetFanIn(e, role) PROVE TemplateHolds'
  <2>1. [e EXCEPT !.fanIn = role] \in Emitter
    BY <1>0 DEF Emitter
  <2> QED BY <1>3, <2>1, OneEmitter, EmittersFit DEF SetFanIn
<1>4. ASSUME NEW e \in Emitter, NEW role \in Catalog, ToggleEmittedRole(e, role) PROVE TemplateHolds'
  <2> DEFINE without == Matching(e.roles, LAMBDA r : r # role)
             S == {e.roles[i] : i \in {k \in DOMAIN e.roles : e.roles[k] # role}}
             roles == IF Contains(e.roles, role) THEN without ELSE Append(e.roles, role)
  <2>1. e.roles \in Seq(Roles) /\ role \in Roles
    BY <1>0 DEF Emitter
  <2>2. without = Kept(e.roles, S)
    BY DEF Matching
  <2>3. without \in Seq(Roles)
    <3> HIDE DEF S, without
    <3>1. Kept(e.roles, S) \in Seq(Roles)
      BY <2>1, KeptMembers
    <3> QED BY <2>2, <3>1
  <2>4. SetEmitter(e.node, The([e EXCEPT !.roles = roles]))
    BY <1>4 DEF ToggleEmittedRole
  <2> HIDE DEF without
  <2>5. roles \in Seq(Roles)
    BY <2>1, <2>3, AppendProperties
  <2> HIDE DEF roles
  <2>6. [e EXCEPT !.roles = roles] \in Emitter
    BY <2>5 DEF Emitter
  <2> QED BY <2>4, <2>6, OneEmitter, EmittersFit
<1>5. PICK n \in SelectedNode :
        /\ Inspected(n)
        /\ \/ ToggleEmitter(n.member.role)
           \/ \E e \in ToSet(EmitterOf(n.member.role)) :
                \/ \E max \in 0..EmitterWidth + 1 : SetEmissionCap(e, max)
                \/ \E role \in Catalog : ToggleEmittedRole(e, role) \/ SetFanIn(e, role)
  BY Zenon DEF EmitsPanel
<1> HIDE DEF TemplateHolds
<1> QED BY <1>1, <1>2, <1>3, <1>4, <1>5, EmittersOf DEF Inspected

\* The other fields.
LEMMA FieldCardsHold ==
  ASSUME TemplateHolds, FieldCards \/ PinPanel
  PROVE  TemplateHolds'
<1>1. /\ tDraft = [id |-> tDraft.id, name |-> tDraft.name, schedule |-> tDraft.schedule,
                   emitters |-> tDraft.emitters, pins |-> tDraft.pins]
      /\ tDraft.emitters \in Seq(Emitter)
  BY DEF TemplateHolds, DraftHolds
<1>2. ASSUME NEW x, SetDraft([tDraft EXCEPT !.id = x]) \/ SetDraft([tDraft EXCEPT !.name = x])
                    \/ SetDraft([tDraft EXCEPT !.schedule = x]) \/ SetDraft([tDraft EXCEPT !.pins = x])
      PROVE  TemplateHolds'
  <2>1. PICK d : SetDraft(d) /\ (\/ d = [tDraft EXCEPT !.id = x] \/ d = [tDraft EXCEPT !.name = x]
                                \/ d = [tDraft EXCEPT !.schedule = x] \/ d = [tDraft EXCEPT !.pins = x])
    BY <1>2
  <2>2. d = [id |-> d.id, name |-> d.name, schedule |-> d.schedule, emitters |-> d.emitters, pins |-> d.pins]
        /\ d.emitters = tDraft.emitters
    BY <1>1, <2>1
  <2> QED BY <1>1, <2>1, <2>2, FieldsHold
<1>3. ASSUME FieldCards PROVE \E x : SetDraft([tDraft EXCEPT !.id = x]) \/ SetDraft([tDraft EXCEPT !.name = x])
                                     \/ SetDraft([tDraft EXCEPT !.schedule = x]) \/ SetDraft([tDraft EXCEPT !.pins = x])
  BY <1>3, Zenon DEF FieldCards, TypeId, TypeName, ToggleSchedule, EditSchedule
<1>4. ASSUME PinPanel PROVE \E x : SetDraft([tDraft EXCEPT !.id = x]) \/ SetDraft([tDraft EXCEPT !.name = x])
                                     \/ SetDraft([tDraft EXCEPT !.schedule = x]) \/ SetDraft([tDraft EXCEPT !.pins = x])
  BY <1>4, Zenon DEF PinPanel, SetMemberPin
<1> QED BY <1>2, <1>3, <1>4

\* the server's answers,
LEMMA StockPut ==
  ASSUME NEW map, Stocked(map), NEW id, NEW v, v = Nothing \/ WellFormed(v[1].body)
  PROVE  Stocked([map EXCEPT ![id] = v])
BY DEF Stocked

\* The server stores well-formed templates.
LEMMA HandledStocked ==
  ASSUME StockHolds
  PROVE  Stocked(Handled.server)
<1>1. \A x : The(x)[1] = x
  BY DEF The
<1>2. ASSUME tSave.body # Nothing PROVE Stocked(Written(tSave.body[1]))
  <2> DEFINE v == The([body |-> tSave.body[1], custom |-> TRUE])
  <2>1. v[1].body = tSave.body[1]
    BY <1>1
  <2>2. WellFormed(v[1].body)
    BY <1>2, <2>1 DEF StockHolds, SaveHolds
  <2> HIDE DEF v
  <2>3. Stocked([tServer EXCEPT ![tSave.body[1].id] = v])
    BY <2>2, StockPut DEF StockHolds
  <2> QED BY <2>3 DEF Written, v
<1>3. Stocked(Cleared)
  <2> DEFINE v == IF tBuiltin = Nothing THEN Nothing ELSE The([body |-> tBuiltin[1], custom |-> FALSE])
  <2>1. v = Nothing \/ (v[1].body = tBuiltin[1] /\ tBuiltin # Nothing)
    BY <1>1
  <2>2. v = Nothing \/ WellFormed(v[1].body)
    BY <2>1 DEF StockHolds
  <2> HIDE DEF v
  <2>3. Stocked([tServer EXCEPT ![Edited] = v])
    BY <2>2, StockPut DEF StockHolds
  <2> QED BY <2>3 DEF Cleared, v
<1> QED BY <1>2, <1>3 DEF Handled, StockHolds

\* The server, the other writer and the page's own save.
LEMMA ServerHolds ==
  ASSUME TemplateHolds, ServerHandles \/ Rejected \/ OtherWriter \/ Reset \/ Save \/ SaveLeaves \/ Close
  PROVE  TemplateHolds'
<1>0. StockHolds /\ PlaceHolds /\ SaveHolds /\ Stocked(tServer)
  BY DEF TemplateHolds, StockHolds
<1>1. CASE ServerHandles
  <2>1. PICK arrives, answered \in BOOLEAN :
          /\ tServer' = IF arrives THEN Handled.server ELSE tServer
          /\ tSave' = [tSave EXCEPT !.pc = IF answered THEN Handled.pc ELSE "failed",
                                    !.issues = IF answered THEN Handled.issues ELSE {}]
    BY <1>1 DEF ServerHandles
  <2>2. UNCHANGED <<tShape, tPast, tFuture, tDraft>> /\ UNCHANGED <<tBuiltin, tCache, placeVars>>
    BY <1>1 DEF ServerHandles, Unchanging, shapeVars
  <2>3. Stocked(tServer)'
    BY <1>0, <2>1, HandledStocked, Zenon DEF Stocked
  <2>4. Handled.pc \in {"saved", "refused", "failed"}
    BY DEF Handled
  <2>5. SaveHolds'
    BY <1>0, <2>1, <2>4 DEF SaveHolds
  <2>6. StockHolds' /\ PlaceHolds'
    BY <1>0, <2>2, <2>3, <2>5 DEF StockHolds, PlaceHolds, placeVars
  <2> QED BY <2>2, <2>6, StillHolds DEF TemplateHolds
<1>2. CASE OtherWriter
  <2>1. PICK t \in OtherWork : tServer' = [tServer EXCEPT ![Edited] = The([body |-> t, custom |-> TRUE])]
    BY <1>2 DEF OtherWriter
  <2>2. UNCHANGED <<tShape, tPast, tFuture, tDraft>> /\ UNCHANGED <<tBuiltin, tCache, tSave, placeVars>>
    BY <1>2 DEF OtherWriter, Unchanging, shapeVars
  <2> DEFINE v == The([body |-> t, custom |-> TRUE])
  <2>3. WellFormed(v[1].body)
    BY LibraryAssumption DEF The
  <2> HIDE DEF v
  <2>4. Stocked([tServer EXCEPT ![Edited] = v])
    BY <1>0, <2>3, StockPut
  <2>5. Stocked(tServer)'
    BY <2>1, <2>4 DEF v, Stocked
  <2>6. StockHolds' /\ PlaceHolds'
    BY <1>0, <2>2, <2>5 DEF StockHolds, PlaceHolds, placeVars, SaveHolds
  <2> QED BY <2>2, <2>6, StillHolds DEF TemplateHolds
<1>3. CASE Save
  <2>1. tSave' = [pc |-> "sent", body |-> The(Shaped), issues |-> {}]
        /\ UNCHANGED <<tShape, tPast, tFuture, tDraft>> /\ UNCHANGED <<tServer, tBuiltin, tCache, placeVars>>
    BY <1>3 DEF Save, shapeVars
  <2>2. WellFormed(Shaped)
    BY ShapedFormed DEF TemplateHolds
  <2>3. SaveHolds'
    BY <2>1, <2>2 DEF SaveHolds, The
  <2>4. StockHolds' /\ PlaceHolds'
    BY <1>0, <2>1, <2>3 DEF StockHolds, PlaceHolds, placeVars
  <2> QED BY <2>1, <2>4, StillHolds DEF TemplateHolds
<1>4. CASE Rejected \/ Reset
  <2>1. (tSave' = Idle \/ tSave' = [Idle EXCEPT !.pc = "sent"])
        /\ UNCHANGED <<tShape, tPast, tFuture, tDraft>> /\ UNCHANGED <<tServer, tBuiltin, tCache, placeVars>>
    BY <1>4 DEF Rejected, Reset, shapeVars
  <2>2. SaveHolds'
    BY <2>1 DEF SaveHolds, Idle
  <2>3. StockHolds' /\ PlaceHolds'
    BY <1>0, <2>1, <2>2 DEF StockHolds, PlaceHolds, placeVars
  <2> QED BY <2>1, <2>3, StillHolds DEF TemplateHolds
<1>5. CASE SaveLeaves
  <2>1. tSave' = Idle
        /\ UNCHANGED <<tShape, tPast, tFuture, tDraft>> /\ UNCHANGED <<tServer, tBuiltin, tCache, placeVars>>
    BY <1>5 DEF SaveLeaves, shapeVars, Unchanging
  <2>2. SaveHolds'
    BY <2>1 DEF SaveHolds, Idle
  <2>3. StockHolds' /\ PlaceHolds'
    BY <1>0, <2>1, <2>2 DEF StockHolds, PlaceHolds, placeVars
  <2> QED BY <2>1, <2>3, StillHolds DEF TemplateHolds
<1>6. CASE Close
  <2>1. UNCHANGED <<tShape, tPast, tFuture, tDraft>> /\ UNCHANGED <<remoteVars, placeVars>>
    BY <1>6 DEF Close, templateVars, shapeVars
  <2> QED BY <2>1, StillHolds, KeptFields DEF TemplateHolds
<1> QED BY <1>1, <1>2, <1>3, <1>4, <1>5, <1>6

\* and what mounts the editor or moves its address.
LEMMA PlacesHold ==
  ASSUME TemplateHolds, Persist \/ Reload \/ (\E path \in {"edited", "new", "copy"} : Open(path))
  PROVE  TemplateHolds'
<1>0. StockHolds /\ PlaceHolds /\ SaveHolds /\ Stocked(tServer) /\ Stocked(tCache)
  BY DEF TemplateHolds, StockHolds
<1>1. CASE Persist
  <2>1. tUrl' = EncodeGraphState(tPath, RevisionOf(tPath), TemplateToDraft(tShape.stages, tShape.edges))
        /\ UNCHANGED <<tShape, tPast, tFuture, tDraft>> /\ UNCHANGED <<remoteVars, tPath, tQuery>>
    BY <1>1 DEF Persist, Unchanging, shapeVars, Drawing
  <2>2. Addressed(tUrl')
    BY <2>1 DEF TemplateHolds, LineHolds, Addressed
  <2>3. StockHolds' /\ PlaceHolds'
    BY <1>0, <2>1, <2>2 DEF StockHolds, PlaceHolds, remoteVars, SaveHolds
  <2> QED BY <2>1, <2>3, StillHolds DEF TemplateHolds
<1>2. CASE Reload
  <2>1. tCache' = tServer /\ tQuery' = tUrl /\ UNCHANGED <<tServer, tBuiltin, tSave, tPath, tUrl>>
    BY <1>2 DEF Reload
  <2>2. Stocked(tCache') /\ Addressed(tQuery')
    BY <1>0, <2>1 DEF PlaceHolds
  <2>3. WellFormed(Initial(tPath)')
    BY <2>2, InitialIs
  <2>4. Mount(Initial(tPath)', RevisionOf(tPath)')
    BY <1>2 DEF Reload
  <2>5. LineHolds' /\ DraftHolds'
    BY <2>2, <2>3, <2>4, MountHolds
  <2>6. StockHolds' /\ PlaceHolds'
    BY <1>0, <2>1, <2>2 DEF StockHolds, PlaceHolds, SaveHolds
  <2> QED BY <2>5, <2>6 DEF TemplateHolds
<1>3. ASSUME NEW path \in {"edited", "new", "copy"}, Open(path) PROVE TemplateHolds'
  <2>1. tPath' = path /\ tQuery' = Nothing /\ tUrl' = Nothing /\ UNCHANGED remoteVars
    BY <1>3 DEF Open
  <2>2. Addressed(tQuery') /\ Addressed(tUrl')
    BY <2>1 DEF Addressed
  <2>3. WellFormed(Initial(path))
    BY <1>0, InitialIs
  <2>4. Mount(Initial(path), RevisionOf(path))
    BY <1>3 DEF Open
  <2>5. LineHolds' /\ DraftHolds'
    BY <2>2, <2>3, <2>4, MountHolds
  <2>6. StockHolds' /\ PlaceHolds'
    BY <1>0, <2>1, <2>2 DEF StockHolds, PlaceHolds, SaveHolds, remoteVars
  <2> QED BY <2>5, <2>6 DEF TemplateHolds
<1> QED BY <1>1, <1>2, <1>3

\* The catalog is fetched again.
LEMMA RefetchedHolds ==
  ASSUME TemplateHolds, Refetched, UNCHANGED <<tServer, tBuiltin>>, SaveHolds'
  PROVE  TemplateHolds'
<1>0. StockHolds /\ PlaceHolds /\ SaveHolds /\ Stocked(tServer)
  BY DEF TemplateHolds, StockHolds
<1>1. tCache' = tServer /\ UNCHANGED placeVars
  BY DEF Refetched
<1>2. Stocked(tCache') /\ Addressed(tQuery') /\ StockHolds' /\ PlaceHolds'
  BY <1>0, <1>1 DEF StockHolds, PlaceHolds, placeVars
<1>3. Mount(Initial(tPath)', RevisionOf(tPath)') \/ Unchanging
  BY DEF Refetched
<1>4. ASSUME Mount(Initial(tPath)', RevisionOf(tPath)') PROVE LineHolds' /\ DraftHolds'
  <2>1. WellFormed(Initial(tPath)')
    BY <1>2, InitialIs
  <2> QED BY <1>2, <1>4, <2>1, MountHolds
<1>5. ASSUME Unchanging PROVE LineHolds' /\ DraftHolds'
  BY <1>5, StillHolds DEF Unchanging, shapeVars
<1> QED BY <1>2, <1>3, <1>4, <1>5 DEF TemplateHolds

LEMMA RefetchHolds ==
  ASSUME TemplateHolds, Refetch \/ SaveRefetches
  PROVE  TemplateHolds'
<1>1. UNCHANGED <<tServer, tBuiltin>> /\ Refetched
  BY DEF Refetch, SaveRefetches
<1>2. SaveHolds'
  BY DEF TemplateHolds, StockHolds, SaveHolds, Refetch, SaveRefetches, Settle
<1> QED BY <1>1, <1>2, RefetchedHolds

\* Every step of the template editor.
LEMMA TemplateStep ==
  ASSUME TemplateHolds, TemplateNext
  PROVE  TemplateHolds'
<1>1. tShape \in Shapes
  BY DEF TemplateHolds, LineHolds
<1>2. ASSUME StageList \/ EdgeList \/ Toolbar \/ Keyboard \/ Canvas PROVE TemplateHolds'
  BY <1>1, <1>2, StageListFits, EdgeListFits, ToolbarFits, KeyboardFits, CanvasFits, AppliedHolds, PointsHold
<1> QED BY <1>2, WalkedHolds, FieldCardsHold, EmitsHold, ServerHolds, PlacesHold, RefetchHolds, Zenon DEF TemplateNext

LEMMA TemplateStart == Init => TemplateHolds
<1> SUFFICES ASSUME Init PROVE TemplateHolds
  OBVIOUS
<1>1. TemplateInit
  BY DEF Init
<1>2. PICK t \in Chosen("template", Library) :
        /\ tServer = [i \in Stored |->
                        IF i = Edited THEN The([body |-> t.body, custom |-> ~ t.builtin]) ELSE Nothing]
        /\ tBuiltin = IF t.builtin THEN The(t.body) ELSE Nothing
        /\ tDraft = Fields(t.body) /\ tShape = Shape(t.body)
  BY <1>1 DEF TemplateInit
<1>3. t \in Library /\ WellFormed(t.body)
  BY LibraryAssumption DEF Chosen
<1>4. tShape \in Shapes
  BY <1>2, <1>3, ShapesFit
<1>5. LineHolds
  BY <1>1, <1>4, EmptySeq, HistoryAssumption DEF TemplateInit, LineHolds
<1>6. DraftHolds
  BY <1>2, <1>3 DEF DraftHolds, Fields, WellFormed
<1>7. Stocked(tServer)
  <2> DEFINE v == The([body |-> t.body, custom |-> ~ t.builtin])
  <2>1. v[1].body = t.body
    BY DEF The
  <2> HIDE DEF v
  <2>2. tServer = [i \in Stored |-> IF i = Edited THEN v ELSE Nothing]
    BY <1>2 DEF v
  <2> QED BY <1>3, <2>1, <2>2 DEF Stocked
<1>8. tBuiltin # Nothing => WellFormed(tBuiltin[1])
  BY <1>2, <1>3 DEF The
<1>9. StockHolds /\ PlaceHolds
  BY <1>1, <1>7, <1>8 DEF TemplateInit, StockHolds, PlaceHolds, SaveHolds, Idle, Addressed, Stocked
<1> QED BY <1>5, <1>6, <1>9 DEF TemplateHolds

(***************************************************************************)
(* The types of the template editor.                                        *)
(***************************************************************************)
LEMMA TemplateTyped == TemplateHolds => TemplateTypeOK
<1> SUFFICES ASSUME TemplateHolds PROVE TemplateTypeOK
  OBVIOUS
<1>1. tShape \in Shapes /\ tPast \in Seq(Shapes) /\ tFuture \in Seq(Shapes)
      /\ Len(tPast) + Len(tFuture) <= HistoryCap /\ tPath \in {"edited", "new", "copy"}
      /\ tSave.pc \in {"idle", "sent", "saved", "refused", "failed", "leaving"}
  BY DEF TemplateHolds, LineHolds, PlaceHolds, StockHolds, SaveHolds
<1>2. Stages \in Seq(Filleds) /\ Edges \in Seq(Edge) /\ DOMAIN Stages = 1..Len(Stages) /\ DOMAIN Edges = 1..Len(Edges)
      /\ \A e \in DOMAIN Edges : Edges[e] \in Edge
  BY <1>1, ShapeParts
<1>3. Stages \in Seq(Seq(Member)) /\ \A i \in DOMAIN Stages : Stages[i] # <<>> /\ Len(Stages[i]) <= StageMax
  <2>1. Seq(Filleds) \subseteq Seq(Seq(Member))
    BY SeqMonotonic DEF Filleds
  <2> QED BY <1>1, <1>2, <2>1, StageParts
<1>4. <<>> \notin ToSet(Stages)
  BY <1>3 DEF ToSet
<1>5. \A e \in ToSet(Edges) : e.node \in Roles /\ e.append \in Seq(Roles) \ {<<>>}
  BY <1>2 DEF ToSet, Edge
<1>6. Len(tPast) \in Nat /\ Len(tFuture) \in Nat /\ HistoryCap \in Nat
  BY <1>1, LenProperties, HistoryAssumption
<1> QED BY <1>1, <1>3, <1>4, <1>5, <1>6 DEF TemplateTypeOK, Stages, Edges

LEMMA RefreshKept == TemplateHolds => RefreshKeepsShape
<1> SUFFICES ASSUME TemplateHolds,
                    tUrl = EncodeGraphState(tPath, RevisionOf(tPath), Drawing), tShape.stages # <<>>,
                    Cardinality(Drawing.nodes) <= UrlNodes, Spelled(Drawing) <= UrlSize
             PROVE  Restored(DecodeGraphState(tUrl, tPath, RevisionOf(tPath)), Initial(tPath)) = tShape
  BY DEF RefreshKeepsShape
<1>1. tShape \in Shapes /\ tShape = [stages |-> tShape.stages, edges |-> tShape.edges]
  BY DEF TemplateHolds, LineHolds, Shapes
<1>2. DecodeGraphState(tUrl, tPath, RevisionOf(tPath)) = The(Drawing)
  BY DEF DecodeGraphState, EncodeGraphState, The, Nothing
<1>3. /\ Drawing.routes = tShape.edges /\ RestoredStages(HappyOf(Drawing)) = tShape.stages
      /\ HappyOf(Drawing) # {}
  BY <1>1, DrawnBack DEF Drawing
<1>4. The(Drawing) # Nothing /\ The(Drawing)[1] = Drawing
  BY DEF The, Nothing
<1> QED BY <1>1, <1>2, <1>3, <1>4, Zenon DEF Restored

(***************************************************************************)
(* The console's checks and the server's.                                   *)
(***************************************************************************)
LEMMA Twice ==
  ASSUME NEW n \in Nat, NEW S, S \subseteq 1..n
  PROVE  Cardinality(S) > 1 <=> \E k, l \in S : k # l
<1>1. IsFiniteSet(S) /\ Cardinality(S) \in Nat
  <2>1. IsFiniteSet(1..n)
    BY FS_Interval
  <2>2. IsFiniteSet(S)
    BY <2>1, FS_Subset
  <2> QED BY <2>2, FS_CardinalityType
<1>2. ASSUME NEW k \in S, NEW l \in S, k # l PROVE Cardinality(S) > 1
  <2>1. IsFiniteSet({k}) /\ Cardinality({k}) = 1
    BY FS_Singleton
  <2>2. IsFiniteSet({k, l}) /\ Cardinality({k, l}) = 2
    <3>1. {k} \cup {l} = {k, l} /\ l \notin {k}
      BY <1>2
    <3> QED BY <2>1, <3>1, FS_AddElement
  <2>3. {k, l} \subseteq S
    OBVIOUS
  <2>4. Cardinality({k, l}) <= Cardinality(S)
    BY <1>1, <2>3, FS_Subset
  <2> QED BY <1>1, <2>2, <2>4
<1>3. ASSUME ~ \E k, l \in S : k # l PROVE ~ (Cardinality(S) > 1)
  <2>1. CASE S = {}
    BY <2>1, FS_EmptySet
  <2>2. CASE S # {}
    <3>1. PICK x \in S : TRUE
      BY <2>2
    <3>2. S = {x}
      BY <1>3, <3>1
    <3> QED BY <3>2, FS_Singleton
  <2> QED BY <2>1, <2>2
<1> QED BY <1>2, <1>3

\* What a list of emitters without issues has.
LEMMA NoIssue ==
  ASSUME NEW stages, NEW emitters, ValidateEmitters(stages, emitters) = {}
  PROVE  /\ \A k \in DOMAIN emitters :
              /\ emitters[k].node \in RolesOf(Path(stages)) /\ emitters[k].max \in 1..EmitterWidth
              /\ emitters[k].roles # <<>> /\ ToSet(emitters[k].roles) \subseteq Catalog
              /\ ToSet(emitters[k].roles) \cap EmitterRoles(emitters) = {}
              /\ emitters[k].fanIn \in Catalog /\ emitters[k].fanIn # emitters[k].node
         /\ ~ (Cardinality(EmitterRoles(emitters)) < Len(emitters))
         /\ ~ (WorstCaseSessions(stages, emitters) > SessionCap)
<1>1. \A code, found : Issue(code, found) = {} => ~ found
  BY DEF Issue
<1>2. /\ \A k \in DOMAIN emitters : ~ (emitters[k].node \notin RolesOf(Path(stages)))
      /\ \A k \in DOMAIN emitters : ~ (emitters[k].max \notin 1..EmitterWidth)
      /\ \A k \in DOMAIN emitters : ~ (emitters[k].roles = <<>>)
      /\ \A k \in DOMAIN emitters : ToSet(emitters[k].roles) \subseteq Catalog
      /\ \A k \in DOMAIN emitters : ~ (ToSet(emitters[k].roles) \cap Catalog \cap EmitterRoles(emitters) # {})
      /\ \A k \in DOMAIN emitters : ~ (emitters[k].fanIn \notin Catalog)
      /\ \A k \in DOMAIN emitters : ~ (emitters[k].fanIn \in Catalog /\ emitters[k].fanIn = emitters[k].node)
      /\ ~ (Cardinality(EmitterRoles(emitters)) < Len(emitters))
      /\ ~ (WorstCaseSessions(stages, emitters) > SessionCap)
  BY DEF ValidateEmitters, Issue
<1> QED BY <1>2

\* The path of a stage list is not empty when the list is not.
LEMMA PathIs ==
  ASSUME NEW stages \in Seq(Filleds)
  PROVE  /\ Path(stages) \in Seq(Member) /\ Len(Path(stages)) \in Nat
         /\ DOMAIN Path(stages) = 1..Len(Path(stages))
         /\ Path(stages) # <<>> => stages # <<>>
<1>1. Path(stages) \in Seq(Member)
  BY PathTyped
<1>2. stages = <<>> => Path(stages) = <<>>
  BY DEF Path, FlattenSeq
<1> QED BY <1>1, <1>2, LenProperties

\* The worst case is no less than the path.
LEMMA AtLeastNone ==
  ASSUME NEW m \in Int
  PROVE  Max({0, m}) \in Nat
<1>1. \E x \in {0, m} : \A y \in {0, m} : x >= y
  OBVIOUS
<1> QED BY <1>1 DEF Max

LEMMA WorstIsMore ==
  ASSUME NEW stages \in Seq(Filleds), NEW emitters \in Seq(Emitter)
  PROVE  WorstCaseSessions(stages, emitters) \in Nat /\ WorstCaseSessions(stages, emitters) >= Len(Path(stages))
<1> DEFINE s == [k \in DOMAIN emitters |->
                   EmitterOccurrences(emitters[k].node, stages) * (Max({0, emitters[k].max}) + 1)]
           more == FoldLeft(+, 0, s)
<1>1. Len(emitters) \in Nat /\ DOMAIN emitters = 1..Len(emitters) /\ \A k \in DOMAIN emitters : emitters[k].max \in Int
  <2>1. Len(emitters) \in Nat /\ DOMAIN emitters = 1..Len(emitters) /\ \A k \in DOMAIN emitters : emitters[k] \in Emitter
    BY LenProperties, Zenon
  <2>2. \A e \in Emitter : e.max \in Int
    BY DEF Emitter
  <2> QED BY <2>1, <2>2, Zenon
<1>2. ASSUME NEW role PROVE EmitterOccurrences(role, stages) \in Nat
  <2> DEFINE S == {k \in DOMAIN Path(stages) : Path(stages)[k].role = role}
  <2>1. IsFiniteSet(1..Len(Path(stages)))
    BY PathIs, FS_Interval
  <2>2. IsFiniteSet(S)
    BY <2>1, PathIs, FS_Subset
  <2>3. Cardinality(S) \in Nat
    BY <2>2, FS_CardinalityType
  <2> QED BY <2>3 DEF EmitterOccurrences
<1>3. \A m \in Int : Max({0, m}) + 1 \in Nat
  BY AtLeastNone
<1>4. \A a, b \in Nat : a * b \in Nat
  OBVIOUS
<1>5. s \in [1..Len(emitters) -> Nat]
  BY <1>1, <1>2, <1>3, <1>4
<1> HIDE DEF s
<1>6. s \in Seq(Nat)
  BY <1>1, <1>5, LenProperties
<1>7. more \in Nat
  BY <1>6, SumBounds
<1>8. WorstCaseSessions(stages, emitters) = Len(Path(stages)) + more
  BY DEF WorstCaseSessions, s
<1> HIDE DEF more
<1> QED BY <1>7, <1>8, PathIs

\* A slotted member that comes twice on the path comes twice in a stage, or in two.
LEMMA SlotsAreUnique ==
  ASSUME NEW stages \in Seq(Filleds), NEW m \in ToSet(Path(stages)), m.slot # 0, Times(m, Path(stages)) > 1
  PROVE  \/ \E i \in DOMAIN stages : \E x \in Slotted(stages[i]) : Times(x, stages[i]) > 1
         \/ \E i, k \in DOMAIN stages : i # k /\ Slotted(stages[i]) \cap Slotted(stages[k]) # {}
<1> DEFINE p == Path(stages)
           At == {k \in DOMAIN p : p[k] = m}
<1>1. Len(p) \in Nat /\ DOMAIN p = 1..Len(p)
  BY PathIs
<1>2. At \subseteq 1..Len(p) /\ Cardinality(At) > 1
  BY <1>1 DEF Times
<1>3. \E k, l \in At : k # l
  <2> HIDE DEF At, p
  <2> QED BY <1>1, <1>2, Twice
<1>4. PICK k \in At, l \in At : k # l
  BY <1>3
<1>5. PICK at \in [DOMAIN p -> Nat \X Nat] :
        /\ \A h \in DOMAIN p : /\ at[h][1] \in DOMAIN stages /\ at[h][2] \in DOMAIN stages[at[h][1]]
                               /\ p[h] = stages[at[h][1]][at[h][2]]
        /\ \A h, g \in DOMAIN p : at[h] = at[g] => h = g
  <2>1. Located(p, stages)
    BY PathTyped
  <2> HIDE DEF p
  <2> QED BY <2>1 DEF Located
<1>6. k \in DOMAIN p /\ l \in DOMAIN p /\ p[k] = m /\ p[l] = m
  OBVIOUS
<1> HIDE DEF p, At
<1> DEFINE i == at[k][1]  j == at[k][2]  i2 == at[l][1]  j2 == at[l][2]
<1>7. /\ i \in DOMAIN stages /\ j \in DOMAIN stages[i] /\ stages[i][j] = m
      /\ i2 \in DOMAIN stages /\ j2 \in DOMAIN stages[i2] /\ stages[i2][j2] = m
      /\ ~ (i = i2 /\ j = j2)
  BY <1>4, <1>5, <1>6
<1> HIDE DEF i, j, i2, j2
<1>8. m \in Slotted(stages[i]) /\ m \in Slotted(stages[i2])
  BY <1>7 DEF Slotted, ToSet
<1>9. CASE i # i2
  BY <1>7, <1>8, <1>9
<1>10. CASE i = i2
  <2> DEFINE In == {h \in DOMAIN stages[i] : stages[i][h] = m}
  <2>1. j \in In /\ j2 \in In /\ j # j2
    BY <1>7, <1>10
  <2>2. Len(stages[i]) \in Nat /\ In \subseteq 1..Len(stages[i])
    BY <1>7, ShapeIsSound
  <2>3. Times(m, stages[i]) = Cardinality(In)
    BY DEF Times
  <2> HIDE DEF In
  <2>4. Times(m, stages[i]) > 1
    BY <2>1, <2>2, <2>3, Twice
  <2> QED BY <1>7, <1>8, <2>4
<1> QED BY <1>9, <1>10

\* What a draft without issues has.
LEMMA NoDraftIssue ==
  ASSUME NEW stages, NEW edges, ValidateDraft(stages, edges) = {}
  PROVE  /\ ~ \E i \in DOMAIN stages : Len(stages[i]) > StageMax
         /\ ~ \E i \in DOMAIN stages : \E m \in Slotted(stages[i]) : Times(m, stages[i]) > 1
         /\ ~ \E i, k \in DOMAIN stages : i # k /\ Slotted(stages[i]) \cap Slotted(stages[k]) # {}
         /\ RolesOf(Path(stages)) \cup UNION {ToSet(edges[e].append) : e \in DOMAIN edges} \subseteq Catalog
BY DEF ValidateDraft, Issue

\* There are no more emitters than roles on the path, and no more of these than the run may have
\* sessions.
LEMMA EmittersAreFew ==
  ASSUME NEW stages \in Seq(Filleds), NEW emitters \in Seq(Emitter), ValidateEmitters(stages, emitters) = {}
  PROVE  ~ (Len(emitters) > SessionCap)
<1> DEFINE p == Path(stages)
           n == Len(p)
           roles == RolesOf(p)
           f == [k \in 1..n |-> p[k].role]
           sources == EmitterRoles(emitters)
<1>1. n \in Nat /\ DOMAIN p = 1..n /\ Len(emitters) \in Nat
  BY PathIs, LenProperties
<1>2. /\ sources \subseteq roles
      /\ ~ (Cardinality(sources) < Len(emitters)) /\ ~ (WorstCaseSessions(stages, emitters) > SessionCap)
  BY NoIssue DEF EmitterRoles
<1>3. WorstCaseSessions(stages, emitters) \in Nat /\ WorstCaseSessions(stages, emitters) >= n /\ SessionCap \in Nat
  BY WorstIsMore, GraphAssumption
<1>4. f \in Surjection(1..n, roles)
  <2>1. f \in [1..n -> roles] /\ \A x \in roles : \E k \in 1..n : f[k] = x
    BY <1>1 DEF RolesOf, ToSet
  <2> HIDE DEF f, n, roles
  <2> QED BY <2>1, Fun_IsSurj
<1>5. IsFiniteSet(roles) /\ Cardinality(roles) <= n /\ Cardinality(roles) \in Nat
  <2> HIDE DEF f, n, roles
  <2>1. IsFiniteSet(1..n) /\ Cardinality(1..n) = n
    BY <1>1, FS_Interval
  <2>2. IsFiniteSet(roles) /\ Cardinality(roles) <= n
    BY <1>4, <2>1, FS_Surjection
  <2> QED BY <2>2, FS_CardinalityType
<1> HIDE DEF n, roles, f, sources
<1>6. Cardinality(sources) \in Nat /\ Cardinality(sources) <= Cardinality(roles)
  BY <1>2, <1>5, FS_Subset, FS_CardinalityType
<1> QED BY <1>1, <1>2, <1>3, <1>5, <1>6

\* The server's checks find nothing the editor's did not, but for what it does not look at.
LEMMA Foreseen == TemplateHolds => RefusalsForeseen
<1> SUFFICES ASSUME TemplateHolds, TemplateValid PROVE Refusals(Shaped) \subseteq Unlooked
  BY DEF RefusalsForeseen
<1> DEFINE t == Shaped
<1>1. Stages \in Seq(Filleds) /\ Edges \in Seq(Edge) /\ DOMAIN Stages = 1..Len(Stages)
      /\ (\A i \in DOMAIN Stages : Stages[i] # <<>>) /\ tDraft.emitters \in Seq(Emitter)
  BY ShapeParts, StageParts DEF TemplateHolds, LineHolds, DraftHolds
<1>2. t.stages = Stages /\ t.edges = Edges /\ t.emitters = tDraft.emitters
  BY DEF Shaped, Stages, Edges
<1>3. Path(Stages) # <<>> /\ ValidateDraft(Stages, Edges) = {} /\ ValidateEmitters(Stages, tDraft.emitters) = {}
  BY DEF TemplateValid, ClientIssues, Stages, Edges
<1> HIDE DEF t
<1>4. Issue("empty-graph", t.stages = <<>>) = {}
  BY <1>1, <1>2, <1>3, PathIs DEF Issue
<1>5. Issue("too-many-nodes", Len(Path(t.stages)) > SessionCap) = {}
  <2>1. SessionCap \in Nat /\ ~ (WorstCaseSessions(Stages, tDraft.emitters) > SessionCap)
    BY <1>3, NoIssue, GraphAssumption
  <2>2. WorstCaseSessions(Stages, tDraft.emitters) \in Nat /\ Len(Path(Stages)) \in Nat
        /\ WorstCaseSessions(Stages, tDraft.emitters) >= Len(Path(Stages))
    BY <1>1, WorstIsMore, PathIs
  <2>3. ~ (Len(Path(Stages)) > SessionCap)
    BY <2>1, <2>2
  <2> QED BY <1>2, <2>3 DEF Issue
<1>6. Issue("empty-stage", <<>> \in ToSet(t.stages)) = {}
  BY <1>1, <1>2 DEF Issue, ToSet
<1>7. Issue("stage-too-wide", \E i \in DOMAIN t.stages : Len(t.stages[i]) > StageMax) = {}
  BY <1>2, <1>3, NoDraftIssue DEF Issue
<1>8. Issue("unknown-node",
             ~ (RolesOf(Path(t.stages)) \cup UNION {ToSet(e.append) : e \in ToSet(t.edges)}) \subseteq Catalog) = {}
  <2>1. UNION {ToSet(e.append) : e \in ToSet(Edges)} = UNION {ToSet(Edges[e].append) : e \in DOMAIN Edges}
    BY DEF ToSet
  <2>2. (RolesOf(Path(Stages)) \cup UNION {ToSet(e.append) : e \in ToSet(Edges)}) \subseteq Catalog
    BY <1>3, <2>1, NoDraftIssue
  <2> QED BY <1>2, <2>2 DEF Issue
<1>9. Issue("invalid-member-slot",
             \E m \in ToSet(Path(t.stages)) : m.slot # 0 /\ Times(m, Path(t.stages)) > 1) = {}
  <2>1. ~ \E m \in ToSet(Path(Stages)) : m.slot # 0 /\ Times(m, Path(Stages)) > 1
    BY <1>1, <1>3, NoDraftIssue, SlotsAreUnique
  <2> QED BY <1>2, <2>1 DEF Issue
<1>10. Issue("invalid-emitter", ServerEmitters(t))
         \subseteq Issue("invalid-emitter", \E e \in ToSet(tDraft.emitters) : Len(e.roles) > EmitterMenu)
  <2>1. ASSUME ServerEmitters(t) PROVE \E e \in ToSet(tDraft.emitters) : Len(e.roles) > EmitterMenu
    <3>1. ~ (Len(t.emitters) > SessionCap)
      BY <1>1, <1>2, <1>3, EmittersAreFew
    <3>2. PICK k \in DOMAIN t.emitters : Len(t.emitters[k].roles) > EmitterMenu
      BY <1>2, <1>3, <2>1, <3>1, NoIssue DEF ServerEmitters
    <3> QED BY <1>2, <3>2 DEF ToSet
  <2> QED BY <2>1 DEF Issue
<1>11. Issue("empty-route", \E e \in ToSet(t.edges) : e.append = <<>>) = {}
  <2>1. \A e \in DOMAIN Edges : Edges[e].append # <<>>
    <3>1. \A e \in DOMAIN Edges : Edges[e] \in Edge
      BY ShapeParts DEF TemplateHolds, LineHolds
    <3> QED BY <3>1 DEF Edge
  <2> QED BY <1>2, <2>1 DEF Issue, ToSet
<1>12. \A code, found : Issue(code, found) \subseteq {code}
  BY DEF Issue
<1> DEFINE member == Issue("invalid-member-runtime", ServerMemberRuntime(t))
           emitter == Issue("invalid-emitter", ServerEmitters(t))
           many == Issue("too-many-edges", Len(t.edges) > SessionCap)
           off == Issue("edge-source-off-path", \E e \in ToSet(t.edges) : e.node \notin RolesOf(Path(t.stages)))
           long == Issue("route-too-long", \E e \in ToSet(t.edges) : Len(e.append) > SessionCap)
<1>13. ServerRefusals(t) = member \cup emitter \cup many \cup off \cup long
  BY <1>4, <1>5, <1>6, <1>7, <1>8, <1>9, <1>11, Zenon DEF ServerRefusals
<1>14. /\ member \subseteq {"invalid-member-runtime"} /\ many \subseteq {"too-many-edges"}
       /\ off \subseteq {"edge-source-off-path"} /\ long \subseteq {"route-too-long"}
  BY <1>12
<1>15. Issue("invalid-schedule", t.schedule = "refused") \subseteq {"invalid-schedule"}
       /\ Issue("invalid-name", t.name \in {"", "overlong"}) \subseteq {"invalid-name"}
  BY <1>12
<1> HIDE DEF member, emitter, many, off, long
<1>16. emitter \subseteq Unlooked
  BY <1>10 DEF emitter, Unlooked
<1>17. Refusals(t) \subseteq Unlooked
  BY <1>13, <1>14, <1>15, <1>16 DEF Refusals, Unlooked
<1> QED BY <1>17 DEF t

(***************************************************************************)
(* The waves of a profile in the order of the night.                        *)
(***************************************************************************)
WaveRecord == [name : WaveNames, time : WaveTimes, after : Seq(WaveNames), kind : WaveKinds]
Distinct(waves) == \A i, k \in DOMAIN waves : waves[i].name = waves[k].name => i = k
Sound(waves) == waves \in Seq(WaveRecord) /\ Distinct(waves) /\ ~ FindCycle(waves)

Optional == {<<>>} \cup {<<x>> : x \in Nat}
Orderings == [WaveNames -> Optional]

\* An order is optional: none, or a number.
LEMMA OptionIs ==
  /\ <<>> \in Optional /\ \A x \in Nat : <<x>> \in Optional /\ <<x>> # <<>> /\ <<x>>[1] = x
  /\ \A o \in Optional : o # <<>> => o[1] \in Nat /\ o = <<o[1]>>
BY DEF Optional

\* What a list of waves says of each of them.
LEMMA WavesAre ==
  ASSUME NEW waves \in Seq(WaveRecord)
  PROVE  /\ Len(waves) \in Nat /\ DOMAIN waves = 1..Len(waves)
         /\ \A i \in DOMAIN waves : waves[i] \in WaveRecord /\ waves[i] \in ToSet(waves) /\ waves[i].name \in Names(waves)
         /\ \A w \in ToSet(waves) :
              /\ w \in WaveRecord /\ w.name \in WaveNames /\ w.after \in Seq(WaveNames) /\ ToSet(w.after) \subseteq WaveNames
              /\ w.name \in Names(waves) /\ \E i \in DOMAIN waves : waves[i] = w
         /\ \A n \in Names(waves) : \E i \in DOMAIN waves : waves[i].name = n
         /\ \A n \in Names(waves) : \E w \in ToSet(waves) : w.name = n
         /\ Names(waves) \subseteq WaveNames
<1>1. Len(waves) \in Nat /\ DOMAIN waves = 1..Len(waves) /\ \A i \in DOMAIN waves : waves[i] \in WaveRecord
  BY LenProperties
<1>2. \A i \in DOMAIN waves : waves[i] \in ToSet(waves) /\ waves[i].name \in Names(waves)
  BY DEF ToSet, Names
<1>3. \A w \in ToSet(waves) : \E i \in DOMAIN waves : waves[i] = w
  BY DEF ToSet
<1>4. ASSUME NEW w \in WaveRecord
      PROVE  w.name \in WaveNames /\ w.after \in Seq(WaveNames) /\ ToSet(w.after) \subseteq WaveNames
  <2>1. w.name \in WaveNames /\ w.after \in Seq(WaveNames)
    BY <1>4 DEF WaveRecord
  <2>2. \A k \in DOMAIN w.after : w.after[k] \in WaveNames
    BY <2>1, LenProperties
  <2> QED BY <2>1, <2>2 DEF ToSet
<1>5. \A n \in Names(waves) : \E w \in ToSet(waves) : w.name = n
  BY DEF Names
<1>6. \A n \in Names(waves) : \E i \in DOMAIN waves : waves[i].name = n
  BY <1>3, <1>5
<1>7. Names(waves) \subseteq WaveNames
  BY <1>1, <1>4, <1>6
<1> QED BY <1>1, <1>2, <1>3, <1>4, <1>5, <1>6, <1>7

\* Waves of one name are one wave.
LEMMA OneOfAName ==
  ASSUME NEW waves, Distinct(waves), NEW v \in ToSet(waves), NEW w \in ToSet(waves), v.name = w.name
  PROVE  v = w
BY DEF Distinct, ToSet

\* The highest of no more than n numbers.
LEMMA Highest ==
  ASSUME NEW n \in Nat, NEW f \in [1..n -> Nat], NEW S, S = {0} \cup {f[i] : i \in 1..n}
  PROVE  Max(S) \in Nat /\ \A y \in S : y <= Max(S)
<1> DEFINE Upto(k) == {0} \cup {f[i] : i \in 1..k}
           G == {k \in 0..n : \E x \in Upto(k) : \A y \in Upto(k) : x >= y}
<1>1. 0 \in G
  OBVIOUS
<1>2. ASSUME NEW k \in 1..n, k - 1 \in G PROVE k \in G
  <2>1. PICK x \in Upto(k - 1) : \A y \in Upto(k - 1) : x >= y
    BY <1>2
  <2>2. Upto(k) = Upto(k - 1) \cup {f[k]}
    <3>1. 1..k = (1..(k - 1)) \cup {k}
      OBVIOUS
    <3> QED BY <3>1
  <2>3. x \in Nat /\ f[k] \in Nat /\ k \in 0..n
    OBVIOUS
  <2>4. \A y \in Upto(k - 1) : y \in Nat
    OBVIOUS
  <2>5. \E z \in Upto(k) : \A y \in Upto(k) : z >= y
    <3> HIDE DEF Upto
    <3>1. CASE f[k] >= x
      BY <2>1, <2>2, <2>3, <2>4, <3>1
    <3>2. CASE x >= f[k]
      BY <2>1, <2>2, <2>3, <2>4, <3>2
    <3> QED BY <2>3, <3>1, <3>2
  <2> QED BY <2>3, <2>5
<1>3. 0..n \subseteq G
  <2> HIDE DEF G
  <2> QED BY <1>1, <1>2, Upward
<1>4. \E x \in S : \A y \in S : x >= y
  <2>1. n \in G
    <3> HIDE DEF G
    <3> QED BY <1>3
  <2> QED BY <2>1
<1>5. S \subseteq Nat
  OBVIOUS
<1> QED BY <1>4, <1>5 DEF Max

\* The latest upstream is no earlier than any, and depends on nothing but them.
LEMMA LatestIs ==
  ASSUME NEW o \in Orderings, NEW w, w.after \in Seq(WaveNames), \A up \in ToSet(w.after) : o[up] # <<>>
  PROVE  /\ LatestUpstream(o, w) \in Nat
         /\ \A up \in ToSet(w.after) : o[up][1] \in Nat /\ o[up][1] <= LatestUpstream(o, w)
<1> DEFINE n == Len(w.after)
           f == [i \in 1..n |-> o[w.after[i]][1]]
           S == {0} \cup {o[up][1] : up \in ToSet(w.after)}
<1>1. n \in Nat /\ DOMAIN w.after = 1..n /\ \A i \in 1..n : w.after[i] \in WaveNames
  BY LenProperties
<1>2. \A i \in 1..n : w.after[i] \in ToSet(w.after)
  BY <1>1 DEF ToSet
<1>3. \A i \in 1..n : o[w.after[i]][1] \in Nat
  BY <1>1, <1>2, OptionIs DEF Orderings
<1>4. f \in [1..n -> Nat]
  BY <1>3
<1>5. S = {0} \cup {f[i] : i \in 1..n}
  BY <1>1 DEF ToSet
<1>6. Max(S) \in Nat /\ \A y \in S : y <= Max(S)
  <2> HIDE DEF f, S
  <2> QED BY <1>1, <1>4, <1>5, Highest
<1>7. \A up \in ToSet(w.after) : o[up][1] \in Nat
  BY <1>1, <1>3 DEF ToSet
<1> QED BY <1>6, <1>7 DEF LatestUpstream

LEMMA LatestSame ==
  ASSUME NEW o, NEW p, NEW w, \A up \in ToSet(w.after) : o[up] = p[up]
  PROVE  LatestUpstream(o, w) = LatestUpstream(p, w)
<1>1. {o[up][1] : up \in ToSet(w.after)} = {p[up][1] : up \in ToSet(w.after)}
  OBVIOUS
<1> QED BY <1>1 DEF LatestUpstream

(***************************************************************************)
(* The waves of S have their place: a triggered one just after its latest    *)
(* upstream, whatever else the passes go through.                           *)
(***************************************************************************)
Settled(o, S, waves) ==
  /\ o \in Orderings /\ S \subseteq Names(waves)
  /\ \A w \in ToSet(waves) : w.name \in S =>
       /\ o[w.name] # <<>>
       /\ w.time = <<>> => ToSet(w.after) \subseteq S /\ o[w.name] = <<LatestUpstream(o, w) + 1>>

\* Placing a wave keeps what is settled, and settles the wave when its upstreams are.
LEMMA PlaceSettles ==
  ASSUME NEW waves, Sound(waves), NEW o, NEW S, Settled(o, S, waves), NEW w \in ToSet(waves)
  PROVE  /\ Place(o, w) \in Orderings /\ Settled(Place(o, w), S, waves)
         /\ (w.time = <<>> /\ ToSet(w.after) \subseteq S) => Settled(Place(o, w), S \cup {w.name}, waves)
<1> DEFINE r == LatestUpstream(o, w) + 1
           q == [o EXCEPT ![w.name] = <<r>>]
<1>1. /\ o \in Orderings /\ S \subseteq Names(waves) /\ waves \in Seq(WaveRecord) /\ Distinct(waves)
      /\ w.name \in WaveNames /\ w.after \in Seq(WaveNames) /\ ToSet(w.after) \subseteq WaveNames /\ w.name \in Names(waves)
  BY WavesAre DEF Settled, Sound
<1>2. \A up \in S : o[up] # <<>>
  <2> SUFFICES ASSUME NEW up \in S PROVE o[up] # <<>>
    OBVIOUS
  <2>1. PICK v \in ToSet(waves) : v.name = up
    BY <1>1, WavesAre
  <2> QED BY <2>1 DEF Settled
<1>3. CASE Waiting(o, w)
  <2>1. Place(o, w) = o
    BY <1>3 DEF Place
  <2>2. ~ (w.time = <<>> /\ ToSet(w.after) \subseteq S)
    BY <1>2, <1>3 DEF Waiting
  <2> QED BY <1>1, <2>1, <2>2
<1>4. CASE ~ Waiting(o, w)
  <2>1. Place(o, w) = q /\ w.time = <<>> /\ \A up \in ToSet(w.after) : o[up] # <<>>
    BY <1>4 DEF Place, Waiting
  <2>2. LatestUpstream(o, w) \in Nat /\ r \in Nat
    BY <1>1, <2>1, LatestIs
  <2> HIDE DEF r
  <2>3. q \in Orderings /\ q[w.name] = <<r>> /\ \A n \in WaveNames : n # w.name => q[n] = o[n]
    BY <1>1, <2>2, OptionIs DEF Orderings
  <2>4. CASE w.name \in S
    <3>1. o[w.name] = <<r>>
      BY <2>1, <2>4 DEF Settled, r
    <3>2. q = o
      BY <1>1, <3>1 DEF Orderings
    <3>3. S \cup {w.name} = S
      BY <2>4
    <3> QED BY <1>1, <2>1, <3>2, <3>3
  <2>5. CASE w.name \notin S
    <3> HIDE DEF q
    <3>1. ASSUME NEW v \in ToSet(waves), v.name \in S
          PROVE  /\ q[v.name] # <<>>
                 /\ v.time = <<>> => ToSet(v.after) \subseteq S /\ q[v.name] = <<LatestUpstream(q, v) + 1>>
      <4>1. q[v.name] = o[v.name] /\ o[v.name] # <<>>
        BY <1>1, <2>3, <2>5, <3>1, WavesAre DEF Settled
      <4>2. ASSUME v.time = <<>>
            PROVE  ToSet(v.after) \subseteq S /\ q[v.name] = <<LatestUpstream(q, v) + 1>>
        <5>1. ToSet(v.after) \subseteq S /\ o[v.name] = <<LatestUpstream(o, v) + 1>>
          BY <3>1, <4>2 DEF Settled
        <5>2. \A up \in ToSet(v.after) : o[up] = q[up]
          BY <1>1, <2>3, <2>5, <5>1, WavesAre
        <5>3. LatestUpstream(o, v) = LatestUpstream(q, v)
          BY <5>2, LatestSame
        <5> QED BY <4>1, <5>1, <5>3
      <4> QED BY <4>1, <4>2
    <3>2. Settled(q, S, waves)
      BY <1>1, <2>3, <3>1 DEF Settled
    <3>3. ASSUME ToSet(w.after) \subseteq S PROVE Settled(q, S \cup {w.name}, waves)
      <4>1. \A up \in ToSet(w.after) : o[up] = q[up]
        BY <1>1, <2>3, <2>5, <3>3
      <4>2. LatestUpstream(o, w) = LatestUpstream(q, w)
        BY <4>1, LatestSame
      <4>3. q[w.name] # <<>> /\ q[w.name] = <<LatestUpstream(q, w) + 1>>
        BY <2>2, <2>3, <4>2 DEF r
      <4>4. ASSUME NEW v \in ToSet(waves), v.name \in S \cup {w.name}
            PROVE  /\ q[v.name] # <<>>
                   /\ v.time = <<>> => /\ ToSet(v.after) \subseteq S \cup {w.name}
                                       /\ q[v.name] = <<LatestUpstream(q, v) + 1>>
        <5>1. CASE v.name \in S
          BY <3>1, <5>1
        <5>2. CASE v.name = w.name
          <6>1. v = w
            BY <1>1, <5>2, OneOfAName
          <6> QED BY <3>3, <4>3, <6>1
        <5> QED BY <4>4, <5>1, <5>2
      <4> QED BY <1>1, <2>3, <4>4 DEF Settled
    <3> QED BY <2>1, <2>3, <3>2, <3>3 DEF q
  <2> QED BY <2>4, <2>5
<1> QED BY <1>3, <1>4

Steps(f, waves, order) ==
  /\ f \in [0..Len(waves) -> Orderings] /\ f[0] = order
  /\ \A i \in 1..Len(waves) : f[i] = Place(f[i - 1], waves[i])
\* A pass over the waves, one wave at a time.
LEMMA PassSteps ==
  ASSUME NEW waves, Sound(waves), NEW order \in Orderings,
         \A o \in Orderings : \A w \in ToSet(waves) : Place(o, w) \in Orderings
  PROVE  \E f : Steps(f, waves, order) /\ Pass(order, waves) = f[Len(waves)]
<1> DEFINE n == Len(waves)
           step == [p \in Orderings \X (1..n) |-> Place(p[1], waves[p[2]])]
           Good(iter) == iter = [z \in SUBSET (1..n) |->
                                   IF z = {} THEN order ELSE Place(iter[z \ {Max(z)}], waves[Max(z)])]
           it == CHOOSE iter : Good(iter)
<1>0. n \in Nat /\ DOMAIN waves = 1..n /\ \A i \in 1..n : waves[i] \in ToSet(waves)
  BY WavesAre DEF Sound
<1>1. Pass(order, waves) = it[1..n]
  BY <1>0 DEF Pass, FoldLeft, MapThenFoldSet
<1>2. step \in [Orderings \X (1..n) -> Orderings]
  BY <1>0
<1>3. \A o \in Orderings : \A i \in 1..n : step[<<o, i>>] = Place(o, waves[i])
  OBVIOUS
<1>4. \E f : Good(f)
  <2>1. PICK f \in [SUBSET (1..n) -> Orderings] : Folded(f, n, order, step)
    <3> HIDE DEF step, n
    <3> QED BY <1>0, <1>2, Folding
  <2>2. ASSUME NEW z \in SUBSET (1..n), z # {} PROVE f[z] = Place(f[z \ {Max(z)}], waves[Max(z)])
    <3>1. Max(z) \in 1..n /\ z \ {Max(z)} \in SUBSET (1..n)
      <4> HIDE DEF n
      <4> QED BY <1>0, <2>2, LastOf
    <3>2. f[z] = step[<<f[z \ {Max(z)}], Max(z)>>]
      <4> HIDE DEF step, n
      <4> QED BY <2>1, <2>2 DEF Folded
    <3> HIDE DEF step, n
    <3> QED BY <1>3, <2>1, <3>1, <3>2
  <2>3. f[{}] = order /\ {} \in SUBSET (1..n)
    <3> HIDE DEF step, n
    <3> QED BY <2>1 DEF Folded
  <2>4. Good(f)
    <3> HIDE DEF step, n
    <3> QED BY <2>1, <2>2, <2>3
  <2> QED BY <2>4
<1>5. Good(it)
  <2> HIDE DEF Good
  <2> QED BY <1>4
<1>6. it[{}] = order
  <2>1. {} \in SUBSET (1..n)
    OBVIOUS
  <2> HIDE DEF it, n
  <2> QED BY <1>5, <2>1
<1>7. \A i \in 1..n : it[1..(i - 1)] \in Orderings => it[1..i] = step[<<it[1..(i - 1)], i>>]
  <2> SUFFICES ASSUME NEW i \in 1..n, it[1..(i - 1)] \in Orderings PROVE it[1..i] = step[<<it[1..(i - 1)], i>>]
    OBVIOUS
  <2> HIDE DEF it, n, step
  <2>1. 1..i \in SUBSET (1..n) /\ 1..i # {} /\ Max(1..i) = i /\ (1..i) \ {i} = 1..(i - 1)
    BY <1>0, Top
  <2>2. it[1..i] = Place(it[(1..i) \ {Max(1..i)}], waves[Max(1..i)])
    BY <1>5, <2>1
  <2>3. it[1..i] = Place(it[1..(i - 1)], waves[i])
    BY <2>1, <2>2
  <2> QED BY <1>3, <2>3
<1> HIDE DEF it, step, n
<1>11. Unrolled(it, n, Orderings, order, step)
  BY <1>0, <1>2, <1>6, <1>7 DEF Unrolled
<1>8. PICK f \in [0..n -> Orderings] : Stepwise(f, n, order, step) /\ f[n] = it[1..n]
  BY <1>11, Walked DEF Walks
<1>9. \A i \in 1..n : i - 1 \in 0..n
  BY <1>0
<1>10. Steps(f, waves, order)
  BY <1>3, <1>8, <1>9 DEF Stepwise, Steps, n
<1> QED BY <1>1, <1>8, <1>10 DEF n

Passes(f, waves) ==
  /\ f \in [0..Len(waves) -> Orderings] /\ f[0] = TimedOrder(waves)
  /\ \A i \in 1..Len(waves) : f[i] = Pass(f[i - 1], waves)
\* The order of the waves, one pass at a time.
LEMMA OrderPasses ==
  ASSUME NEW waves, Sound(waves), TimedOrder(waves) \in Orderings,
         \A o \in Orderings : Pass(o, waves) \in Orderings
  PROVE  \E f : Passes(f, waves) /\ WaveOrder(waves) = f[Len(waves)]
<1> DEFINE n == Len(waves)
           order == TimedOrder(waves)
           step == [p \in Orderings \X (1..n) |-> Pass(p[1], waves)]
           Good(iter) == iter = [z \in SUBSET (1..n) |->
                                   IF z = {} THEN order ELSE Pass(iter[z \ {Max(z)}], waves)]
           it == CHOOSE iter : Good(iter)
<1>0. n \in Nat /\ DOMAIN waves = 1..n /\ order \in Orderings
  BY WavesAre DEF Sound
<1>1. WaveOrder(waves) = it[1..n]
  BY <1>0 DEF WaveOrder, FoldLeft, MapThenFoldSet
<1> HIDE DEF order
<1>2. step \in [Orderings \X (1..n) -> Orderings]
  BY <1>0
<1>3. \A o \in Orderings : \A i \in 1..n : step[<<o, i>>] = Pass(o, waves)
  OBVIOUS
<1>4. \E f : Good(f)
  <2>1. PICK f \in [SUBSET (1..n) -> Orderings] : Folded(f, n, order, step)
    <3> HIDE DEF step, n
    <3> QED BY <1>0, <1>2, Folding
  <2>2. ASSUME NEW z \in SUBSET (1..n), z # {} PROVE f[z] = Pass(f[z \ {Max(z)}], waves)
    <3>1. Max(z) \in 1..n /\ z \ {Max(z)} \in SUBSET (1..n)
      <4> HIDE DEF n
      <4> QED BY <1>0, <2>2, LastOf
    <3>2. f[z] = step[<<f[z \ {Max(z)}], Max(z)>>]
      <4> HIDE DEF step, n
      <4> QED BY <2>1, <2>2 DEF Folded
    <3> HIDE DEF step, n
    <3> QED BY <1>3, <2>1, <3>1, <3>2
  <2>3. f[{}] = order /\ {} \in SUBSET (1..n)
    <3> HIDE DEF step, n
    <3> QED BY <2>1 DEF Folded
  <2>4. Good(f)
    <3> HIDE DEF step, n
    <3> QED BY <2>1, <2>2, <2>3
  <2> QED BY <2>4
<1>5. Good(it)
  <2> HIDE DEF Good
  <2> QED BY <1>4
<1>6. it[{}] = order
  <2>1. {} \in SUBSET (1..n)
    OBVIOUS
  <2> HIDE DEF it, n
  <2> QED BY <1>5, <2>1
<1>7. \A i \in 1..n : it[1..(i - 1)] \in Orderings => it[1..i] = step[<<it[1..(i - 1)], i>>]
  <2> SUFFICES ASSUME NEW i \in 1..n, it[1..(i - 1)] \in Orderings PROVE it[1..i] = step[<<it[1..(i - 1)], i>>]
    OBVIOUS
  <2> HIDE DEF it, n, step
  <2>1. 1..i \in SUBSET (1..n) /\ 1..i # {} /\ Max(1..i) = i /\ (1..i) \ {i} = 1..(i - 1)
    BY <1>0, Top
  <2>2. it[1..i] = Pass(it[(1..i) \ {Max(1..i)}], waves)
    BY <1>5, <2>1
  <2>3. it[1..i] = Pass(it[1..(i - 1)], waves)
    BY <2>1, <2>2
  <2> QED BY <1>3, <2>3
<1> HIDE DEF it, step, n
<1>8. Unrolled(it, n, Orderings, order, step)
  BY <1>0, <1>2, <1>6, <1>7 DEF Unrolled
<1>11. PICK f \in [0..n -> Orderings] : Stepwise(f, n, order, step) /\ f[n] = it[1..n]
  BY <1>8, Walked DEF Walks
<1>12. \A i \in 1..n : i - 1 \in 0..n
  BY <1>0
<1>13. Passes(f, waves)
  BY <1>3, <1>11, <1>12 DEF Stepwise, Passes, n, order
<1> QED BY <1>1, <1>11, <1>13 DEF n

(***************************************************************************)
(* A pass settles the waves whose upstreams are settled.                    *)
(***************************************************************************)
Ready(S, waves) == S \cup {w.name : w \in {v \in ToSet(waves) : v.time = <<>> /\ ToSet(v.after) \subseteq S}}

\* Settled sets add up.
LEMMA SettledMore ==
  ASSUME NEW waves, NEW o, NEW S, NEW T, Settled(o, S, waves), Settled(o, T, waves)
  PROVE  Settled(o, S \cup T, waves)
BY DEF Settled

\* Placing a wave gives an order.
LEMMA PlaceIsOrdering ==
  ASSUME NEW waves, Sound(waves), NEW o \in Orderings, NEW w \in ToSet(waves)
  PROVE  Place(o, w) \in Orderings
<1>1. Settled(o, {}, waves)
  BY DEF Settled
<1> QED BY <1>1, PlaceSettles

\* A pass settles every wave that is ready.
LEMMA PassSettles ==
  ASSUME NEW waves, Sound(waves), NEW o, NEW S, Settled(o, S, waves)
  PROVE  Pass(o, waves) \in Orderings /\ Settled(Pass(o, waves), Ready(S, waves), waves)
<1> DEFINE n == Len(waves)
<1>1. n \in Nat /\ DOMAIN waves = 1..n /\ (\A i \in 1..n : waves[i] \in ToSet(waves)) /\ o \in Orderings
      /\ \A w \in ToSet(waves) : \E i \in 1..n : waves[i] = w
  BY WavesAre DEF Sound, Settled
<1>2. PICK f : Steps(f, waves, o) /\ Pass(o, waves) = f[n]
  BY <1>1, PassSteps, PlaceIsOrdering
<1> DEFINE Done(k) == S \cup {waves[i].name : i \in {h \in 1..k : waves[h].time = <<>> /\ ToSet(waves[h].after) \subseteq S}}
           G == {k \in 0..n : Settled(f[k], S, waves) /\ Settled(f[k], Done(k), waves)}
<1>3. 0 \in G
  <2>1. Done(0) = S /\ 0 \in 0..n /\ f[0] = o
    BY <1>1, <1>2 DEF Steps
  <2> QED BY <2>1
<1>4. ASSUME NEW k \in 1..n, k - 1 \in G PROVE k \in G
  <2>1. f[k] = Place(f[k - 1], waves[k]) /\ waves[k] \in ToSet(waves) /\ k \in 0..n
    BY <1>1, <1>2 DEF Steps
  <2>2. Settled(f[k - 1], S, waves) /\ Settled(f[k - 1], Done(k - 1), waves)
    BY <1>4
  <2>3. Settled(f[k], S, waves) /\ Settled(f[k], Done(k - 1), waves)
        /\ (waves[k].time = <<>> /\ ToSet(waves[k].after) \subseteq S => Settled(f[k], S \cup {waves[k].name}, waves))
    <3> HIDE DEF Done, G
    <3> QED BY <2>1, <2>2, PlaceSettles
  <2>4. Done(k) = IF waves[k].time = <<>> /\ ToSet(waves[k].after) \subseteq S
                  THEN Done(k - 1) \cup (S \cup {waves[k].name}) ELSE Done(k - 1)
    <3>1. 1..k = (1..(k - 1)) \cup {k}
      OBVIOUS
    <3> QED BY <3>1
  <2>5. Settled(f[k], Done(k), waves)
    <3> HIDE DEF Done, G
    <3> QED BY <2>3, <2>4, SettledMore
  <2> QED BY <2>1, <2>3, <2>5
<1>5. n \in G
  <2>1. 0..n \subseteq G
    <3> HIDE DEF G
    <3> QED BY <1>1, <1>3, <1>4, Upward
  <2> HIDE DEF G
  <2> QED BY <1>1, <2>1
<1>6. Done(n) = Ready(S, waves)
  BY <1>1 DEF Ready
<1>7. Settled(f[n], Ready(S, waves), waves)
  BY <1>5, <1>6
<1> QED BY <1>2, <1>7 DEF Settled

\* A pass gives an order.
LEMMA PassIsOrdering ==
  ASSUME NEW waves, Sound(waves), NEW o \in Orderings
  PROVE  Pass(o, waves) \in Orderings
<1>1. Settled(o, {}, waves)
  BY DEF Settled
<1> QED BY <1>1, PassSettles

(***************************************************************************)
(* The timed waves have their place from the start.                         *)
(***************************************************************************)
Timed(waves) == {w.name : w \in {v \in ToSet(waves) : v.time # <<>>}}
\* The timed waves are settled before the first pass.
LEMMA TimedSettled ==
  ASSUME NEW waves, Sound(waves), Readable(waves)
  PROVE  TimedOrder(waves) \in Orderings /\ Settled(TimedOrder(waves), Timed(waves), waves)
<1>0. waves \in Seq(WaveRecord) /\ Distinct(waves)
  BY DEF Sound
<1> DEFINE At(n) == {w \in ToSet(waves) : w.name = n /\ w.time # <<>>}
           high(n) == Max({NightOrder(w.time) : w \in At(n)})
<1>1. ASSUME NEW n, At(n) # {} PROVE high(n) \in Nat
  <2>1. PICK w \in At(n) : TRUE
    BY <1>1
  <2>2. At(n) = {w}
    BY <1>0, <2>1, OneOfAName
  <2>3. w.time \in Nat \X Nat
    BY <2>1 DEF Readable
  <2>4. NightOrder(w.time) \in Nat
    <3>1. w.time[1] \in Nat /\ w.time[2] \in Nat
      BY <2>3
    <3>2. ASSUME NEW a \in Nat, NEW b \in Nat
          PROVE  (IF a < 12 THEN (a + 24) * 60 + b ELSE a * 60 + b) \in Nat
      OBVIOUS
    <3> QED BY <3>1, <3>2 DEF NightOrder
  <2>5. {NightOrder(v.time) : v \in At(n)} = {NightOrder(w.time)}
    BY <2>2
  <2>6. \A x \in Nat : Max({x}) = x
    BY DEF Max
  <2> QED BY <2>4, <2>5, <2>6
<1>2. TimedOrder(waves) = [n \in WaveNames |-> IF At(n) = {} THEN <<>> ELSE <<high(n)>>]
  BY DEF TimedOrder
<1> HIDE DEF high, At
<1>3. TimedOrder(waves) \in Orderings
  BY <1>1, <1>2, OptionIs DEF Orderings
<1>4. ASSUME NEW w \in ToSet(waves), w.name \in Timed(waves)
      PROVE  TimedOrder(waves)[w.name] # <<>> /\ w.time # <<>>
  <2>1. PICK v \in ToSet(waves) : v.time # <<>> /\ v.name = w.name
    BY <1>4 DEF Timed
  <2>2. v = w
    BY <1>0, <2>1, OneOfAName
  <2>3. w \in At(w.name) /\ w.name \in WaveNames
    BY <1>0, <2>1, <2>2, WavesAre DEF At
  <2> QED BY <1>2, <2>1, <2>2, <2>3
<1>5. Timed(waves) \subseteq Names(waves)
  BY DEF Timed, Names
<1> QED BY <1>3, <1>4, <1>5 DEF Settled

(***************************************************************************)
(* As many passes as there are waves settle all that hang on timed ones.    *)
(***************************************************************************)
AfterName(waves, n) == UNION {ToSet(w.after) : w \in {v \in ToSet(waves) : v.name = n}}
Grounded(waves) == UNION {s \in SUBSET Names(waves) : \A n \in s : AfterName(waves, n) \subseteq s}

\* As many names as waves: no name twice.
LEMMA NamesCounted ==
  ASSUME NEW waves \in Seq(WaveRecord)
  PROVE  /\ IsFiniteSet(Names(waves)) /\ Cardinality(Names(waves)) <= Len(waves)
         /\ Cardinality(Names(waves)) = Len(waves) => Distinct(waves)
<1> DEFINE n == Len(waves)
           f == [i \in 1..n |-> waves[i].name]
<1>1. n \in Nat /\ DOMAIN waves = 1..n
  BY WavesAre
<1>2. IsFiniteSet(1..n) /\ Cardinality(1..n) = n
  <2> HIDE DEF n
  <2> QED BY <1>1, FS_Interval
<1>3. f \in Surjection(1..n, Names(waves))
  <2>1. f \in [1..n -> Names(waves)]
    BY <1>1, WavesAre
  <2>2. \A x \in Names(waves) : \E i \in 1..n : f[i] = x
    BY <1>1, WavesAre
  <2> HIDE DEF f, n
  <2> QED BY <2>1, <2>2, Fun_IsSurj
<1>4. /\ IsFiniteSet(Names(waves)) /\ Cardinality(Names(waves)) <= n
      /\ Cardinality(Names(waves)) = n => f \in Injection(1..n, Names(waves))
  <2> HIDE DEF f, n
  <2> QED BY <1>2, <1>3, FS_Surjection
<1>5. ASSUME f \in Injection(1..n, Names(waves)) PROVE Distinct(waves)
  <2>1. \A i, k \in 1..n : f[i] = f[k] => i = k
    <3> HIDE DEF f, n
    <3> QED BY <1>5, Fun_InjectionProperties
  <2> QED BY <1>1, <2>1 DEF Distinct
<1> QED BY <1>4, <1>5

\* A grounded wave waits on grounded waves.
LEMMA GroundedIs ==
  ASSUME NEW waves, NEW w \in ToSet(waves), w.name \in Grounded(waves)
  PROVE  ToSet(w.after) \subseteq Grounded(waves)
<1>1. PICK s \in SUBSET Names(waves) : w.name \in s /\ \A n \in s : AfterName(waves, n) \subseteq s
  BY DEF Grounded
<1>2. ToSet(w.after) \subseteq AfterName(waves, w.name)
  BY DEF AfterName
<1>3. s \subseteq Grounded(waves)
  BY <1>1 DEF Grounded
<1> QED BY <1>1, <1>2, <1>3

\* What no pass settles any more, though it is grounded, is a ring.
LEMMA NoRestIsGrounded ==
  ASSUME NEW waves, Sound(waves), NEW S, Timed(waves) \subseteq S, S \subseteq Names(waves), Ready(S, waves) = S
  PROVE  Grounded(waves) \subseteq S
<1> DEFINE rest == Grounded(waves) \ S
<1>0. waves \in Seq(WaveRecord) /\ Distinct(waves) /\ ~ FindCycle(waves)
  BY DEF Sound
<1>1. ASSUME rest # {} PROVE FALSE
  <2>1. rest \in (SUBSET Names(waves)) \ {{}}
    BY <1>1 DEF Grounded
  <2>2. ASSUME NEW n \in rest PROVE \E w \in ToSet(waves) : w.name = n /\ ToSet(w.after) \cap rest # {}
    <3>1. PICK w \in ToSet(waves) : w.name = n
      BY <1>0, <2>1, <2>2, WavesAre
    <3>2. w.time = <<>>
      BY <2>2, <3>1 DEF Timed
    <3>3. ~ (ToSet(w.after) \subseteq S)
      BY <2>2, <3>1, <3>2 DEF Ready
    <3>4. ToSet(w.after) \subseteq Grounded(waves)
      BY <2>2, <3>1, GroundedIs
    <3> QED BY <3>1, <3>3, <3>4
  <2> HIDE DEF rest
  <2>3. FindCycle(waves)
    BY <2>1, <2>2 DEF FindCycle
  <2> QED BY <1>0, <2>3
<1> QED BY <1>1

\* The order settles every grounded wave.
LEMMA AllSettled ==
  ASSUME NEW waves, Sound(waves), Readable(waves)
  PROVE  \E S : Settled(WaveOrder(waves), S, waves) /\ Grounded(waves) \subseteq S
<1> DEFINE n == Len(waves)
           N == Names(waves)
<1>0. waves \in Seq(WaveRecord) /\ n \in Nat /\ IsFiniteSet(N) /\ Cardinality(N) \in Nat /\ Cardinality(N) <= n
  BY WavesAre, NamesCounted, FS_CardinalityType DEF Sound
<1>1. PICK f : Passes(f, waves) /\ WaveOrder(waves) = f[n]
  BY TimedSettled, PassIsOrdering, OrderPasses
<1> DEFINE Far(S, k) == Timed(waves) \subseteq S /\ (Grounded(waves) \subseteq S \/ Cardinality(S) >= k)
           G == {k \in 0..n : \E S : Settled(f[k], S, waves) /\ Far(S, k)}
<1>2. 0 \in G
  <2>1. Settled(f[0], Timed(waves), waves)
    BY <1>1, TimedSettled DEF Passes
  <2>2. Timed(waves) \subseteq N
    BY DEF Timed, Names
  <2>3. Cardinality(Timed(waves)) \in Nat
    BY <1>0, <2>2, FS_Subset, FS_CardinalityType
  <2> QED BY <1>0, <2>1, <2>3
<1>3. ASSUME NEW k \in 1..n, k - 1 \in G PROVE k \in G
  <2>1. PICK S : Settled(f[k - 1], S, waves) /\ Far(S, k - 1)
    BY <1>3
  <2>2. f[k] = Pass(f[k - 1], waves) /\ k \in 0..n
    BY <1>1 DEF Passes
  <2> DEFINE T == Ready(S, waves)
  <2>3. Settled(f[k], T, waves)
    BY <2>1, <2>2, PassSettles
  <2>4. S \subseteq N /\ T \subseteq N /\ S \subseteq T
    BY <2>1, <2>3 DEF Settled, Ready
  <2>5. Timed(waves) \subseteq T
    BY <2>1, <2>4
  <2>6. CASE Grounded(waves) \subseteq S
    BY <2>2, <2>3, <2>4, <2>5, <2>6
  <2>7. CASE ~ (Grounded(waves) \subseteq S)
    <3>1. Cardinality(S) >= k - 1
      BY <2>1, <2>7
    <3>2. T # S
      BY <2>1, <2>4, <2>7, NoRestIsGrounded
    <3> HIDE DEF T
    <3>3. IsFiniteSet(T) /\ IsFiniteSet(S) /\ Cardinality(T) \in Nat /\ Cardinality(S) \in Nat
      BY <1>0, <2>4, FS_Subset, FS_CardinalityType
    <3>4. Cardinality(S) <= Cardinality(T) /\ Cardinality(S) # Cardinality(T)
      BY <2>4, <3>2, <3>3, FS_Subset
    <3>5. Cardinality(T) >= k
      BY <3>1, <3>3, <3>4
    <3> QED BY <2>2, <2>3, <2>5, <3>5
  <2> QED BY <2>6, <2>7
<1>4. n \in G
  <2>1. 0..n \subseteq G
    <3> HIDE DEF G, n
    <3> QED BY <1>0, <1>2, <1>3, Upward
  <2> HIDE DEF G
  <2> QED BY <1>0, <2>1
<1>5. PICK S : Settled(f[n], S, waves) /\ Far(S, n)
  BY <1>4
<1>6. Grounded(waves) \subseteq S
  <2>1. CASE Cardinality(S) >= n
    <3>1. S \subseteq N
      BY <1>5 DEF Settled
    <3>2. IsFiniteSet(S) /\ Cardinality(S) \in Nat /\ Cardinality(S) <= Cardinality(N)
      BY <1>0, <3>1, FS_Subset, FS_CardinalityType
    <3>3. Cardinality(S) = Cardinality(N)
      BY <1>0, <2>1, <3>2
    <3>4. S = N
      BY <1>0, <3>1, <3>3, FS_Subset
    <3> QED BY <3>4 DEF Grounded
  <2> QED BY <1>5, <2>1
<1> QED BY <1>1, <1>5, <1>6

(***************************************************************************)
(* The list shown: the waves in the order of their places.                  *)
(***************************************************************************)
PlaceOf(order, w) == IF order[w.name] = <<>> THEN Never ELSE order[w.name][1]
\* The list shown is the list of waves, by their places.
LEMMA Shown ==
  ASSUME NEW waves, Sound(waves), WaveOrder(waves) \in Orderings
  PROVE  \E r \in [DOMAIN waves -> DOMAIN waves] :
           /\ OrderWaves(waves) = [k \in DOMAIN waves |-> waves[r[k]]]
           /\ \A i \in DOMAIN waves : \E k \in DOMAIN waves : r[k] = i
           /\ \A k, l \in DOMAIN waves : k < l => /\ r[k] # r[l]
                                                  /\ PlaceOf(WaveOrder(waves), waves[r[k]]) <= PlaceOf(WaveOrder(waves), waves[r[l]])
<1> DEFINE order == WaveOrder(waves)
           D == DOMAIN waves
           n == Len(waves)
           at(i) == IF order[waves[i].name] = <<>> THEN Never ELSE order[waves[i].name][1]
           R == {p \in D \X D : at(p[1]) < at(p[2]) \/ (at(p[1]) = at(p[2]) /\ p[1] <= p[2])}
           upTo(x) == {y \in D : at(y) < at(x) \/ (at(y) = at(x) /\ y <= x)}
           r == [k \in 1..Cardinality(D) |-> CHOOSE x \in D : Cardinality(upTo(x)) = k]
<1>0. /\ n \in Nat /\ D = 1..n /\ \A i \in D : waves[i].name \in WaveNames
      /\ order \in Orderings
  BY WavesAre DEF Sound
<1>1. \A i \in D : at(i) \in Nat /\ i \in Nat
  <2> SUFFICES ASSUME NEW i \in D PROVE at(i) \in Nat /\ i \in Nat
    OBVIOUS
  <2> HIDE DEF order
  <2>1. order[waves[i].name] \in Optional
    BY <1>0 DEF Orderings
  <2> QED BY <1>0, <2>1, OptionIs DEF Never
<1>2. IsFiniteSet(D) /\ Cardinality(D) = n
  <2> HIDE DEF D, n
  <2> QED BY <1>0, FS_Interval
<1>3. OrderWaves(waves) = [k \in D |-> waves[r[k]]]
  BY DEF OrderWaves, Ranked
<1>12. \A x \in D : Below(D, R, x) = upTo(x)
  BY DEF Below
<1> HIDE DEF at, D, order, upTo
<1>4. \A p \in D \X D : p \in R <=> at(p[1]) < at(p[2]) \/ (at(p[1]) = at(p[2]) /\ p[1] <= p[2])
  OBVIOUS
<1>5. \A x, y \in D : <<x, y>> \in R <=> at(x) < at(y) \/ (at(x) = at(y) /\ x <= y)
  BY <1>4
<1> HIDE DEF R
<1>6. Orders(R, D)
  <2>1. \A x \in D : <<x, x>> \in R
    BY <1>1, <1>5
  <2>2. \A x, y \in D : <<x, y>> \in R \/ <<y, x>> \in R
    <3> SUFFICES ASSUME NEW x \in D, NEW y \in D PROVE <<x, y>> \in R \/ <<y, x>> \in R
      OBVIOUS
    <3>1. at(x) \in Nat /\ at(y) \in Nat /\ x \in Nat /\ y \in Nat
      BY <1>1
    <3> QED BY <1>5, <3>1
  <2>3. \A x, y \in D : <<x, y>> \in R /\ <<y, x>> \in R => x = y
    BY <1>1, <1>5
  <2>4. \A x, y, z \in D : <<x, y>> \in R /\ <<y, z>> \in R => <<x, z>> \in R
    BY <1>1, <1>5
  <2> QED BY <2>1, <2>2, <2>3, <2>4 DEF Orders
<1>7. Ranking(r, D, R)
  <2>1. \A k \in 1..Cardinality(D) : \E x \in D : Cardinality(Below(D, R, x)) = k
    BY <1>2, <1>6, Ranks
  <2>2. ASSUME NEW k \in 1..Cardinality(D) PROVE r[k] \in D /\ Cardinality(Below(D, R, r[k])) = k
    <3>1. \E x \in D : Cardinality(upTo(x)) = k
      BY <1>12, <2>1
    <3>2. r[k] \in D /\ Cardinality(upTo(r[k])) = k
      BY <3>1
    <3> QED BY <1>12, <3>2
  <2>3. r = [k \in 1..Cardinality(D) |-> r[k]]
    OBVIOUS
  <2> HIDE DEF r
  <2> QED BY <2>2, <2>3 DEF Ranking
<1> HIDE DEF r
<1>8. /\ r \in Bijection(1..n, D)
      /\ \A k, l \in 1..n : k < l => <<r[k], r[l]>> \in R /\ r[k] # r[l]
      /\ \A x \in D : \E k \in 1..n : r[k] = x
  BY <1>2, <1>6, <1>7, RankedInOrder
<1>9. r \in [D -> D]
  BY <1>0, <1>8 DEF Bijection, Injection
<1>10. ASSUME NEW k \in D, NEW l \in D, k < l PROVE r[k] # r[l] /\ at(r[k]) <= at(r[l])
  <2>1. <<r[k], r[l]>> \in R /\ r[k] # r[l] /\ r[k] \in D /\ r[l] \in D
    BY <1>0, <1>8, <1>9, <1>10
  <2> QED BY <1>1, <1>5, <2>1
<1>11. \A i : at(i) = PlaceOf(order, waves[i])
  BY DEF at, PlaceOf
<1> QED BY <1>0, <1>3, <1>8, <1>9, <1>10, <1>11 DEF D, order

\* A triggered wave is shown below each of its upstreams.
LEMMA ListedAfter ==
  ASSUME NEW waves, Sound(waves), Readable(waves), NEW w \in ToSet(waves), w.time = <<>>, w.name \in Grounded(waves),
         NEW up \in ToSet(w.after)
  PROVE  LET shown == OrderWaves(waves)
             place(n) == CHOOSE i \in DOMAIN shown : shown[i].name = n
         IN  place(up) < place(w.name)
<1> DEFINE shown == OrderWaves(waves)
           place(n) == CHOOSE i \in DOMAIN shown : shown[i].name = n
           order == WaveOrder(waves)
<1>0. waves \in Seq(WaveRecord) /\ Distinct(waves)
  BY DEF Sound
<1>1. PICK S : Settled(order, S, waves) /\ Grounded(waves) \subseteq S
  BY AllSettled
<1>2. /\ order \in Orderings /\ up \in S /\ S \subseteq Names(waves)
      /\ order[w.name] = <<LatestUpstream(order, w) + 1>> /\ ToSet(w.after) \subseteq S
  BY <1>1 DEF Settled
<1>3. \A x \in ToSet(w.after) : order[x] # <<>>
  <2> SUFFICES ASSUME NEW x \in ToSet(w.after) PROVE order[x] # <<>>
    OBVIOUS
  <2>1. PICK v \in ToSet(waves) : v.name = x
    BY <1>0, <1>2, WavesAre
  <2> QED BY <1>1, <1>2, <2>1 DEF Settled
<1> HIDE DEF order
<1>4. /\ LatestUpstream(order, w) \in Nat /\ order[up][1] \in Nat /\ order[up][1] <= LatestUpstream(order, w)
      /\ order[up] # <<>>
  BY <1>0, <1>2, <1>3, LatestIs, WavesAre
<1>5. order[w.name] # <<>> /\ order[w.name][1] = LatestUpstream(order, w) + 1
  BY <1>2
<1>6. PICK r \in [DOMAIN waves -> DOMAIN waves] :
           /\ shown = [k \in DOMAIN waves |-> waves[r[k]]]
           /\ \A i \in DOMAIN waves : \E k \in DOMAIN waves : r[k] = i
           /\ \A k, l \in DOMAIN waves : k < l => r[k] # r[l] /\ PlaceOf(order, waves[r[k]]) <= PlaceOf(order, waves[r[l]])
  BY <1>2, Shown DEF order
<1>7. ASSUME NEW n \in Names(waves) PROVE place(n) \in DOMAIN waves /\ waves[r[place(n)]].name = n
  <2>1. PICK i \in DOMAIN waves : waves[i].name = n
    BY <1>0, WavesAre
  <2>2. PICK k \in DOMAIN waves : r[k] = i
    BY <1>6
  <2>3. k \in DOMAIN shown /\ shown[k].name = n
    BY <1>6, <2>1, <2>2
  <2>4. place(n) \in DOMAIN shown /\ shown[place(n)].name = n
    <3> HIDE DEF shown
    <3> QED BY <2>3
  <2> HIDE DEF place
  <2> QED BY <1>6, <2>4
<1>8. w.name \in Names(waves) /\ up \in Names(waves)
  BY <1>0, <1>2, WavesAre
<1> HIDE DEF place, shown
<1> DEFINE k == place(up)
           l == place(w.name)
<1>9. /\ k \in DOMAIN waves /\ waves[r[k]].name = up /\ l \in DOMAIN waves /\ waves[r[l]].name = w.name
      /\ k \in Nat /\ l \in Nat
  <2>1. DOMAIN waves = 1..Len(waves) /\ Len(waves) \in Nat
    BY <1>0, WavesAre
  <2> QED BY <1>7, <1>8, <2>1
<1> HIDE DEF k, l
<1>10. PlaceOf(order, waves[r[k]]) = order[up][1] /\ PlaceOf(order, waves[r[l]]) = LatestUpstream(order, w) + 1
  BY <1>4, <1>5, <1>9 DEF PlaceOf
<1>11. k # l
  BY <1>4, <1>10
<1>12. ~ (l < k)
  <2>1. ASSUME l < k PROVE FALSE
    <3>1. PlaceOf(order, waves[r[l]]) <= PlaceOf(order, waves[r[k]])
      BY <1>6, <1>9, <2>1
    <3> QED BY <1>4, <1>10, <3>1
  <2> QED BY <2>1
<1>13. k < l
  BY <1>9, <1>11, <1>12
<1> QED BY <1>13 DEF k, l, place, shown

(***************************************************************************)
(* What the form and the list make of a sound list of waves.                *)
(***************************************************************************)
LEMMA FewerWaves ==
  ASSUME NEW a, NEW b, ToSet(a) \subseteq ToSet(b), ~ FindCycle(b)
  PROVE  ~ FindCycle(a)
<1>1. Names(a) \subseteq Names(b)
  BY DEF Names
<1>2. ASSUME FindCycle(a) PROVE FindCycle(b)
  <2>1. PICK ring \in (SUBSET Names(a)) \ {{}} :
          \A n \in ring : \E w \in ToSet(a) : w.name = n /\ ToSet(w.after) \cap ring # {}
    BY <1>2 DEF FindCycle
  <2>2. ring \in (SUBSET Names(b)) \ {{}}
    BY <1>1, <2>1
  <2>3. \A n \in ring : \E w \in ToSet(b) : w.name = n /\ ToSet(w.after) \cap ring # {}
    BY <2>1
  <2> QED BY <2>2, <2>3 DEF FindCycle
<1> QED BY <1>2

\* The builtin waves, a list with one taken out, and one with a wave put in.
LEMMA SoundBuiltin == Sound(Builtin)
<1>1. Builtin \in Seq(WaveRecord) /\ Cardinality(Names(Builtin)) = Len(Builtin) /\ ~ FindCycle(Builtin)
  BY WaveAssumption DEF WaveRecord
<1> QED BY <1>1, NamesCounted DEF Sound

WavesBut(waves, name) == Matching(waves, LAMBDA w : w.name # name)
LEMMA SoundBut ==
  ASSUME NEW waves, Sound(waves), NEW name
  PROVE  Sound(WavesBut(waves, name)) /\ ToSet(WavesBut(waves, name)) = {w \in ToSet(waves) : w.name # name}
<1> DEFINE S == {waves[i] : i \in {k \in DOMAIN waves : waves[k].name # name}}
           kept == Kept(waves, S)
<1>0. waves \in Seq(WaveRecord) /\ Distinct(waves) /\ ~ FindCycle(waves)
  BY DEF Sound
<1>1. WavesBut(waves, name) = kept
  BY DEF Matching, WavesBut
<1>2. ToSet(waves) \cap S = {w \in ToSet(waves) : w.name # name}
  BY DEF ToSet
<1> HIDE DEF S
<1>3. kept \in Seq(WaveRecord) /\ ToSet(kept) = ToSet(waves) \cap S
  BY <1>0, KeptMembers
<1>4. ~ FindCycle(kept)
  <2> HIDE DEF kept
  <2>1. ToSet(kept) \subseteq ToSet(waves)
    BY <1>3
  <2> QED BY <1>0, <2>1, FewerWaves
<1>5. Distinct(kept)
  <2>1. PICK place \in Bijection(1..Len(kept), Places(waves, S)) : \A k \in DOMAIN place : kept[k] = waves[place[k]]
    BY <1>0, KeptInOrder
  <2> HIDE DEF kept
  <2>2. DOMAIN kept = 1..Len(kept)
    BY <1>3, LenProperties
  <2>3. /\ place \in [1..Len(kept) -> Places(waves, S)]
        /\ \A i, k \in 1..Len(kept) : place[i] = place[k] => i = k
    BY <2>1, Fun_BijectionProperties
  <2>4. Places(waves, S) \subseteq DOMAIN waves
    BY DEF Places
  <2>5. ASSUME NEW i \in 1..Len(kept), NEW k \in 1..Len(kept), kept[i].name = kept[k].name PROVE i = k
    <3>1. waves[place[i]].name = waves[place[k]].name /\ place[i] \in DOMAIN waves /\ place[k] \in DOMAIN waves
      BY <2>1, <2>3, <2>4, <2>5
    <3> QED BY <1>0, <2>3, <3>1 DEF Distinct
  <2> QED BY <2>2, <2>5 DEF Distinct
<1>6. Sound(kept)
  <2> HIDE DEF kept
  <2> QED BY <1>3, <1>4, <1>5 DEF Sound
<1> HIDE DEF kept
<1> QED BY <1>1, <1>2, <1>3, <1>6

\* The members of a list with one more.
LEMMA AppendMembers ==
  ASSUME NEW T, NEW s \in Seq(T), NEW x \in T
  PROVE  ToSet(Append(s, x)) = ToSet(s) \cup {x}
<1> DEFINE n == Len(s)
           q == Append(s, x)
<1>1. n \in Nat /\ DOMAIN s = 1..n /\ DOMAIN q = 1..(n + 1) /\ (\A i \in 1..n : q[i] = s[i]) /\ q[n + 1] = x
  BY AppendProperties, LenProperties
<1> HIDE DEF n, q
<1>2. \A j \in 1..(n + 1) : j \in 1..n \/ j = n + 1
  BY <1>1
<1>3. \A j \in 1..n : j \in 1..(n + 1)
  BY <1>1
<1>4. n + 1 \in 1..(n + 1)
  BY <1>1
<1>5. ToSet(q) \subseteq ToSet(s) \cup {x}
  BY <1>1, <1>2 DEF ToSet
<1>6. ToSet(s) \cup {x} \subseteq ToSet(q)
  BY <1>1, <1>3, <1>4 DEF ToSet
<1> QED BY <1>5, <1>6 DEF q

Upserted(waves, w, name) ==
  LET at == {i \in DOMAIN waves : waves[i].name = name}
  IN  IF at = {} THEN Append(waves, w) ELSE [waves EXCEPT ![Min(at)] = w]
Renames(waves, w, name) == \A o \in ToSet(waves) : o.name = w.name => o.name = name
\* A wave the form accepts leaves a sound list.
LEMMA SoundUpsert ==
  ASSUME NEW waves, Sound(waves), NEW w \in WaveRecord, NEW name, Renames(waves, w, name),
         ~ FindCycle(Append(WavesBut(waves, w.name), w))
  PROVE  Sound(Upserted(waves, w, name))
<1> DEFINE at == {i \in DOMAIN waves : waves[i].name = name}
           others == WavesBut(waves, w.name)
           checked == Append(others, w)
           next == IF at = {} THEN Append(waves, w) ELSE [waves EXCEPT ![Min(at)] = w]
           n == Len(waves)
<1>0. waves \in Seq(WaveRecord) /\ Distinct(waves) /\ n \in Nat /\ DOMAIN waves = 1..n
      /\ \A i \in DOMAIN waves : waves[i] \in ToSet(waves)
  BY WavesAre DEF Sound
<1>1. others \in Seq(WaveRecord) /\ ToSet(others) = {o \in ToSet(waves) : o.name # w.name}
  BY SoundBut DEF Sound
<1>2. ToSet(checked) = ToSet(others) \cup {w}
  <2> HIDE DEF others
  <2> QED BY <1>1, AppendMembers
<1>3. ~ FindCycle(checked)
  OBVIOUS
<1>6. Upserted(waves, w, name) = next
  BY DEF Upserted
<1> HIDE DEF others, checked
<1>4. CASE at = {}
  <2>1. next = Append(waves, w)
    BY <1>4
  <2>2. \A o \in ToSet(waves) : o.name # w.name
    BY <1>4 DEF ToSet, Renames
  <2>3. /\ Append(waves, w) \in Seq(WaveRecord) /\ DOMAIN Append(waves, w) = 1..(n + 1)
        /\ (\A i \in 1..n : Append(waves, w)[i] = waves[i]) /\ Append(waves, w)[n + 1] = w
    BY <1>0, AppendProperties, LenProperties
  <2>4. Distinct(Append(waves, w))
    <3> SUFFICES ASSUME NEW i \in 1..(n + 1), NEW k \in 1..(n + 1), Append(waves, w)[i].name = Append(waves, w)[k].name
                 PROVE  i = k
      BY <2>3 DEF Distinct
    <3> HIDE DEF n
    <3>1. \A j \in 1..(n + 1) : j \in 1..n \/ j = n + 1
      BY <1>0
    <3> QED BY <1>0, <2>2, <2>3, <3>1 DEF Distinct
  <2>5. ToSet(Append(waves, w)) \subseteq ToSet(checked)
    <3>1. \A j \in 1..(n + 1) : j \in 1..n \/ j = n + 1
      BY <1>0
    <3> HIDE DEF n
    <3>2. \A i \in 1..(n + 1) : Append(waves, w)[i] \in ToSet(checked)
      BY <1>0, <1>1, <1>2, <2>2, <2>3, <3>1
    <3> QED BY <2>3, <3>2 DEF ToSet
  <2> HIDE DEF next
  <2> QED BY <1>3, <1>6, <2>1, <2>3, <2>4, <2>5, FewerWaves DEF Sound
<1>5. CASE at # {}
  <2>1. at \in SUBSET (1..n)
    BY <1>0
  <2>2. Min(at) \in at
    <3> HIDE DEF at, n
    <3>1. PICK x \in at : \A y \in at : x <= y
      BY <1>0, <1>5, <2>1, Extremes
    <3> QED BY <3>1 DEF Min
  <2> DEFINE m == Min(at)
  <2>3. m \in 1..n /\ waves[m].name = name /\ next = [waves EXCEPT ![m] = w]
    BY <1>0, <1>5, <2>2
  <2> HIDE DEF m, at
  <2>4. /\ [waves EXCEPT ![m] = w] \in Seq(WaveRecord) /\ Len([waves EXCEPT ![m] = w]) = n
        /\ DOMAIN [waves EXCEPT ![m] = w] = 1..n /\ [waves EXCEPT ![m] = w][m] = w
        /\ \A i \in 1..n : i # m => [waves EXCEPT ![m] = w][i] = waves[i]
    BY <1>0, <2>3, ExceptSeq
  <2> DEFINE q == [waves EXCEPT ![m] = w]
  <2> HIDE DEF q
  <2>5. \A i \in 1..n : i # m => waves[i].name # w.name
    <3> SUFFICES ASSUME NEW i \in 1..n, i # m, waves[i].name = w.name PROVE FALSE
      OBVIOUS
    <3>1. waves[i].name = name
      BY <1>0 DEF Renames
    <3> QED BY <1>0, <2>3, <3>1 DEF Distinct
  <2>6. Distinct(q)
    BY <1>0, <2>4, <2>5 DEF Distinct, q
  <2>7. ToSet(q) \subseteq ToSet(checked)
    <3>1. \A i \in 1..n : q[i] \in ToSet(checked)
      BY <1>0, <1>1, <1>2, <2>4, <2>5 DEF q
    <3> QED BY <2>4, <3>1 DEF ToSet, q
  <2>8. Sound(q)
    BY <1>3, <2>4, <2>6, <2>7, FewerWaves DEF Sound, q
  <2> QED BY <1>6, <2>3, <2>8 DEF q, at
<1> QED BY <1>4, <1>5 DEF Upserted

(***************************************************************************)
(* Every profile there is, wherever it is held, has a sound list of waves.  *)
(***************************************************************************)
GoodProfile(p) == p = [name |-> p.name, knobs |-> p.knobs, waves |-> p.waves] /\ Sound(p.waves)
Held(o) == o = <<>> \/ (o = <<o[1]>> /\ GoodProfile(o[1]))
Shelved(o, n) == o # <<>> => o[1].name = n /\ Readable(o[1].waves)
ServerSound == wServer = [n \in ProfileNames |-> wServer[n]]
          /\ \A n \in ProfileNames : Held(wServer[n]) /\ Shelved(wServer[n], n)
CacheSound == wCache = [n \in ProfileNames |-> wCache[n]] /\ \A n \in ProfileNames : Held(wCache[n])
SavingSound == wSave = [pc |-> wSave.pc, kind |-> wSave.kind, profile |-> wSave.profile]
          /\ (wSave.pc = "sent" => wSave.profile # <<>> /\ Held(wSave.profile))
FormSound == wEditing = <<>> \/ (wEditing = <<wEditing[1]>> /\ wEditing[1].after \in Seq(WaveNames))
ProposalSound == wProposal = <<>> \/ \E p \in FirstProfiles : wProposal = <<p>>
NamesSound == (wActive = "" \/ wActive \in ProfileNames) /\ (wName = "new" \/ wName \in ProfileNames)
ProfileHolds == ServerSound /\ CacheSound /\ SavingSound /\ FormSound /\ ProposalSound /\ NamesSound /\ Held(wDraft)

\* A profile at hand is sound.
LEMMA HeldIs ==
  ASSUME NEW p, GoodProfile(p)
  PROVE  Held(<<p>>) /\ <<p>> # <<>> /\ <<p>>[1] = p
BY DEF Held

\* The server parses no profile with a time that cannot be read, nor one that is not sound.
LEMMA ParsedReads ==
  ASSUME NEW p, Parsed(p)
  PROVE  Readable(p.waves)
<1>1. \A w \in ToSet(p.waves) : w.time \in {<<>>} \cup Clock
  BY DEF Parsed
<1>2. Clock \subseteq Nat \X Nat
  BY DEF Clock
<1> QED BY <1>1, <1>2 DEF Readable

LEMMA ParsedIsSound ==
  ASSUME NEW p \in FirstProfiles, Parsed(p)
  PROVE  GoodProfile(p) /\ p.name \in ProfileNames
<1>1. p \in [name : ProfileNames, knobs : ProfileKnobs, waves : Seq(WaveRecord)]
  BY WaveAssumption DEF WaveRecord
<1>2. Cardinality(Names(p.waves)) = Len(p.waves) /\ ~ FindCycle(p.waves)
  BY DEF Parsed
<1>3. p = [name |-> p.name, knobs |-> p.knobs, waves |-> p.waves] /\ p.waves \in Seq(WaveRecord) /\ p.name \in ProfileNames
  BY <1>1
<1> QED BY <1>2, <1>3, NamesCounted DEF GoodProfile, Sound

\* The seed is sound.
LEMMA SeedHeld == Held(<<Seed>>)
<1>1. GoodProfile(Seed)
  BY SoundBuiltin DEF GoodProfile, Seed
<1> QED BY <1>1, HeldIs

\* The waves the form compares with are those of the draft.
LEMMA OthersSound ==
  ASSUME Held(wDraft), wDraft # <<>>
  PROVE  Sound(Others) /\ GoodProfile(wDraft[1]) /\ Others = wDraft[1].waves
BY DEF Held, GoodProfile, Others

(***************************************************************************)
(* The form and the list.                                                   *)
(***************************************************************************)
Dropped(after, drop) == Matching(after, LAMBDA n : n \notin drop)
\* The upstreams the form offers.
LEMMA ChoicesTyped ==
  ASSUME NEW after \in Seq(WaveNames), Sound(Others), NEW a \in AfterChoices(after)
  PROVE  a \in Seq(WaveNames)
<1> DEFINE names == Names(Others)
           Additions == {<<>>} \cup {<<n>> : n \in names \ ToSet(after)}
           S(drop) == {after[i] : i \in {k \in DOMAIN after : after[k] \notin drop}}
<1>1. AfterChoices(after) = {Dropped(after, drop) \o add : drop \in SUBSET names, add \in Additions}
  BY DEF AfterChoices, Dropped
<1>2. \E drop \in SUBSET names, add \in Additions : a = Dropped(after, drop) \o add
  <2> HIDE DEF names, Additions
  <2> QED BY <1>1
<1>9. PICK drop \in SUBSET names : \E add \in Additions : a = Dropped(after, drop) \o add
  BY <1>2
<1>10. PICK add \in Additions : a = Dropped(after, drop) \o add
  BY <1>9
<1>3. Dropped(after, drop) = Kept(after, S(drop))
  BY DEF Matching, Dropped
<1>4. names \subseteq WaveNames
  BY WavesAre DEF Sound
<1>5. add \in Seq(WaveNames)
  <2>1. CASE add = <<>>
    BY <2>1, EmptySeq
  <2>2. CASE add # <<>>
    <3>1. PICK n \in names : add = <<n>>
      BY <2>2
    <3> QED BY <1>4, <3>1
  <2> QED BY <2>1, <2>2
<1> DEFINE T == S(drop)
           kept == Kept(after, T)
<1>6. a = kept \o add
  BY <1>10, <1>3
<1> HIDE DEF S, T
<1>7. kept \in Seq(WaveNames)
  BY KeptMembers
<1> HIDE DEF kept
<1> QED BY <1>5, <1>6, <1>7, ConcatProperties

\* A wave saved, removed or opened.
LEMMA SavedWave ==
  ASSUME ProfileHolds, ProfileMounted, wEditing # <<>>, NEW w \in FormWaves, ~ WaveError(w)
  PROVE  GoodProfile(UpsertWave(w))
<1> DEFINE name == wEditing[1].name
           was == wEditing[1]
           draft == wDraft[1]
           next == Upserted(Others, w, name)
<1>1. Sound(Others) /\ GoodProfile(draft) /\ Others = draft.waves
  BY OthersSound DEF ProfileHolds, ProfileMounted
<1>2. was.after \in Seq(WaveNames)
  BY DEF ProfileHolds, FormSound
<1>3. w \in WaveRecord
  <2>1. w \in [name : WaveNames \cup {""}, time : WaveTimes, after : AfterChoices(was.after), kind : WaveKinds]
    BY DEF FormWaves
  <2>2. w.name # ""
    BY DEF WaveError
  <2>3. w.after \in Seq(WaveNames)
    BY <1>1, <1>2, <2>1, ChoicesTyped
  <2> QED BY <2>1, <2>2, <2>3 DEF WaveRecord
<1>4. Renames(Others, w, name)
  <2>1. \A o \in ToSet(Others) : o.name = w.name => <<o>> = wEditing
    BY DEF WaveError
  <2> QED BY <2>1 DEF Renames
<1>5. ~ FindCycle(Append(WavesBut(Others, w.name), w))
  BY Zenon DEF WaveError, WavesBut
<1>6. Sound(next)
  <2> HIDE DEF name
  <2> QED BY <1>1, <1>3, <1>4, <1>5, SoundUpsert
<1>7. UpsertWave(w) = [draft EXCEPT !.waves = next]
  BY <1>1 DEF UpsertWave, Upserted
<1> HIDE DEF next, draft
<1> QED BY <1>1, <1>6, <1>7 DEF GoodProfile

LEMMA RemovedWave ==
  ASSUME NEW p, GoodProfile(p), NEW name
  PROVE  GoodProfile([p EXCEPT !.waves = WavesBut(@, name)])
<1> DEFINE next == WavesBut(p.waves, name)
<1>1. Sound(next)
  BY SoundBut DEF GoodProfile
<1>2. [p EXCEPT !.waves = WavesBut(@, name)] = [p EXCEPT !.waves = next]
  OBVIOUS
<1> HIDE DEF next
<1>3. GoodProfile([p EXCEPT !.waves = next])
  BY <1>1 DEF GoodProfile
<1> QED BY <1>2, <1>3

LEMMA OpenedWave ==
  ASSUME ProfileHolds, NEW wave, wave = NewWave \/ (wDraft # <<>> /\ wave \in ToSet(Others))
  PROVE  wave.after \in Seq(WaveNames)
<1>1. CASE wave = NewWave
  BY <1>1, EmptySeq DEF NewWave
<1>2. ASSUME wDraft # <<>>, wave \in ToSet(Others) PROVE wave.after \in Seq(WaveNames)
  BY <1>2, OthersSound, WavesAre DEF ProfileHolds, Sound
<1> QED BY <1>1, <1>2

(***************************************************************************)
(* The steps of the profiles.                                               *)
(***************************************************************************)
LEMMA EditHolds ==
  ASSUME ProfileHolds, NEW draft, GoodProfile(draft), EditProfile(draft), wEditing' = <<>> \/ wEditing' = wEditing
  PROVE  ProfileHolds'
<1>1. wDraft' = <<draft>> /\ UNCHANGED <<wServer, wActive, wProposal, wCache, wSave, wName>>
  BY DEF EditProfile, wRemote
<1>2. Held(<<draft>>)
  BY HeldIs
<1>3. Held(wDraft')
  BY <1>1, <1>2
<1>4. FormSound'
  BY DEF ProfileHolds, FormSound
<1>5. ServerSound' /\ CacheSound' /\ SavingSound' /\ ProposalSound' /\ NamesSound'
  BY <1>1 DEF ProfileHolds, ServerSound, CacheSound, SavingSound, ProposalSound, NamesSound
<1> QED BY <1>3, <1>4, <1>5 DEF ProfileHolds, Held

\* The form.
LEMMA FormSteps == ProfileHolds /\ (WaveList \/ SaveWave \/ TypeProfile) => ProfileHolds'
<1> SUFFICES ASSUME ProfileHolds, WaveList \/ SaveWave \/ TypeProfile PROVE ProfileHolds'
  OBVIOUS
<1>1. ASSUME NEW wave, OpenWave(wave), wave = NewWave \/ wave \in ToSet(Others) PROVE ProfileHolds'
  <2>1. /\ wDraft # <<>> /\ wEditing' = <<wave>>
        /\ UNCHANGED <<wServer, wActive, wProposal, wCache, wSave, wName, wDraft>>
    BY <1>1 DEF OpenWave, wRemote, ProfileMounted
  <2>2. wave.after \in Seq(WaveNames)
    BY <1>1, <2>1, OpenedWave
  <2>3. wEditing' = <<wEditing'[1]>> /\ wEditing'[1] = wave
    BY <2>1
  <2>4. FormSound'
    BY <2>2, <2>3 DEF FormSound
  <2>5. ServerSound' /\ CacheSound' /\ SavingSound' /\ ProposalSound' /\ NamesSound' /\ Held(wDraft')
    BY <2>1 DEF ProfileHolds, ServerSound, CacheSound, SavingSound, ProposalSound, NamesSound
  <2> QED BY <2>4, <2>5 DEF ProfileHolds, Held
<1>2. ASSUME NEW name, RemoveWave(name) PROVE ProfileHolds'
  <2> DEFINE next == [wDraft[1] EXCEPT !.waves = WavesBut(@, name)]
  <2>1. EditProfile(next) /\ wEditing' = wEditing
    BY <1>2, Zenon DEF RemoveWave, WavesBut
  <2>2. wDraft # <<>>
    BY <2>1, Zenon DEF EditProfile, ProfileMounted
  <2>3. GoodProfile(wDraft[1])
    BY <2>2, OthersSound DEF ProfileHolds
  <2>4. GoodProfile(next)
    BY <2>3, RemovedWave
  <2> HIDE DEF next
  <2> QED BY <2>1, <2>4, EditHolds
<1>3. CASE WaveList
  BY <1>1, <1>2, <1>3 DEF WaveList
<1>4. CASE SaveWave
  <2>1. ProfileMounted /\ wEditing # <<>> /\ wEditing' = <<>>
    BY <1>4 DEF SaveWave
  <2>2. PICK w \in FormWaves : ~ WaveError(w) /\ EditProfile(UpsertWave(w))
    BY <1>4, Zenon DEF SaveWave
  <2>3. GoodProfile(UpsertWave(w))
    BY <2>1, <2>2, SavedWave
  <2> QED BY <2>1, <2>2, <2>3, EditHolds
<1>5. CASE TypeProfile
  <2>1. wDraft # <<>> /\ wEditing' = wEditing
    BY <1>5 DEF TypeProfile, ProfileMounted
  <2>2. GoodProfile(wDraft[1])
    BY <2>1, OthersSound DEF ProfileHolds
  <2>3. ASSUME NEW knobs, EditProfile([wDraft[1] EXCEPT !.knobs = knobs]) PROVE ProfileHolds'
    <3> DEFINE next == [wDraft[1] EXCEPT !.knobs = knobs]
    <3>1. GoodProfile(next)
      BY <2>2 DEF GoodProfile
    <3> HIDE DEF next
    <3> QED BY <2>1, <2>3, <3>1, EditHolds DEF next
  <2>4. ASSUME NEW n, EditProfile([wDraft[1] EXCEPT !.name = n]) PROVE ProfileHolds'
    <3> DEFINE next == [wDraft[1] EXCEPT !.name = n]
    <3>1. GoodProfile(next)
      BY <2>2 DEF GoodProfile
    <3> HIDE DEF next
    <3> QED BY <2>1, <2>4, <3>1, EditHolds DEF next
  <2> QED BY <1>5, <2>3, <2>4, Zenon DEF TypeProfile
<1> QED BY <1>3, <1>4, <1>5

(***************************************************************************)
(* The server.                                                              *)
(***************************************************************************)
LEMMA StoreHolds ==
  ASSUME ServerSound, NEW p, GoodProfile(p), Readable(p.waves), wServer' = [wServer EXCEPT ![p.name] = <<p>>]
  PROVE  ServerSound'
<1>1. Held(<<p>>) /\ <<p>>[1] = p
  BY HeldIs
<1>2. ASSUME NEW n \in ProfileNames PROVE wServer'[n] = IF n = p.name THEN <<p>> ELSE wServer[n]
  BY DEF ServerSound
<1>3. wServer' = [n \in ProfileNames |-> wServer'[n]]
  BY DEF ServerSound
<1>4. ASSUME NEW n \in ProfileNames PROVE Held(wServer'[n]) /\ Shelved(wServer'[n], n)
  <2>1. CASE n = p.name
    BY <1>1, <1>2, <2>1 DEF Shelved
  <2>2. CASE n # p.name
    BY <1>2, <2>2 DEF ServerSound
  <2> QED BY <2>1, <2>2
<1> QED BY <1>3, <1>4 DEF ServerSound, Held, Shelved

\* A profile deleted.
LEMMA DropHolds ==
  ASSUME ServerSound, NEW name, wServer' = [wServer EXCEPT ![name] = <<>>]
  PROVE  ServerSound'
<1>1. ASSUME NEW n \in ProfileNames PROVE wServer'[n] = IF n = name THEN <<>> ELSE wServer[n]
  BY DEF ServerSound
<1>2. wServer' = [n \in ProfileNames |-> wServer'[n]]
  BY DEF ServerSound
<1>3. ASSUME NEW n \in ProfileNames PROVE Held(wServer'[n]) /\ Shelved(wServer'[n], n)
  <2>1. CASE n = name
    BY <1>1, <2>1 DEF Held, Shelved
  <2>2. CASE n # name
    BY <1>1, <2>2 DEF ServerSound
  <2> QED BY <2>1, <2>2
<1> QED BY <1>2, <1>3 DEF ServerSound, Held, Shelved

\* No call in flight carries no profile.
LEMMA NoSaveIs == NoSave = [pc |-> NoSave.pc, kind |-> NoSave.kind, profile |-> NoSave.profile] /\ NoSave.pc = "idle"
BY DEF NoSave

\* The server handles a save or a removal.
LEMMA HandledHolds == ProfileHolds /\ ProfileHandled => ProfileHolds'
<1> SUFFICES ASSUME ProfileHolds, ProfileHandled PROVE ProfileHolds'
  OBVIOUS
<1>1. wSave.pc = "sent" /\ UNCHANGED <<wProposal, wCache, wName, wDraft, wEditing>>
  BY DEF ProfileHandled
<1>2. wSave.profile # <<>> /\ Held(wSave.profile)
  BY <1>1 DEF ProfileHolds, SavingSound
<1>3. GoodProfile(wSave.profile[1])
  BY <1>2 DEF Held
<1>4. SavingSound'
  <2>1. wSave' = NoSave \/ wSave' = [wSave EXCEPT !.pc = "done"]
    BY DEF ProfileHandled
  <2>2. CASE wSave' = NoSave
    BY <2>2, NoSaveIs DEF SavingSound
  <2>3. CASE wSave' = [wSave EXCEPT !.pc = "done"]
    <3>1. wSave' = [pc |-> wSave'.pc, kind |-> wSave'.kind, profile |-> wSave'.profile] /\ wSave'.pc = "done"
      BY <2>3 DEF ProfileHolds, SavingSound
    <3> QED BY <3>1 DEF SavingSound
  <2> QED BY <2>1, <2>2, <2>3
<1>5. ServerSound' /\ (wActive' = "" \/ wActive' \in ProfileNames)
  <2>1. CASE StoreProfile(wSave.profile[1])
    BY <1>3, <2>1, ParsedReads, StoreHolds DEF ProfileHolds, NamesSound, StoreProfile
  <2>2. CASE DropProfile(wSave.profile[1].name)
    BY <2>2, DropHolds DEF ProfileHolds, NamesSound, DropProfile
  <2>3. CASE UNCHANGED <<wServer, wActive>>
    BY <2>3 DEF ProfileHolds, NamesSound, ServerSound
  <2> QED BY <2>1, <2>2, <2>3 DEF ProfileHandled
<1>6. CacheSound' /\ ProposalSound' /\ FormSound' /\ (wName' = "new" \/ wName' \in ProfileNames) /\ Held(wDraft')
  BY <1>1 DEF ProfileHolds, CacheSound, ProposalSound, FormSound, NamesSound
<1> QED BY <1>4, <1>5, <1>6 DEF ProfileHolds, NamesSound, Held

\* The calls of the page.
LEMMA SendSteps == ProfileHolds /\ (SaveProfile \/ DeleteProfile \/ ProfileSaved) => ProfileHolds'
<1> SUFFICES ASSUME ProfileHolds, SaveProfile \/ DeleteProfile \/ ProfileSaved PROVE ProfileHolds'
  OBVIOUS
<1>1. ASSUME NEW kind, NEW p, SendProfile(kind, p), GoodProfile(p) PROVE ProfileHolds'
  <2>1. /\ wSave' = [pc |-> "sent", kind |-> kind, profile |-> <<p>>]
        /\ UNCHANGED <<wServer, wActive, wProposal, wCache, wName, wDraft, wEditing>>
    BY <1>1 DEF SendProfile
  <2>2. Held(<<p>>) /\ <<p>> # <<>>
    BY <1>1, HeldIs
  <2>3. SavingSound'
    BY <2>1, <2>2 DEF SavingSound, Held
  <2>4. ServerSound' /\ CacheSound' /\ FormSound' /\ ProposalSound' /\ NamesSound' /\ Held(wDraft')
    BY <2>1 DEF ProfileHolds, ServerSound, CacheSound, FormSound, ProposalSound, NamesSound
  <2> QED BY <2>3, <2>4 DEF ProfileHolds, Held
<1>2. ASSUME wDraft # <<>> PROVE GoodProfile(wDraft[1])
  BY <1>2, OthersSound DEF ProfileHolds
<1>3. CASE SaveProfile
  BY <1>1, <1>2, <1>3 DEF SaveProfile, ProfileMounted
<1>4. CASE DeleteProfile
  <2>1. SendProfile("delete", [wDraft[1] EXCEPT !.name = wName]) /\ wDraft # <<>>
    BY <1>4 DEF DeleteProfile, ProfileMounted
  <2> DEFINE p == [wDraft[1] EXCEPT !.name = wName]
  <2>2. GoodProfile(p)
    BY <1>2, <2>1 DEF GoodProfile
  <2> HIDE DEF p
  <2> QED BY <1>1, <2>1, <2>2 DEF p
<1>5. CASE ProfileSaved
  <2>1. wSave' = NoSave /\ wDraft' = <<>> /\ wEditing' = <<>> /\ UNCHANGED <<wServer, wActive, wProposal, wCache, wName>>
    BY <1>5 DEF ProfileSaved, Unmounted
  <2>2. SavingSound'
    BY <2>1, NoSaveIs DEF SavingSound
  <2>3. ServerSound' /\ CacheSound' /\ FormSound' /\ ProposalSound' /\ NamesSound' /\ Held(wDraft')
    BY <2>1 DEF ProfileHolds, ServerSound, CacheSound, FormSound, ProposalSound, NamesSound, Held
  <2> QED BY <2>2, <2>3 DEF ProfileHolds, Held
<1> QED BY <1>3, <1>4, <1>5

(***************************************************************************)
(* Opening and leaving a profile, and the studio.                           *)
(***************************************************************************)
LEMMA OpeningHolds ==
  ASSUME ProfileHolds, (\E name \in ProfileNames \cup {"new"} : OpenProfile(name)) \/ ProfileFetchFails \/ LeaveProfile
  PROVE  ProfileHolds'
<1>1. UNCHANGED <<wServer, wActive, wProposal, wCache, wSave>> /\ wEditing' = <<>>
  BY DEF OpenProfile, ProfileFetchFails, LeaveProfile, Unmounted, wRemote
<1>2. ServerSound' /\ CacheSound' /\ SavingSound' /\ ProposalSound' /\ FormSound'
  BY <1>1 DEF ProfileHolds, ServerSound, CacheSound, SavingSound, ProposalSound, FormSound
<1>3. (wName' = "new" \/ wName' \in ProfileNames) /\ Held(wDraft')
  <2>1. ASSUME NEW name \in ProfileNames \cup {"new"}, OpenProfile(name)
        PROVE  (wName' = "new" \/ wName' \in ProfileNames) /\ Held(wDraft')
    <3>1. wName' = name /\ wDraft' = IF wName' = "new" THEN <<Seed>> ELSE wCache'[wName']
      BY <2>1 DEF OpenProfile, ProfileInitial, Seed
    <3>2. CASE name = "new"
      BY <3>1, <3>2, SeedHeld
    <3>3. CASE name # "new"
      BY <1>1, <3>1, <3>3 DEF ProfileHolds, CacheSound
    <3> QED BY <3>2, <3>3
  <2>2. CASE ProfileFetchFails \/ LeaveProfile
    BY <2>2 DEF ProfileHolds, NamesSound, ProfileFetchFails, LeaveProfile, Unmounted, Held
  <2> QED BY <2>1, <2>2
<1>4. NamesSound'
  BY <1>1, <1>3 DEF ProfileHolds, NamesSound
<1> QED BY <1>2, <1>3, <1>4 DEF ProfileHolds, Held

\* The page fetches the profile.
LEMMA FetchedHolds == ProfileHolds /\ ProfileFetched => ProfileHolds'
<1> SUFFICES ASSUME ProfileHolds, ProfileFetched PROVE ProfileHolds'
  OBVIOUS
<1>1. /\ wName \in ProfileNames /\ wCache' = [wCache EXCEPT ![wName] = wServer[wName]]
      /\ wDraft' = IF wDraft = <<>> THEN wServer[wName] ELSE wDraft
      /\ UNCHANGED <<wServer, wActive, wProposal, wSave, wName, wEditing>>
  BY DEF ProfileFetched, ProfileHolds, NamesSound
<1>2. Held(wServer[wName])
  BY <1>1 DEF ProfileHolds, ServerSound
<1>3. Held(wDraft')
  BY <1>1, <1>2 DEF ProfileHolds
<1>4. CacheSound'
  <2>1. \A n \in ProfileNames : wCache'[n] = IF n = wName THEN wServer[wName] ELSE wCache[n]
    BY <1>1 DEF ProfileHolds, CacheSound
  <2>2. wCache' = [n \in ProfileNames |-> wCache'[n]]
    BY <1>1 DEF ProfileHolds, CacheSound
  <2>3. ASSUME NEW n \in ProfileNames PROVE Held(wCache'[n])
    <3>1. CASE n = wName
      BY <1>2, <2>1, <3>1
    <3>2. CASE n # wName
      BY <2>1, <3>2 DEF ProfileHolds, CacheSound
    <3> QED BY <3>1, <3>2
  <2> QED BY <2>2, <2>3 DEF CacheSound, Held
<1>5. ServerSound' /\ SavingSound' /\ FormSound' /\ ProposalSound' /\ NamesSound'
  BY <1>1 DEF ProfileHolds, ServerSound, SavingSound, FormSound, ProposalSound, NamesSound
<1> QED BY <1>3, <1>4, <1>5 DEF ProfileHolds, Held

\* Activation and proposals.
LEMMA StudioSteps == ProfileHolds /\ (ActivateProfile \/ Propose \/ ApplyProposal \/ DismissProposal) => ProfileHolds'
<1> SUFFICES ASSUME ProfileHolds, ActivateProfile \/ Propose \/ ApplyProposal \/ DismissProposal PROVE ProfileHolds'
  OBVIOUS
<1>1. UNCHANGED <<wCache, wName, wDraft, wEditing, wSave>>
  BY DEF ActivateProfile, Propose, ApplyProposal, DismissProposal, Studio
<1>2. CacheSound' /\ SavingSound' /\ FormSound' /\ Held(wDraft')
  BY <1>1 DEF ProfileHolds, CacheSound, SavingSound, FormSound
<1>3. ServerSound' /\ ProposalSound' /\ NamesSound'
  <2>1. CASE ApplyProposal
    <3>1. PICK p \in FirstProfiles : wProposal = <<p>>
      BY <2>1 DEF ApplyProposal, ProfileHolds, ProposalSound
    <3>2. StoreProfile(p) /\ wProposal' = <<>>
      BY <2>1, <3>1 DEF ApplyProposal
    <3>3. GoodProfile(p)
      BY <3>2, ParsedIsSound DEF StoreProfile
    <3>4. ServerSound'
      BY <3>2, <3>3, ParsedReads, StoreHolds DEF StoreProfile, ProfileHolds
    <3> QED BY <1>1, <3>2, <3>4 DEF ProfileHolds, ProposalSound, NamesSound, StoreProfile
  <2>2. CASE ActivateProfile
    BY <1>1, <2>2 DEF ActivateProfile, ProfileHolds, ServerSound, ProposalSound, NamesSound
  <2>3. CASE Propose \/ DismissProposal
    BY <1>1, <2>3 DEF Propose, DismissProposal, ProfileHolds, ServerSound, ProposalSound, NamesSound
  <2> QED BY <2>1, <2>2, <2>3
<1> QED BY <1>2, <1>3 DEF ProfileHolds, Held

\* Every step of the profiles.
LEMMA ProfileSteps == ProfileHolds /\ ProfileNext => ProfileHolds'
BY FormSteps, HandledHolds, SendSteps, OpeningHolds, FetchedHolds, StudioSteps DEF ProfileNext

LEMMA ProfileStart == Init => ProfileHolds
<1> SUFFICES ASSUME Init PROVE ProfileHolds
  OBVIOUS
<1> DEFINE choices == {q \in FirstProfiles : Parsed(q)}
<1>1. PICK p \in Chosen("profile", choices) : wServer = [n \in ProfileNames |-> IF n = p.name THEN <<p>> ELSE <<>>]
  BY DEF Init, ProfileInit
<1>2. p \in choices
  <2>1. choices # {}
    BY WaveAssumption
  <2> HIDE DEF choices
  <2> QED BY <2>1 DEF Chosen
<1>3. GoodProfile(p)
  BY <1>2, ParsedIsSound
<1>4. ServerSound
  <2>1. Held(<<p>>) /\ <<p>>[1] = p /\ Held(<<>>) /\ Readable(p.waves)
    BY <1>2, <1>3, HeldIs, ParsedReads DEF Held
  <2>2. ASSUME NEW n \in ProfileNames PROVE Held(wServer[n]) /\ Shelved(wServer[n], n)
    <3>1. wServer[n] = IF n = p.name THEN <<p>> ELSE <<>>
      BY <1>1
    <3> QED BY <2>1, <3>1 DEF Shelved
  <2> QED BY <1>1, <2>2 DEF ServerSound
<1>5. CacheSound /\ SavingSound /\ FormSound /\ ProposalSound /\ NamesSound /\ Held(wDraft)
  <2>1. /\ wActive = "" /\ wProposal = <<>> /\ wName = "new" /\ wDraft = <<>> /\ wEditing = <<>>
        /\ wCache = [n \in ProfileNames |-> <<>>] /\ wSave = NoSave
    BY DEF Init, ProfileInit
  <2>2. CacheSound
    BY <2>1 DEF CacheSound, Held
  <2>3. SavingSound
    BY <2>1, NoSaveIs DEF SavingSound
  <2> QED BY <2>1, <2>2, <2>3 DEF FormSound, ProposalSound, NamesSound, Held
<1> QED BY <1>4, <1>5 DEF ProfileHolds

\* The types of the profiles follow.
LEMMA ProfileTyped == ProfileHolds => ProfileTypeOK
<1> SUFFICES ASSUME ProfileHolds PROVE ProfileTypeOK
  OBVIOUS
<1>1. ASSUME wDraft # <<>> PROVE Names(Others) \subseteq WaveNames
  BY <1>1, OthersSound, WavesAre DEF ProfileHolds, Sound
<1> QED BY <1>1 DEF ProfileHolds, NamesSound, ServerSound, Shelved, ProfileTypeOK

\* A sound list of waves with times that can be read is shown along its triggers.
LEMMA Followed ==
  ASSUME NEW waves, Sound(waves), Readable(waves)
  PROVE  TriggersFollowed(waves)
<1> DEFINE at(shown, n) == CHOOSE i \in DOMAIN shown : shown[i].name = n
           list == OrderWaves(waves)
<1>1. Listings(waves) = {list}
  BY DEF Listings
<1>2. ASSUME NEW w \in ToSet(waves), w.time = <<>>, w.name \in Grounded(waves), NEW up \in ToSet(w.after)
      PROVE  at(list, up) < at(list, w.name)
  BY <1>2, ListedAfter
<1> HIDE DEF list
<1>3. TriggersFollowed(waves) <=>
        \A shown \in Listings(waves) : \A w \in ToSet(waves) :
          (w.time = <<>> /\ w.name \in Grounded(waves)) => \A up \in ToSet(w.after) : at(shown, up) < at(shown, w.name)
  BY Zenon DEF TriggersFollowed, Grounded, AfterName
<1> HIDE DEF at
<1> QED BY <1>1, <1>2, <1>3

\* A stored profile can be read, and a draft that can be read is sound as well.
LEMMA ListedInOrder == ProfileHolds => WavesFollowTriggers
<1> SUFFICES ASSUME ProfileHolds PROVE WavesFollowTriggers
  OBVIOUS
<1>1. ASSUME NEW n \in ProfileNames, wServer[n] # <<>> PROVE TriggersFollowed(wServer[n][1].waves)
  <2>1. Held(wServer[n]) /\ Readable(wServer[n][1].waves)
    BY <1>1 DEF ProfileHolds, ServerSound, Shelved
  <2>2. Sound(wServer[n][1].waves)
    BY <1>1, <2>1 DEF Held, GoodProfile
  <2> QED BY <2>1, <2>2, Followed
<1>2. ASSUME ProfileMounted, Readable(Others) PROVE TriggersFollowed(Others)
  <2>1. Sound(Others)
    BY <1>2, OthersSound DEF ProfileHolds, ProfileMounted
  <2> QED BY <1>2, <2>1, Followed
<1> QED BY <1>1, <1>2 DEF WavesFollowTriggers

(***************************************************************************)
(* What the launcher, the template editor and the profiles hold stays while *)
(* the session is on another page: three of the console's properties.       *)
(***************************************************************************)
LEMMA LauncherStill ==
  ASSUME LauncherHolds, UNCHANGED launcherVars
  PROVE  LauncherHolds'
<1>1. UNCHANGED <<nServer, nCatalog, nStep, nTemplate, nCustom, nFilled, nLapsed, nSent, nRun>>
  BY Zenon DEF launcherVars
<1> QED BY <1>1 DEF LauncherHolds, Catalogued, Customized, Reviewed, PreviewIsWhatRuns

LEMMA LauncherKept ==
  ASSUME LauncherHolds, [Next]_vars
  PROVE  LauncherHolds'
<1>1. CASE scene = "launch" /\ Next
  <2>1. LauncherNext
    BY <1>1, Zenon DEF Next, Launch
  <2> QED BY <2>1, LauncherStep
<1>2. CASE scene # "launch" /\ Next
  <2>1. UNCHANGED launcherVars
    BY <1>2, Zenon DEF Next, Template, Prompt, Profile, Focus, RunDetail, NightRuns, Presentation, pageVars
  <2> QED BY <2>1, LauncherStill
<1>3. CASE UNCHANGED vars
  <2>1. UNCHANGED launcherVars
    BY <1>3, Zenon DEF vars, pageVars
  <2> QED BY <2>1, LauncherStill
<1> QED BY <1>1, <1>2, <1>3

\* What was previewed is what a run gets: the stages, the routes and the budget that the
\* review drew at the press are those of the run the server mints, unless the picked template
\* was saved again in between. (FlowsPage.tsx:136-152)
THEOREM PreviewAlwaysIsWhatRuns == Spec => []PreviewIsWhatRuns
<1>1. Init => LauncherHolds
  BY LauncherStart
<1>2. LauncherHolds /\ [Next]_vars => LauncherHolds'
  BY LauncherKept
<1>3. LauncherHolds => PreviewIsWhatRuns
  BY DEF LauncherHolds
<1> QED BY <1>1, <1>2, <1>3, PTL DEF Spec

LEMMA TemplateStill ==
  ASSUME TemplateHolds, UNCHANGED templateVars
  PROVE  TemplateHolds'
<1>1. UNCHANGED <<tShape, tPast, tFuture, tDraft>>
  BY Zenon DEF templateVars, shapeVars
<1>2. UNCHANGED <<tServer, tCache, tBuiltin, tSave, tPath, tQuery, tUrl>>
  BY Zenon DEF templateVars, remoteVars, placeVars
<1> QED BY <1>1, <1>2, StillHolds DEF TemplateHolds, StockHolds, PlaceHolds, SaveHolds

LEMMA TemplateKept ==
  ASSUME TemplateHolds, [Next]_vars
  PROVE  TemplateHolds'
<1>1. CASE scene = "template" /\ Next
  <2>1. TemplateNext
    BY <1>1, Zenon DEF Next, Template
  <2> QED BY <2>1, TemplateStep
<1>2. CASE scene # "template" /\ Next
  <2>1. UNCHANGED templateVars
    BY <1>2, Zenon DEF Next, Prompt, Profile, Focus, Launch, RunDetail, NightRuns, Presentation, editorVars
  <2> QED BY <2>1, TemplateStill
<1>3. CASE UNCHANGED vars
  <2>1. UNCHANGED templateVars
    BY <1>3, Zenon DEF vars, editorVars
  <2> QED BY <2>1, TemplateStill
<1> QED BY <1>1, <1>2, <1>3

\* The address bar of the template editor always holds the shape on screen: whatever was edited,
\* undone or loaded, a refresh decodes the same stages and edges, unless the shape is spelled
\* longer than an address may be. (FlowsPage.tsx, urlState.ts:33-68)
THEOREM RefreshAlwaysKeepsShape == Spec => []RefreshKeepsShape
BY TemplateStart, TemplateKept, RefreshKept, PTL DEF Spec

\* What the server can still refuse of a template the editor's own checks pass, if the server's
\* copy has not moved on behind the page, is what those checks do not look at: the stages' pins
\* and schedule, over-long texts, the number, length and source of the routes, and the lists of
\* the emitters.  A cycle, a missing gate, a stray edge or an unknown role never gets so far.
\* (flow-designer/model.ts:138-307, workbench.go:312-520, emit.go:228-300)
THEOREM RefusalsAlwaysForeseen == Spec => []RefusalsForeseen
BY TemplateStart, TemplateKept, Foreseen, PTL DEF Spec

LEMMA ProfileStill ==
  ASSUME ProfileHolds, UNCHANGED profileVars
  PROVE  ProfileHolds'
<1>1. UNCHANGED <<wServer, wActive, wProposal, wCache, wName, wDraft, wEditing, wSave>>
  BY Zenon DEF profileVars
<1> QED BY <1>1 DEF ProfileHolds, ServerSound, CacheSound, SavingSound, FormSound, ProposalSound, NamesSound

LEMMA ProfileKept ==
  ASSUME ProfileHolds, [Next]_vars
  PROVE  ProfileHolds'
<1>1. CASE scene = "profile" /\ Next
  <2>1. ProfileNext
    BY <1>1, Zenon DEF Next, Profile
  <2> QED BY <2>1, ProfileSteps
<1>2. CASE scene # "profile" /\ Next
  <2>1. UNCHANGED profileVars
    BY <1>2, Zenon DEF Next, Template, Prompt, Focus, Launch, RunDetail, NightRuns, Presentation, editorVars
  <2> QED BY <2>1, ProfileStill
<1>3. CASE UNCHANGED vars
  <2>1. UNCHANGED profileVars
    BY <1>3, Zenon DEF vars, editorVars
  <2> QED BY <2>1, ProfileStill
<1> QED BY <1>1, <1>2, <1>3

\* The list puts every triggered wave below the waves that trigger it, when those hang on timed
\* ones: in every profile the server stores, and in a draft as long as the times typed into it can
\* be read; a draft with an unreadable time may come out in any order. (PipelinePage.tsx:24-80)
THEOREM WavesAlwaysFollowTriggers == Spec => []WavesFollowTriggers
BY ProfileStart, ProfileKept, ListedInOrder, PTL DEF Spec

(***************************************************************************)
(* The focus page.                                                          *)
(***************************************************************************)
FocusDoc == [body : Drafts, promoted : Seq(Ideas)]
FileMaps == [FocusFiles -> FocusDoc]
FocusHolds ==
  /\ fServer \in FileMaps /\ fCache \in FileMaps /\ fFile \in FocusFiles /\ fText \in FocusDoc
  /\ fAnswer = <<>> \/ (fAnswer = <<fAnswer[1]>> /\ fAnswer[1] \in FileMaps)
  /\ fSave = [pc |-> fSave.pc, file |-> fSave.file, content |-> fSave.content]
  /\ fSave.pc = "sent" => fSave.content[1] \in FocusDoc
  /\ fPromote.pc = "sent" => fPromote.idea \in Seq(Ideas)

\* Nothing in flight.
LEMMA NoFocusCalls ==
  /\ NoFocusSave = [pc |-> NoFocusSave.pc, file |-> NoFocusSave.file, content |-> NoFocusSave.content]
  /\ NoFocusSave.pc = "idle" /\ NoPromote.pc = "idle"
  /\ \A pc : [NoPromote EXCEPT !.pc = pc].pc = pc
BY DEF NoFocusSave, NoPromote

\* A document with another body or with more promoted ideas.
LEMMA FocusDocs ==
  ASSUME NEW d \in FocusDoc
  PROVE  /\ \A body \in Drafts : [d EXCEPT !.body = body] \in FocusDoc
         /\ \A ideas \in Seq(Ideas) : [d EXCEPT !.promoted = @ \o ideas] \in FocusDoc
<1>1. ASSUME NEW ideas \in Seq(Ideas) PROVE d.promoted \o ideas \in Seq(Ideas)
  BY ConcatProperties DEF FocusDoc
<1> QED BY <1>1 DEF FocusDoc

\* Every step of the focus page.
LEMMA FocusStep ==
  ASSUME FocusHolds, FocusNext
  PROVE  FocusHolds'
<1>1. ASSUME UNCHANGED <<fServer, fCache, fAnswer, fSave, fPromote>>, fFile' \in FocusFiles, fText' \in FocusDoc
      PROVE  FocusHolds'
  BY <1>1 DEF FocusHolds
<1>2. CASE OpenFocus
  BY <1>1, <1>2 DEF OpenFocus, MountFocus, FocusHolds, FileMaps
<1>3. CASE LeaveFocus \/ FocusFetchFails
  BY <1>1, <1>3 DEF LeaveFocus, FocusFetchFails, FocusHolds
<1>4. CASE SwitchFile
  <2>1. PICK file \in FocusFiles \ {fFile} : MountFocus(file, fCache)
    BY <1>4, Zenon DEF SwitchFile
  <2>2. UNCHANGED <<fServer, fCache, fAnswer, fSave, fPromote>>
    BY <1>4 DEF SwitchFile
  <2> QED BY <1>1, <2>1, <2>2 DEF MountFocus, FocusHolds, FileMaps
<1>5. CASE TypeFocus
  <2>1. PICK body \in Drafts : fText' = [fText EXCEPT !.body = body]
    BY <1>5, Zenon DEF TypeFocus
  <2>2. UNCHANGED <<fServer, fCache, fAnswer, fSave, fPromote, fFile>>
    BY <1>5 DEF TypeFocus
  <2>3. fText' \in FocusDoc
    BY <2>1, FocusDocs DEF FocusHolds
  <2> QED BY <1>1, <2>2, <2>3 DEF FocusHolds
<1>6. CASE FocusAnswered
  BY <1>6 DEF FocusAnswered, FocusHolds
<1>7. CASE FocusArrives
  <2>1. fAnswer[1] \in FileMaps /\ fAnswer' = <<>> /\ fCache' = fAnswer[1] /\ UNCHANGED <<fServer, fFile, fSave, fPromote>>
    BY <1>7 DEF FocusArrives, FocusHolds
  <2>2. fAnswer[1][fFile] \in FocusDoc
    BY <2>1 DEF FocusHolds, FileMaps
  <2>3. fText' \in FocusDoc
    BY <1>7, <2>2 DEF FocusArrives, Adopt, MountFocus, FocusHolds
  <2> QED BY <2>1, <2>3 DEF FocusHolds
<1>8. CASE SaveFocus
  BY <1>8 DEF SaveFocus, FocusHolds
<1>9. ASSUME NEW idea \in Ideas, PromoteIdea(idea) PROVE FocusHolds'
  BY <1>9 DEF PromoteIdea, FocusHolds
<1>10. CASE FocusHandled
  <2>1. UNCHANGED <<fCache, fAnswer, fFile, fText>>
    BY <1>10 DEF FocusHandled
  <2>2. fServer' \in FileMaps
    <3>1. CASE fSave.pc = "sent" /\ Saved
      BY <3>1 DEF Saved, FocusHolds, FileMaps
    <3>2. CASE fPromote.pc = "sent" /\ Promoted
      <4>1. fServer[Gate] \in FocusDoc /\ Gate \in FocusFiles
        BY FocusAssumption DEF FocusHolds, FileMaps
      <4>2. [fServer[Gate] EXCEPT !.promoted = @ \o fPromote.idea] \in FocusDoc
        BY <3>2, <4>1, FocusDocs DEF FocusHolds
      <4> DEFINE doc == [fServer[Gate] EXCEPT !.promoted = @ \o fPromote.idea]
      <4>3. fServer' = [fServer EXCEPT ![Gate] = doc]
        BY <3>2, <4>1 DEF Promoted
      <4> HIDE DEF doc
      <4> QED BY <4>2, <4>3 DEF FocusHolds, FileMaps, doc
    <3>3. CASE UNCHANGED fServer
      BY <3>3 DEF FocusHolds
    <3> QED BY <1>10, <3>1, <3>2, <3>3 DEF FocusHandled
  <2>3. /\ fSave' = [pc |-> fSave'.pc, file |-> fSave'.file, content |-> fSave'.content]
        /\ fSave'.pc = "sent" => fSave'.content[1] \in FocusDoc
    <3>1. fSave' = fSave \/ fSave' = NoFocusSave \/ fSave' = [fSave EXCEPT !.pc = "done"]
      BY <1>10 DEF FocusHandled
    <3>2. CASE fSave' = [fSave EXCEPT !.pc = "done"]
      BY <3>2 DEF FocusHolds
    <3> QED BY <3>1, <3>2, NoFocusCalls DEF FocusHolds
  <2>4. fPromote'.pc = "sent" => fPromote'.idea \in Seq(Ideas)
    <3>1. fPromote' = fPromote \/ fPromote' = NoPromote \/ \E pc \in {"done", "idle"} : fPromote' = [NoPromote EXCEPT !.pc = pc]
      BY <1>10 DEF FocusHandled
    <3> QED BY <3>1, NoFocusCalls DEF FocusHolds
  <2> QED BY <2>1, <2>2, <2>3, <2>4 DEF FocusHolds
<1>11. CASE FocusInvalidated
  <2>1. fAnswer' = <<>> /\ UNCHANGED <<fServer, fCache, fFile, fText>>
    BY <1>11 DEF FocusInvalidated
  <2>2. (fSave' = NoFocusSave \/ fSave' = fSave) /\ (fPromote' = NoPromote \/ fPromote' = fPromote)
    BY <1>11 DEF FocusInvalidated
  <2> QED BY <2>1, <2>2, NoFocusCalls DEF FocusHolds
<1> QED BY <1>2, <1>3, <1>4, <1>5, <1>6, <1>7, <1>8, <1>9, <1>10, <1>11, Zenon DEF FocusNext

LEMMA FocusStart == Init => FocusHolds
<1> SUFFICES ASSUME Init PROVE FocusHolds
  OBVIOUS
<1> DEFINE d == CHOOSE x \in Drafts : TRUE
<1>1. FocusInit
  BY DEF Init
<1>2. d \in Drafts
  BY FocusAssumption
<1> HIDE DEF d
<1>3. [body |-> d, promoted |-> <<>>] \in FocusDoc
  BY <1>2, EmptySeq DEF FocusDoc
<1>4. fServer = [f \in FocusFiles |-> [body |-> d, promoted |-> <<>>]]
  BY <1>1 DEF FocusInit, d
<1>5. fServer \in FileMaps /\ Gate \in FocusFiles
  BY <1>3, <1>4, FocusAssumption DEF FileMaps
<1>6. fServer[Gate] \in FocusDoc
  BY <1>5 DEF FileMaps
<1> QED BY <1>1, <1>5, <1>6, NoFocusCalls DEF FocusInit, FocusHolds

LEMMA FocusTyped == FocusHolds /\ BaseIsCached => FocusTypeOK
BY DEF FocusHolds, FocusDoc, BaseIsCached, FocusTypeOK

LEMMA FocusKept ==
  ASSUME FocusHolds, [Next]_vars
  PROVE  FocusHolds'
<1>1. ASSUME UNCHANGED focusVars PROVE FocusHolds'
  <2>1. UNCHANGED <<fServer, fCache, fAnswer, fFile, fText, fSave, fPromote>>
    BY <1>1, Zenon DEF focusVars
  <2> QED BY <2>1 DEF FocusHolds
<1>2. FocusNext \/ UNCHANGED focusVars
  BY Zenon DEF Next, Template, Prompt, Profile, Focus, Launch, RunDetail, NightRuns, Presentation, vars, editorVars
<1> QED BY <1>1, <1>2, FocusStep

(***************************************************************************)
(* The run page.                                                            *)
(***************************************************************************)
RunShaped(run) ==
  /\ run = [status |-> run.status, guidance |-> run.guidance, timed |-> run.timed, tree |-> run.tree,
            nodes |-> run.nodes, delivered |-> run.delivered]
  /\ run.guidance \in GuidanceTexts /\ run.nodes \in RunStages..(RunStages + RunRounds)
  /\ run.delivered \in Nat /\ run.delivered <= run.nodes
CallHolds(call) ==
  /\ call = [pc |-> call.pc, value |-> call.value, answer |-> call.answer]
CallsHold ==
  /\ rCalls = [k \in CallKinds |-> rCalls[k]] /\ \A k \in CallKinds : CallHolds(rCalls[k])
  /\ rCalls["guidance"].pc = "sent" => rCalls["guidance"].value[1] \in GuidanceTexts
RunHolds == RunShaped(rServer) /\ rTyped \in GuidanceTexts /\ CallsHold

\* A run that moved on is a run.
LEMMA LaterShaped ==
  ASSUME NEW run, RunShaped(run), NEW next \in Later(run)
  PROVE  RunShaped(next)
<1>1. RunStages \in Nat /\ RunRounds \in Nat
  BY RunAssumption
<1>2. CASE next \in Advance(run)
  <2>1. PICK n \in run.delivered..Min({run.nodes, run.delivered + 1}) :
               next = [run EXCEPT !.status = "running", !.delivered = n]
    BY <1>2 DEF Advance
  <2>2. run.nodes \in Nat /\ run.delivered \in Nat
    BY <1>1 DEF RunShaped
  <2>3. Min({run.nodes, run.delivered + 1}) \in Nat /\ Min({run.nodes, run.delivered + 1}) <= run.nodes
    <3>1. ASSUME NEW a \in Nat, NEW b \in Nat PROVE Min({a, b}) \in Nat /\ Min({a, b}) <= a
      <4>1. \E x \in {a, b} : \A y \in {a, b} : x <= y
        <5>1. CASE a <= b
          BY <5>1
        <5>2. CASE b <= a
          BY <5>2
        <5> QED BY <5>1, <5>2
      <4> QED BY <4>1 DEF Min
    <3> QED BY <2>2, <3>1
  <2>4. n \in Nat /\ n <= run.nodes
    BY <2>2, <2>3
  <2> QED BY <2>1, <2>4 DEF RunShaped
<1>3. CASE next \in Remediate(run)
  <2>1. next = [run EXCEPT !.nodes = @ + 1] /\ run.nodes # RunStages + RunRounds
    BY <1>3 DEF Remediate
  <2>2. run.nodes + 1 \in RunStages..(RunStages + RunRounds) /\ run.delivered <= run.nodes + 1
    BY <1>1, <2>1 DEF RunShaped
  <2> QED BY <2>1, <2>2 DEF RunShaped
<1>4. CASE next \in Ended(run) \cup Cleaned(run)
  BY <1>4 DEF Ended, Cleaned, RunShaped
<1> QED BY <1>2, <1>3, <1>4 DEF Later

\* Whatever a call does to a run leaves a run.
LEMMA OutcomeShaped ==
  ASSUME NEW kind \in CallKinds, NEW value, kind = "guidance" => value[1] \in GuidanceTexts,
         NEW run, RunShaped(run), NEW next \in Outcomes(kind, value, run)
  PROVE  RunShaped(next)
<1>1. CASE kind = "deadline"
  BY <1>1 DEF Outcomes, RunShaped
<1>2. CASE kind = "guidance"
  BY <1>2 DEF Outcomes, RunShaped
<1>3. CASE kind = "stop"
  BY <1>3 DEF Outcomes, RunShaped
<1>4. CASE kind = "cleanup"
  BY <1>4 DEF Outcomes, RunShaped, Cleaned
<1> QED BY <1>1, <1>2, <1>3, <1>4 DEF CallKinds

\* One call changes.
LEMMA CallMoves ==
  ASSUME CallsHold, NEW kind \in CallKinds, NEW call, CallHolds(call), rCalls' = [rCalls EXCEPT ![kind] = call],
         (kind = "guidance" /\ call.pc = "sent") => call.value[1] \in GuidanceTexts
  PROVE  CallsHold'
<1>1. \A k \in CallKinds : rCalls'[k] = IF k = kind THEN call ELSE rCalls[k]
  BY DEF CallsHold
<1>2. rCalls' = [k \in CallKinds |-> rCalls'[k]]
  BY DEF CallsHold
<1>3. "guidance" \in CallKinds
  BY DEF CallKinds
<1>4. \A k \in CallKinds : CallHolds(rCalls'[k])
  BY <1>1 DEF CallsHold
<1>5. rCalls'["guidance"].pc = "sent" => rCalls'["guidance"].value[1] \in GuidanceTexts
  <2>1. CASE kind = "guidance"
    BY <1>1, <1>3, <2>1
  <2>2. CASE kind # "guidance"
    BY <1>1, <1>3, <2>2 DEF CallsHold
  <2> QED BY <2>1, <2>2
<1> QED BY <1>2, <1>4, <1>5 DEF CallsHold, CallHolds

\* A call with two of its fields changed.
LEMMA CallSent ==
  ASSUME NEW q, CallHolds(q), NEW pc, NEW v
  PROVE  [q EXCEPT !.pc = pc, !.value = v] = [pc |-> pc, value |-> v, answer |-> q.answer]
<1>1. q = [pc |-> q.pc, value |-> q.value, answer |-> q.answer]
  BY DEF CallHolds
<1> DEFINE c == [q EXCEPT !.pc = pc, !.value = v]
<1>2. c = [k \in {"pc", "value", "answer"} |-> c[k]] /\ c.pc = pc /\ c.value = v /\ c.answer = q.answer
  BY <1>1
<1> HIDE DEF c
<1>3. c = [pc |-> c.pc, value |-> c.value, answer |-> c.answer]
  BY <1>2
<1> QED BY <1>2, <1>3 DEF c

LEMMA CallDone ==
  ASSUME NEW q, CallHolds(q), NEW pc, NEW v
  PROVE  [q EXCEPT !.pc = pc, !.answer = v] = [pc |-> pc, value |-> q.value, answer |-> v]
<1>1. q = [pc |-> q.pc, value |-> q.value, answer |-> q.answer]
  BY DEF CallHolds
<1> DEFINE c == [q EXCEPT !.pc = pc, !.answer = v]
<1>2. c = [k \in {"pc", "value", "answer"} |-> c[k]] /\ c.pc = pc /\ c.value = q.value /\ c.answer = v
  BY <1>1
<1> HIDE DEF c
<1>3. c = [pc |-> c.pc, value |-> c.value, answer |-> c.answer]
  BY <1>2
<1> QED BY <1>2, <1>3 DEF c

\* No call, one just sent and one just answered.
LEMMA QuietIs ==
  /\ CallHolds(Quiet) /\ Quiet.pc = "idle"
  /\ \A value : /\ CallHolds([Quiet EXCEPT !.pc = "sent", !.value = value])
                /\ [Quiet EXCEPT !.pc = "sent", !.value = value].value = value
  /\ \A answer : /\ CallHolds([Quiet EXCEPT !.pc = "done", !.answer = answer])
                 /\ [Quiet EXCEPT !.pc = "done", !.answer = answer].pc = "done"
<1>1. CallHolds(Quiet) /\ Quiet.pc = "idle"
  BY DEF CallHolds, Quiet
<1>2. \A pc, value, answer : CallHolds([pc |-> pc, value |-> value, answer |-> answer])
  BY DEF CallHolds
<1>3. ASSUME NEW value
      PROVE  /\ CallHolds([Quiet EXCEPT !.pc = "sent", !.value = value])
             /\ [Quiet EXCEPT !.pc = "sent", !.value = value].value = value
  <2> DEFINE c == [Quiet EXCEPT !.pc = "sent", !.value = value]
  <2>1. c = [pc |-> "sent", value |-> value, answer |-> Quiet.answer]
    BY <1>1, CallSent
  <2> HIDE DEF c
  <2>2. CallHolds(c) /\ c.value = value
    BY <1>2, <2>1
  <2> QED BY <2>2 DEF c
<1>4. ASSUME NEW answer
      PROVE  /\ CallHolds([Quiet EXCEPT !.pc = "done", !.answer = answer])
             /\ [Quiet EXCEPT !.pc = "done", !.answer = answer].pc = "done"
  <2> DEFINE c == [Quiet EXCEPT !.pc = "done", !.answer = answer]
  <2>1. c = [pc |-> "done", value |-> Quiet.value, answer |-> answer]
    BY <1>1, CallDone
  <2> HIDE DEF c
  <2>2. CallHolds(c) /\ c.pc = "done"
    BY <1>2, <2>1
  <2> QED BY <2>2 DEF c
<1>5. \A value : /\ CallHolds([Quiet EXCEPT !.pc = "sent", !.value = value])
                /\ [Quiet EXCEPT !.pc = "sent", !.value = value].value = value
  BY <1>3, Zenon
<1>6. \A answer : /\ CallHolds([Quiet EXCEPT !.pc = "done", !.answer = answer])
                 /\ [Quiet EXCEPT !.pc = "done", !.answer = answer].pc = "done"
  BY <1>4, Zenon
<1> QED BY <1>1, <1>5, <1>6, Zenon

\* Every step of the run page.
LEMMA RunStep ==
  ASSUME RunHolds, RunNext
  PROVE  RunHolds'
<1>0. RunShaped(rServer) /\ rTyped \in GuidanceTexts /\ CallsHold /\ "" \in GuidanceTexts
  BY RunAssumption DEF RunHolds
<1>1. ASSUME UNCHANGED rCalls PROVE CallsHold'
  BY <1>0, <1>1 DEF CallsHold, CallHolds
<1>2. ASSUME UNCHANGED rServer PROVE RunShaped(rServer')
  BY <1>0, <1>2
<1>3. ASSUME UNCHANGED <<rServer, rCalls>>, rTyped' \in GuidanceTexts PROVE RunHolds'
  BY <1>1, <1>2, <1>3 DEF RunHolds, RunShaped
<1>4. CASE RunMoves
  <2>1. rServer' \in Later(rServer) /\ UNCHANGED <<rTyped, rCalls>>
    BY <1>4 DEF RunMoves, rForm
  <2>2. RunShaped(rServer')
    BY <1>0, <2>1, LaterShaped
  <2> QED BY <1>0, <1>1, <2>1, <2>2 DEF RunHolds, RunShaped
<1>5. CASE ListPolled \/ OpenRun \/ LeaveRun \/ PollAnswered \/ PollArrives \/ PollLost \/ SelectRunNode
  <2>1. UNCHANGED <<rServer, rCalls>> /\ (rTyped' = rTyped \/ rTyped' = "")
    BY <1>5, Zenon DEF ListPolled, OpenRun, LeaveRun, runVars, PollAnswered, PollArrives, PollLost, SelectRunNode, rForm
  <2> QED BY <1>0, <1>3, <2>1
<1>6. CASE TypeRun
  BY <1>3, <1>6 DEF TypeRun
<1>7. ASSUME NEW kind \in CallKinds, PressRun(kind) PROVE RunHolds'
  <2>1. PICK value \in Fielded(kind) : rCalls' = [rCalls EXCEPT ![kind] = [Quiet EXCEPT !.pc = "sent", !.value = value]]
    BY <1>7, Zenon DEF PressRun
  <2>2. UNCHANGED <<rServer, rTyped>>
    BY <1>7 DEF PressRun, rForm
  <2>3. kind = "guidance" => value[1] \in GuidanceTexts
    <3>1. ASSUME kind = "guidance" PROVE value = <<rTyped>>
      BY <3>1 DEF Fielded
    <3>2. <<rTyped>>[1] \in GuidanceTexts
      BY <1>0
    <3> QED BY <3>1, <3>2, Zenon
  <2> DEFINE call == [Quiet EXCEPT !.pc = "sent", !.value = value]
  <2>4. CallHolds(call) /\ call.value = value
    BY QuietIs
  <2> HIDE DEF call
  <2>5. CallsHold'
    BY <1>0, <2>1, <2>3, <2>4, CallMoves DEF call
  <2> QED BY <1>0, <1>2, <2>2, <2>5 DEF RunHolds, RunShaped
<1>8. ASSUME NEW kind \in CallKinds, RunHandled(kind) PROVE RunHolds'
  <2>1. UNCHANGED rTyped /\ rCalls[kind].pc = "sent"
    BY <1>8 DEF RunHandled, rForm
  <2>2. kind = "guidance" => rCalls[kind].value[1] \in GuidanceTexts
    BY <1>0, <2>1 DEF CallsHold
  <2>3. ASSUME NEW run \in Outcomes(kind, rCalls[kind].value, rServer), NEW stored \in BOOLEAN,
               rServer' = (IF stored THEN run ELSE rServer),
               rCalls' = [rCalls EXCEPT ![kind] = [Quiet EXCEPT !.pc = "done", !.answer = <<run>>]]
        PROVE  RunHolds'
    <3>1. RunShaped(run)
      BY <1>0, <2>2, OutcomeShaped
    <3>2. RunShaped(rServer')
      BY <1>0, <2>3, <3>1
    <3> DEFINE call == [Quiet EXCEPT !.pc = "done", !.answer = <<run>>]
    <3>3. CallHolds(call) /\ call.pc = "done"
      BY QuietIs
    <3> HIDE DEF call
    <3>4. CallsHold'
      BY <1>0, <2>3, <3>3, CallMoves DEF call
    <3> QED BY <1>0, <2>1, <3>2, <3>4 DEF RunHolds, RunShaped
  <2>4. ASSUME rCalls' = [rCalls EXCEPT ![kind].pc = "failed"], UNCHANGED rServer PROVE RunHolds'
    <3> DEFINE call == [rCalls[kind] EXCEPT !.pc = "failed"]
    <3>1. CallHolds(rCalls[kind])
      BY <1>0 DEF CallsHold
    <3>2. CallHolds(call) /\ call.pc = "failed"
      BY <3>1 DEF CallHolds
    <3>3. rCalls' = [rCalls EXCEPT ![kind] = call]
      BY <2>4
    <3> HIDE DEF call
    <3>4. CallsHold'
      BY <1>0, <3>2, <3>3, CallMoves
    <3> QED BY <1>0, <1>2, <2>1, <2>4, <3>4 DEF RunHolds, RunShaped
  <2> QED BY <1>8, <2>3, <2>4, Zenon DEF RunHandled
<1>9. ASSUME NEW kind \in CallKinds, RunAnswered(kind) \/ RunRefused(kind) PROVE RunHolds'
  <2>1. rCalls' = [rCalls EXCEPT ![kind] = Quiet] /\ UNCHANGED rServer /\ (rTyped' = rTyped \/ rTyped' = "")
    BY <1>9, Zenon DEF RunAnswered, RunRefused, rForm
  <2>2. CallsHold'
    BY <1>0, <2>1, QuietIs, CallMoves
  <2> QED BY <1>0, <1>2, <2>1, <2>2 DEF RunHolds, RunShaped
<1> QED BY <1>4, <1>5, <1>6, <1>7, <1>8, <1>9, Zenon DEF RunNext, RunSettles

LEMMA RunStart == Init => RunHolds
<1> SUFFICES ASSUME Init PROVE RunHolds
  OBVIOUS
<1>1. RunInit /\ RunStages \in Nat /\ RunRounds \in Nat /\ "" \in GuidanceTexts
  BY RunAssumption DEF Init
<1>2. RunShaped(rServer)
  <2>1. RunStages \in RunStages..(RunStages + RunRounds) /\ 0 <= RunStages
    <3>1. ASSUME NEW a \in Nat, NEW b \in Nat PROVE a \in a..(a + b) /\ 0 <= a
      OBVIOUS
    <3>2. RunStages \in Nat /\ RunRounds \in Nat
      BY <1>1
    <3> QED BY <3>1, <3>2, Zenon
  <2>2. rServer = [status |-> "queued", guidance |-> "", timed |-> FALSE, tree |-> "kept",
                   nodes |-> RunStages, delivered |-> 0]
    BY <1>1 DEF RunInit
  <2> QED BY <1>1, <2>1, <2>2 DEF RunShaped
<1>3. CallsHold
  <2>1. rCalls = [k \in CallKinds |-> Quiet] /\ "guidance" \in CallKinds
    BY <1>1 DEF RunInit, CallKinds
  <2> QED BY <2>1, QuietIs DEF CallsHold
<1> QED BY <1>1, <1>2, <1>3 DEF RunInit, RunHolds

LEMMA RunTyped == RunHolds => RunTypeOK
BY DEF RunHolds, RunShaped, RunTypeOK

LEMMA RunKept ==
  ASSUME RunHolds, [Next]_vars
  PROVE  RunHolds'
<1>1. ASSUME UNCHANGED runVars PROVE RunHolds'
  <2>1. UNCHANGED <<rServer, rTyped, rCalls>>
    BY <1>1, Zenon DEF runVars
  <2> QED BY <2>1 DEF RunHolds, RunShaped, CallsHold, CallHolds
<1>2. RunNext \/ UNCHANGED runVars
  BY Zenon DEF Next, Template, Prompt, Profile, Focus, Launch, RunDetail, NightRuns, Presentation, vars, pageVars
<1> QED BY <1>1, <1>2, RunStep

(***************************************************************************)
(* The types of the launcher, the tabs and the night page.                  *)
(***************************************************************************)
LEMMA LauncherTyped == LauncherHolds => LauncherTypeOK
<1> SUFFICES ASSUME LauncherHolds PROVE LauncherTypeOK
  OBVIOUS
<1>1. /\ nServer \in Shelf /\ nStep \in 0..2 /\ nFilled \subseteq OutcomeParts \cup {"acceptance"}
      /\ Customized /\ Reviewed
  BY DEF LauncherHolds
<1>2. nCustom # Nothing => nCustom[1] \in Seq(Member) /\ LaunchNodes = nCustom[1]
  BY <1>1 DEF Customized, LaunchNodes, Untouched, The
<1>3. nStep = 2 => LaunchNodes # <<>> \/ nCustom = Nothing
  BY <1>1, <1>2 DEF Reviewed
<1> QED BY <1>1, <1>2, <1>3 DEF LauncherTypeOK

HidesBases(state) == state.hidden \subseteq Bases
TabsHold ==
  /\ HidesBases(vStorage) /\ vBlocked \subseteq Tabs \X StorageKeys
  /\ \A t \in Tabs : vSnapshot[t] # <<>> => HidesBases(vSnapshot[t][1])

\* What is hidden is a set of bases.
LEMMA HidesKept ==
  ASSUME NEW state, DOMAIN state = StorageKeys, HidesBases(state), NEW key \in StorageKeys,
         NEW value, key = "hidden" => value \subseteq Bases
  PROVE  HidesBases([state EXCEPT ![key] = value])
<1>1. "hidden" \in DOMAIN state
  BY DEF StorageKeys
<1>2. CASE key = "hidden"
  <2>1. [state EXCEPT ![key] = value].hidden = value
    BY <1>1, <1>2
  <2> QED BY <1>2, <2>1 DEF HidesBases
<1>3. CASE key # "hidden"
  <2>1. [state EXCEPT ![key] = value].hidden = state.hidden
    BY <1>1, <1>3
  <2> QED BY <2>1 DEF HidesBases
<1> QED BY <1>2, <1>3

\* A tab changes a key, and a tab reads the storage.
LEMMA PressHolds ==
  ASSUME KeysAgree, TabsHold, NEW tab \in Tabs, NEW key \in StorageKeys, NEW value,
         key = "hidden" => value \subseteq Bases, Press(tab, key, value)
  PROVE  TabsHold'
<1>1. /\ DOMAIN vStorage = StorageKeys /\ DOMAIN vSnapshot = Tabs
      /\ \A t \in Tabs : vSnapshot[t] # <<>> => DOMAIN vSnapshot[t][1] = StorageKeys
  BY DEF KeysAgree, TabShapes
<1>2. /\ HidesBases(vStorage) /\ vBlocked \subseteq Tabs \X StorageKeys
      /\ \A t \in Tabs : vSnapshot[t] # <<>> => HidesBases(vSnapshot[t][1])
  BY DEF TabsHold
<1> DEFINE mine == [vSnapshot[tab][1] EXCEPT ![key] = value]
<1>3. vSnapshot[tab] # <<>> /\ vSnapshot' = [vSnapshot EXCEPT ![tab] = <<mine>>]
  BY DEF Press, Snapshot
<1>4. HidesBases(mine)
  BY <1>1, <1>2, <1>3, HidesKept
<1> HIDE DEF mine
<1>5. \A t \in Tabs : vSnapshot'[t] # <<>> => HidesBases(vSnapshot'[t][1])
  BY <1>1, <1>2, <1>3, <1>4
<1>6. vStorage' = [vStorage EXCEPT ![key] = value] \/ vStorage' = vStorage
  BY DEF Press
<1>7. HidesBases(vStorage')
  BY <1>1, <1>2, <1>6, HidesKept
<1>8. vBlocked' \subseteq Tabs \X StorageKeys
  BY <1>2 DEF Press
<1> QED BY <1>5, <1>7, <1>8 DEF TabsHold, HidesBases

LEMMA ReadHolds ==
  ASSUME TabShapes, TabsHold, NEW tab \in Tabs, UNCHANGED vStorage, vBlocked' \subseteq vBlocked,
         vSnapshot' = [vSnapshot EXCEPT ![tab] = <<vStorage>>]
  PROVE  TabsHold'
<1>1. HidesBases(vStorage) /\ HidesBases(vStorage')
  BY DEF TabsHold
<1>2. ASSUME NEW t \in Tabs, vSnapshot'[t] # <<>> PROVE HidesBases(vSnapshot'[t][1])
  <2>1. CASE t = tab
    BY <1>1, <2>1 DEF TabShapes
  <2>2. CASE t # tab
    BY <1>2, <2>2 DEF TabShapes, TabsHold
  <2> QED BY <2>1, <2>2
<1> QED BY <1>1, <1>2 DEF TabsHold, HidesBases

\* Every step of the tabs.
LEMMA TabsHeld ==
  ASSUME KeysAgree, TabsHold, VisibilityNext
  PROVE  TabsHold'
<1>0. "presenting" \in StorageKeys /\ "hidden" \in StorageKeys /\ TabShapes
  BY DEF StorageKeys, KeysAgree
<1>1. ASSUME NEW tab \in Tabs, OpenTab(tab) \/ ReloadTab(tab) PROVE TabsHold'
  <2>1. /\ vSnapshot' = [vSnapshot EXCEPT ![tab] = <<vStorage>>] /\ UNCHANGED vStorage
        /\ vBlocked' \subseteq vBlocked
    BY <1>1 DEF OpenTab, ReloadTab
  <2> QED BY <1>0, <2>1, ReadHolds
<1>2. ASSUME NEW tab \in Tabs, SetPresenting(tab) PROVE TabsHold'
  <2>1. Press(tab, "presenting", ~ Snapshot(tab).presenting)
    BY <1>2, Zenon DEF SetPresenting
  <2> QED BY <1>0, <2>1, PressHolds
<1>3. ASSUME NEW tab \in Tabs, NEW name \in DOMAIN Agents, NEW hide \in BOOLEAN, SetAgentHidden(tab, name, hide)
      PROVE  TabsHold'
  <2>1. PICK value : /\ Press(tab, "hidden", value)
                     /\ value = IF hide THEN Snapshot(tab).hidden \cup {BaseAgent(name)}
                                ELSE Snapshot(tab).hidden \ {BaseAgent(name)}
    BY <1>3, Zenon DEF SetAgentHidden
  <2>2. vSnapshot[tab] # <<>>
    BY <2>1 DEF Press
  <2>3. Snapshot(tab).hidden \subseteq Bases
    BY <2>2 DEF Snapshot, TabsHold, HidesBases
  <2>4. BaseAgent(name) \in Bases
    BY VisibilityAssumption DEF BaseAgent
  <2> QED BY <1>0, <2>1, <2>3, <2>4, PressHolds
<1>4. ASSUME NEW tab \in Tabs, StorageEvent(tab) PROVE TabsHold'
  <2>1. vEvents[tab] # <<>> /\ vEvents[tab] \in Seq(StorageKeys)
    BY <1>0, <1>4 DEF StorageEvent, TabShapes
  <2>2. Head(vEvents[tab]) \in StorageKeys
    BY <2>1
  <2>3. /\ vSnapshot' = [vSnapshot EXCEPT ![tab] = <<vStorage>>] /\ UNCHANGED vStorage
        /\ vBlocked' \subseteq vBlocked
    BY <1>4, <2>2 DEF StorageEvent, Hears
  <2> QED BY <1>0, <2>3, ReadHolds
<1> QED BY <1>1, <1>2, <1>3, <1>4, Zenon DEF VisibilityNext

LEMMA TabsKept ==
  ASSUME KeysAgree, TabsHold, [Next]_vars
  PROVE  TabsHold'
<1>1. ASSUME UNCHANGED visibilityVars PROVE TabsHold'
  <2>1. UNCHANGED <<vStorage, vSnapshot, vBlocked>>
    BY <1>1, Zenon DEF visibilityVars
  <2> QED BY <2>1 DEF TabsHold, HidesBases
<1>2. VisibilityNext \/ UNCHANGED visibilityVars
  BY Zenon DEF Next, Template, Prompt, Profile, Focus, Launch, RunDetail, NightRuns, Presentation, vars, pageVars
<1> QED BY <1>1, <1>2, TabsHeld

LEMMA TabsStart == Init => TabsHold /\ KeysAgree
<1> SUFFICES ASSUME Init PROVE TabsHold /\ KeysAgree
  OBVIOUS
<1>1. KeysAgree
  BY EmptySeq DEF Init, VisibilityInit, KeysAgree, TabShapes, KeyAgrees, StorageKeys
<1>2. vStorage.hidden = Defaults /\ vBlocked = {} /\ vSnapshot = [t \in Tabs |-> <<>>]
  BY DEF Init, VisibilityInit
<1> QED BY <1>1, <1>2, VisibilityAssumption DEF TabsHold, HidesBases

LEMMA KeysKept == KeysAgree /\ [Next]_vars => KeysAgree'
<1> SUFFICES ASSUME KeysAgree, [Next]_vars PROVE KeysAgree'
  OBVIOUS
<1>1. CASE VisibilityNext
  BY <1>1, TabsStep
<1>2. CASE UNCHANGED visibilityVars
  BY <1>2 DEF KeysAgree, TabShapes, KeyAgrees, visibilityVars
<1> QED BY <1>1, <1>2, Zenon DEF Next, Template, Prompt, Profile, Focus, Launch, RunDetail, NightRuns,
                              Presentation, vars, pageVars

LEMMA TabsTyped == TabsHold /\ KeysAgree => VisibilityTypeOK
BY DEF TabsHold, HidesBases, KeysAgree, TabShapes, VisibilityTypeOK

(***************************************************************************)
(* The jobs of the night page, wherever a copy of them is.                  *)
(***************************************************************************)
JobMaps == [DOMAIN JobFacts -> JobStates]
JobCopies == {<<>>} \cup {<<m>> : m \in JobMaps}
JobsHold ==
  /\ kJobs \in JobMaps /\ kRows \in JobCopies /\ kRowsFetch \in JobCopies
  /\ kMoved \subseteq DOMAIN JobFacts /\ kForeign \subseteq SweepAgents
  /\ kCall.job \in DOMAIN JobFacts

\* A job's state changes.
LEMMA JobChanged ==
  ASSUME NEW map \in JobMaps, NEW job, NEW state \in JobStates
  PROVE  [map EXCEPT ![job] = state] \in JobMaps
BY DEF JobMaps

\* What the server does with a request leaves job states.
LEMMA TakenTyped ==
  ASSUME kJobs \in JobMaps, NEW kind, NEW job \in DOMAIN JobFacts
  PROVE  JobTaken(kind, job) \in JobMaps
<1>1. kJobs[job] \in JobStates
  BY DEF JobMaps
<1>2. "absent" \in JobStates /\ "scheduled" \in JobStates /\ "over" \in JobStates
  BY DEF JobStates
<1>3. CASE kind = "queue"
  BY <1>1, <1>2, <1>3 DEF JobTaken, JobMaps
<1>4. CASE kind = "cancel"
  BY <1>1, <1>2, <1>4 DEF JobTaken, JobMaps
<1>5. CASE kind # "queue" /\ kind # "cancel"
  BY <1>1, <1>2, <1>5 DEF JobTaken, JobMaps
<1> QED BY <1>3, <1>4, <1>5

\* Every step of the night page.
LEMMA JobsStep ==
  ASSUME CallShaped, JobsHold, NightNext
  PROVE  JobsHold'
<1>0. /\ kJobs \in JobMaps /\ kRows \in JobCopies /\ kRowsFetch \in JobCopies
      /\ kMoved \subseteq DOMAIN JobFacts /\ kForeign \subseteq SweepAgents
      /\ kCall.job \in DOMAIN JobFacts
  BY DEF JobsHold
<1>1. <<>> \in JobCopies /\ {} \subseteq DOMAIN JobFacts /\ NoJobCall.job \in DOMAIN JobFacts
  BY NightAssumption DEF JobCopies, NoJobCall
<1>2. ASSUME UNCHANGED <<kJobs, kRows, kRowsFetch, kMoved, kCall>>, kForeign' \subseteq SweepAgents
      PROVE  JobsHold'
  BY <1>0, <1>2 DEF JobsHold
<1>3. ASSUME NEW a \in SweepAgents, FlipSweep(a) \/ SweepHandled(a) \/ SweepSettles(a) PROVE JobsHold'
  <2>1. UNCHANGED <<jobVars, kForeign>>
    BY <1>3, Zenon DEF FlipSweep, SweepHandled, SweepSettles
  <2> QED BY <1>0, <1>2, <2>1 DEF jobVars
<1>4. CASE OpenNight \/ LeaveNight \/ SweepsArrive \/ Compose
  BY <1>0, <1>2, <1>4 DEF OpenNight, LeaveNight, SweepsArrive, Compose, nightVars, sweepVars, jobVars, RowsUntouched
<1>5. CASE SweepsAnswered
  BY <1>2, <1>5 DEF SweepsAnswered, jobVars
<1>6. CASE SweptElsewhere
  BY <1>0, <1>2, <1>6 DEF SweptElsewhere, jobVars
<1>7. ASSUME NEW kind, NEW job \in DOMAIN JobFacts, PressJob(kind, job) PROVE JobsHold'
  <2>1. /\ kCall' = [pc |-> "sent", kind |-> kind, job |-> job]
        /\ UNCHANGED <<kJobs, kRows, kRowsFetch, kMoved, kForeign>>
    BY <1>7 DEF PressJob, RowsUntouched, sweepVars
  <2> QED BY <1>0, <1>7, <2>1 DEF JobsHold
<1>8. ASSUME NEW j \in Rows, CancelJob(j) \/ StopJob(j) PROVE JobsHold'
  <2>1. j \in DOMAIN JobFacts
    BY <1>0 DEF Rows, JobCopies, JobMaps
  <2> QED BY <1>7, <1>8, <2>1, Zenon DEF CancelJob, StopJob
<1>9. CASE QueueJob
  BY <1>7, <1>9, NightAssumption, Zenon DEF QueueJob
<1>10. CASE JobHandled
  <2>1. PICK kept \in BOOLEAN, pc \in {"done", "failed"} :
          /\ kJobs' = IF kept THEN JobTaken(kCall.kind, kCall.job) ELSE kJobs
          /\ kMoved' = IF kept /\ pc = "failed" /\ kCall.kind = "queue" THEN kMoved \cup {kCall.job} ELSE kMoved
          /\ kCall' = [kCall EXCEPT !.pc = pc]
    BY <1>10 DEF JobHandled
  <2>2. UNCHANGED <<kRows, kRowsFetch, kForeign>>
    BY <1>10 DEF JobHandled, RowsUntouched, sweepVars
  <2>3. kJobs' \in JobMaps
    BY <1>0, <2>1, TakenTyped
  <2>4. kMoved' \subseteq DOMAIN JobFacts
    BY <1>0, <2>1
  <2>5. kCall'.job \in DOMAIN JobFacts
    BY <1>0, <2>1 DEF CallShaped
  <2> QED BY <1>0, <2>2, <2>3, <2>4, <2>5 DEF JobsHold
<1>11. CASE JobSettles
  <2>1. /\ kCall' = NoJobCall /\ UNCHANGED <<kJobs, kRows, kMoved, kForeign>>
        /\ kRowsFetch' = kRowsFetch \/ kRowsFetch' = <<>>
    BY <1>11 DEF JobSettles, sweepVars
  <2> QED BY <1>0, <1>1, <2>1 DEF JobsHold
<1>12. CASE JobMoves
  <2>1. PICK j \in DOMAIN kJobs :
          /\ \E to \in CASE kJobs[j] \in {"scheduled", "gated"} -> {"active", "skipped"}
                         [] kJobs[j] = "active" -> {"over"} [] OTHER -> {} :
               kJobs' = [kJobs EXCEPT ![j] = to]
          /\ kMoved' = kMoved \cup {j}
    BY <1>12 DEF JobMoves
  <2>2. PICK to \in CASE kJobs[j] \in {"scheduled", "gated"} -> {"active", "skipped"}
                      [] kJobs[j] = "active" -> {"over"} [] OTHER -> {} :
               kJobs' = [kJobs EXCEPT ![j] = to]
    BY <2>1
  <2>3. to \in JobStates
    BY <2>2 DEF JobStates
  <2>4. j \in DOMAIN JobFacts
    BY <1>0 DEF JobMaps
  <2>5. UNCHANGED <<kCall, kRows, kRowsFetch, kForeign>>
    BY <1>12 DEF JobMoves, RowsUntouched, sweepVars
  <2>6. kJobs' \in JobMaps
    BY <1>0, <2>2, <2>3, JobChanged
  <2> QED BY <1>0, <2>1, <2>4, <2>5, <2>6 DEF JobsHold
<1>13. CASE JobsAnswered
  <2>1. kRowsFetch' = <<kJobs>> /\ kMoved' = {} /\ UNCHANGED <<kJobs, kRows, kCall, kForeign>>
    BY <1>13 DEF JobsAnswered, sweepVars
  <2>2. <<kJobs>> \in JobCopies
    BY <1>0 DEF JobCopies
  <2> QED BY <1>0, <1>1, <2>1, <2>2 DEF JobsHold
<1>14. CASE JobsArrive
  <2>1. kRowsFetch' = <<>> /\ kRows' = kRowsFetch /\ UNCHANGED <<kJobs, kMoved, kCall, kForeign>>
    BY <1>14 DEF JobsArrive, sweepVars
  <2> QED BY <1>0, <1>1, <2>1 DEF JobsHold
<1> QED BY <1>3, <1>4, <1>5, <1>6, <1>8, <1>9, <1>10, <1>11, <1>12, <1>13, <1>14, Zenon DEF NightNext

LEMMA JobsKept ==
  ASSUME RowsAgree, JobsHold, [Next]_vars
  PROVE  JobsHold'
<1>1. ASSUME UNCHANGED nightVars PROVE JobsHold'
  <2>1. UNCHANGED <<kJobs, kRows, kRowsFetch, kMoved, kForeign, kCall>>
    BY <1>1, Zenon DEF nightVars, sweepVars, jobVars
  <2> QED BY <2>1 DEF JobsHold
<1>2. NightNext \/ UNCHANGED nightVars
  BY Zenon DEF Next, Template, Prompt, Profile, Focus, Launch, RunDetail, NightRuns, Presentation, vars, pageVars
<1> QED BY <1>1, <1>2, JobsStep DEF RowsAgree

LEMMA NightStart == Init => JobsHold /\ SweepsAgree /\ RowsAgree
<1> SUFFICES ASSUME Init PROVE JobsHold /\ SweepsAgree /\ RowsAgree
  OBVIOUS
<1>1. /\ kSweeps = FirstSwitches /\ kShown = <<>> /\ kFetch = <<>> /\ page = "home"
      /\ kToggle = [a \in SweepAgents |-> Off] /\ kForeign = {} /\ kMoved = {}
      /\ kRows = <<>> /\ kRowsFetch = <<>> /\ kCall = NoJobCall
      /\ kJobs \in Chosen("night", FirstJobs)
  BY DEF Init, NightInit, ShellInit
<1>2. kJobs \in JobMaps
  <2>1. (CHOOSE c \in FirstJobs : TRUE) \in FirstJobs
    BY NightAssumption
  <2>2. kJobs \in FirstJobs
    BY <1>1, <2>1 DEF Chosen
  <2> QED BY <2>2, NightAssumption DEF JobMaps
<1>3. JobsHold
  BY <1>1, <1>2, NightAssumption DEF JobsHold, JobCopies, NoJobCall
<1>4. SweepTypes
  BY <1>1 DEF SweepTypes, FirstSwitches, Switches, Answers, Toggles, Off
<1> QED BY <1>1, <1>3, <1>4 DEF SweepsAgree, AgentAgrees, Night, RowsAgree, CallShaped, NoJobCall, JobAgrees

\* A wave shows as running exactly while one of its jobs is. (night.ts)
LEMMA ChipIs ==
  ASSUME NEW statuses, statuses \subseteq {WavePriority[i] : i \in 1..8}
  PROVE  AggregateStatus(statuses) = "running" <=> "running" \in statuses
<1>1. DOMAIN WavePriority = 1..8 /\ WavePriority[1] = "running" /\ \A i \in 2..8 : WavePriority[i] # "running"
  BY DEF WavePriority
<1>2. CASE statuses = {}
  BY <1>2 DEF AggregateStatus
<1>3. CASE statuses # {}
  <2> DEFINE held == {i \in DOMAIN WavePriority : WavePriority[i] \in statuses}
  <2>1. AggregateStatus(statuses) = WavePriority[Min(held)]
    BY <1>3 DEF AggregateStatus
  <2>2. held # {} /\ held \subseteq 1..8
    BY <1>1, <1>3
  <2> HIDE DEF held
  <2>3. Min(held) \in held /\ \A i \in held : Min(held) <= i
    <3>1. \E x \in held : \A y \in held : x <= y
      <4>1. held \in SUBSET (1..8) /\ 8 \in Nat
        BY <2>2
      <4> QED BY <2>2, <4>1, Extremes
    <3> QED BY <3>1 DEF Min
  <2>4. CASE "running" \in statuses
    <3>1. 1 \in held
      BY <1>1, <2>4 DEF held
    <3>2. Min(held) = 1
      <4>1. Min(held) \in 1..8 /\ Min(held) <= 1
        BY <2>2, <2>3, <3>1
      <4> QED BY <4>1
    <3> QED BY <1>1, <2>1, <2>4, <3>2
  <2>5. CASE "running" \notin statuses
    <3>1. WavePriority[Min(held)] \in statuses
      BY <2>3 DEF held
    <3> QED BY <2>1, <2>5, <3>1
  <2> QED BY <2>4, <2>5
<1> QED BY <1>2, <1>3

\* The status of a job is one that the chips know, and running only while it is active.
LEMMA StatusIs ==
  ASSUME NEW state, NEW facts
  PROVE  /\ JobStatus(state, facts) \in {WavePriority[i] : i \in 1..8}
         /\ JobStatus(state, facts) = "running" <=> state = "active"
<1> DEFINE shown == {WavePriority[i] : i \in 1..8}
<1>1. /\ "running" \in shown /\ "dep-skip" \in shown /\ "no-report" \in shown /\ "waiting" \in shown
      /\ "scheduled" \in shown /\ "delivered" \in shown /\ "auth-skip" \in shown /\ "done" \in shown
  BY DEF WavePriority
<1> HIDE DEF shown
<1>2. JobStatus(state, facts) \in shown
  BY <1>1 DEF JobStatus
<1>3. JobStatus(state, facts) = "running" <=> state = "active"
  BY DEF JobStatus
<1> QED BY <1>2, <1>3 DEF shown

LEMMA NightTyped == JobsHold /\ SweepsAgree => NightTypeOK
<1> SUFFICES ASSUME JobsHold, SweepsAgree PROVE NightTypeOK
  OBVIOUS
<1>1. \A j \in Rows : /\ RowStatus(j) \in {WavePriority[i] : i \in 1..8}
                      /\ RowStatus(j) = "running" <=> kRows[1][j] = "active"
  BY StatusIs DEF RowStatus
<1>2. {RowStatus(j) : j \in Rows} \subseteq {WavePriority[i] : i \in 1..8}
  BY <1>1
<1>3. WaveChip = "running" <=> "running" \in {RowStatus(j) : j \in Rows}
  BY <1>2, ChipIs DEF WaveChip
<1>4. "running" \in {RowStatus(j) : j \in Rows} <=> \E j \in Rows : kRows[1][j] = "active"
  BY <1>1
<1> QED BY <1>3, <1>4 DEF NightTypeOK, JobsHold, JobMaps, SweepsAgree, SweepTypes, Switches

(***************************************************************************)
(* The node library: what the server's files, the answers, the calls and    *)
(* the form hold.                                                           *)
(***************************************************************************)
BodyCopy(c) == c = <<>> \/ \E b \in Bodies : c = <<b>>
DocCopy(c) == c = <<>> \/ \E d : c = <<d>> /\ d.body \in Bodies
RuntimeCopy(c) == c = <<>> \/ \E r \in Runtimes : c = <<r>>
FilesTyped(files) ==
  /\ Filed(files) \subseteq Bodies /\ files.runtime \in Runtimes
  /\ BodyCopy(files.body) /\ (files.def => files.body # <<>>)
CopiesTyped ==
  /\ DocCopy(pDoc) /\ DocCopy(pAnswer) /\ RuntimeCopy(pNode)
  /\ pAnswer # <<>> => Len(pAnswer[1].versions) <= VersionsShown
LibraryTyped == pView \in NodeTabs \cup {"library", "new"} /\ pText \in Bodies \cup {""} /\ RuntimeCopy(pPanel)
NodeCall(kind, call) ==
  /\ DOMAIN call = {"pc", "arg", "doc"}
  /\ call.pc = "sent" /\ kind \in {"save", "create"} => call.arg \in Bodies
  /\ call.pc = "sent" /\ kind = "runtime" => call.arg \in Runtimes
  /\ call.pc = "done" /\ kind \in {"save", "restore"} => call.doc # <<>> /\ DocCopy(call.doc)
NodeCalls == DOMAIN pCalls = Kinds /\ \A k \in Kinds : NodeCall(k, pCalls[k])
RuntimeShown == PromptForm /\ pView = "runtime" => pPanel # <<>>
PromptHolds == FilesTyped(pServer) /\ CopiesTyped /\ LibraryTyped /\ NodeCalls /\ RuntimeShown

(***************************************************************************)
(* The server.                                                              *)
(***************************************************************************)
LEMMA ArchivedTyped ==
  ASSUME FileShapes, FilesTyped(pServer), NEW body \in Bodies
  PROVE  LET files == Archived(pServer, body)
         IN  FilesTyped(files) /\ files.def = pServer.def /\ DOMAIN files = {"def", "body", "versions", "runtime"}
<1> DEFINE files == Archived(pServer, body)
<1>1. files.def = pServer.def /\ DOMAIN files = {"def", "body", "versions", "runtime"}
      /\ Filed(files) = Filed(pServer) \cup {body}
  BY ArchivedKeeps
<1>2. files.body = <<body>> /\ files.runtime = pServer.runtime
  <2>1. CASE pServer.body = <<body>>
    BY <2>1 DEF Archived
  <2>2. CASE pServer.body # <<body>>
    <3> DEFINE old == [k \in DOMAIN pServer.body |-> [id |-> pClock, body |-> pServer.body[k]]]
    <3>1. files = [pServer EXCEPT !.body = <<body>>, !.versions = @ \o old]
      BY <2>2 DEF Archived
    <3> HIDE DEF files, old
    <3> QED BY <3>1 DEF FileShapes
  <2> QED BY <2>1, <2>2
<1> HIDE DEF files
<1>3. Filed(files) \subseteq Bodies /\ files.runtime \in Runtimes
  BY <1>1, <1>2 DEF FilesTyped
<1>4. BodyCopy(files.body) /\ files.body # <<>>
  BY <1>2 DEF BodyCopy
<1> QED BY <1>1, <1>3, <1>4 DEF files, FilesTyped

\* A node that is not there.
LEMMA NoFilesTyped == FilesTyped(NoFiles) /\ NoFiles.def = FALSE
<1>1. NoFiles.def = FALSE /\ NoFiles.body = <<>> /\ NoFiles.runtime = DefaultRuntime
  BY DEF NoFiles
<1> QED BY <1>1, NoFilesFiled, PromptAssumption DEF FilesTyped, BodyCopy

\* The server writes bodies and runtimes there are.
LEMMA ServerTypes ==
  ASSUME PromptsKept, FilesTyped(pServer), NEW kind, NEW arg,
         kind \in {"save", "create"} => arg \in Bodies, kind = "runtime" => arg \in Runtimes,
         ServerDoes(kind, arg)
  PROVE  FilesTyped(pServer') /\ (kind \in {"save", "restore"} => pServer'.def)
<1>0. FileShapes
  BY DEF PromptsKept
<1>1. CASE kind = "create" /\ CreateNode(arg)
  <2> DEFINE files == Archived(pServer, arg)
  <2>1. /\ FilesTyped(files) /\ DOMAIN files = {"def", "body", "versions", "runtime"}
        /\ files.body # <<>>
    <3>1. arg \in Bodies
      BY <1>1
    <3>2. FilesTyped(files) /\ DOMAIN files = {"def", "body", "versions", "runtime"}
      BY <1>0, <3>1, ArchivedTyped
    <3>3. files.body # <<>>
      <4>1. CASE pServer.body = <<arg>>
        BY <4>1 DEF Archived
      <4>2. CASE pServer.body # <<arg>>
        <5>1. files.body = <<arg>>
          BY <4>2, <1>0 DEF Archived, FileShapes
        <5> QED BY <5>1
      <4> QED BY <4>1, <4>2
    <3> QED BY <3>2, <3>3
  <2>2. pServer' = [files EXCEPT !.def = TRUE]
    BY <1>1 DEF CreateNode
  <2> HIDE DEF files
  <2>3. /\ pServer'.body = files.body /\ pServer'.versions = files.versions /\ pServer'.runtime = files.runtime
    BY <2>1, <2>2
  <2>4. Filed(pServer') = Filed(files)
    BY <2>3 DEF Filed
  <2> QED BY <1>1, <2>1, <2>3, <2>4 DEF FilesTyped
<1>2. ASSUME NEW body \in Bodies, pServer.def, SavePromptBody(body) PROVE FilesTyped(pServer') /\ pServer'.def
  <2>1. pServer' = Archived(pServer, body)
    BY <1>2 DEF SavePromptBody
  <2> QED BY <1>0, <1>2, <2>1, ArchivedTyped
<1>3. CASE pServer.def /\ kind = "save" /\ SavePromptBody(arg)
  BY <1>2, <1>3
<1>4. CASE pServer.def /\ kind = "restore" /\ RestorePrompt(arg)
  <2>1. PICK v \in ToSet(pServer.versions) : SavePromptBody(v.body)
    BY <1>4, Zenon DEF RestorePrompt
  <2>2. v.body \in Bodies
    BY DEF FilesTyped, Filed
  <2> QED BY <1>2, <1>4, <2>1, <2>2
<1>5. CASE pServer.def /\ kind = "runtime" /\ SaveNodeRuntime(arg)
  <2>1. pServer' = [pServer EXCEPT !.runtime = arg]
    BY <1>5 DEF SaveNodeRuntime
  <2>2. /\ pServer'.body = pServer.body /\ pServer'.versions = pServer.versions /\ pServer'.runtime = arg
        /\ pServer'.def = pServer.def
    BY <1>0, <2>1 DEF FileShapes
  <2>3. Filed(pServer') = Filed(pServer)
    BY <2>2 DEF Filed
  <2> QED BY <1>5, <2>2, <2>3 DEF FilesTyped
<1>6. CASE pServer.def /\ kind = "remove" /\ DeleteNode
  <2>1. pServer' = NoFiles
    BY <1>6 DEF DeleteNode, Deleted
  <2> QED BY <1>6, <2>1, NoFilesTyped
<1> QED BY <1>1, <1>3, <1>4, <1>5, <1>6, Zenon DEF ServerDoes

\* No more versions are shown than fit.
LEMMA ShownVersions ==
  ASSUME NEW S, NEW all \in Seq(S)
  PROVE  Len(SubSeq(all, Max({1, Len(all) - VersionsShown + 1}), Len(all))) <= VersionsShown
<1>1. Len(all) \in Nat /\ VersionsShown \in Nat \ {0}
  BY PromptAssumption, LenProperties
<1>2. ASSUME NEW n \in Int PROVE Max({1, n}) \in Int /\ Max({1, n}) >= 1 /\ Max({1, n}) >= n
  <2>1. \E x \in {1, n} : \A y \in {1, n} : x >= y
    <3>1. CASE n <= 1
      BY <3>1
    <3>2. CASE 1 <= n
      BY <3>2
    <3> QED BY <3>1, <3>2
  <2>2. Max({1, n}) \in {1, n} /\ \A y \in {1, n} : Max({1, n}) >= y
    <3> DEFINE S2 == {1, n}
    <3>1. \E x \in S2 : \A y \in S2 : x >= y
      BY <2>1
    <3> HIDE DEF S2
    <3>2. Max(S2) \in S2 /\ \A y \in S2 : Max(S2) >= y
      BY <3>1 DEF Max
    <3> QED BY <3>2 DEF S2
  <2> QED BY <2>2
<1> DEFINE m == Max({1, Len(all) - VersionsShown + 1})
<1>3. m \in Int /\ m >= 1 /\ m >= Len(all) - VersionsShown + 1
  BY <1>1, <1>2
<1> HIDE DEF m
<1>4. Len(SubSeq(all, m, Len(all))) = IF m <= Len(all) THEN Len(all) - m + 1 ELSE 0
  BY <1>1, <1>3, SubSeqProperties
<1>5. Len(SubSeq(all, m, Len(all))) <= VersionsShown
  BY <1>1, <1>3, <1>4
<1> QED BY <1>5 DEF m

\* The document of a node that is there.
LEMMA DocumentTyped ==
  ASSUME FileShapes, FilesTyped(pServer), pServer.def
  PROVE  Document.body \in Bodies /\ Len(Document.versions) <= VersionsShown
<1>1. \E b \in Bodies : pServer.body = <<b>>
  BY DEF FilesTyped, BodyCopy
<1>2. Document.body = pServer.body[1]
  BY DEF Document
<1>3. Document.body \in Bodies
  BY <1>1, <1>2
<1>4. Document.versions = SubSeq(pServer.versions, Max({1, Len(pServer.versions) - VersionsShown + 1}), Len(pServer.versions))
  BY DEF Document
<1> QED BY <1>3, <1>4, ShownVersions DEF FileShapes

(***************************************************************************)
(* What each kind of step leaves alone.                                     *)
(***************************************************************************)
LEMMA ServerStill ==
  ASSUME FilesTyped(pServer), UNCHANGED serverVars
  PROVE  FilesTyped(pServer')
BY DEF serverVars

\* A step that leaves a part of the page alone leaves what holds of it alone.
LEMMA CopiesStill ==
  ASSUME CopiesTyped, UNCHANGED fetchVars
  PROVE  CopiesTyped'
<1>1. pDoc' = pDoc /\ pAnswer' = pAnswer /\ pNode' = pNode
  BY DEF fetchVars
<1> QED BY <1>1 DEF CopiesTyped, DocCopy, RuntimeCopy

LEMMA LibraryStill ==
  ASSUME LibraryTyped, UNCHANGED formVars
  PROVE  LibraryTyped'
<1>1. pView' = pView /\ pText' = pText /\ pPanel' = pPanel
  BY DEF formVars
<1> QED BY <1>1 DEF LibraryTyped, RuntimeCopy

LEMMA CallsStill ==
  ASSUME NodeCalls, UNCHANGED pCalls
  PROVE  NodeCalls'
BY DEF NodeCalls, NodeCall, DocCopy

LEMMA ShownStill ==
  ASSUME RuntimeShown, UNCHANGED <<scene, page, fetchVars, formVars>>
  PROVE  RuntimeShown'
<1>1. UNCHANGED <<scene, page, pDoc, pNode, pView, pPanel>>
  BY DEF fetchVars, formVars
<1> QED BY <1>1 DEF RuntimeShown, PromptForm, NodePage, Nodes

\* Off the runtime view nothing is claimed of it.
LEMMA ElsewhereShown == pView' # "runtime" => RuntimeShown'
BY DEF RuntimeShown

\* One call changes.
LEMMA NodeCallMoves ==
  ASSUME NodeCalls, NEW kind \in Kinds, NEW call, NodeCall(kind, call), pCalls' = [pCalls EXCEPT ![kind] = call]
  PROVE  NodeCalls'
<1>1. /\ DOMAIN pCalls' = Kinds
      /\ \A k \in Kinds : pCalls'[k] = IF k = kind THEN call ELSE pCalls[k]
  BY DEF NodeCalls
<1>2. \A k \in Kinds : NodeCall(k, pCalls'[k])
  BY <1>1 DEF NodeCalls
<1> QED BY <1>1, <1>2 DEF NodeCalls, NodeCall, DocCopy

\* No call.
LEMMA NoCallIs == \A kind : NodeCall(kind, NoCall)
BY DEF NodeCall, NoCall

\* A call is sent.
LEMMA SendHolds ==
  ASSUME PromptHolds, NEW kind \in Kinds, NEW arg, Send(kind, arg),
         kind \in {"save", "create"} => arg \in Bodies, kind = "runtime" => arg \in Runtimes
  PROVE  PromptHolds'
<1>1. /\ pCalls' = [pCalls EXCEPT ![kind] = [NoCall EXCEPT !.pc = "sent", !.arg = arg]]
      /\ UNCHANGED <<scene, page, serverVars, fetchVars, formVars>>
  BY DEF Send
<1> DEFINE call == [NoCall EXCEPT !.pc = "sent", !.arg = arg]
<1>2. DOMAIN call = {"pc", "arg", "doc"} /\ call.pc = "sent" /\ call.arg = arg
  BY DEF NoCall
<1> HIDE DEF call
<1>3. NodeCall(kind, call)
  BY <1>2 DEF NodeCall
<1>4. NodeCalls'
  BY <1>1, <1>3, NodeCallMoves DEF PromptHolds, call
<1>5. UNCHANGED serverVars /\ UNCHANGED fetchVars /\ UNCHANGED formVars /\ UNCHANGED <<scene, page, fetchVars, formVars>>
  BY <1>1, Zenon
<1>6. FilesTyped(pServer') /\ CopiesTyped' /\ LibraryTyped' /\ RuntimeShown'
  BY <1>5, ServerStill, CopiesStill, LibraryStill, ShownStill, Zenon DEF PromptHolds
<1> QED BY <1>4, <1>6 DEF PromptHolds, FilesTyped, Filed, BodyCopy

\* A call is handled.
LEMMA CallHandledHolds ==
  ASSUME PromptsKept, PromptsKept', PromptHolds, NEW kind \in Kinds, PromptCallHandled(kind)
  PROVE  PromptHolds'
<1>1. pCalls[kind].pc = "sent" /\ UNCHANGED <<scene, page, fetchVars, formVars>>
  BY DEF PromptCallHandled, shellVars
<1>2. NodeCall(kind, pCalls[kind])
  BY DEF PromptHolds, NodeCalls
<1>3. CopiesTyped' /\ LibraryTyped' /\ RuntimeShown'
  <2>1. UNCHANGED fetchVars /\ UNCHANGED formVars
    BY <1>1, Zenon
  <2> QED BY <1>1, <2>1, CopiesStill, LibraryStill, ShownStill, Zenon DEF PromptHolds
<1>4. ASSUME NEW call, NodeCall(kind, call), pCalls' = [pCalls EXCEPT ![kind] = call], FilesTyped(pServer')
      PROVE  PromptHolds'
  <2>1. NodeCalls'
    BY <1>4, NodeCallMoves DEF PromptHolds
  <2> QED BY <1>3, <1>4, <2>1 DEF PromptHolds, FilesTyped, Filed, BodyCopy
<1>5. ASSUME pCalls' = [pCalls EXCEPT ![kind] = NoCall], UNCHANGED serverVars PROVE PromptHolds'
  <2>1. FilesTyped(pServer')
    BY <1>5, ServerStill DEF PromptHolds
  <2> QED BY <1>4, <1>5, <2>1, NoCallIs
<1>6. ASSUME ServerDoes(kind, pCalls[kind].arg), NEW pc \in {"done", "idle"},
             pCalls' = [pCalls EXCEPT ![kind] = IF pc = "idle" THEN NoCall ELSE
               [@ EXCEPT !.pc = pc, !.doc = IF pServer'.def THEN <<Document'>> ELSE <<>>]]
      PROVE  PromptHolds'
  <2>1. FilesTyped(pServer') /\ (kind \in {"save", "restore"} => pServer'.def)
    BY <1>1, <1>2, <1>6, ServerTypes DEF PromptHolds, NodeCall
  <2>2. CASE pc = "idle"
    <3>1. pCalls' = [pCalls EXCEPT ![kind] = NoCall]
      BY <1>6, <2>2
    <3> QED BY <1>4, <2>1, <3>1, NoCallIs
  <2>3. CASE pc = "done"
    <3> DEFINE doc == IF pServer'.def THEN <<Document'>> ELSE <<>>
               call == [pCalls[kind] EXCEPT !.pc = "done", !.doc = doc]
    <3>1. pCalls' = [pCalls EXCEPT ![kind] = call]
      BY <1>6, <2>3
    <3>2. kind \in {"save", "restore"} => doc # <<>> /\ DocCopy(doc)
      <4>1. ASSUME kind \in {"save", "restore"} PROVE doc # <<>> /\ DocCopy(doc)
        <5>1. doc = <<Document'>>
          BY <2>1, <4>1
        <5>2. \E b \in Bodies : pServer'.body = <<b>>
          BY <2>1, <4>1 DEF FilesTyped, BodyCopy
        <5>3. Document'.body = pServer'.body[1]
          BY DEF Document
        <5>4. Document'.body \in Bodies
          BY <5>2, <5>3
        <5> QED BY <5>1, <5>4 DEF DocCopy
      <4> QED BY <4>1
    <3> HIDE DEF doc
    <3>3. DOMAIN call = {"pc", "arg", "doc"} /\ call.pc = "done" /\ call.doc = doc
      BY <1>2 DEF NodeCall
    <3> HIDE DEF call
    <3>4. NodeCall(kind, call)
      BY <3>2, <3>3 DEF NodeCall
    <3> QED BY <1>4, <2>1, <3>1, <3>4
  <2> QED BY <2>2, <2>3
<1> QED BY <1>5, <1>6, Zenon DEF PromptCallHandled

(***************************************************************************)
(* The page. A step that leaves the server and the calls alone is judged by *)
(* what it makes of the copies and the form.                                *)
(***************************************************************************)
LEMMA PageHolds ==
  ASSUME PromptHolds, UNCHANGED <<serverVars, pCalls>>, CopiesTyped', LibraryTyped', RuntimeShown'
  PROVE  PromptHolds'
<1>1. UNCHANGED serverVars /\ UNCHANGED pCalls
  BY Zenon
<1>2. FilesTyped(pServer') /\ NodeCalls'
  BY <1>1, ServerStill, CallsStill, Zenon DEF PromptHolds
<1> QED BY <1>2 DEF PromptHolds, FilesTyped, Filed, BodyCopy

\* The body shown is a body.
LEMMA BodyShown == DocCopy(pDoc) => (pDoc = <<>> \/ pDoc[1].body \in Bodies)
BY DEF DocCopy

\* The steps of the page, of the form for a new node, and of the answers.
LEMMA PageStep ==
  ASSUME PromptHolds, PromptPage
  PROVE  PromptHolds'
<1>0. CopiesTyped /\ LibraryTyped /\ RuntimeShown /\ DocCopy(pDoc) /\ RuntimeCopy(pNode) /\ RuntimeCopy(<<>>)
  BY DEF PromptHolds, CopiesTyped, RuntimeCopy
<1>1. ASSUME KeepRemote, LibraryTyped', RuntimeShown' PROVE PromptHolds'
  <2>1. UNCHANGED fetchVars /\ UNCHANGED <<serverVars, pCalls>>
    BY <1>1, Zenon DEF KeepRemote
  <2> QED BY <1>0, <1>1, <2>1, CopiesStill, PageHolds
<1>2. ASSUME OpenNode PROVE PromptHolds'
  <2>1. pView' = "prompt" /\ pText' = (IF pDoc = <<>> THEN "" ELSE pDoc[1].body) /\ pPanel' = <<>> /\ KeepRemote
    BY <1>2 DEF OpenNode
  <2>2. LibraryTyped'
    BY <1>0, <2>1, BodyShown DEF LibraryTyped, NodeTabs, RuntimeCopy
  <2> QED BY <1>1, <2>1, <2>2, ElsewhereShown
<1>3. ASSUME BackToLibrary PROVE PromptHolds'
  <2>1. pView' = "library" /\ pText' = "" /\ pPanel' = <<>> /\ KeepRemote
    BY <1>3 DEF BackToLibrary, CloseForm
  <2>2. LibraryTyped'
    BY <1>0, <2>1 DEF LibraryTyped, RuntimeCopy
  <2> QED BY <1>1, <2>1, <2>2, ElsewhereShown
<1>4. ASSUME NEW tab \in NodeTabs, SwitchTab(tab) PROVE PromptHolds'
  <2>1. /\ PromptForm /\ pView' = tab /\ pPanel' = (IF tab = "runtime" THEN pNode ELSE <<>>)
        /\ KeepRemote /\ pText' = pText
    BY <1>4 DEF SwitchTab
  <2>2. LibraryTyped'
    BY <1>0, <2>1 DEF LibraryTyped, RuntimeCopy
  <2>3. RuntimeShown'
    BY <2>1 DEF RuntimeShown, PromptForm
  <2> QED BY <1>1, <2>1, <2>2, <2>3
<1>5. ASSUME NEW text \in Bodies \cup {""}, TypePrompt(text) PROVE PromptHolds'
  <2>1. pView = "prompt" /\ pView' = pView /\ pText' = text /\ pPanel' = pPanel /\ KeepRemote
    BY <1>5 DEF TypePrompt
  <2>2. LibraryTyped'
    BY <1>0, <2>1 DEF LibraryTyped, RuntimeCopy
  <2> QED BY <1>1, <2>1, <2>2, ElsewhereShown
<1>6. ASSUME NEW runtime \in Runtimes, TypeRuntime(runtime) PROVE PromptHolds'
  <2>1. pView' = pView /\ pText' = pText /\ pPanel' = <<runtime>> /\ KeepRemote
    BY <1>6 DEF TypeRuntime
  <2>2. LibraryTyped' /\ RuntimeShown'
    BY <1>0, <2>1 DEF LibraryTyped, RuntimeCopy, RuntimeShown
  <2> QED BY <1>1, <2>1, <2>2
<1>7. /\ "save" \in Kinds /\ "restore" \in Kinds /\ "runtime" \in Kinds /\ "remove" \in Kinds
  BY DEF Kinds
<1>8. ASSUME SavePrompt PROVE PromptHolds'
  <2>1. Send("save", pText) /\ pText # ""
    BY <1>8 DEF SavePrompt
  <2>2. pText \in Bodies
    BY <1>0, <2>1 DEF LibraryTyped
  <2> QED BY <1>7, <2>1, <2>2, SendHolds
<1>9. ASSUME RevertPrompt PROVE PromptHolds'
  <2>1. Send("save", DefaultBody) /\ DefaultBody \in Bodies
    BY <1>9, PromptAssumption DEF RevertPrompt
  <2> QED BY <1>7, <2>1, SendHolds
<1>10. ASSUME RestoreVersion PROVE PromptHolds'
  <2>1. PICK id : Send("restore", id)
    BY <1>10, Zenon DEF RestoreVersion
  <2> QED BY <1>7, <2>1, SendHolds
<1>11. ASSUME SaveRuntime PROVE PromptHolds'
  <2>1. PromptForm /\ pView = "runtime" /\ Send("runtime", pPanel[1])
    BY <1>11 DEF SaveRuntime
  <2>2. pPanel # <<>> /\ RuntimeCopy(pPanel)
    BY <1>0, <2>1 DEF RuntimeShown, LibraryTyped
  <2>3. pPanel[1] \in Runtimes
    BY <2>2 DEF RuntimeCopy
  <2> QED BY <1>7, <2>1, <2>3, SendHolds
<1>12. ASSUME ResetRuntime PROVE PromptHolds'
  <2>1. Send("runtime", DefaultRuntime) /\ DefaultRuntime \in Runtimes
    BY <1>12, PromptAssumption DEF ResetRuntime
  <2> QED BY <1>7, <2>1, SendHolds
<1>13. ASSUME RemoveNodeDef PROVE PromptHolds'
  <2>1. Send("remove", <<>>)
    BY <1>13 DEF RemoveNodeDef
  <2> QED BY <1>7, <2>1, SendHolds
<1> QED BY <1>2, <1>3, <1>4, <1>5, <1>6, <1>8, <1>9, <1>10, <1>11, <1>12, <1>13, Zenon DEF PromptPage

LEMMA CreatorStep ==
  ASSUME PromptHolds, HomeIsLibrary, NodeCreator \/ OpenNodes \/ LeaveNodes
  PROVE  PromptHolds'
<1>0. CopiesTyped /\ LibraryTyped /\ RuntimeShown /\ RuntimeCopy(<<>>)
  BY DEF PromptHolds, RuntimeCopy
<1>1. ASSUME KeepRemote, LibraryTyped', RuntimeShown' PROVE PromptHolds'
  <2>1. UNCHANGED fetchVars /\ UNCHANGED <<serverVars, pCalls>>
    BY <1>1, Zenon DEF KeepRemote
  <2> QED BY <1>0, <1>1, <2>1, CopiesStill, PageHolds
<1>2. ASSUME OpenCreator \/ TypeDef PROVE PromptHolds'
  <2>1. pView' = "new" /\ pText' = pText /\ pPanel' = pPanel /\ KeepRemote
    BY <1>2 DEF OpenCreator, TypeDef
  <2>2. LibraryTyped'
    BY <1>0, <2>1 DEF LibraryTyped, RuntimeCopy
  <2> QED BY <1>1, <2>1, <2>2, ElsewhereShown
<1>3. ASSUME SendDef PROVE PromptHolds'
  <2>1. Send("create", DefaultBody) /\ DefaultBody \in Bodies /\ "create" \in Kinds
    BY <1>3, PromptAssumption DEF SendDef, Kinds
  <2> QED BY <2>1, SendHolds
<1>4. ASSUME OpenNodes PROVE PromptHolds'
  <2>1. scene = "prompt" /\ page = "home" /\ UNCHANGED formVars /\ KeepRemote
    BY <1>4 DEF OpenNodes
  <2>2. pView = "library" /\ pView' = "library"
    BY <2>1 DEF HomeIsLibrary, formVars
  <2>3. LibraryTyped'
    BY <1>0, <2>1, LibraryStill
  <2> QED BY <1>1, <2>1, <2>2, <2>3, ElsewhereShown
<1>5. ASSUME LeaveNodes PROVE PromptHolds'
  <2>1. pView' = "library" /\ pText' = "" /\ pPanel' = <<>> /\ KeepRemote
    BY <1>5 DEF LeaveNodes, CloseForm
  <2>2. LibraryTyped'
    BY <1>0, <2>1 DEF LibraryTyped, RuntimeCopy
  <2> QED BY <1>1, <2>1, <2>2, ElsewhereShown
<1> QED BY <1>2, <1>3, <1>4, <1>5, Zenon DEF NodeCreator

(***************************************************************************)
(* The answers.                                                             *)
(***************************************************************************)
LEMMA QueriesStep ==
  ASSUME PromptsKept, PromptHolds, PromptAnswered \/ PromptArrives \/ NodeRefetch
  PROVE  PromptHolds'
<1>0. /\ CopiesTyped /\ LibraryTyped /\ RuntimeShown /\ FilesTyped(pServer) /\ FileShapes
      /\ DocCopy(pDoc) /\ DocCopy(pAnswer) /\ RuntimeCopy(pNode) /\ RuntimeCopy(<<>>) /\ DocCopy(<<>>)
  BY DEF PromptHolds, PromptsKept, CopiesTyped, RuntimeCopy, DocCopy
<1>1. ASSUME PromptAnswered PROVE PromptHolds'
  <2>1. /\ pServer.def /\ pAnswer' = <<Document>> /\ UNCHANGED <<scene, page, serverVars, pDoc, pNode, formVars, pCalls>>
    BY <1>1 DEF PromptAnswered, shellVars
  <2>2. Document.body \in Bodies /\ Len(Document.versions) <= VersionsShown
    BY <1>0, <2>1, DocumentTyped
  <2>3. DocCopy(<<Document>>)
    BY <2>2 DEF DocCopy
  <2>4. CopiesTyped'
    BY <1>0, <2>1, <2>2, <2>3 DEF CopiesTyped, DocCopy, RuntimeCopy
  <2>5. LibraryTyped'
    BY <1>0, <2>1, LibraryStill
  <2>6. RuntimeShown'
    BY <1>0, <2>1 DEF RuntimeShown, PromptForm, NodePage, Nodes, formVars
  <2>7. UNCHANGED <<serverVars, pCalls>>
    BY <2>1, Zenon
  <2> QED BY <2>4, <2>5, <2>6, <2>7, PageHolds
<1>2. ASSUME PromptArrives PROVE PromptHolds'
  <2>1. /\ pAnswer # <<>> /\ pAnswer' = <<>> /\ ShowDocument(pAnswer[1])
        /\ UNCHANGED <<scene, page, serverVars, pNode, pCalls>>
    BY <1>2 DEF PromptArrives
  <2>2. PICK d : pAnswer = <<d>> /\ d.body \in Bodies
    BY <1>0, <2>1 DEF DocCopy
  <2>3. pAnswer[1] = d /\ pDoc' = <<d>>
    BY <2>1, <2>2 DEF ShowDocument
  <2>4. DocCopy(pDoc')
    BY <2>2, <2>3 DEF DocCopy
  <2>5. CopiesTyped'
    BY <1>0, <2>1, <2>4 DEF CopiesTyped, DocCopy, RuntimeCopy
  <2>6. \/ NodePage /\ pText' = d.body /\ pView' = "prompt" /\ pPanel' = <<>>
        \/ ~ (NodePage /\ pDoc = <<>>) /\ UNCHANGED formVars
    BY <2>1, <2>3 DEF ShowDocument
  <2>7. LibraryTyped'
    BY <1>0, <2>2, <2>6, LibraryStill DEF LibraryTyped, NodeTabs, RuntimeCopy
  <2>8. RuntimeShown'
    <3>1. CASE pView' = "prompt"
      BY <3>1, ElsewhereShown
    <3>2. CASE ~ (NodePage /\ pDoc = <<>>) /\ UNCHANGED formVars
      BY <1>0, <2>1, <3>2 DEF RuntimeShown, PromptForm, NodePage, Nodes, formVars
    <3> QED BY <2>6, <3>1, <3>2
  <2>9. UNCHANGED <<serverVars, pCalls>>
    BY <2>1, Zenon
  <2> QED BY <2>5, <2>7, <2>8, <2>9, PageHolds
<1>3. ASSUME NodeRefetch PROVE PromptHolds'
  <2>1. /\ pNode' = CatalogNode /\ UNCHANGED <<serverVars, pDoc, pAnswer, pView, pCalls>>
        /\ pPanel' = (IF PromptForm' /\ pView = "runtime" THEN pNode' ELSE <<>>)
        /\ pText' = (IF PromptForm' /\ ~ PromptForm THEN pDoc[1].body ELSE pText)
    BY <1>3 DEF NodeRefetch
  <2>2. RuntimeCopy(CatalogNode)
    BY <1>0 DEF CatalogNode, RuntimeCopy, FilesTyped
  <2>3. CopiesTyped'
    BY <1>0, <2>1, <2>2 DEF CopiesTyped, DocCopy, RuntimeCopy
  <2>4. PromptForm' => pDoc # <<>> /\ pNode' # <<>>
    BY <2>1 DEF PromptForm
  <2>5. pText' \in Bodies \cup {""}
    BY <1>0, <2>1, <2>4, BodyShown DEF LibraryTyped
  <2>6. LibraryTyped'
    BY <1>0, <2>1, <2>2, <2>5 DEF LibraryTyped, RuntimeCopy
  <2>7. RuntimeShown'
    BY <2>1, <2>4 DEF RuntimeShown
  <2>8. UNCHANGED <<serverVars, pCalls>>
    BY <2>1, Zenon
  <2> QED BY <2>3, <2>6, <2>7, <2>8, PageHolds
<1> QED BY <1>1, <1>2, <1>3

\* An answer is on its way.
LEMMA AnsweredHolds ==
  ASSUME PromptHolds, NEW kind \in Kinds, Answered(kind)
  PROVE  NodeCalls'
<1>1. pCalls' = [pCalls EXCEPT ![kind] = NoCall]
  BY DEF Answered
<1> QED BY <1>1, NoCallIs, NodeCallMoves DEF PromptHolds

\* An answer arrives.
LEMMA SavedStep ==
  ASSUME PromptHolds, PromptSaved \/ RuntimeSaved \/ NodeRemoved \/ NodeCreated
  PROVE  PromptHolds'
<1>0. /\ CopiesTyped /\ LibraryTyped /\ RuntimeShown /\ FilesTyped(pServer) /\ NodeCalls
      /\ DocCopy(pDoc) /\ DocCopy(pAnswer) /\ RuntimeCopy(pNode) /\ RuntimeCopy(<<>>)
  BY DEF PromptHolds, CopiesTyped, RuntimeCopy
<1>1. ASSUME NEW kind \in Kinds, Answered(kind), UNCHANGED serverVars, CopiesTyped', LibraryTyped', RuntimeShown'
      PROVE  PromptHolds'
  <2>1. NodeCalls' /\ FilesTyped(pServer')
    BY <1>0, <1>1, AnsweredHolds, ServerStill
  <2> QED BY <1>1, <2>1 DEF PromptHolds, FilesTyped, Filed, BodyCopy
<1>2. RuntimeCopy(CatalogNode)
  BY <1>0 DEF CatalogNode, RuntimeCopy, FilesTyped
<1>3. ASSUME PromptSaved PROVE PromptHolds'
  <2>1. PICK kind \in {"save", "restore"} : Answered(kind) /\ pDoc' = pCalls[kind].doc
    BY <1>3 DEF PromptSaved
  <2>2. /\ UNCHANGED <<scene, page, serverVars, pAnswer, pNode>>
        /\ \/ NodePage /\ pText' = pDoc'[1].body /\ pView' = "prompt" /\ pPanel' = <<>>
           \/ NodePage /\ pText' = pDoc'[1].body /\ pDoc # <<>> /\ UNCHANGED <<pView, pPanel>>
           \/ ~ NodePage /\ UNCHANGED <<pText, pView, pPanel>>
    BY <1>3 DEF PromptSaved
  <2>3. kind \in Kinds /\ pCalls[kind].pc = "done"
    BY <2>1 DEF Kinds, Answered
  <2>4. pDoc' # <<>> /\ DocCopy(pDoc')
    BY <1>0, <2>1, <2>3 DEF NodeCalls, NodeCall
  <2>5. pDoc'[1].body \in Bodies
    BY <2>4 DEF DocCopy
  <2>6. CopiesTyped'
    BY <1>0, <2>2, <2>4 DEF CopiesTyped, DocCopy, RuntimeCopy
  <2>7. LibraryTyped'
    BY <1>0, <2>2, <2>5 DEF LibraryTyped, NodeTabs, RuntimeCopy
  <2>8. RuntimeShown'
    BY <1>0, <2>2 DEF RuntimeShown, PromptForm, NodePage, Nodes
  <2>9. UNCHANGED serverVars
    BY <2>2, Zenon
  <2> QED BY <1>1, <2>1, <2>3, <2>6, <2>7, <2>8, <2>9
<1>4. ASSUME RuntimeSaved PROVE PromptHolds'
  <2>1. Answered("runtime") /\ "runtime" \in Kinds /\ UNCHANGED <<scene, page, fetchVars, formVars>>
    BY <1>4 DEF RuntimeSaved, Kinds, shellVars
  <2>2. UNCHANGED serverVars /\ UNCHANGED fetchVars /\ UNCHANGED formVars
    BY <1>4, Zenon DEF RuntimeSaved
  <2> QED BY <1>0, <1>1, <2>1, <2>2, CopiesStill, LibraryStill, ShownStill
<1>5. ASSUME NodeRemoved PROVE PromptHolds'
  <2>1. /\ Answered("remove") /\ "remove" \in Kinds /\ pNode' = CatalogNode /\ UNCHANGED <<pDoc, pAnswer>>
        /\ pView' = "library" /\ pText' = "" /\ pPanel' = <<>>
    BY <1>5 DEF NodeRemoved, Kinds, CloseForm
  <2>2. UNCHANGED serverVars
    BY <1>5, Zenon DEF NodeRemoved
  <2>3. CopiesTyped'
    BY <1>0, <1>2, <2>1 DEF CopiesTyped, DocCopy, RuntimeCopy
  <2>4. LibraryTyped'
    BY <2>1 DEF LibraryTyped, RuntimeCopy
  <2> QED BY <1>1, <2>1, <2>2, <2>3, <2>4, ElsewhereShown
<1>6. ASSUME NodeCreated PROVE PromptHolds'
  <2>1. /\ Answered("create") /\ "create" \in Kinds /\ pNode' = CatalogNode /\ UNCHANGED <<pDoc, pAnswer>>
        /\ pView' = "prompt" /\ pText' = (IF pDoc = <<>> THEN "" ELSE pDoc[1].body) /\ pPanel' = <<>>
    BY <1>6 DEF NodeCreated, Kinds
  <2>2. UNCHANGED serverVars
    BY <1>6, Zenon DEF NodeCreated
  <2>3. CopiesTyped'
    BY <1>0, <1>2, <2>1 DEF CopiesTyped, DocCopy, RuntimeCopy
  <2>4. LibraryTyped'
    BY <1>0, <2>1, BodyShown DEF LibraryTyped, NodeTabs, RuntimeCopy
  <2> QED BY <1>1, <2>1, <2>2, <2>3, <2>4, ElsewhereShown
<1> QED BY <1>3, <1>4, <1>5, <1>6

\* Every step of the prompts.
LEMMA PromptStep ==
  ASSUME PromptsKept, PromptHolds, HomeIsLibrary, PromptNext
  PROVE  PromptHolds'
<1>0. PromptsKept'
  BY PromptsStep
<1>1. ASSUME OtherPrompt PROVE PromptHolds'
  <2>1. PICK body \in Bodies : SavePromptBody(body)
    BY <1>1, Zenon DEF OtherPrompt
  <2>2. pServer' = Archived(pServer, body)
    BY <2>1 DEF SavePromptBody
  <2>3. FilesTyped(pServer')
    BY <2>2, ArchivedTyped DEF PromptsKept, PromptHolds
  <2>4. UNCHANGED fetchVars /\ UNCHANGED formVars /\ UNCHANGED pCalls
    BY <1>1, Zenon DEF OtherPrompt
  <2>5. UNCHANGED <<scene, page, fetchVars, formVars>>
    BY <1>1 DEF OtherPrompt
  <2>6. CopiesTyped' /\ LibraryTyped' /\ NodeCalls' /\ RuntimeShown'
    BY <2>4, <2>5, CopiesStill, LibraryStill, CallsStill, ShownStill, Zenon DEF PromptHolds
  <2> QED BY <2>3, <2>6 DEF PromptHolds, FilesTyped, Filed, BodyCopy
<1>2. ASSUME NEW kind \in Kinds, PromptCallHandled(kind) PROVE PromptHolds'
  BY <1>0, <1>2, CallHandledHolds
<1>3. CASE PromptPage
  BY <1>3, PageStep
<1>4. CASE NodeCreator \/ OpenNodes \/ LeaveNodes
  BY <1>4, CreatorStep
<1>5. CASE PromptAnswered \/ PromptArrives \/ NodeRefetch
  BY <1>5, QueriesStep
<1>6. CASE PromptSaved \/ RuntimeSaved \/ NodeRemoved \/ NodeCreated
  BY <1>6, SavedStep
<1> QED BY <1>1, <1>2, <1>3, <1>4, <1>5, <1>6, Zenon DEF PromptNext

LEMMA PromptStart == Init => PromptHolds /\ PromptsKept
<1> SUFFICES ASSUME Init PROVE PromptHolds /\ PromptsKept
  OBVIOUS
<1>1. PICK body \in IF pBuiltin THEN {DefaultBody} ELSE Chosen("prompt", Bodies) :
             pServer = [NoFiles EXCEPT !.def = TRUE, !.body = <<body>>] /\ pHeld = {body}
  BY Zenon DEF Init, PromptInit
<1>2. body \in Bodies
  BY PromptAssumption DEF Chosen
<1>3. /\ pServer.def = TRUE /\ pServer.body = <<body>> /\ pServer.versions = <<>> /\ pServer.runtime = DefaultRuntime
      /\ DOMAIN pServer = {"def", "body", "versions", "runtime"}
  BY <1>1 DEF NoFiles
<1>4. /\ <<body>> \in Seq({body}) /\ ToSet(<<body>>) = {body}
      /\ <<>> \in Seq(ToSet(<<>>)) /\ ToSet(<<>>) = {}
  BY EmptySeq DEF ToSet
<1>5. Filed(pServer) = {body}
  BY <1>3, <1>4 DEF Filed
<1>6. PromptsKept
  BY <1>1, <1>3, <1>4, <1>5 DEF PromptsKept, FileShapes
<1>7. FilesTyped(pServer)
  BY <1>2, <1>3, <1>5, PromptAssumption DEF FilesTyped, BodyCopy
<1>8. /\ pDoc = <<>> /\ pAnswer = <<>> /\ pNode = <<DefaultRuntime>> /\ pView = "library" /\ pText = "" /\ pPanel = <<>>
      /\ pCalls = [k \in Kinds |-> NoCall]
  BY DEF Init, PromptInit
<1>9. CopiesTyped /\ LibraryTyped /\ RuntimeShown
  BY <1>8, PromptAssumption DEF CopiesTyped, LibraryTyped, RuntimeShown, DocCopy, RuntimeCopy
<1>10. NodeCalls
  BY <1>8, NoCallIs DEF NodeCalls
<1> QED BY <1>6, <1>7, <1>9, <1>10 DEF PromptHolds

LEMMA PromptTyped == PromptHolds => PromptTypeOK
<1> SUFFICES ASSUME PromptHolds PROVE PromptTypeOK
  OBVIOUS
<1>1. ToSet(pServer.body) \subseteq Bodies
  BY DEF PromptHolds, FilesTyped, Filed
<1> QED BY <1>1 DEF PromptHolds, FilesTyped, CopiesTyped, LibraryTyped, PromptTypeOK

LEMMA PromptsHeld ==
  ASSUME PromptsKept, PromptHolds, GuardHolds, [Next]_vars
  PROVE  PromptsKept' /\ PromptHolds'
<1>1. ASSUME UNCHANGED <<scene, page, promptVars>> PROVE PromptsKept' /\ PromptHolds'
  <2>1. UNCHANGED serverVars /\ UNCHANGED fetchVars /\ UNCHANGED formVars /\ UNCHANGED pCalls
        /\ UNCHANGED <<scene, page, fetchVars, formVars>>
    BY <1>1 DEF promptVars, serverVars, fetchVars, formVars
  <2>2. PromptsKept'
    BY <2>1 DEF serverVars, PromptsKept, FileShapes, Filed
  <2>3. FilesTyped(pServer') /\ CopiesTyped' /\ LibraryTyped' /\ NodeCalls' /\ RuntimeShown'
    BY <2>1, ServerStill, CopiesStill, LibraryStill, CallsStill, ShownStill, Zenon DEF PromptHolds
  <2> QED BY <2>2, <2>3 DEF PromptHolds, FilesTyped, Filed, BodyCopy
<1>2. CASE Next /\ scene = "prompt"
  BY <1>2, PromptsStep, PromptStep DEF Next, Prompt, GuardHolds
<1>3. CASE Next /\ scene # "prompt"
  <2>1. UNCHANGED promptVars
    BY <1>3, Zenon DEF Next, Template, Profile, Focus, Launch, RunDetail, NightRuns, Presentation, editorVars
  <2>2. scene' # "prompt"
    BY <1>3, Scenic DEF ShellMoves
  <2>3. UNCHANGED serverVars /\ UNCHANGED fetchVars /\ UNCHANGED formVars /\ UNCHANGED pCalls
    BY <2>1 DEF promptVars, serverVars, fetchVars, formVars
  <2>4. PromptsKept'
    BY <2>3 DEF serverVars, PromptsKept, FileShapes, Filed
  <2>5. RuntimeShown'
    BY <2>2 DEF RuntimeShown, PromptForm, NodePage, Nodes
  <2>6. FilesTyped(pServer') /\ CopiesTyped' /\ LibraryTyped' /\ NodeCalls'
    BY <2>3, ServerStill, CopiesStill, LibraryStill, CallsStill, Zenon DEF PromptHolds
  <2> QED BY <2>4, <2>5, <2>6 DEF PromptHolds, FilesTyped, Filed, BodyCopy
<1>4. CASE UNCHANGED vars
  BY <1>1, <1>4, Zenon DEF vars, shellVars, editorVars
<1> QED BY <1>2, <1>3, <1>4

(***************************************************************************)
(* Every page, whatever scene the session is on.                            *)
(***************************************************************************)
ShellHolds == ShellTypeOK /\ GuardHolds /\ BaseIsCached
EditorsHold == TemplateHolds /\ PromptsKept /\ PromptHolds /\ ProfileHolds /\ FocusHolds
PagesHold == LauncherHolds /\ RunHolds /\ SweepsAgree /\ RowsAgree /\ JobsHold /\ KeysAgree /\ TabsHold

\* Every variable of every page has its type: what a draft, a cache, a call or an answer on
\* its way holds is always something the page can show and send. (FlowsPage.tsx,
\* AutomationsPage.tsx, PipelinePage.tsx, NightPage.tsx, visibility.ts)
THEOREM ConsoleAlwaysTyped == Spec => []ConsoleTypeOK
<1>1. Init => ShellHolds /\ EditorsHold /\ PagesHold
  <2> SUFFICES ASSUME Init PROVE ShellHolds /\ EditorsHold /\ PagesHold
    OBVIOUS
  <2>1. BaseIsCached
    BY DEF Init, FocusInit, BaseIsCached
  <2>2. ShellHolds
    BY <2>1, ShellTypedInit, GuardInit DEF ShellHolds
  <2>3. EditorsHold
    BY TemplateStart, PromptStart, ProfileStart, FocusStart, Zenon DEF EditorsHold
  <2>4. PagesHold
    BY LauncherStart, RunStart, NightStart, TabsStart, Zenon DEF PagesHold
  <2> QED BY <2>2, <2>3, <2>4
<1>2. ShellHolds /\ EditorsHold /\ PagesHold /\ [Next]_vars => (ShellHolds /\ EditorsHold /\ PagesHold)'
  <2> SUFFICES ASSUME ShellHolds, EditorsHold, PagesHold, [Next]_vars
               PROVE  ShellHolds' /\ EditorsHold' /\ PagesHold'
    BY Zenon
  <2>1. ShellTypeOK' /\ GuardHolds' /\ BaseIsCached'
    BY ShellTyped, GuardStep, GuardStutter, BaseKept DEF ShellHolds
  <2>2. TemplateHolds' /\ ProfileHolds' /\ FocusHolds'
    BY TemplateKept, ProfileKept, FocusKept, Zenon DEF EditorsHold
  <2>3. PromptsKept' /\ PromptHolds'
    BY PromptsHeld, Zenon DEF ShellHolds, EditorsHold
  <2>4. LauncherHolds' /\ RunHolds'
    BY LauncherKept, RunKept, Zenon DEF PagesHold
  <2>5. SweepsAgree' /\ RowsAgree' /\ JobsHold'
    BY NightKept, JobsKept, Zenon DEF PagesHold
  <2>6. KeysAgree' /\ TabsHold'
    BY KeysKept, TabsKept, Zenon DEF PagesHold
  <2> QED BY <2>1, <2>2, <2>3, <2>4, <2>5, <2>6, Zenon DEF ShellHolds, EditorsHold, PagesHold
<1>3. ShellHolds /\ EditorsHold /\ PagesHold => ConsoleTypeOK
  BY TemplateTyped, PromptTyped, ProfileTyped, FocusTyped, LauncherTyped, RunTyped, NightTyped, TabsTyped, Zenon
     DEF ShellHolds, EditorsHold, PagesHold, ConsoleTypeOK
<1> QED BY <1>1, <1>2, <1>3, PTL DEF Spec
=============================================================================
