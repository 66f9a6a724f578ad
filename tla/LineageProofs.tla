--------------------------- MODULE LineageProofs ---------------------------
(* Proofs about Lineage for any tables, columns, catalogue and depth.      *)
EXTENDS Lineage, FiniteSetTheorems, WellFoundedInduction, TLAPS

(* Every risk is a natural number, and a cap keeps the order. *)
LEMMA CappedMonotone ==
    ASSUME NEW m \in Nat, NEW n \in Nat, m <= n
    PROVE  Capped(m) \in 0..100 /\ Capped(m) <= Capped(n)
BY DEF Capped

LEMMA AffectedFinite ==
    ASSUME rows \in SUBSET Candidates, NEW t \in Tables, NEW columns \in SUBSET Columns
    PROVE  /\ Affected(t, columns) \in SUBSET Tables
           /\ IsFiniteSet(Affected(t, columns))
           /\ Cardinality(Affected(t, columns)) \in Nat
<1>1. Affected(t, columns) \in SUBSET Tables
  BY CandidatesAssumption DEF Affected, AffectedEdges, Edges
<1>2. IsFiniteSet(Affected(t, columns))
  BY <1>1, TablesAssumption, FS_Subset
<1>3. QED BY <1>1, <1>2, FS_CardinalityType

LEMMA BaseRiskType ==
    ASSUME rows \in SUBSET Candidates, NEW t \in Tables, NEW columns \in SUBSET Columns
    PROVE  BaseRisk(t, columns) \in 0..100
<1>1. 15 * Cardinality(Affected(t, columns)) \in Nat BY AffectedFinite
<1>2. QED BY <1>1, CappedMonotone DEF BaseRisk

LEMMA PenaltiesType ==
    ASSUME NEW t, NEW columns
    PROVE  Penalties(t, columns) \in 0..75
BY DEF Penalties

LEMMA RiskScoreType ==
    ASSUME rows \in SUBSET Candidates, NEW t \in Tables, NEW columns \in SUBSET Columns
    PROVE  RiskScore(t, columns) \in 0..100
<1>1. BaseRisk(t, columns) + Penalties(t, columns) \in Nat
  <2>1. BaseRisk(t, columns) \in 0..100 BY BaseRiskType
  <2>2. Penalties(t, columns) \in 0..75 BY PenaltiesType
  <2>3. QED BY <2>1, <2>2
<1>2. QED BY <1>1, CappedMonotone DEF RiskScore

(* What more columns affect includes what fewer affect. *)
LEMMA AffectedGrows ==
    ASSUME NEW t \in Tables, NEW columns \in SUBSET Columns, NEW more \in SUBSET Columns,
           columns \subseteq more
    PROVE  Affected(t, columns) \subseteq Affected(t, more)
BY DEF Affected, AffectedEdges

LEMMA SumsGrow ==
    ASSUME NEW i \in Nat, NEW j \in Nat, NEW k \in Nat, NEW l \in Nat, i <= j, k <= l
    PROVE  i + k \in Nat /\ j + l \in Nat /\ i + k <= j + l
OBVIOUS

LEMMA RiskGrows ==
    ASSUME rows \in SUBSET Candidates,
           NEW t \in Tables, NEW columns \in SUBSET Columns, NEW more \in SUBSET Columns,
           columns \subseteq more
    PROVE  RiskScore(t, columns) <= RiskScore(t, more)
<1> DEFINE few == Affected(t, columns)
           many == Affected(t, more)
<1>1. few \subseteq many BY AffectedGrows
<1>2. /\ Cardinality(few) \in Nat /\ Cardinality(many) \in Nat
      /\ IsFiniteSet(many)
  BY AffectedFinite
<1>3. Cardinality(few) <= Cardinality(many)
  BY <1>1, <1>2, FS_Subset
<1>4. BaseRisk(t, columns) <= BaseRisk(t, more)
  <2>1. /\ 15 * Cardinality(few) \in Nat /\ 15 * Cardinality(many) \in Nat
        /\ 15 * Cardinality(few) <= 15 * Cardinality(many)
    BY <1>2, <1>3
  <2>2. QED BY <2>1, CappedMonotone DEF BaseRisk
<1>5. Penalties(t, columns) <= Penalties(t, more)
  <2>1. PIIAffected(t, columns) => PIIAffected(t, more)
    BY DEF PIIAffected
  <2>2. Dashboards(few) # {} => Dashboards(many) # {}
    BY <1>1 DEF Dashboards
  <2>3. MLFeatures(few) # {} => MLFeatures(many) # {}
    BY <1>1 DEF MLFeatures
  <2>4. QED BY <2>1, <2>2, <2>3 DEF Penalties
<1>6. /\ BaseRisk(t, columns) + Penalties(t, columns) \in Nat
      /\ BaseRisk(t, more) + Penalties(t, more) \in Nat
      /\ BaseRisk(t, columns) + Penalties(t, columns) <= BaseRisk(t, more) + Penalties(t, more)
  <2>1. BaseRisk(t, columns) \in Nat /\ BaseRisk(t, more) \in Nat
    BY BaseRiskType
  <2>2. Penalties(t, columns) \in Nat /\ Penalties(t, more) \in Nat
    BY PenaltiesType
  <2>3. QED BY <1>4, <1>5, <2>1, <2>2, SumsGrow
<1>7. QED BY <1>6, CappedMonotone DEF RiskScore

-----------------------------------------------------------------------------
(* Nothing is listed or visited before the walk begins: the inductive      *)
(* invariant of the walk adds this to what the runs check.                 *)
Fresh == pc = "idle" => hop = 0 /\ visited = {}

IInv == TypeOK /\ Fresh /\ EdgesOnce

LEMMA ImpactType ==
    ASSUME TypeOK, NEW t \in Tables, NEW columns \in SUBSET Columns
    PROVE  Impact(t, columns) \in [models : SUBSET Tables, dashboards : SUBSET Tables,
              ml : SUBSET Tables, risk : 0..100, action : {"LOW", "MEDIUM", "HIGH"}]
<1>1. Affected(t, columns) \in SUBSET Tables BY AffectedFinite DEF TypeOK
<1>2. RiskScore(t, columns) \in 0..100 BY RiskScoreType DEF TypeOK
<1>3. Recommendation(RiskScore(t, columns)) \in {"LOW", "MEDIUM", "HIGH"}
  BY DEF Recommendation
<1>4. QED BY <1>1, <1>2, <1>3 DEF Impact, Models, Dashboards, MLFeatures

(* Every catalogue satisfies the inductive invariant at the start.         *)
THEOREM Initially == Init => IInv
<1> SUFFICES ASSUME Init PROVE IInv OBVIOUS
<1>1. TypeOK BY MaxDepthAssumption DEF Init, TypeOK, NoReport
<1>2. Fresh BY DEF Init, Fresh
<1>3. EdgesOnce BY DEF Init, EdgesOnce
<1>4. QED BY <1>1, <1>2, <1>3 DEF IInv

(* A hop lists the rows that touch its frontier, and these ends are the    *)
(* next frontier or visited already.                                       *)
LEMMA HopKeepsEdges ==
    ASSUME TypeOK, EdgesOnce, WalkHop
    PROVE  EdgesOnce'
<1> SUFFICES ASSUME NEW e \in rows
             PROVE  /\ listed'[e] = (IF {e.source, e.target} \intersect visited' # {}
                                     THEN 1 ELSE 0)
                    /\ listed'[e] = 1 => {e.source, e.target} \subseteq visited' \union frontier'
  BY DEF EdgesOnce, WalkHop
<1> DEFINE ends == {e.source, e.target}
<1>1. /\ visited' = visited \union frontier
      /\ frontier' = Ends \ (visited \union frontier)
      /\ listed'[e] = ListsNewRows(e)
  BY DEF WalkHop
<1>2. /\ listed[e] = (IF ends \intersect visited # {} THEN 1 ELSE 0)
      /\ listed[e] = 1 => ends \subseteq visited \union frontier
  BY DEF EdgesOnce
<1>3. e \in Upstream \union Downstream <=> ends \intersect frontier # {}
  BY DEF Upstream, Downstream
<1>4. e \in Upstream \union Downstream => ends \subseteq Ends
  BY DEF Ends
<1>5. listed'[e] = (IF ends \intersect visited' # {} THEN 1 ELSE 0)
  BY <1>1, <1>2, <1>3 DEF ListsNewRows
<1>6. ASSUME listed'[e] = 1 PROVE ends \subseteq visited' \union frontier'
  <2>1. CASE ends \intersect frontier # {}
    BY <2>1, <1>1, <1>3, <1>4
  <2>2. CASE ends \intersect frontier = {}
    <3>1. listed[e] = 1 BY <2>2, <1>1, <1>3, <1>6 DEF ListsNewRows
    <3>2. QED BY <3>1, <1>1, <1>2
  <2>3. QED BY <2>1, <2>2
<1>7. QED BY <1>5, <1>6

LEMMA HopKeepsTypes ==
    ASSUME TypeOK, WalkHop
    PROVE  TypeOK'
<1>1. rows' \in SUBSET Candidates /\ pc' \in {"idle", "walk", "shown", "assessed"}
      /\ center' \in Tables /\ depth' \in 0..MaxDepth /\ dropped' \in SUBSET Columns
  BY DEF TypeOK, WalkHop
<1>2. hop' \in 0..depth'
  BY MaxDepthAssumption DEF TypeOK, WalkHop
<1>3. visited' \in SUBSET Tables /\ frontier' \in SUBSET Tables
  <2>1. Ends \subseteq Tables
    BY CandidatesAssumption DEF Ends, Upstream, Downstream, TypeOK, Edges
  <2>2. QED BY <2>1 DEF TypeOK, WalkHop
<1>4. listed' \in [rows' -> 0..1]
  BY DEF TypeOK, WalkHop, ListsNewRows
<1>5. report' = report BY DEF WalkHop
<1>6. QED BY <1>1, <1>2, <1>3, <1>4, <1>5 DEF TypeOK

(* Every action keeps the inductive invariant. *)
THEOREM Inductive == IInv /\ [Next]_vars => IInv'
<1> SUFFICES ASSUME TypeOK, Fresh, EdgesOnce, [Next]_vars PROVE IInv'
  BY DEF IInv
<1>1. ASSUME NEW t \in Tables, NEW d \in 0..MaxDepth, AskGraph(t, d)
      PROVE  IInv'
  <2>1. TypeOK'
    BY <1>1, MaxDepthAssumption DEF TypeOK, Fresh, AskGraph
  <2>2. Fresh' BY <1>1 DEF Fresh, AskGraph
  <2>3. EdgesOnce' BY <1>1 DEF EdgesOnce, Fresh, AskGraph
  <2>4. QED BY <2>1, <2>2, <2>3 DEF IInv
<1>2. ASSUME NEW t \in Tables, NEW columns \in SUBSET Columns \ {{}}, AskImpact(t, columns)
      PROVE  IInv'
  <2>1. Impact(t, columns) \in [models : SUBSET Tables, dashboards : SUBSET Tables,
              ml : SUBSET Tables, risk : 0..100, action : {"LOW", "MEDIUM", "HIGH"}]
    BY ImpactType
  <2>2. TypeOK' BY <1>2, <2>1 DEF TypeOK, AskImpact, graph
  <2>3. Fresh' BY <1>2 DEF Fresh, AskImpact
  <2>4. EdgesOnce' BY <1>2 DEF EdgesOnce, AskImpact, graph
  <2>5. QED BY <2>2, <2>3, <2>4 DEF IInv
<1>3. CASE WalkHop
  <2>1. TypeOK' BY <1>3, HopKeepsTypes
  <2>2. Fresh' BY <1>3 DEF Fresh, WalkHop
  <2>3. EdgesOnce' BY <1>3, HopKeepsEdges
  <2>4. QED BY <2>1, <2>2, <2>3 DEF IInv
<1>4. CASE EndWalk
  <2>1. TypeOK' BY <1>4 DEF TypeOK, EndWalk, graph
  <2>2. Fresh' BY <1>4 DEF Fresh, EndWalk
  <2>3. EdgesOnce' BY <1>4 DEF EdgesOnce, EndWalk, graph
  <2>4. QED BY <2>1, <2>2, <2>3 DEF IInv
<1>5. CASE UNCHANGED vars
  BY <1>5 DEF IInv, TypeOK, Fresh, EdgesOnce, vars, graph
<1>6. QED BY <1>1, <1>2, <1>3, <1>4, <1>5 DEF Next

(* The inductive invariant holds in every state of both tools.             *)
THEOREM Invariance == Spec => []IInv
BY Initially, Inductive, PTL DEF Spec

(* Every state of the two tools is well typed: no row is listed twice and  *)
(* no risk leaves 0..100.                                                  *)
THEOREM TypeCorrect == Spec => []TypeOK
<1>1. IInv => TypeOK BY DEF IInv
<1>2. QED BY <1>1, Invariance, PTL

(* The list of get_lineage_graph holds each row that touches a walked      *)
(* table once, and nothing else, in every catalogue.                       *)
THEOREM EdgesListedOnce == Spec => []EdgesOnce
<1>1. IInv => EdgesOnce BY DEF IInv
<1>2. QED BY <1>1, Invariance, PTL

(* The What-If engine never reports a lower risk for more columns.         *)
THEOREM RiskMonotone == Spec => []MoreColumnsMoreRisk
<1>1. IInv => MoreColumnsMoreRisk
  <2> SUFFICES ASSUME TypeOK, NEW t \in Tables,
                      NEW columns \in SUBSET Columns \ {{}}, NEW c \in Columns
               PROVE  RiskScore(t, columns) <= RiskScore(t, columns \union {c})
    BY DEF IInv, MoreColumnsMoreRisk
  <2>1. columns \union {c} \in SUBSET Columns OBVIOUS
  <2>2. columns \in SUBSET Columns /\ columns \subseteq columns \union {c} OBVIOUS
  <2>3. rows \in SUBSET Candidates BY DEF TypeOK
  <2> HIDE DEF TypeOK
  <2>4. QED BY <2>1, <2>2, <2>3, RiskGrows
<1>2. QED BY <1>1, Invariance, PTL

-----------------------------------------------------------------------------
LEMMA LeastOf ==
    ASSUME NEW T, T \subseteq Nat, T # {}
    PROVE  \E t \in T : \A s \in T : t <= s
<1> DEFINE Less == {p \in Nat \X Nat : p[1] < p[2]}
<1>1. IsWellFoundedOn(Less, Nat) BY NatLessThanWellFounded DEF OpToRel
<1> HIDE DEF Less
<1>2. PICK t \in T : \A s \in T : <<s, t>> \notin Less BY <1>1, WFMin
<1>3. \A s \in T : s \in Nat /\ t \in Nat /\ ~(s < t) BY <1>2 DEF Less
<1>4. QED BY <1>3

(* The reference of TablesWithinDepth is a recursive function: that it     *)
(* exists is shown for one more hop at a time, by the least number of hops *)
(* that would not have one.                                                *)
IsReach(n, within) ==
    within = [m \in 0..n |-> IF m = 0 THEN {center}
                             ELSE within[m - 1] \union Neighbours(within[m - 1])]

LEMMA ReachSteps ==
    ASSUME NEW n \in Nat, NEW within, IsReach(n, within)
    PROVE  /\ within[0] = {center}
           /\ \A m \in 1..n : within[m] = within[m - 1] \union Neighbours(within[m - 1])
<1>1. \A m \in 0..n : within[m] = IF m = 0 THEN {center}
                                  ELSE within[m - 1] \union Neighbours(within[m - 1])
  BY DEF IsReach
<1>2. 0 \in 0..n /\ \A m \in 1..n : m \in 0..n /\ m # 0 OBVIOUS
<1>3. QED BY <1>1, <1>2

LEMMA ReachExists ==
    ASSUME NEW n \in Nat
    PROVE  \E within : IsReach(n, within)
<1> DEFINE Bad == {m \in 0..n : ~\E within : IsReach(m, within)}
<1>1. \A m : m \in Bad <=> m \in 0..n /\ ~\E within : IsReach(m, within) OBVIOUS
<1>2. Bad \subseteq Nat OBVIOUS
<1> HIDE DEF Bad
<1>3. CASE 0 \in Bad
  <2>1. IsReach(0, [l \in 0..0 |-> {center}]) BY DEF IsReach
  <2>2. QED BY <1>1, <1>3, <2>1
<1>4. CASE Bad # {} /\ 0 \notin Bad
  <2>1. PICK m \in Bad : \A k \in Bad : m <= k BY <1>2, <1>4, LeastOf
  <2>2. m \in 1..n /\ m - 1 \in 0..n /\ m - 1 \in Nat BY <1>1, <1>4
  <2>3. m - 1 \notin Bad BY <2>1, <2>2
  <2>4. PICK g : IsReach(m - 1, g) BY <1>1, <2>2, <2>3
  <2> DEFINE more(tables) == tables \union Neighbours(tables)
             h == [l \in 0..m |-> IF l < m THEN g[l] ELSE more(g[m - 1])]
  <2>5. g[0] = {center} /\ \A l \in 1..m - 1 : g[l] = more(g[l - 1])
    BY <2>2, <2>4, ReachSteps
  <2> HIDE DEF more
  <2>6. \A l \in 0..m : h[l] = IF l = 0 THEN {center} ELSE more(h[l - 1])
    <3>1. h[0] = {center} BY <2>2, <2>5
    <3>2. ASSUME NEW l \in 1..m PROVE h[l] = more(h[l - 1])
      <4>1. l - 1 \in 0..m /\ l - 1 < m /\ l \in 0..m BY <2>2
      <4>2. h[l - 1] = g[l - 1] BY <4>1
      <4>3. CASE l = m BY <4>1, <4>2, <4>3
      <4>4. CASE l # m
        <5>1. l \in 1..m - 1 /\ l < m BY <2>2, <4>4
        <5>2. QED BY <2>5, <4>1, <4>2, <5>1
      <4>5. QED BY <4>3, <4>4
    <3>3. \A l \in 0..m : l = 0 \/ l \in 1..m BY <2>2
    <3>4. QED BY <3>1, <3>2, <3>3
  <2>7. h = [l \in 0..m |-> h[l]] OBVIOUS
  <2> HIDE DEF h
  <2>8. IsReach(m, h) BY <2>6, <2>7 DEF IsReach, more
  <2>9. QED BY <1>1, <2>1, <2>8
<1>5. n \in 0..n OBVIOUS
<1>6. QED BY <1>1, <1>3, <1>4, <1>5

LEMMA WithinSteps ==
    /\ Within[0] = {center}
    /\ \A n \in 1..MaxDepth : Within[n] = Within[n - 1] \union Neighbours(Within[n - 1])
<1>1. \E within : IsReach(MaxDepth, within) BY MaxDepthAssumption, ReachExists
<1> DEFINE chosen == CHOOSE within : IsReach(MaxDepth, within)
<1>2. IsReach(MaxDepth, chosen) BY <1>1
<1>3. Within = chosen BY DEF Within, IsReach
<1> HIDE DEF chosen
<1>4. IsReach(MaxDepth, Within) BY <1>2, <1>3
<1>5. QED BY <1>4, MaxDepthAssumption, ReachSteps

LEMMA WithinStarts == Within[0] = {center}
BY WithinSteps

(* The walk has reached what the reference reaches in as many hops, has    *)
(* walked the neighbours of all but its frontier, and once its frontier is *)
(* empty, no further hop would reach anything.                             *)
WalkInv ==
    /\ IInv
    /\ pc = "walk" =>
          /\ visited \union frontier = Within[hop]
          /\ Neighbours(visited) \subseteq visited \union frontier
    /\ TablesWithinDepth

LEMMA NeighboursOfUnion ==
    \A A, B : Neighbours(A \union B) = Neighbours(A) \union Neighbours(B)
BY DEF Neighbours

LEMMA NothingFurther ==
    ASSUME NEW n \in 0..MaxDepth, NEW d \in n..MaxDepth, Neighbours(Within[n]) \subseteq Within[n]
    PROVE  Within[d] = Within[n]
<1> DEFINE Bad == {m \in n..MaxDepth : Within[m] # Within[n]}
<1>0. n \in Nat /\ MaxDepth \in Nat BY MaxDepthAssumption
<1>1. \A m : m \in Bad <=> m \in n..MaxDepth /\ Within[m] # Within[n] OBVIOUS
<1>2. Bad \subseteq Nat BY <1>0
<1> HIDE DEF Bad
<1>3. CASE Bad # {}
  <2>1. PICK m \in Bad : \A k \in Bad : m <= k BY <1>2, <1>3, LeastOf
  <2>2. m # n BY <1>1
  <2>3. m \in 1..MaxDepth /\ m - 1 \in n..MaxDepth /\ ~(m <= m - 1) BY <1>0, <1>1, <2>2
  <2>4. Within[m - 1] = Within[n] BY <1>1, <2>1, <2>3
  <2>5. Within[m] = Within[n] BY <2>3, <2>4, WithinSteps
  <2>6. QED BY <1>1, <2>5
<1>4. CASE Bad = {} BY <1>1, <1>4
<1>5. QED BY <1>3, <1>4

LEMMA ReachGrows ==
    ASSUME NEW n \in 0..MaxDepth
    PROVE  center \in Within[n]
<1> DEFINE Bad == {m \in 0..MaxDepth : center \notin Within[m]}
<1>1. \A m : m \in Bad <=> m \in 0..MaxDepth /\ center \notin Within[m] OBVIOUS
<1>2. Bad \subseteq Nat OBVIOUS
<1> HIDE DEF Bad
<1>3. CASE Bad # {}
  <2>1. PICK m \in Bad : \A k \in Bad : m <= k BY <1>2, <1>3, LeastOf
  <2>2. m # 0 BY <1>1, WithinSteps
  <2>3. m \in 1..MaxDepth /\ m - 1 \in 0..MaxDepth /\ ~(m <= m - 1)
    BY <1>1, <2>2, MaxDepthAssumption
  <2>4. center \in Within[m - 1] BY <1>1, <2>1, <2>3
  <2>5. center \in Within[m] BY <2>3, <2>4, WithinSteps
  <2>6. QED BY <1>1, <2>5
<1>4. CASE Bad = {} BY <1>1, <1>4
<1>5. QED BY <1>3, <1>4

LEMMA HopReaches == WalkInv /\ WalkHop => WalkInv'
<1> SUFFICES ASSUME WalkInv, WalkHop PROVE WalkInv' OBVIOUS
<1>1. IInv' BY Inductive DEF WalkInv, Next
<1>2. /\ pc = "walk" /\ hop < depth /\ hop' = hop + 1
      /\ visited' = visited \union frontier
      /\ frontier' = Ends \ (visited \union frontier)
      /\ rows' = rows /\ center' = center /\ depth' = depth /\ pc' = pc
  BY DEF WalkHop
<1>3. Within' = Within /\ \A A : Neighbours(A)' = Neighbours(A)
  <2>1. \A A : Neighbours(A)' = Neighbours(A) BY <1>2 DEF Neighbours
  <2>2. QED BY <1>2 DEF Within, Neighbours
<1>4. /\ visited \union frontier = Within[hop]
      /\ Neighbours(visited) \subseteq visited \union frontier
  BY <1>2 DEF WalkInv
<1>5. hop + 1 \in 1..MaxDepth /\ hop \in Int
  <2>1. hop \in 0..depth /\ depth \in 0..MaxDepth BY DEF WalkInv, IInv, TypeOK
  <2>2. QED BY <1>2, <2>1, MaxDepthAssumption
<1>6. Within[hop + 1] = Within[hop] \union Neighbours(Within[hop])
  <2>1. (hop + 1) - 1 = hop BY <1>5
  <2>2. QED BY <1>5, <2>1, WithinSteps
<1>7. Neighbours(visited \union frontier) = Neighbours(visited) \union Neighbours(frontier)
  BY NeighboursOfUnion
<1>8. Neighbours(frontier) \subseteq Ends BY DEF Neighbours, Ends, Upstream, Downstream
<1>9. Ends \subseteq Neighbours(frontier) \union frontier
  BY DEF Neighbours, Ends, Upstream, Downstream
<1>10. visited' \union frontier' = Within[hop + 1] BY <1>2, <1>4, <1>6, <1>7, <1>8, <1>9
<1>11. Neighbours(visited') \subseteq visited' \union frontier'
  BY <1>2, <1>4, <1>7, <1>8
<1>12. QED BY <1>1, <1>2, <1>3, <1>10, <1>11 DEF WalkInv, TablesWithinDepth

LEMMA WalkEnds == WalkInv /\ EndWalk => WalkInv'
<1> SUFFICES ASSUME WalkInv, EndWalk PROVE WalkInv' OBVIOUS
<1>1. IInv' BY Inductive DEF WalkInv, Next
<1>2. /\ pc = "walk" /\ pc' = "shown" /\ (hop = depth \/ frontier = {})
      /\ visited' = visited /\ frontier' = frontier
      /\ rows' = rows /\ center' = center /\ depth' = depth
  BY DEF EndWalk, graph
<1>3. Within' = Within BY <1>2 DEF Within, Neighbours
<1>4. /\ visited \union frontier = Within[hop]
      /\ Neighbours(visited) \subseteq visited \union frontier
  BY <1>2 DEF WalkInv
<1>5. hop \in 0..depth /\ depth \in 0..MaxDepth BY DEF WalkInv, IInv, TypeOK
<1>6. hop \in 0..MaxDepth /\ depth \in hop..MaxDepth BY <1>5, MaxDepthAssumption
<1>7. Within[depth] = Within[hop]
  <2>1. CASE hop = depth BY <2>1
  <2>2. CASE frontier = {}
    <3>1. Neighbours(Within[hop]) \subseteq Within[hop] BY <1>4, <2>2
    <3>2. QED BY <1>6, <3>1, NothingFurther
  <2>3. QED BY <1>2, <2>1, <2>2
<1>8. center \in Within[hop] BY <1>6, ReachGrows
<1>9. AllTables' = Within[depth] BY <1>2, <1>4, <1>7, <1>8 DEF AllTables
<1>10. QED BY <1>1, <1>2, <1>3, <1>9 DEF WalkInv, TablesWithinDepth

LEMMA WalkInductive == WalkInv /\ [Next]_vars => WalkInv'
<1> SUFFICES ASSUME WalkInv, [Next]_vars PROVE WalkInv' OBVIOUS
<1>1. IInv' BY Inductive DEF WalkInv
<1>2. ASSUME NEW t \in Tables, NEW d \in 0..MaxDepth, AskGraph(t, d) PROVE WalkInv'
  <2>1. hop = 0 BY <1>2 DEF WalkInv, IInv, Fresh, AskGraph
  <2>2. /\ hop' = 0 /\ pc' = "walk" /\ center' = t
        /\ visited' = {} /\ frontier' = {t}
    BY <1>2, <2>1 DEF AskGraph
  <2>3. (Within[0] = {center})' BY WithinStarts, PTL
  <2>4. Neighbours({})' = {} BY DEF Neighbours
  <2>5. QED BY <1>1, <2>2, <2>3, <2>4 DEF WalkInv, TablesWithinDepth
<1>3. ASSUME NEW t \in Tables, NEW columns \in SUBSET Columns \ {{}}, AskImpact(t, columns)
      PROVE  WalkInv'
  BY <1>1, <1>3 DEF AskImpact, WalkInv, TablesWithinDepth
<1>4. CASE WalkHop BY <1>4, HopReaches
<1>5. CASE EndWalk BY <1>5, WalkEnds
<1>6. CASE UNCHANGED vars
  <2>1. /\ rows' = rows /\ center' = center /\ depth' = depth /\ pc' = pc /\ hop' = hop
        /\ visited' = visited /\ frontier' = frontier
    BY <1>6 DEF vars, graph
  <2>2. Within' = Within /\ Neighbours(visited)' = Neighbours(visited)
        /\ AllTables' = AllTables
    BY <2>1 DEF Within, Neighbours, AllTables
  <2>3. QED BY <1>1, <2>1, <2>2 DEF WalkInv, TablesWithinDepth
<1>7. QED BY <1>2, <1>3, <1>4, <1>5, <1>6 DEF Next

(* The graph shows exactly the tables within the depth that was asked for, *)
(* in every catalogue, with cycles or without.                             *)
THEOREM WalkIsComplete == Spec => []TablesWithinDepth
<1>1. Init => WalkInv
  <2>1. Init => IInv BY Initially
  <2>2. QED BY <2>1 DEF Init, WalkInv, TablesWithinDepth
<1>2. WalkInv => TablesWithinDepth BY DEF WalkInv
<1>3. QED BY <1>1, <1>2, WalkInductive, PTL DEF Spec
=============================================================================
