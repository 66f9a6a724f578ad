------------------------------ MODULE Lineage ------------------------------
(***************************************************************************)
(* The two lineage tools (agent/tools/lineage_tools.py): the breadth-first *)
(* walk of get_lineage_graph, one hop per step as each is a pair of        *)
(* queries, and the What-If engine analyze_lineage_impact.  The catalogue  *)
(* is written by the seeder only, before the API serves (db/seeder.py), so *)
(* its tables do not change during a call.  Risks are in hundredths.       *)
(***************************************************************************)
EXTENDS Integers, FiniteSets

CONSTANTS Tables,     \* table names
          Columns,    \* column names
          Candidates, \* bound: the rows lineage_edges may hold
          MaxDepth,   \* bound: depths asked for
          Catalogued, \* tables with a row in catalogue_tables
          PII,        \* table and column pairs with a pii_class
          Kind,       \* what the name of a table says it is
          Exposed     \* tables named in KNOWN_EXPOSURES

Edges == [source : Tables, source_column : Columns, target : Tables, target_column : Columns]
Kinds == {"bi", "ml", "model"}

ASSUME TablesAssumption == IsFiniteSet(Tables)
ASSUME CandidatesAssumption == Candidates \subseteq Edges
ASSUME MaxDepthAssumption == MaxDepth \in Nat
ASSUME CatalogueAssumption ==
    Catalogued \subseteq Tables /\ PII \subseteq Tables \X Columns /\ Exposed \subseteq Tables
ASSUME KindAssumption == Kind \in [Tables -> Kinds]

VARIABLES rows,      \* lineage_edges
          pc,        \* "idle", "walk", "shown" or "assessed"
          center,    \* table_name or changed_table
          depth,     \* depth
          dropped,   \* dropped_columns
          hop,       \* hops walked
          visited, frontier,
          listed,    \* the list edges: how often it holds a row
          report     \* what analyze_lineage_impact returns

graph == <<visited, frontier, listed>>
vars == <<rows, pc, center, depth, dropped, hop, graph, report>>

NoReport == [models |-> {}, dashboards |-> {}, ml |-> {}, risk |-> 0, action |-> "LOW"]

Init ==
    /\ rows \in SUBSET Candidates
    /\ pc = "idle"
    /\ center \in Tables
    /\ depth = 0 /\ dropped = {} /\ hop = 0
    /\ visited = {} /\ frontier = {}
    /\ listed = [e \in rows |-> 0]
    /\ report = NoReport

-----------------------------------------------------------------------------
AskGraph(t, d) ==
    /\ pc = "idle"
    /\ pc' = "walk"
    /\ center' = t /\ depth' = d
    /\ visited' = {} /\ frontier' = {t}
    /\ UNCHANGED <<rows, dropped, hop, listed, report>>

(* The rows of the two queries; one whose ends are both in the frontier is *)
(* returned by each.                                                       *)
Upstream == {e \in rows : e.target \in frontier}
Downstream == {e \in rows : e.source \in frontier}

ListsEachResult(e) ==
    listed[e] + (IF e \in Upstream THEN 1 ELSE 0) + (IF e \in Downstream THEN 1 ELSE 0)
ListsNewRows(e) ==
    IF e \in Upstream \union Downstream /\ listed[e] = 0 THEN 1 ELSE listed[e]

WalksDownstream == {e.target : e \in Downstream}
Ends == {e.source : e \in Upstream \union Downstream}
            \union {e.target : e \in Upstream \union Downstream}

WalkHop ==
    /\ pc = "walk"
    /\ hop < depth /\ frontier # {}
    /\ hop' = hop + 1
    /\ listed' = [e \in rows |-> ListsNewRows(e)]
    /\ visited' = visited \union frontier
    /\ frontier' = Ends \ (visited \union frontier)
    /\ UNCHANGED <<rows, pc, center, depth, dropped, report>>

EndWalk ==
    /\ pc = "walk"
    /\ hop = depth \/ frontier = {}
    /\ pc' = "shown"
    /\ UNCHANGED <<rows, center, depth, dropped, hop, graph, report>>

AllTables == visited \union frontier \union {center}
Nodes == AllTables \intersect Catalogued

-----------------------------------------------------------------------------
AffectedEdges(t, columns) ==
    {e \in rows : e.source = t /\ e.source_column \in columns}
Affected(t, columns) == {e.target : e \in AffectedEdges(t, columns)}

Dashboards(tables) == {a \in tables : Kind[a] = "bi" \/ a \in Exposed}
MLFeatures(tables) == {a \in tables : Kind[a] = "ml"}
Models(tables) == {a \in tables : Kind[a] = "model"}

PIIAffected(t, columns) ==
    t \in Catalogued /\ \E c \in columns : <<t, c>> \in PII

Capped(risk) == IF risk > 100 THEN 100 ELSE risk

BaseRisk(t, columns) == Capped(15 * Cardinality(Affected(t, columns)))

Penalties(t, columns) ==
    (IF PIIAffected(t, columns) THEN 30 ELSE 0)
        + (IF Dashboards(Affected(t, columns)) # {} THEN 25 ELSE 0)
        + (IF MLFeatures(Affected(t, columns)) # {} THEN 20 ELSE 0)

RiskScore(t, columns) == Capped(BaseRisk(t, columns) + Penalties(t, columns))

Recommendation(risk) == IF risk >= 70 THEN "HIGH" ELSE IF risk >= 35 THEN "MEDIUM" ELSE "LOW"

Impact(t, columns) ==
    LET affected == Affected(t, columns)
    IN  [models |-> Models(affected),
         dashboards |-> Dashboards(affected),
         ml |-> MLFeatures(affected),
         risk |-> RiskScore(t, columns),
         action |-> Recommendation(RiskScore(t, columns))]

AskImpact(t, columns) ==
    /\ pc = "idle"
    /\ pc' = "assessed"
    /\ center' = t /\ dropped' = columns
    /\ report' = Impact(t, columns)
    /\ UNCHANGED <<rows, depth, hop, graph>>

Next ==
    \/ \E t \in Tables, d \in 0..MaxDepth : AskGraph(t, d)
    \/ \E t \in Tables, columns \in SUBSET Columns \ {{}} : AskImpact(t, columns)
    \/ WalkHop \/ EndWalk

Spec == Init /\ [][Next]_vars

-----------------------------------------------------------------------------
TypeOK ==
    /\ rows \in SUBSET Candidates
    /\ pc \in {"idle", "walk", "shown", "assessed"}
    /\ center \in Tables
    /\ depth \in 0..MaxDepth
    /\ dropped \in SUBSET Columns
    /\ hop \in 0..depth
    /\ visited \in SUBSET Tables /\ frontier \in SUBSET Tables
    /\ listed \in [rows -> 0..1]
    /\ report \in [models : SUBSET Tables, dashboards : SUBSET Tables, ml : SUBSET Tables,
                   risk : 0..100, action : {"LOW", "MEDIUM", "HIGH"}]

(* Reference: the tables at most n edges away, in either direction.        *)
Neighbours(tables) ==
    {e.target : e \in {r \in rows : r.source \in tables}}
        \union {e.source : e \in {r \in rows : r.target \in tables}}
Within[n \in 0..MaxDepth] ==
    IF n = 0 THEN {center} ELSE Within[n - 1] \union Neighbours(Within[n - 1])

(* "lineage for a table up to `depth` hops": the walk, whose frontiers     *)
(* leave out what was visited, ends with exactly the tables that the       *)
(* reference reaches, in cyclic catalogues too.                            *)
TablesWithinDepth == pc = "shown" => AllTables = Within[depth]

(* The list holds every row that touches a walked table once, no other     *)
(* row, and both ends of a listed row are among the tables whose nodes are *)
(* looked up, so only a table outside the catalogue is drawn without one.  *)
EdgesOnce ==
    \A e \in rows :
        /\ listed[e] = (IF {e.source, e.target} \intersect visited # {} THEN 1 ELSE 0)
        /\ listed[e] = 1 => {e.source, e.target} \subseteq visited \union frontier

(* Dropping further columns never lowers the risk that is reported.        *)
MoreColumnsMoreRisk ==
    \A t \in Tables : \A columns \in SUBSET Columns \ {{}}, c \in Columns :
        RiskScore(t, columns) <= RiskScore(t, columns \union {c})
=============================================================================
