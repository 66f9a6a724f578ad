--------------------------- MODULE InventoryLoad ----------------------------
(***************************************************************************)
(* The daily inventory snapshot (data/pipeline_repo/inventory_pipeline.py):*)
(* a run reads the stock and the rows of yesterday's snapshot, appends a   *)
(* row per SKU with the difference, and then appends an alert per row that *)
(* is low.  The two appends are two transactions and nothing is keyed, so  *)
(* a run that raised and is started again appends once more.               *)
(*                                                                         *)
(* "Yesterday" is a day of the UTC clock.  The stamp of the rows is one of *)
(* the local clock, which may be a day ahead or behind, and every alert    *)
(* reads that clock once more when it is made; midnight may pass between   *)
(* any two of these readings.  A SKU stands for its warehouse too.         *)
(***************************************************************************)
EXTENDS Integers, Sequences, FiniteSets, SequencesExt

CONSTANTS Skus,
          MaxStock,   \* bound: quantity on hand
          Low,        \* LOW_STOCK_THRESHOLD
          Zone,       \* the local day is the UTC day or Zone days from it:
                      \* 1 east of Greenwich, -1 west of it, 0 on a UTC host
          LastDay,    \* bound: days
          MaxSnapshots  \* bound: rows of inventory_snapshots at which no run starts

ASSUME StockBoundsAssumption == {MaxStock, Low, MaxSnapshots} \subseteq Nat /\ LastDay \in Nat \ {0}
ASSUME ZoneAssumption == Zone \in -1..1
ASSUME SkusAssumption == IsFiniteSet(Skus)

VARIABLES utcDay, localDay,
          at,         \* the step of the run that is next, "idle" without one
          current,    \* its current_df: per SKU the quantity, -1 for not active
          readDay,    \* the day whose rows it read
          last_df,    \* those rows, as positions of snapshots
          stampDay,   \* snapshot_date of its rows
          written,    \* the positions of the rows it appended
          made,       \* its alerts
          snapshots,  \* inventory_snapshots
          alerts,     \* inventory_alerts
          loads,      \* history, per day: the loads stamped with it, 2 for two or more
          unalerted   \* history: positions of rows whose run ended before alerts

inventoryRun == <<current, readDay, last_df, stampDay, written, made>>
inventoryVars == <<utcDay, localDay, at, inventoryRun, snapshots, alerts, loads, unalerted>>

InventoryInit ==
    /\ utcDay = 1 /\ localDay = 1
    /\ at = "idle"
    /\ current = [s \in Skus |-> -1] /\ readDay = 0 /\ last_df = {} /\ stampDay = 0
    /\ written = {} /\ made = {}
    /\ snapshots = <<>> /\ alerts = {}
    /\ loads = [d \in 1..LastDay |-> 0] /\ unalerted = {}

(* Midnight on the host, which may be that of UTC too, and of UTC alone.   *)
Midnight ==
    /\ localDay < LastDay
    /\ localDay' = localDay + 1
    /\ utcDay' \in {utcDay, utcDay + 1} \intersect 1..LastDay
    /\ localDay' - utcDay' \in {0, Zone}
    /\ UNCHANGED <<at, inventoryRun, snapshots, alerts, loads, unalerted>>

UtcMidnight ==
    /\ utcDay < LastDay
    /\ utcDay' = utcDay + 1
    /\ localDay - utcDay' \in {0, Zone}
    /\ UNCHANGED <<localDay, at, inventoryRun, snapshots, alerts, loads, unalerted>>

-----------------------------------------------------------------------------
(* The stock is read once and changes as it likes between two runs.        *)
ExtractInventory ==
    /\ at = "idle" /\ Len(snapshots) < MaxSnapshots
    /\ current' \in [Skus -> -1..MaxStock]
    /\ at' = "last"
    /\ UNCHANGED <<utcDay, localDay, readDay, last_df, stampDay, written, made, snapshots,
                   alerts, loads, unalerted>>

ReadsLastRows(i) == snapshots[i].day < utcDay
IsYesterdays(i) == snapshots[i].day = utcDay - 1

ExtractLastSnapshot ==
    /\ at = "last"
    /\ readDay' = utcDay - 1
    /\ last_df' = {i \in DOMAIN snapshots : IsYesterdays(i)}
    /\ at' = "stamp"
    /\ UNCHANGED <<utcDay, localDay, current, stampDay, written, made, snapshots, alerts,
                   loads, unalerted>>

(* transform reads the day again, for all rows at once.                    *)
StampRows ==
    /\ at = "stamp"
    /\ stampDay' = localDay
    /\ at' = "load"
    /\ UNCHANGED <<utcDay, localDay, current, readDay, last_df, written, made, snapshots,
                   alerts, loads, unalerted>>

(* merge(..., how="left") keeps a SKU without a match and repeats one with *)
(* several; 0 is the match of none.                                        *)
MatchesAnySku(s, i) == TRUE
IsMatch(s, i) == snapshots[i].sku = s
Matches(s) == {i \in last_df : IsMatch(s, i)}
Merged == {m \in {s \in Skus : current[s] >= 0} \X (last_df \union {0}) :
               IF Matches(m[1]) = {} THEN m[2] = 0 ELSE m[2] \in Matches(m[1])}

Delta(s, i) ==
    IF last_df = {} THEN 0
    ELSE current[s] - (IF i = 0 THEN 0 ELSE snapshots[i].quantity)

SnapshotRow(m) ==
    [sku |-> m[1], quantity |-> current[m[1]], delta |-> Delta(m[1], m[2]), day |-> stampDay,
     crossed |-> stampDay # readDay + 1]   \* history: the two clocks disagreed

IsLow(q) == q <= Low
LowRows == {m \in Merged : IsLow(current[m[1]])}

(* date.today() of InventoryAlert is called alert by alert.                *)
UtcDates == {utcDay}
AlertDates == stampDay..localDay

Alert(m, d) ==
    [sku |-> m[1], quantity |-> current[m[1]], day |-> d,
     turned |-> localDay # stampDay]   \* history: midnight came after the stamp

(* The rest of transform, which makes the alerts, and load_snapshot.       *)
LoadSnapshot ==
    /\ at = "load"
    /\ LET rows == SetToSeq(Merged)
       IN  /\ snapshots' = snapshots \o [k \in DOMAIN rows |-> SnapshotRow(rows[k])]
           /\ written' = Len(snapshots) + 1..Len(snapshots')
    /\ \E days \in [LowRows -> AlertDates] : made' = {Alert(m, days[m]) : m \in LowRows}
    /\ loads' = [loads EXCEPT ![stampDay] = IF @ = 0 THEN 1 ELSE 2]
    /\ at' = "alerts"
    /\ UNCHANGED <<utcDay, localDay, current, readDay, last_df, stampDay, alerts, unalerted>>

(* What a run has read is gone when it ends.                               *)
ForgetsRun ==
    /\ at' = "idle"
    /\ current' = [s \in Skus |-> -1] /\ readDay' = 0 /\ last_df' = {} /\ stampDay' = 0
    /\ written' = {} /\ made' = {}

LoadAlerts ==
    /\ at = "alerts"
    /\ alerts' = alerts \union made
    /\ ForgetsRun
    /\ UNCHANGED <<utcDay, localDay, snapshots, loads, unalerted>>

(* The exception is raised to the caller, which starts run() again.        *)
InventoryFail ==
    /\ at # "idle"
    /\ ForgetsRun
    /\ unalerted' = unalerted \union {i \in written : IsLow(snapshots[i].quantity)}
    /\ UNCHANGED <<utcDay, localDay, snapshots, alerts, loads>>

InventoryNext ==
    \/ Midnight \/ UtcMidnight
    \/ ExtractInventory \/ ExtractLastSnapshot \/ StampRows \/ LoadSnapshot \/ LoadAlerts
    \/ InventoryFail

(* No fairness: the properties are about what the runs have appended.      *)
InventorySpec == InventoryInit /\ [][InventoryNext]_inventoryVars

-----------------------------------------------------------------------------
StockRow == [sku : Skus, quantity : 0..MaxStock, delta : Int, day : 1..LastDay,
             crossed : BOOLEAN]
StockAlert == [sku : Skus, quantity : 0..MaxStock, day : 1..LastDay, turned : BOOLEAN]

InventoryTypeOK ==
    /\ utcDay \in 1..LastDay /\ localDay \in 1..LastDay
    /\ at \in {"idle", "last", "stamp", "load", "alerts"}
    /\ current \in [Skus -> -1..MaxStock]
    /\ readDay \in 0..LastDay /\ stampDay \in 0..LastDay /\ (at = "load" => stampDay # 0)
    /\ snapshots \in Seq(StockRow)
    /\ {last_df, written, unalerted} \subseteq SUBSET DOMAIN snapshots
    /\ made \subseteq StockAlert /\ alerts \subseteq StockAlert
    /\ loads \in [1..LastDay -> 0..2]

RowsOf(s, d) == {i \in DOMAIN snapshots : snapshots[i].sku = s /\ snapshots[i].day = d}

(* The deltas add up from day to day: a row continues some row of its SKU  *)
(* of the day before, or begins at nothing; also when that day was loaded  *)
(* twice, and unless the run met a midnight between its two readings of    *)
(* the date, or the hours in which the two clocks name different days.     *)
DeltasAddUp ==
    \A i \in DOMAIN snapshots :
        LET row == snapshots[i]
            before == RowsOf(row.sku, row.day - 1)
        IN  ~row.crossed =>
                IF before # {}
                THEN \E j \in before : snapshots[j].quantity + row.delta = row.quantity
                ELSE row.delta = IF \E s \in Skus : RowsOf(s, row.day - 1) # {}
                                 THEN row.quantity ELSE 0

(* A SKU has two rows on one day only if that day, or an earlier one whose *)
(* duplicates the join has carried on, was loaded twice.                   *)
OneRowPerSku ==
    \A s \in Skus, d \in 1..LastDay :
        Cardinality(RowsOf(s, d)) > 1 => \E e \in 1..d : loads[e] > 1

(* An alert names its row: the same SKU and quantity, and the same day, or *)
(* a later one only if midnight came between the two readings.             *)
Names(a, i) ==
    /\ snapshots[i].sku = a.sku /\ snapshots[i].quantity = a.quantity
    /\ snapshots[i].day = a.day \/ (a.turned /\ snapshots[i].day < a.day)

(* Every alert names a row that was loaded, whichever of the two appends   *)
(* fails, and every low row is named by an alert unless its run failed     *)
(* before; then the row stays without one, and the repeated run alerts     *)
(* about rows of its own.                                                  *)
AlertsMatchRows ==
    /\ \A a \in alerts : \E i \in DOMAIN snapshots : Names(a, i)
    /\ at = "idle" =>
          \A i \in (DOMAIN snapshots) \ unalerted :
              snapshots[i].quantity <= Low => \E a \in alerts : Names(a, i)
=============================================================================
