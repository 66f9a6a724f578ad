---------------------------- MODULE OrdersSync -----------------------------
(***************************************************************************)
(* The incremental orders pipeline (data/pipeline_repo/orders_pipeline.py):*)
(* orders are extracted by the time of their last change, staged, merged   *)
(* into orders_fact, and then the watermark is advanced to the time of     *)
(* that moment.  One run at a time (data/dags/orders_dag.yml), next to     *)
(* which the operational database goes on and time passes.  run() returns  *)
(* "failed" instead of raising; the next hourly run starts over from the   *)
(* watermark.                                                              *)
(*                                                                         *)
(* The merge gives an existing row the order's status and amount, with what*)
(* is derived from them, and the times of change and load.  The content of *)
(* an order is its status and amount here.  The customer, the product, the *)
(* currency and the address are written with a new row only: a later       *)
(* change of them is extracted and staged, and never reaches orders_fact.  *)
(***************************************************************************)
EXTENDS Integers, FiniteSets

CONSTANTS Orders,
          Keyless,     \* orders without a customer_id, which transform drops
          MaxChanges,  \* bound: contents of one order
          MaxTime,     \* bound: ticks of the clock
          Lookback     \* lookback_hours, in ticks

ASSUME OrdersAssumption == Keyless \subseteq Orders
ASSUME OrderBoundsAssumption == MaxChanges \in Nat \ {0} /\ {MaxTime, Lookback} \subseteq Nat

None == -MaxTime - Lookback - 1   \* pipeline_state has no row

VARIABLES now,
          version,    \* per order: its status and amount in the source, 0 before it exists
          updated,    \* per order: its updated_at
          staged,     \* the staging table: pairs of an order and its content
          fact,       \* orders_fact: per order, 0 when it has no row
          last_watermark, \* None when there is no row
          phase,          \* "idle", or the step that is next
          since,      \* the run's watermark
          df,         \* its frame: pairs of an order and its content
          extracted,  \* history: time of the run's extract
          status,     \* status of the last PipelineResult
          missed      \* history: orders whose last change the watermark passed
                      \* though no extract saw it: it was older than the first
                      \* run's lookback or fell between an extract and the advance
source_db == <<now, version, updated>>
orderVars == <<source_db, staged, fact, last_watermark, phase, since, df, extracted, status,
               missed>>

OrdersInit ==
    /\ now = 0
    /\ version \in [Orders -> {0, 1}]
    /\ updated = [o \in Orders |-> 0]
    /\ staged = {} /\ fact = [o \in Orders |-> 0]
    /\ last_watermark = None
    /\ phase = "idle" /\ since = 0 /\ df = {} /\ extracted = 0
    /\ status = "none" /\ missed = {}

Tick ==
    /\ now < MaxTime
    /\ now' = now + 1
    /\ UNCHANGED <<version, updated, staged, fact, last_watermark, phase, since, df, extracted,
                   status, missed>>

(* The shop places an order, or changes the status or amount of one, or    *)
(* other columns only; updated_at is the present time.                     *)
ChangeOrder(o) ==
    /\ \/ version[o] < MaxChanges /\ version' = [version EXCEPT ![o] = @ + 1]
       \/ version[o] # 0 /\ UNCHANGED version
    /\ updated' = [updated EXCEPT ![o] = now]
    /\ missed' = missed \ {o}
    /\ UNCHANGED <<now, staged, fact, last_watermark, phase, since, df, extracted, status>>

-----------------------------------------------------------------------------
StartOrders ==
    /\ phase = "idle"
    /\ since' = IF last_watermark = None THEN now - Lookback ELSE last_watermark
    /\ phase' = "extract"
    /\ UNCHANGED <<source_db, staged, fact, last_watermark, df, extracted, status, missed>>

ChangedAfter(o) == updated[o] > since
ChangedSince(o) == updated[o] >= since

Extract ==
    /\ phase = "extract"
    /\ df' = {<<o, version[o]>> : o \in {p \in Orders : version[p] # 0 /\ ChangedSince(p)}}
    /\ extracted' = now
    /\ phase' = "transform"
    /\ UNCHANGED <<source_db, staged, fact, last_watermark, since, status, missed>>

HasKeys(row) == row[1] \notin Keyless

(* transform; load returns early when nothing is left.                     *)
Transform ==
    /\ phase = "transform"
    /\ df' = {row \in df : HasKeys(row)}
    /\ phase' = IF df' = {} THEN "advance" ELSE "stage"
    /\ UNCHANGED <<source_db, staged, fact, last_watermark, since, extracted, status, missed>>

(* to_sql with if_exists="replace", a transaction before the merge's.      *)
Stage ==
    /\ phase = "stage"
    /\ staged' = df
    /\ phase' = "merge"
    /\ UNCHANGED <<source_db, fact, last_watermark, since, df, extracted, status, missed>>

(* ON CONFLICT (order_id) DO UPDATE SET order_status, total_amount, ...    *)
Merge ==
    /\ phase = "merge"
    /\ fact' = [o \in Orders |->
          IF \E row \in staged : row[1] = o
          THEN (CHOOSE row \in staged : row[1] = o)[2] ELSE fact[o]]
    /\ phase' = "advance"
    /\ UNCHANGED <<source_db, staged, last_watermark, since, df, extracted, status, missed>>

(* The frame and the times are locals of run().                            *)
RunEnds == phase' = "idle" /\ since' = 0 /\ df' = {} /\ extracted' = 0

Advance ==
    /\ phase = "advance"
    /\ last_watermark' = now
    /\ status' = "success"
    /\ missed' = missed \union
          {o \in Orders : /\ <<o, version[o]>> \notin df
                          /\ \/ last_watermark = None /\ updated[o] < since
                             \/ extracted <= updated[o] /\ updated[o] < now}
    /\ RunEnds
    /\ UNCHANGED <<source_db, staged, fact>>

AdvancesOnFailure == now
KeepsWatermark == last_watermark

(* An exception anywhere is caught and returned; the process may also die. *)
OrdersFail ==
    /\ phase # "idle"
    /\ last_watermark' = KeepsWatermark
    /\ status' = "failed"
    /\ RunEnds
    /\ UNCHANGED <<source_db, staged, fact, missed>>

OrdersRunStep == Extract \/ Transform \/ Stage \/ Merge \/ Advance

OrdersNext ==
    \/ Tick \/ (\E o \in Orders : ChangeOrder(o))
    \/ StartOrders \/ OrdersRunStep \/ OrdersFail

(* The DAG starts a run every hour, and no step fails in every run that    *)
(* comes to it.                                                            *)
OrdersSpec ==
    /\ OrdersInit /\ [][OrdersNext]_orderVars
    /\ WF_orderVars(StartOrders)
    /\ SF_orderVars(Extract) /\ SF_orderVars(Transform) /\ SF_orderVars(Stage)
    /\ SF_orderVars(Merge) /\ SF_orderVars(Advance)

-----------------------------------------------------------------------------
Contents == Orders \X (1..MaxChanges)

OrdersTypeOK ==
    /\ now \in 0..MaxTime
    /\ version \in [Orders -> 0..MaxChanges] /\ updated \in [Orders -> 0..MaxTime]
    /\ staged \subseteq Contents /\ df \subseteq Contents
    /\ \A row \in staged : row[1] \notin Keyless
    /\ fact \in [Orders -> 0..MaxChanges]
    /\ last_watermark \in {None} \union 0..MaxTime
    /\ phase \in {"idle", "extract", "transform", "stage", "merge", "advance"}
    /\ since \in -Lookback..MaxTime
    /\ extracted \in 0..MaxTime
    /\ status \in {"none", "success", "failed"}
    /\ missed \subseteq Orders

(* Between the runs every order with its keys is in orders_fact with the   *)
(* status and amount it has in the source, or the next extract will see    *)
(* it, except for the changes that the watermark passed unseen.  A failed  *)
(* run, at whichever of its steps, loses none of them.                     *)
NothingElseLost ==
    phase = "idle" /\ last_watermark # None =>
        \A o \in Orders \ (Keyless \union missed) :
            fact[o] = version[o] \/ updated[o] >= last_watermark

(* Every new order with its keys, and every change of an order's status or *)
(* amount, arrives in orders_fact in the end, however often runs fail      *)
(* before, unless the watermark passed it.                                 *)
ChangesArrive ==
    \A o \in Orders \ Keyless :
        fact[o] # version[o] ~> fact[o] = version[o] \/ o \in missed
=============================================================================
