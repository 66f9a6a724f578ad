-------------------------- MODULE UsersDimension ---------------------------
(***************************************************************************)
(* The SCD type 2 pipeline of the users dimension                          *)
(* (data/pipeline_repo/users_pipeline.py).  Its DAG runs it once a day,    *)
(* one run at a time, and starts it again when it raised                   *)
(* (data/dags/users_dag.yml).  Closing the expired rows and inserting the  *)
(* new ones are two transactions; a run may fail between any two steps.    *)
(*                                                                         *)
(* A user's tracked attributes (SURROGATE_COLUMNS) are a version, which    *)
(* stands for the row's hash too.  The dimension is a sequence of rows,    *)
(* the index of a row being its user_sk.                                   *)
(***************************************************************************)
EXTENDS Integers, Sequences, FiniteSets

CONSTANTS Users,
          MaxVersion,   \* bound: versions of a user's attributes
          MaxDay,       \* bound: days that pass
          MaxRows       \* bound: rows of the dimension at which no run starts

ASSUME BoundsAssumption == MaxVersion \in Nat \ {0} /\ {MaxDay, MaxRows} \subseteq Nat
ASSUME UsersAssumption == IsFiniteSet(Users)

Versions == 1..MaxVersion
Forever == MaxDay + 1      \* valid_to of an open row, 9999-12-31

VARIABLES source,     \* per user: the attributes, 0 when absent or is_deleted
          dim,        \* dim_users
          today,
          pc,         \* "idle", "extract", "read", "close" or "insert"
          source_df,  \* the run's copy of source
          current_df, \* the versions of the current rows it read, per user a set
          changed     \* history: users changed since the run's extract

vars == <<source, dim, today, pc, source_df, current_df, changed>>
frame == <<source_df, current_df>>

Init ==
    /\ source \in [Users -> {0, 1}]
    /\ dim = <<>>
    /\ today = 0
    /\ pc = "idle"
    /\ source_df = [u \in Users |-> 0]
    /\ current_df = [u \in Users |-> {}]
    /\ changed = {}

(* The operational database: sign-ups, changes, deletions and returns.     *)
ChangeUser(u, v) ==
    /\ v # source[u]
    /\ source' = [source EXCEPT ![u] = v]
    /\ changed' = changed \union {u}
    /\ UNCHANGED <<dim, today, pc, frame>>

NextDay ==
    /\ today < MaxDay
    /\ today' = today + 1
    /\ UNCHANGED <<source, dim, pc, frame, changed>>

-----------------------------------------------------------------------------
StartRun ==
    /\ pc = "idle" /\ Len(dim) < MaxRows
    /\ pc' = "extract"
    /\ UNCHANGED <<source, dim, today, frame, changed>>

ExtractSource ==
    /\ pc = "extract"
    /\ source_df' = source
    /\ changed' = {}
    /\ pc' = "read"
    /\ UNCHANGED <<source, dim, today, current_df>>

Rows(u) == {i \in DOMAIN dim : dim[i].user = u}
IsCurrent(i) == dim[i].is_current

ExtractCurrentDim ==
    /\ pc = "read"
    /\ current_df' = [u \in Users |-> {dim[i].version : i \in {j \in Rows(u) : IsCurrent(j)}}]
    /\ pc' = "close"
    /\ UNCHANGED <<source, dim, today, source_df, changed>>

(* compute_deltas: the left join drops users that the source lost, so      *)
(* their rows are neither closed nor changed.                              *)
IsNew(u) == source_df[u] # 0 /\ current_df[u] = {}
IsChanged(u) == source_df[u] # 0 /\ \E v \in current_df[u] : v # source_df[u]
InsertsEveryone(u) == source_df[u] # 0
InsertsOnlyNew(u) == IsNew(u)
NeedsRow(u) == IsNew(u) \/ IsChanged(u)

ClosesHistory(i) == dim[i].user \in {u \in Users : IsChanged(u)}
Expires(i) == IsCurrent(i) /\ dim[i].user \in {u \in Users : IsChanged(u)}

CloseExpired ==
    /\ pc = "close"
    /\ dim' = [i \in DOMAIN dim |->
          IF Expires(i) THEN [dim[i] EXCEPT !.is_current = FALSE, !.valid_to = today]
          ELSE dim[i]]
    /\ pc' = "insert"
    /\ UNCHANGED <<source, today, frame, changed>>

NewRow(u) == [user |-> u, version |-> source_df[u], is_current |-> TRUE,
              valid_from |-> today, valid_to |-> Forever]

(* insert_new_records; the order of the rows of one insert is immaterial.  *)
InsertNew ==
    /\ pc = "insert"
    /\ \E batch \in [1..Cardinality({u \in Users : NeedsRow(u)}) -> {u \in Users : NeedsRow(u)}] :
          /\ \A i, j \in DOMAIN batch : batch[i] = batch[j] => i = j
          /\ dim' = dim \o [i \in DOMAIN batch |-> NewRow(batch[i])]
    /\ pc' = "idle"
    /\ UNCHANGED <<source, today, frame, changed>>

(* A database error or the end of the process; the DAG starts run() anew.  *)
Fail ==
    /\ pc # "idle"
    /\ pc' = "idle"
    /\ changed' = Users
    /\ UNCHANGED <<source, dim, today, frame>>

RunStep == ExtractSource \/ ExtractCurrentDim \/ CloseExpired \/ InsertNew

Next ==
    \/ \E u \in Users, v \in 0..MaxVersion : ChangeUser(u, v)
    \/ NextDay \/ StartRun \/ RunStep \/ Fail

(* No fairness: the properties are about what runs leave behind.           *)
Spec == Init /\ [][Next]_vars

-----------------------------------------------------------------------------
Row == [user : Users, version : Versions, is_current : BOOLEAN,
        valid_from : 0..MaxDay, valid_to : 0..Forever]

TypeOK ==
    /\ source \in [Users -> 0..MaxVersion]
    /\ dim \in Seq(Row)
    /\ today \in 0..MaxDay
    /\ pc \in {"idle", "extract", "read", "close", "insert"}
    /\ source_df \in [Users -> 0..MaxVersion]
    /\ current_df \in [Users -> SUBSET Versions]
    /\ changed \subseteq Users

(* A user has at most one current row, though an insert is no part of the  *)
(* transaction that closed the row before and may be repeated by a retry.  *)
OneCurrentRow ==
    \A i, j \in DOMAIN dim :
        IsCurrent(i) /\ IsCurrent(j) /\ dim[i].user = dim[j].user => i = j

(* After a run that was not interrupted every user that did not change     *)
(* since its extract has a current row with the present attributes, also   *)
(* when an earlier run closed the row before and failed to insert.         *)
DimensionCaughtUp ==
    pc = "idle" =>
        \A u \in Users \ changed :
            source_df[u] # 0 => \E i \in Rows(u) : IsCurrent(i) /\ dim[i].version = source[u]

KeepsHistory ==
    \A i \in DOMAIN dim :
        /\ i \in DOMAIN dim'
        /\ ~IsCurrent(i) => dim'[i] = dim[i]

(* Closed rows are history that no later run rewrites or removes. *)
HistoryKept == [][KeepsHistory]_vars
=============================================================================
