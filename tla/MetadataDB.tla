----------------------------- MODULE MetadataDB -----------------------------
(***************************************************************************)
(* The DuckDB metadata store: the seeder that builds it (db/seeder.py,     *)
(* started by hand, by a container or by the scripts' guard                *)
(* "[[ -f data/pipelinemind.db ]] || python db/seeder.py") and the tools,  *)
(* routes and prompts that open it for one call each.  Seeders and callers *)
(* are processes that nothing coordinates but the database file.           *)
(*                                                                         *)
(* Of DuckDB and the file system the module takes this: a path names a     *)
(* file or nothing, and an unlinked file lives on for those who have it    *)
(* open; opening a missing file read-only raises, for writing creates it;  *)
(* between processes one writer excludes everyone else; the connections of *)
(* one process to one path share one open file and must agree on the mode; *)
(* a statement is committed when it returns.                               *)
(*                                                                         *)
(* The content of a table is 0 (nothing of it), 1 (a part) or 2 (whole);   *)
(* that of "schema" is 0 when no table exists, 1 when some do, 2 when all. *)
(***************************************************************************)
EXTENDS Integers, Sequences, FiniteSets

CONSTANTS Seeders,
          ApiThreads,   \* the event loop and the executor of the API process
          Others,       \* threads of processes of their own (the MCP server)
          Tools,        \* the calls that are made, among DOMAIN Queries
          MaxFiles,     \* bound: files that are created
          MaxStarts     \* bound: seeders that are started

Threads == ApiThreads \union Others

(* The queries of a call, each as the tables it reads.  The other tools,   *)
(* routes and prompts make one query like list_tables or run_status.       *)
TableDetailReads == <<{"tables"}, {"tables", "columns"}>>
PIIReads == <<{"tables", "columns"}>>
RunStatusReads == <<{"runs"}>>
SLOReads == <<{"slos"}, {"runs"}>>
DriftReads == <<{"snapshots"}, {"tables", "columns"}>>
DQReads == <<{"tables"}, {"tables"}, {"tables", "columns"}>>

Queries ==
    [list_tables |-> <<{"tables"}>>, table_detail |-> TableDetailReads,
     pii_tables |-> PIIReads, run_status |-> RunStatusReads, slo_report |-> SLOReads,
     schema_drift |-> DriftReads, dq_check |-> DQReads]

ASSUME ToolsAssumption == Tools \subseteq DOMAIN Queries
ASSUME BoundsAssumption == MaxFiles \in Nat /\ MaxStarts \in Nat

(* What main() does between connect and close.                             *)
SnapshotsFirst == <<"schema", "tables", "snapshots", "columns", "lineage", "runs", "slos">>
Phases == <<"schema", "tables", "columns", "lineage", "runs", "slos", "snapshots">>
Closing == Len(Phases) + 1
Parts == {"schema", "tables", "columns", "lineage", "runs", "slos", "snapshots"}

VARIABLES path,      \* the file the path names, 0 for none
          files,     \* the content of every file there ever was
          step,      \* per seeder: where it is
          phase,     \* per seeder that seeds: the index in Phases of what is next
          opened,    \* per seeder: the file it connected to
          call,      \* per thread: the tool it runs, "none" between calls
          conn,      \* per thread: the file its connection has open
          answered,  \* per thread: queries of the call that have returned
          starts,    \* history: seeders started
          alone,     \* history: seeders next to which none was started or
                     \* running and the file was not removed since they began
          abandoned, \* history: files that a seeder died on or a check created
                     \* and no seeder has completed since
          recut      \* history: files that a seeder died on while it wrote
                     \* them a second time
seeding == <<step, phase, opened, starts, alone, recut>>
calls == <<call, conn, answered>>
vars == <<path, files, seeding, calls, abandoned>>

Empty == [p \in Parts |-> 0]
Whole == [p \in Parts |-> 2]

Init ==
    /\ path = 0 /\ files = <<>>
    /\ step = [s \in Seeders |-> "off"] /\ phase = [s \in Seeders |-> 0]
    /\ opened = [s \in Seeders |-> 0]
    /\ call = [t \in Threads |-> "none"] /\ conn = [t \in Threads |-> 0]
    /\ answered = [t \in Threads |-> 0]
    /\ starts = 0 /\ alone = {} /\ abandoned = {} /\ recut = {}

-----------------------------------------------------------------------------
(* The seeder keeps one connection from connect to close.                  *)
ConnectsPerPhase(s) == step[s] = "seed" /\ phase[s] = 1
IsConnected(s) == step[s] = "seed"

Calling(t) == conn[t] # 0
Running(s) == step[s] \notin {"off", "done"}

StartSeeder(s) ==
    /\ ~Running(s) /\ starts < MaxStarts
    /\ step' = [step EXCEPT ![s] = "look"]
    /\ alone' = IF \E r \in Seeders : Running(r) THEN {} ELSE {s}
    /\ starts' = starts + 1
    /\ UNCHANGED <<path, files, phase, opened, calls, abandoned, recut>>

Moves(s, to) == step' = [step EXCEPT ![s] = to]

(* "if db_path.exists(): db_path.unlink()": two steps, of which the second *)
(* raises when the file has gone in between.                               *)
Look(s) ==
    /\ step[s] = "look"
    /\ Moves(s, IF path # 0 THEN "unlink" ELSE "connect")
    /\ UNCHANGED <<path, files, phase, opened, starts, alone, recut, calls, abandoned>>

Unlink(s) ==
    /\ step[s] = "unlink"
    /\ Moves(s, IF path # 0 THEN "connect" ELSE "off")
    /\ path' = 0
    /\ UNCHANGED <<files, phase, opened, starts, alone, recut, calls, abandoned>>

IsFree(f) == /\ \A r \in Seeders : IsConnected(r) => opened[r] # f
             /\ \A t \in Threads : conn[t] # f

Opens(s, f) ==
    /\ step' = [step EXCEPT ![s] = "seed"]
    /\ phase' = [phase EXCEPT ![s] = 1]
    /\ opened' = [opened EXCEPT ![s] = f]

Connect(s) ==
    /\ step[s] = "connect"
    /\ \/ /\ path = 0 /\ Len(files) < MaxFiles
          /\ files' = Append(files, Empty) /\ path' = Len(files')
          /\ Opens(s, path')
       \/ /\ path # 0 /\ IsFree(path)
          /\ Opens(s, path)
          /\ UNCHANGED <<path, files>>
       \/ /\ path # 0 /\ ~IsFree(path)
          /\ Moves(s, "off")
          /\ UNCHANGED <<path, files, phase, opened>>
    /\ UNCHANGED <<starts, alone, recut, calls, abandoned>>

Seeds(s) == step[s] = "seed" /\ phase[s] < Closing
GoesOn(s) == phase' = [phase EXCEPT ![s] = @ + 1]

(* With a part of the schema one table at least is missing, and nothing of *)
(* it can be there.                                                        *)
HasTable(f, p) ==
    \/ files[f]["schema"] = 2
    \/ /\ files[f]["schema"] = 1
       /\ \E q \in Parts \ {"schema", p} : files[f][q] = 0

CanWrite(f, p) == p = "schema" \/ HasTable(f, p)

(* One of _execute_schema and the seed functions.  A row is deleted and    *)
(* inserted again, so that all rows are there in the end whatever the      *)
(* table held; a table that is missing makes the first statement raise.    *)
Seed(s) ==
    /\ Seeds(s) /\ CanWrite(opened[s], Phases[phase[s]])
    /\ files' = [files EXCEPT ![opened[s]][Phases[phase[s]]] = 2]
    /\ GoesOn(s)
    /\ UNCHANGED <<path, step, opened, starts, alone, recut, calls, abandoned>>

(* What a run of the schema with failing or missing statements may leave:  *)
(* "CREATE TABLE IF NOT EXISTS" leaves the tables alone that are there.    *)
SchemaLeft(f) == IF files[f]["schema"] = 2 THEN {2} ELSE {1, files[f]["schema"]}

(* Statements of the schema raise: each is logged and skipped.             *)
SkipStatements(s) ==
    /\ Seeds(s) /\ Phases[phase[s]] = "schema"
    /\ \E left \in SchemaLeft(opened[s]) :
          files' = [files EXCEPT ![opened[s]]["schema"] = left]
    /\ GoesOn(s)
    /\ UNCHANGED <<path, step, opened, starts, alone, recut, calls, abandoned>>

LogsFailure(s) == GoesOn(s) /\ UNCHANGED step
Fails(s) == Moves(s, "off") /\ UNCHANGED phase

(* A statement of a seed function raises, as all do on a missing table, or *)
(* reading a fixture or the schema, which nothing catches; or the process  *)
(* is killed.  The table is left as it was or half written.                *)
Die(s) ==
    /\ Seeds(s)
    /\ LET f == opened[s]
           p == Phases[phase[s]]
           half == IF CanWrite(f, p) THEN {1} ELSE {}
       IN  /\ \E left \in (IF p = "schema" THEN SchemaLeft(f) ELSE half \union {files[f][p]}) :
                 files' = [files EXCEPT ![f][p] = left]
           /\ recut' = IF files[f]["snapshots"] # 0 THEN recut \union {f} ELSE recut
    /\ abandoned' = abandoned \union {opened[s]}
    /\ Fails(s)
    /\ UNCHANGED <<path, opened, starts, alone, calls>>

Counts(s) == step[s] = "seed" /\ phase[s] = Closing

(* The rows of every table are counted and the connection is closed.       *)
Close(s) ==
    /\ Counts(s) /\ files[opened[s]]["schema"] = 2
    /\ Moves(s, "done")
    /\ abandoned' = abandoned \ {opened[s]}
    /\ UNCHANGED <<path, files, phase, opened, starts, alone, recut, calls>>

(* A count raises or the process is killed: all is written by then.        *)
DieCounting(s) ==
    /\ Counts(s)
    /\ Fails(s)
    /\ UNCHANGED <<path, files, opened, starts, alone, recut, calls, abandoned>>

(* docs/BASH_COMMANDS.md: "rm -f data/pipelinemind.db".                    *)
Remove ==
    /\ path # 0
    /\ path' = 0 /\ alone' = {}
    /\ UNCHANGED <<files, step, phase, opened, starts, recut, calls, abandoned>>

-----------------------------------------------------------------------------
Writes(tool) == tool = "dq_check"

SameProcess(t, u) == t = u \/ {t, u} \subseteq ApiThreads

(* The connections of t's process, which share what they have open.        *)
Shared(t) == {u \in Threads : SameProcess(t, u) /\ Calling(u)}

(* Does another process keep t from opening f for the tool?                *)
Locked(t, f, tool) ==
    \/ \E s \in Seeders : IsConnected(s) /\ opened[s] = f
    \/ \E u \in Threads : conn[u] = f /\ (Writes(tool) \/ Writes(call[u]))

Dials(t, tool, f) ==
    /\ call' = [call EXCEPT ![t] = tool]
    /\ conn' = [conn EXCEPT ![t] = f]

(* duckdb.connect; when it raises, the call ends with an error and nothing *)
(* has changed, as it has when get_schema_drift_events sees no file.       *)
Call(t, tool) ==
    /\ ~Calling(t)
    /\ \/ /\ Shared(t) # {}
          /\ \E u \in Shared(t) : Writes(tool) = Writes(call[u]) /\ Dials(t, tool, conn[u])
          /\ UNCHANGED <<path, files, abandoned>>
       \/ /\ Shared(t) = {} /\ path # 0
          /\ ~Locked(t, path, tool)
          /\ Dials(t, tool, path)
          /\ UNCHANGED <<path, files, abandoned>>
       \/ /\ Shared(t) = {} /\ path = 0 /\ Writes(tool)
          /\ Len(files) < MaxFiles
          /\ files' = Append(files, Empty) /\ path' = Len(files')
          /\ Dials(t, tool, path')
          /\ abandoned' = abandoned \union {path'}
    /\ UNCHANGED <<answered, seeding>>

(* The first query found no row, at which these calls end: the table is    *)
(* not in the catalogue, or there is no baseline.                          *)
FindsNothing(t) ==
    /\ answered[t] = 1
    /\ call[t] \in {"table_detail", "dq_check", "schema_drift"}
    /\ \A p \in Queries[call[t]][1] : files[conn[t]][p] = 0

MayFindNothing(t) == answered[t] = 1 /\ call[t] \in {"table_detail", "dq_check"}

(* A query returns; it raises when the file lacks one of its tables, which *)
(* a file with a part of the schema may.                                   *)
Answer(t) ==
    /\ Calling(t) /\ answered[t] < Len(Queries[call[t]])
    /\ \A p \in Queries[call[t]][answered[t] + 1] : HasTable(conn[t], p)
    /\ ~FindsNothing(t)
    /\ answered' = [answered EXCEPT ![t] = @ + 1]
    /\ UNCHANGED <<path, files, seeding, call, conn, abandoned>>

(* The call returns or raises, and its connection is closed.               *)
HangUp(t) ==
    /\ Calling(t)
    /\ \/ answered[t] = Len(Queries[call[t]])
       \/ files[conn[t]]["schema"] # 2
       \/ FindsNothing(t) \/ MayFindNothing(t)
    /\ call' = [call EXCEPT ![t] = "none"]
    /\ conn' = [conn EXCEPT ![t] = 0]
    /\ answered' = [answered EXCEPT ![t] = 0]
    /\ UNCHANGED <<path, files, seeding, abandoned>>

SeederStep(s) ==
    \/ StartSeeder(s) \/ Look(s) \/ Unlink(s) \/ Connect(s)
    \/ Seed(s) \/ SkipStatements(s) \/ Die(s) \/ Close(s) \/ DieCounting(s)

Next ==
    \/ \E s \in Seeders : SeederStep(s)
    \/ Remove
    \/ \E t \in Threads : (\E tool \in Tools : Call(t, tool)) \/ Answer(t) \/ HangUp(t)

(* No fairness: the properties are about what a call may see.              *)
Spec == Init /\ [][Next]_vars

-----------------------------------------------------------------------------
TypeOK ==
    /\ files \in Seq([Parts -> 0..2])
    /\ path \in 0..Len(files)
    /\ step \in [Seeders -> {"off", "look", "unlink", "connect", "seed", "done"}]
    /\ phase \in [Seeders -> 0..Closing]
    /\ opened \in [Seeders -> 0..Len(files)]
    /\ \A s \in Seeders : IsConnected(s) => opened[s] # 0 /\ phase[s] # 0
    /\ call \in [Threads -> Tools \union {"none"}]
    /\ conn \in [Threads -> 0..Len(files)]
    /\ answered \in [Threads -> Nat]
    /\ \A t \in Threads : call[t] = "none" <=> ~Calling(t)
    /\ \A t \in Threads : ~Calling(t) => answered[t] = 0
    /\ starts \in 0..MaxStarts
    /\ alone \subseteq Seeders
    /\ abandoned \subseteq DOMAIN files /\ recut \subseteq DOMAIN files

(* Whatever a call reads, it reads in a database that a seeder has         *)
(* completed, although seeders unlink, rebuild and rewrite the file under  *)
(* it, except in a file a seeder died on or a check created, until another *)
(* seeder completes it: the guard of the scripts takes such a file for a   *)
(* database and starts none.                                               *)
ReadsWhole ==
    \A t \in Threads :
        Calling(t) /\ answered[t] > 0 => files[conn[t]] = Whole \/ conn[t] \in abandoned

(* The queries of one call see one content: what the first was answered    *)
(* from does not change under the second.                                  *)
OneContentPerCall ==
    [][\A t \in Threads :
          Calling(t) /\ conn'[t] = conn[t] => files'[conn[t]] = files[conn[t]]]_vars

(* A seeder's exit without error means that the path names a complete      *)
(* database, whatever was there before, whoever reads it and although the  *)
(* schema's failing statements are skipped, until another seeder starts or *)
(* the file is removed.                                                    *)
DoneMeansComplete ==
    \A s \in alone :
        step[s] = "done" => path # 0 /\ path = opened[s] /\ files[path] = Whole

(* Baselines are compared with a whole catalogue or not at all: a database *)
(* cut short reports "no_baseline" and never its missing rows as dropped   *)
(* columns, unless a seeder died while it wrote a complete file again.     *)
DriftHasCatalogue ==
    \A t \in Threads :
        call[t] = "schema_drift" /\ answered[t] = 2 =>
            \/ files[conn[t]]["tables"] = 2 /\ files[conn[t]]["columns"] = 2
            \/ conn[t] \in recut
=============================================================================
