-------------------------- MODULE MetadataDBProofs --------------------------
(* Proofs about MetadataDB for any seeders, threads, tools, files and      *)
(* starts.                                                                 *)
EXTENDS MetadataDB, SequenceTheorems, TLAPS

(* A seeder has the file to itself that it writes.                         *)
Exclusive ==
    /\ \A s \in Seeders, t \in Threads :
          IsConnected(s) /\ Calling(t) => opened[s] # conn[t]
    /\ \A s, r \in Seeders :
          IsConnected(s) /\ IsConnected(r) /\ s # r => opened[s] # opened[r]

(* What it has seeded is whole, the schema apart, whose failing statements *)
(* it skips.                                                               *)
Seeded ==
    \A s \in Seeders :
        IsConnected(s) =>
            \A i \in 1..phase[s] - 1 :
                Phases[i] # "schema" => files[opened[s]][Phases[i]] = 2

(* While the schema is not whole a table is missing, and nothing of it is  *)
(* there: no seeder gets past every table.                                 *)
LacksTable(f) == \E q \in Parts \ {"schema"} : files[f][q] = 0
MissingIsEmpty == \A f \in DOMAIN files : files[f]["schema"] # 2 => LacksTable(f)

(* A file is being seeded, whole or abandoned.                             *)
BeingSeeded(f) == \E s \in Seeders : IsConnected(s) /\ opened[s] = f
Accounted == \A f \in DOMAIN files : BeingSeeded(f) \/ files[f] = Whole \/ f \in abandoned

(* The baselines come last.                                                *)
BaselinesLast ==
    \A f \in DOMAIN files :
        files[f]["snapshots"] # 0 =>
            (files[f]["tables"] = 2 /\ files[f]["columns"] = 2) \/ f \in recut

(* A second query of the drift report is made where the first found some.  *)
SawBaselines ==
    \A t \in Threads :
        call[t] = "schema_drift" /\ answered[t] = 2 => files[conn[t]]["snapshots"] # 0

(* Next to a seeder that is alone nobody writes or moves its file.         *)
Undisturbed ==
    \A s \in alone :
        /\ \A r \in Seeders \ {s} : ~Running(r)
        /\ step[s] \in {"seed", "done"} => path # 0 /\ path = opened[s]
        /\ step[s] = "done" => files[path] = Whole

IInv == /\ TypeOK /\ Exclusive /\ Seeded /\ MissingIsEmpty /\ Accounted /\ BaselinesLast
        /\ SawBaselines /\ Undisturbed
-----------------------------------------------------------------------------
LEMMA PhaseFacts ==
    /\ Len(Phases) = 7 /\ Closing = 8
    /\ \A i \in 1..7 : Phases[i] \in Parts
    /\ \A p \in Parts : \E i \in 1..7 : Phases[i] = p
    /\ \A i \in 1..7 : Phases[i] = "snapshots" => i = 7
    /\ Phases[2] = "tables" /\ Phases[3] = "columns"
    /\ \A i \in 1..7 : Phases[i] = "schema" <=> i = 1
    /\ {"schema", "tables", "columns", "snapshots"} \subseteq Parts
<1>1. Len(Phases) = 7 /\ Closing = 8 BY DEF Phases, Closing
<1>2. \A i \in 1..7 : i \in {1, 2, 3, 4, 5, 6, 7} OBVIOUS
<1>3. QED BY <1>1, <1>2 DEF Phases, Parts

LEMMA ContentFacts ==
    /\ Empty \in [Parts -> 0..2] /\ Whole \in [Parts -> 0..2]
    /\ Empty["snapshots"] = 0 /\ Whole["schema"] = 2 /\ Whole["tables"] = 2 /\ Whole["columns"] = 2
    /\ \A content \in [Parts -> 0..2] :
          (\A p \in Parts : content[p] = 2) => content = Whole
BY PhaseFacts DEF Empty, Whole

LEMMA InitIInv == Init => IInv
<1> SUFFICES ASSUME Init PROVE IInv
  OBVIOUS
<1>1. TypeOK
  BY BoundsAssumption, ToolsAssumption, PhaseFacts DEF Init, TypeOK, IsConnected, Calling
<1>2. QED
  BY <1>1 DEF Init, IInv, Exclusive, Seeded, MissingIsEmpty, Accounted, BaselinesLast, SawBaselines,
              Undisturbed, IsConnected

(* Of the steps that leave the files and those who have them open alone    *)
(* only the type and the seeders that are alone need a look.               *)
LEMMA QuietStep ==
    ASSUME IInv, TypeOK', Undisturbed',
           UNCHANGED <<files, phase, opened, calls, abandoned, recut>>,
           \A s \in Seeders : IsConnected(s)' <=> IsConnected(s)
    PROVE  IInv'
<1>1. Exclusive' BY DEF IInv, Exclusive, calls, Calling
<1>2. Seeded' BY DEF IInv, Seeded
<1>3. Accounted' BY DEF IInv, Accounted, BeingSeeded
<1>4. BaselinesLast' BY DEF IInv, BaselinesLast
<1>5. SawBaselines' BY DEF IInv, SawBaselines, calls
<1>6. MissingIsEmpty' BY DEF IInv, MissingIsEmpty, LacksTable
<1>7. QED BY <1>1, <1>2, <1>3, <1>4, <1>5, <1>6 DEF IInv

LEMMA StartStep == ASSUME IInv, NEW s \in Seeders, StartSeeder(s) PROVE IInv'
<1> USE DEF StartSeeder, calls
<1>1. TypeOK' BY BoundsAssumption DEF IInv, TypeOK, IsConnected, Calling, Running
<1>2. \A r \in Seeders : IsConnected(r)' <=> IsConnected(r)
  BY DEF IInv, TypeOK, IsConnected, Running
<1>3. Undisturbed' BY DEF IInv, TypeOK, Undisturbed, Running
<1>4. QED BY <1>1, <1>2, <1>3, QuietStep

LEMMA LookStep == ASSUME IInv, NEW s \in Seeders, Look(s) PROVE IInv'
<1> USE DEF Look, Moves, calls
<1>1. TypeOK' BY DEF IInv, TypeOK, IsConnected, Calling
<1>2. \A r \in Seeders : IsConnected(r)' <=> IsConnected(r) BY DEF IInv, TypeOK, IsConnected
<1>3. Undisturbed' BY DEF IInv, TypeOK, Undisturbed, Running
<1>4. QED BY <1>1, <1>2, <1>3, QuietStep

LEMMA UnlinkStep == ASSUME IInv, NEW s \in Seeders, Unlink(s) PROVE IInv'
<1> USE DEF Unlink, Moves, calls
<1>1. TypeOK' BY DEF IInv, TypeOK, IsConnected, Calling
<1>2. \A r \in Seeders : IsConnected(r)' <=> IsConnected(r) BY DEF IInv, TypeOK, IsConnected
<1>3. Undisturbed' BY DEF IInv, TypeOK, Undisturbed, Running
<1>4. QED BY <1>1, <1>2, <1>3, QuietStep

LEMMA RemoveStep == ASSUME IInv, Remove PROVE IInv'
<1> USE DEF Remove, calls
<1>1. TypeOK' BY DEF IInv, TypeOK, IsConnected, Calling
<1>2. \A r \in Seeders : IsConnected(r)' <=> IsConnected(r) BY DEF IsConnected
<1>3. Undisturbed' BY DEF Undisturbed
<1>4. QED BY <1>1, <1>2, <1>3, QuietStep
(* A new file, which the path now names: its index is one that nobody has  *)
(* open.                                                                   *)
LEMMA NewFile ==
    ASSUME TypeOK, files' = Append(files, Empty)
    PROVE  /\ files' \in Seq([Parts -> 0..2])
           /\ Len(files') = Len(files) + 1 /\ Len(files) \in Nat
           /\ DOMAIN files' = DOMAIN files \union {Len(files')}
           /\ \A f \in DOMAIN files : files'[f] = files[f]
           /\ files'[Len(files')] = Empty
BY ContentFacts DEF TypeOK

LEMMA LacksInNew ==
    ASSUME TypeOK, MissingIsEmpty, files' = Append(files, Empty)
    PROVE  MissingIsEmpty'
<1> SUFFICES ASSUME NEW f \in DOMAIN files', files'[f]["schema"] # 2
             PROVE  \E q \in Parts \ {"schema"} : files'[f][q] = 0
  BY DEF MissingIsEmpty, LacksTable
<1>1. CASE f = Len(files') BY <1>1, NewFile, ContentFacts, PhaseFacts
<1>2. CASE f \in DOMAIN files BY <1>2, NewFile DEF MissingIsEmpty, LacksTable
<1>3. QED BY <1>1, <1>2, NewFile

LEMMA OpensFiles ==
    ASSUME TypeOK
    PROVE  /\ \A s \in Seeders : IsConnected(s) => opened[s] \in DOMAIN files
           /\ \A t \in Threads : Calling(t) => conn[t] \in DOMAIN files
           /\ Len(files) \in Nat /\ DOMAIN files = 1..Len(files)
BY DEF TypeOK, Calling

LEMMA ConnectStep == ASSUME IInv, NEW s \in Seeders, Connect(s) PROVE IInv'
<1> USE DEF Moves, Opens, calls
<1>0. TypeOK BY DEF IInv
<1>1. ASSUME path = 0, Len(files) < MaxFiles,
             files' = Append(files, Empty), path' = Len(files'), Opens(s, path')
      PROVE  IInv'
  <2>1. /\ UNCHANGED <<starts, alone, recut, calls, abandoned>>
        /\ opened'[s] = Len(files') /\ step'[s] = "seed" /\ phase'[s] = 1
        /\ \A r \in Seeders \ {s} : opened'[r] = opened[r] /\ step'[r] = step[r]
                                    /\ phase'[r] = phase[r]
    BY <1>0, <1>1 DEF Connect, TypeOK
  <2>2. TypeOK'
    BY <1>0, <1>1, <2>1, NewFile, PhaseFacts DEF TypeOK, IsConnected, Calling
  <2>3. Exclusive'
    BY <1>0, <1>1, <2>1, NewFile, OpensFiles DEF IInv, Exclusive, IsConnected, Calling
  <2>4. Seeded'
    BY <1>0, <1>1, <2>1, NewFile, OpensFiles DEF IInv, Seeded, IsConnected
  <2>5. Accounted'
    <3> SUFFICES ASSUME NEW f \in (DOMAIN files)'
                 PROVE  BeingSeeded(f)' \/ files'[f] = Whole \/ f \in abandoned'
      BY DEF Accounted
    <3>1. CASE f = Len(files') BY <2>1, <3>1 DEF BeingSeeded, IsConnected
    <3>2. CASE f \in DOMAIN files
      <4>1. BeingSeeded(f) => BeingSeeded(f)'
        BY <2>1 DEF BeingSeeded, IsConnected, Connect
      <4>2. QED BY <1>0, <1>1, <2>1, <3>2, <4>1, NewFile DEF IInv, Accounted
    <3>3. QED BY <1>0, <1>1, <3>1, <3>2, NewFile
  <2>6. BaselinesLast'
    BY <1>0, <1>1, <2>1, NewFile, ContentFacts DEF IInv, BaselinesLast
  <2>7. SawBaselines'
    BY <1>0, <1>1, <2>1, NewFile, OpensFiles DEF IInv, SawBaselines, TypeOK
  <2>8. Undisturbed'
    BY <1>0, <1>1, <2>1 DEF IInv, Undisturbed, Running, Connect, TypeOK
  <2>9. MissingIsEmpty' BY <1>0, <1>1, LacksInNew DEF IInv
  <2>10. QED BY <2>2, <2>3, <2>4, <2>5, <2>6, <2>7, <2>8, <2>9 DEF IInv
<1>2. ASSUME path # 0, IsFree(path), Opens(s, path), UNCHANGED <<path, files>>
      PROVE  IInv'
  <2>1. /\ UNCHANGED <<starts, alone, recut, calls, abandoned>>
        /\ opened'[s] = path /\ step'[s] = "seed" /\ phase'[s] = 1
        /\ \A r \in Seeders \ {s} : opened'[r] = opened[r] /\ step'[r] = step[r]
                                    /\ phase'[r] = phase[r]
    BY <1>0, <1>2 DEF Connect, TypeOK
  <2>2. TypeOK' BY <1>0, <1>2, <2>1, PhaseFacts DEF TypeOK, IsConnected, Calling
  <2>3. Exclusive' BY <1>2, <2>1 DEF IInv, Exclusive, IsConnected, Calling, IsFree
  <2>4. Seeded' BY <1>2, <2>1 DEF IInv, Seeded, IsConnected
  <2>5. Accounted'
    <3>1. \A f \in DOMAIN files : BeingSeeded(f) => BeingSeeded(f)'
      BY <2>1 DEF BeingSeeded, IsConnected, Connect
    <3>2. QED BY <1>2, <2>1, <3>1 DEF IInv, Accounted
  <2>6. BaselinesLast' BY <1>2, <2>1 DEF IInv, BaselinesLast
  <2>7. SawBaselines' BY <1>2, <2>1 DEF IInv, SawBaselines
  <2>8. Undisturbed'
    BY <1>0, <1>2, <2>1 DEF IInv, Undisturbed, Running, Connect, TypeOK
  <2>9. MissingIsEmpty' BY <1>2 DEF IInv, MissingIsEmpty, LacksTable
  <2>10. QED BY <2>2, <2>3, <2>4, <2>5, <2>6, <2>7, <2>8, <2>9 DEF IInv
<1>3. ASSUME path # 0, Moves(s, "off"), UNCHANGED <<path, files, phase, opened>>
      PROVE  IInv'
  <2> USE DEF Connect
  <2>1. TypeOK' BY <1>0, <1>3 DEF TypeOK, IsConnected, Calling
  <2>2. \A r \in Seeders : IsConnected(r)' <=> IsConnected(r)
    BY <1>0, <1>3 DEF TypeOK, IsConnected
  <2>3. Undisturbed' BY <1>0, <1>3 DEF IInv, TypeOK, Undisturbed, Running
  <2>4. QED BY <1>3, <2>1, <2>2, <2>3, QuietStep
<1>4. QED BY <1>1, <1>2, <1>3 DEF Connect

(* Seed and Die write one table of the file that the seeder has open.      *)
LEMMA WritesOne ==
    ASSUME TypeOK, NEW s \in Seeders, Seeds(s), NEW c \in 0..2,
           files' = [files EXCEPT ![opened[s]][Phases[phase[s]]] = c]
    PROVE  /\ IsConnected(s) /\ opened[s] \in DOMAIN files /\ phase[s] \in 1..7
           /\ files' \in Seq([Parts -> 0..2]) /\ Len(files') = Len(files)
           /\ DOMAIN files' = DOMAIN files
           /\ \A f \in DOMAIN files : f # opened[s] => files'[f] = files[f]
           /\ \A p \in Parts : files'[opened[s]][p] =
                 IF p = Phases[phase[s]] THEN c ELSE files[opened[s]][p]
<1>1. IsConnected(s) /\ opened[s] \in DOMAIN files /\ phase[s] \in 1..7
  BY OpensFiles, PhaseFacts DEF TypeOK, Seeds, IsConnected
<1>2. Phases[phase[s]] \in Parts BY <1>1, PhaseFacts
<1>3. QED BY <1>1, <1>2 DEF TypeOK

(* Writing a table that is there leaves a missing one missing, and what is *)
(* left of the schema is whole only when it was or all tables were made.   *)
LEMMA StillLacks ==
    ASSUME TypeOK, MissingIsEmpty, NEW s \in Seeders, Seeds(s), NEW c \in 0..2,
           files' = [files EXCEPT ![opened[s]][Phases[phase[s]]] = c],
           \/ CanWrite(opened[s], Phases[phase[s]])
           \/ c = files[opened[s]][Phases[phase[s]]],
           Phases[phase[s]] = "schema" /\ files[opened[s]]["schema"] = 2 => c = 2
    PROVE  MissingIsEmpty'
<1> DEFINE f == opened[s]
           p == Phases[phase[s]]
<1>1. /\ f \in DOMAIN files /\ DOMAIN files' = DOMAIN files
      /\ \A g \in DOMAIN files : g # f => files'[g] = files[g]
      /\ \A q \in Parts : files'[f][q] = IF q = p THEN c ELSE files[f][q]
  BY WritesOne
<1>2. ASSUME files'[f]["schema"] # 2 PROVE \E q \in Parts \ {"schema"} : files'[f][q] = 0
  <2>1. CASE p = "schema"
    <3>1. CASE files[f]["schema"] # 2
      <4>1. PICK q \in Parts \ {"schema"} : files[f][q] = 0
        BY <1>1, <3>1 DEF MissingIsEmpty, LacksTable
      <4>2. QED BY <1>1, <2>1, <4>1
    <3>2. QED BY <1>1, <1>2, <2>1, <3>1, PhaseFacts
  <2>2. CASE p # "schema"
    <3>1. files[f]["schema"] # 2 BY <1>1, <1>2, <2>2, PhaseFacts
    <3>2. CASE CanWrite(f, p)
      <4>1. PICK q \in Parts \ {"schema", p} : files[f][q] = 0
        BY <2>2, <3>1, <3>2 DEF CanWrite, HasTable
      <4>2. QED BY <1>1, <4>1
    <3>3. CASE c = files[f][p]
      <4>1. PICK q \in Parts \ {"schema"} : files[f][q] = 0
        BY <1>1, <3>1 DEF MissingIsEmpty, LacksTable
      <4>2. QED BY <1>1, <3>3, <4>1
    <3>4. QED BY <3>2, <3>3
  <2>3. QED BY <2>1, <2>2
<1>3. ASSUME NEW g \in DOMAIN files, g # f, files'[g]["schema"] # 2
      PROVE  \E q \in Parts \ {"schema"} : files'[g][q] = 0
  BY <1>1, <1>3 DEF MissingIsEmpty, LacksTable
<1>4. QED BY <1>1, <1>2, <1>3 DEF MissingIsEmpty, LacksTable

(* No call reads a file that is being written.                             *)
LEMMA ReadsElsewhere ==
    ASSUME IInv, NEW s \in Seeders, IsConnected(s), NEW t \in Threads, Calling(t)
    PROVE  conn[t] # opened[s] /\ conn[t] \in DOMAIN files
BY OpensFiles DEF IInv, Exclusive

(* A seeder goes on to its next phase with one table written.              *)
LEMMA PhaseEnds ==
    ASSUME IInv, NEW s \in Seeders, Seeds(s), GoesOn(s), NEW c \in 0..2,
           files' = [files EXCEPT ![opened[s]][Phases[phase[s]]] = c],
           Phases[phase[s]] # "schema" => c = 2, MissingIsEmpty',
           UNCHANGED <<path, step, opened, starts, alone, recut, calls, abandoned>>
    PROVE  IInv'
<1> USE DEF calls
<1>0. TypeOK /\ Seeds(s) BY DEF IInv
<1>1. /\ IsConnected(s) /\ opened[s] \in DOMAIN files /\ phase[s] \in 1..7
      /\ files' \in Seq([Parts -> 0..2]) /\ Len(files') = Len(files)
      /\ DOMAIN files' = DOMAIN files
      /\ \A f \in DOMAIN files : f # opened[s] => files'[f] = files[f]
      /\ \A p \in Parts : files'[opened[s]][p] =
            IF p = Phases[phase[s]] THEN c ELSE files[opened[s]][p]
  BY <1>0, WritesOne
<1>2. /\ UNCHANGED <<path, step, opened, starts, alone, recut, calls, abandoned>>
      /\ phase'[s] = phase[s] + 1
      /\ \A r \in Seeders \ {s} : phase'[r] = phase[r]
  BY <1>0 DEF GoesOn, TypeOK
<1>3. \A r \in Seeders : IsConnected(r)' <=> IsConnected(r) BY <1>2 DEF IsConnected
<1>4. TypeOK' BY <1>0, <1>1, <1>2, PhaseFacts DEF TypeOK, IsConnected, Calling, GoesOn
<1>5. Exclusive' BY <1>2, <1>3 DEF IInv, Exclusive, Calling
<1>6. Seeded'
  <2> SUFFICES ASSUME NEW r \in Seeders, IsConnected(r)', NEW i \in 1..phase'[r] - 1,
                      Phases[i] # "schema"
               PROVE  files'[opened'[r]][Phases[i]] = 2
    BY DEF Seeded
  <2>1. CASE r = s
    <3>1. i \in 1..7 /\ (i = phase[s] \/ i \in 1..phase[s] - 1) BY <1>1, <1>2, <2>1
    <3>2. Phases[i] \in Parts BY <3>1, PhaseFacts
    <3>3. i # phase[s] => files[opened[s]][Phases[i]] = 2
      BY <1>1, <3>1 DEF IInv, Seeded
    <3>4. QED BY <1>1, <1>2, <2>1, <3>2, <3>3
  <2>2. CASE r # s
    <3>1. IsConnected(r) /\ opened[r] # opened[s] /\ opened[r] \in DOMAIN files
      BY <1>0, <1>1, <1>3, <2>2, OpensFiles DEF IInv, Exclusive
    <3>2. files[opened[r]][Phases[i]] = 2 BY <1>2, <2>2, <3>1 DEF IInv, Seeded
    <3>3. QED BY <1>1, <1>2, <3>1, <3>2
  <2>3. QED BY <2>1, <2>2
<1>7. Accounted'
  <2>1. \A f \in DOMAIN files : BeingSeeded(f) => BeingSeeded(f)'
    BY <1>2, <1>3 DEF BeingSeeded
  <2>2. BeingSeeded(opened[s]) BY <1>1 DEF BeingSeeded
  <2>3. QED BY <1>1, <1>2, <2>1, <2>2 DEF IInv, Accounted
<1>8. BaselinesLast'
  <2> SUFFICES ASSUME NEW f \in DOMAIN files, files'[f]["snapshots"] # 0, f \notin recut
               PROVE  files'[f]["tables"] = 2 /\ files'[f]["columns"] = 2
    BY <1>1, <1>2 DEF BaselinesLast
  <2>1. CASE f # opened[s] BY <1>1, <2>1 DEF IInv, BaselinesLast
  <2>2. CASE f = opened[s] /\ phase[s] # 7
    <3>1. Phases[phase[s]] # "snapshots" BY <1>1, <2>2, PhaseFacts
    <3>2. files[f]["snapshots"] # 0 BY <1>1, <2>2, <3>1, PhaseFacts
    <3>3. files[f]["tables"] = 2 /\ files[f]["columns"] = 2
      BY <3>2 DEF IInv, BaselinesLast
    <3>4. QED BY <1>1, <2>2, <3>3, PhaseFacts
  <2>3. CASE f = opened[s] /\ phase[s] = 7
    <3>1. 2 \in 1..phase[s] - 1 /\ 3 \in 1..phase[s] - 1 BY <2>3
    <3>2. files[f]["tables"] = 2 /\ files[f]["columns"] = 2
      BY <1>1, <2>3, <3>1, PhaseFacts DEF IInv, Seeded
    <3>3. QED BY <1>1, <2>3, <3>2, PhaseFacts
  <2>4. QED BY <2>1, <2>2, <2>3
<1>9. SawBaselines'
  <2> SUFFICES ASSUME NEW t \in Threads, call[t] = "schema_drift", answered[t] = 2
               PROVE  files'[conn[t]]["snapshots"] # 0
    BY <1>2 DEF SawBaselines
  <2>1. Calling(t) BY <1>0 DEF TypeOK
  <2>2. conn[t] # opened[s] /\ conn[t] \in DOMAIN files BY <1>1, <2>1, ReadsElsewhere
  <2>3. QED BY <1>1, <2>2 DEF IInv, SawBaselines
<1>10. Undisturbed'
  <2>1. \A r \in alone : r = s BY <1>0 DEF IInv, Undisturbed, Running, Seeds
  <2>2. QED BY <1>0, <1>2, <2>1 DEF IInv, Undisturbed, Running, Seeds
<1>11. QED BY <1>4, <1>5, <1>6, <1>7, <1>8, <1>9, <1>10 DEF IInv

LEMMA SeedStep == ASSUME IInv, NEW s \in Seeders, Seed(s) PROVE IInv'
<1>1. TypeOK /\ MissingIsEmpty /\ Seeds(s) BY DEF IInv, Seed
<1>2. 2 \in 0..2 /\ files' = [files EXCEPT ![opened[s]][Phases[phase[s]]] = 2] BY DEF Seed
<1>3. CanWrite(opened[s], Phases[phase[s]]) BY DEF Seed
<1>4. MissingIsEmpty' BY <1>1, <1>2, <1>3, StillLacks
<1>5. QED BY <1>1, <1>2, <1>4, PhaseEnds DEF Seed

LEMMA SchemaKept ==
    ASSUME TypeOK, NEW f \in DOMAIN files, NEW c \in SchemaLeft(f)
    PROVE  c \in 0..2 /\ (files[f]["schema"] = 2 => c = 2)
<1>1. files[f]["schema"] \in 0..2 BY PhaseFacts DEF TypeOK
<1>2. QED BY <1>1 DEF SchemaLeft

LEMMA SkipStep == ASSUME IInv, NEW s \in Seeders, SkipStatements(s) PROVE IInv'
<1>1. /\ TypeOK /\ MissingIsEmpty /\ Seeds(s) /\ opened[s] \in DOMAIN files
      /\ Phases[phase[s]] = "schema"
  BY OpensFiles DEF IInv, SkipStatements, Seeds, IsConnected
<1>2. PICK left \in SchemaLeft(opened[s]) :
         files' = [files EXCEPT ![opened[s]]["schema"] = left]
  BY Zenon DEF SkipStatements
<1>3. left \in 0..2 /\ (files[opened[s]]["schema"] = 2 => left = 2) BY <1>1, SchemaKept
<1>4. files' = [files EXCEPT ![opened[s]][Phases[phase[s]]] = left] BY <1>1, <1>2
<1>5. MissingIsEmpty' BY <1>1, <1>3, <1>4, StillLacks DEF CanWrite
<1>6. QED BY <1>1, <1>3, <1>4, <1>5, PhaseEnds DEF SkipStatements

LEMMA DieStep == ASSUME IInv, NEW s \in Seeders, Die(s) PROVE IInv'
<1> USE DEF Die, calls, Fails, Moves
<1>0. TypeOK /\ Seeds(s) BY DEF IInv
<1>1. PICK left \in 0..2 :
         /\ files' = [files EXCEPT ![opened[s]][Phases[phase[s]]] = left]
         /\ \/ CanWrite(opened[s], Phases[phase[s]])
            \/ left = files[opened[s]][Phases[phase[s]]]
         /\ Phases[phase[s]] = "schema" /\ files[opened[s]]["schema"] = 2 => left = 2
  <2>1. opened[s] \in DOMAIN files /\ Phases[phase[s]] \in Parts
    BY <1>0, OpensFiles, PhaseFacts DEF TypeOK, Seeds, IsConnected
  <2>2. files[opened[s]][Phases[phase[s]]] \in 0..2 BY <1>0, <2>1 DEF TypeOK
  <2> DEFINE f == opened[s]
             p == Phases[phase[s]]
             half == IF CanWrite(f, p) THEN {1} ELSE {}
             writes(left) == files' = [files EXCEPT ![f][p] = left]
  <2>3. PICK left \in (IF p = "schema" THEN SchemaLeft(f) ELSE half \union {files[f][p]}) :
           writes(left)
    BY Zenon
  <2> HIDE DEF writes
  <2>4. CASE p = "schema"
    <3>1. left \in SchemaLeft(f) BY <2>3, <2>4
    <3>2. left \in 0..2 /\ (files[f]["schema"] = 2 => left = 2)
      BY <1>0, <2>1, <3>1, SchemaKept
    <3>3. CanWrite(f, p) BY <2>4 DEF CanWrite
    <3>4. QED BY <2>3, <3>2, <3>3 DEF writes
  <2>5. CASE p # "schema"
    <3>1. left \in half \union {files[f][p]} BY <2>3, <2>5
    <3>2. left \in 0..2 /\ (CanWrite(f, p) \/ left = files[f][p]) BY <2>2, <3>1
    <3>3. QED BY <2>3, <2>5, <3>2 DEF writes
  <2>6. QED BY <2>4, <2>5
<1>2. /\ IsConnected(s) /\ opened[s] \in DOMAIN files /\ phase[s] \in 1..7
      /\ files' \in Seq([Parts -> 0..2]) /\ Len(files') = Len(files)
      /\ DOMAIN files' = DOMAIN files
      /\ \A f \in DOMAIN files : f # opened[s] => files'[f] = files[f]
      /\ \A p \in Parts : files'[opened[s]][p] =
            IF p = Phases[phase[s]] THEN left ELSE files[opened[s]][p]
  BY <1>0, <1>1, WritesOne
<1>3. /\ UNCHANGED <<path, phase, opened, starts, alone, calls>>
      /\ step'[s] = "off" /\ \A r \in Seeders \ {s} : step'[r] = step[r]
      /\ abandoned' = abandoned \union {opened[s]}
      /\ recut \subseteq recut'
      /\ files[opened[s]]["snapshots"] # 0 => opened[s] \in recut'
      /\ recut' \subseteq recut \union {opened[s]}
  BY <1>0 DEF TypeOK
<1>4. \A r \in Seeders : IsConnected(r)' <=> IsConnected(r) /\ r # s
  BY <1>3 DEF IsConnected
<1>5. TypeOK'
  <2>1. step' \in [Seeders -> {"off", "look", "unlink", "connect", "seed", "done"}]
    BY <1>0 DEF TypeOK
  <2>2. QED BY <1>0, <1>2, <1>3, <1>4, <2>1 DEF TypeOK, Calling
<1>6. Exclusive' BY <1>3, <1>4 DEF IInv, Exclusive, Calling
<1>7. Seeded'
  <2> SUFFICES ASSUME NEW r \in Seeders, IsConnected(r), r # s, NEW i \in 1..phase[r] - 1,
                      Phases[i] # "schema"
               PROVE  files'[opened[r]][Phases[i]] = 2
    BY <1>3, <1>4 DEF Seeded
  <2>1. opened[r] # opened[s] /\ opened[r] \in DOMAIN files
    BY <1>0, <1>2, OpensFiles DEF IInv, Exclusive
  <2>2. QED BY <1>2, <2>1 DEF IInv, Seeded
<1>8. Accounted'
  <2>1. \A f \in DOMAIN files : f # opened[s] /\ BeingSeeded(f) => BeingSeeded(f)'
    BY <1>3, <1>4 DEF BeingSeeded
  <2>2. QED BY <1>2, <1>3, <2>1 DEF IInv, Accounted
<1>9. BaselinesLast'
  <2> SUFFICES ASSUME NEW f \in DOMAIN files, files'[f]["snapshots"] # 0, f \notin recut'
               PROVE  files'[f]["tables"] = 2 /\ files'[f]["columns"] = 2
    BY <1>2 DEF BaselinesLast
  <2>1. CASE f # opened[s] BY <1>2, <1>3, <2>1 DEF IInv, BaselinesLast
  <2>2. CASE f = opened[s]
    <3>1. files[f]["snapshots"] = 0 BY <1>3, <2>2
    <3>2. Phases[phase[s]] = "snapshots" BY <1>2, <2>2, <3>1, PhaseFacts
    <3>3. 2 \in 1..phase[s] - 1 /\ 3 \in 1..phase[s] - 1 BY <1>2, <3>2, PhaseFacts
    <3>4. files[f]["tables"] = 2 /\ files[f]["columns"] = 2
      BY <1>2, <2>2, <3>3, PhaseFacts DEF IInv, Seeded
    <3>5. QED BY <1>2, <2>2, <3>2, <3>4, PhaseFacts
  <2>3. QED BY <2>1, <2>2
<1>10. SawBaselines'
  <2> SUFFICES ASSUME NEW t \in Threads, call[t] = "schema_drift", answered[t] = 2
               PROVE  files'[conn[t]]["snapshots"] # 0
    BY <1>3 DEF SawBaselines
  <2>1. Calling(t) BY <1>0 DEF TypeOK
  <2>2. conn[t] # opened[s] /\ conn[t] \in DOMAIN files BY <1>2, <2>1, ReadsElsewhere
  <2>3. QED BY <1>2, <2>2 DEF IInv, SawBaselines
<1>11. Undisturbed'
  <2>1. \A r \in alone : r = s BY <1>0 DEF IInv, Undisturbed, Running, Seeds
  <2>2. QED BY <1>0, <1>3, <2>1 DEF IInv, Undisturbed, Running, Seeds
<1>12. MissingIsEmpty' BY <1>0, <1>1, StillLacks DEF IInv
<1>13. QED BY <1>12, <1>5, <1>6, <1>7, <1>8, <1>9, <1>10, <1>11 DEF IInv

(* At the counts everything is written: no table can be missing.           *)
LEMMA AllSeeded ==
    ASSUME IInv, NEW s \in Seeders, Counts(s)
    PROVE  files[opened[s]] = Whole /\ opened[s] \in DOMAIN files
<1>1. TypeOK /\ IsConnected(s) /\ opened[s] \in DOMAIN files
  BY OpensFiles DEF IInv, Counts, IsConnected
<1>2. files[opened[s]] \in [Parts -> 0..2] BY <1>1 DEF TypeOK
<1>3. \A q \in Parts \ {"schema"} : files[opened[s]][q] = 2
  <2> SUFFICES ASSUME NEW q \in Parts, q # "schema" PROVE files[opened[s]][q] = 2
    OBVIOUS
  <2>1. PICK i \in 1..7 : Phases[i] = q BY PhaseFacts
  <2>2. i \in 1..phase[s] - 1 BY PhaseFacts DEF Counts
  <2>3. QED BY <1>1, <2>1, <2>2 DEF IInv, Seeded
<1>4. files[opened[s]]["schema"] = 2
  BY <1>1, <1>3 DEF IInv, MissingIsEmpty, LacksTable
<1>5. \A q \in Parts : files[opened[s]][q] = 2 BY <1>3, <1>4
<1>6. QED BY <1>1, <1>2, <1>5, ContentFacts

LEMMA CloseStep == ASSUME IInv, NEW s \in Seeders, Close(s) PROVE IInv'
<1> USE DEF Close, Counts, Moves, calls
<1>0. TypeOK /\ IsConnected(s) BY DEF IInv, IsConnected
<1>1. /\ step'[s] = "done" /\ \A r \in Seeders \ {s} : step'[r] = step[r]
      /\ UNCHANGED <<path, files, phase, opened, starts, alone, recut, calls>>
      /\ abandoned' = abandoned \ {opened[s]}
  BY <1>0 DEF TypeOK
<1>2. \A r \in Seeders : IsConnected(r)' <=> IsConnected(r) /\ r # s
  BY <1>1 DEF IsConnected
<1>3. files[opened[s]] = Whole /\ opened[s] \in DOMAIN files BY AllSeeded
<1>4. TypeOK'
  <2>1. step' \in [Seeders -> {"off", "look", "unlink", "connect", "seed", "done"}]
    BY <1>0 DEF TypeOK
  <2>2. QED BY <1>0, <1>1, <1>2, <2>1 DEF TypeOK, Calling
<1>5. Exclusive' BY <1>1, <1>2 DEF IInv, Exclusive, Calling
<1>6. Seeded' BY <1>1, <1>2 DEF IInv, Seeded
<1>7. Accounted'
  <2>1. \A f \in DOMAIN files : f # opened[s] /\ BeingSeeded(f) => BeingSeeded(f)'
    BY <1>1, <1>2 DEF BeingSeeded
  <2>2. QED BY <1>1, <1>3, <2>1 DEF IInv, Accounted
<1>8. BaselinesLast' BY <1>1 DEF IInv, BaselinesLast
<1>9. SawBaselines' BY <1>1 DEF IInv, SawBaselines
<1>10. Undisturbed'
  <2>1. \A r \in alone : r = s BY DEF IInv, Undisturbed, Running
  <2>2. s \in alone => path # 0 /\ path = opened[s] BY DEF IInv, Undisturbed
  <2>3. \A r \in Seeders \ {s} : Running(r)' <=> Running(r) BY <1>1 DEF Running
  <2>4. QED BY <1>1, <1>3, <2>1, <2>2, <2>3 DEF IInv, Undisturbed
<1>11. MissingIsEmpty' BY <1>1 DEF IInv, MissingIsEmpty, LacksTable
<1>12. QED BY <1>4, <1>5, <1>6, <1>7, <1>8, <1>9, <1>10, <1>11 DEF IInv

LEMMA DieCountingStep == ASSUME IInv, NEW s \in Seeders, DieCounting(s) PROVE IInv'
<1> USE DEF DieCounting, Fails, Counts, Moves, calls
<1>0. TypeOK /\ IsConnected(s) BY DEF IInv, IsConnected
<1>1. /\ step'[s] = "off" /\ \A r \in Seeders \ {s} : step'[r] = step[r]
      /\ UNCHANGED <<path, files, phase, opened, starts, alone, recut, calls, abandoned>>
  BY <1>0 DEF TypeOK
<1>2. \A r \in Seeders : IsConnected(r)' <=> IsConnected(r) /\ r # s
  BY <1>1 DEF IsConnected
<1>3. files[opened[s]] = Whole /\ opened[s] \in DOMAIN files BY AllSeeded
<1>4. TypeOK'
  <2>1. step' \in [Seeders -> {"off", "look", "unlink", "connect", "seed", "done"}]
    BY <1>0 DEF TypeOK
  <2>2. QED BY <1>0, <1>1, <1>2, <2>1 DEF TypeOK, Calling
<1>5. Exclusive' BY <1>1, <1>2 DEF IInv, Exclusive, Calling
<1>6. Seeded' BY <1>1, <1>2 DEF IInv, Seeded
<1>7. Accounted'
  <2>1. \A f \in DOMAIN files : f # opened[s] /\ BeingSeeded(f) => BeingSeeded(f)'
    BY <1>1, <1>2 DEF BeingSeeded
  <2>2. QED BY <1>1, <1>3, <2>1 DEF IInv, Accounted
<1>8. BaselinesLast' BY <1>1 DEF IInv, BaselinesLast
<1>9. SawBaselines' BY <1>1 DEF IInv, SawBaselines
<1>10. Undisturbed'
  <2>1. \A r \in alone : r = s BY DEF IInv, Undisturbed, Running
  <2>2. s \in alone => path # 0 /\ path = opened[s] BY DEF IInv, Undisturbed
  <2>3. \A r \in Seeders \ {s} : Running(r)' <=> Running(r) BY <1>1 DEF Running
  <2>4. QED BY <1>1, <1>3, <2>1, <2>2, <2>3 DEF IInv, Undisturbed
<1>11. MissingIsEmpty' BY <1>1 DEF IInv, MissingIsEmpty, LacksTable
<1>12. QED BY <1>4, <1>5, <1>6, <1>7, <1>8, <1>9, <1>10, <1>11 DEF IInv

(* A call opens a file that no seeder has open.                            *)
LEMMA Dialed ==
    ASSUME IInv, NEW t \in Threads, NEW tool \in Tools, NEW f \in DOMAIN files,
           ~Calling(t), Dials(t, tool, f), \A s \in Seeders : IsConnected(s) => opened[s] # f,
           UNCHANGED <<path, files, abandoned, answered, seeding>>
    PROVE  IInv'
<1> USE DEF seeding
<1>0. TypeOK BY DEF IInv
<1>1. /\ conn'[t] = f /\ call'[t] = tool
      /\ \A u \in Threads \ {t} : conn'[u] = conn[u] /\ call'[u] = call[u]
  BY <1>0 DEF Dials, TypeOK
<1>2. f # 0 /\ f \in 0..Len(files) /\ tool # "none"
  BY <1>0, OpensFiles, ToolsAssumption DEF Queries
<1>3. \A r \in Seeders : IsConnected(r)' <=> IsConnected(r) BY DEF IsConnected
<1>4. TypeOK'
  <2>1. conn' \in [Threads -> 0..Len(files)] /\ call' \in [Threads -> Tools \union {"none"}]
    BY <1>0, <1>2 DEF TypeOK, Dials
  <2>2. QED BY <1>0, <1>1, <1>2, <1>3, <2>1 DEF TypeOK, Calling
<1>5. Exclusive' BY <1>1, <1>3 DEF IInv, Exclusive, Calling
<1>6. Seeded' BY <1>3 DEF IInv, Seeded
<1>7. Accounted'
  <2>1. \A g \in DOMAIN files : BeingSeeded(g)' <=> BeingSeeded(g) BY <1>3 DEF BeingSeeded
  <2>2. QED BY <2>1 DEF IInv, Accounted
<1>8. BaselinesLast' BY DEF IInv, BaselinesLast
<1>9. SawBaselines' BY <1>0, <1>1 DEF IInv, SawBaselines, TypeOK
<1>10. Undisturbed' BY DEF IInv, Undisturbed, Running
<1>11. MissingIsEmpty' BY DEF IInv, MissingIsEmpty, LacksTable
<1>12. QED BY <1>4, <1>5, <1>6, <1>7, <1>8, <1>9, <1>10, <1>11 DEF IInv

LEMMA CallStep == ASSUME IInv, NEW t \in Threads, NEW tool \in Tools, Call(t, tool) PROVE IInv'
<1> USE DEF seeding
<1>0. TypeOK /\ ~Calling(t) /\ UNCHANGED <<answered, seeding>> BY DEF IInv, Call
<1>1. ASSUME NEW u \in Shared(t), Dials(t, tool, conn[u]), UNCHANGED <<path, files, abandoned>>
      PROVE  IInv'
  <2>1. u \in Threads /\ Calling(u) BY DEF Shared
  <2>2. conn[u] \in DOMAIN files /\ \A s \in Seeders : IsConnected(s) => opened[s] # conn[u]
    BY <1>0, <2>1, OpensFiles DEF IInv, Exclusive
  <2>3. QED BY <1>0, <1>1, <2>2, Dialed
<1>2. ASSUME path # 0, ~Locked(t, path, tool), Dials(t, tool, path),
             UNCHANGED <<path, files, abandoned>>
      PROVE  IInv'
  <2>1. path \in DOMAIN files BY <1>0, <1>2, OpensFiles DEF TypeOK
  <2>2. \A s \in Seeders : IsConnected(s) => opened[s] # path BY <1>2 DEF Locked
  <2>3. QED BY <1>0, <1>2, <2>1, <2>2, Dialed
<1>3. ASSUME path = 0, files' = Append(files, Empty), path' = Len(files'),
             Dials(t, tool, path'), abandoned' = abandoned \union {path'}
      PROVE  IInv'
  <2>1. /\ conn'[t] = path' /\ call'[t] = tool
        /\ \A u \in Threads \ {t} : conn'[u] = conn[u] /\ call'[u] = call[u]
    BY <1>0, <1>3 DEF Dials, TypeOK
  <2>2. path' # 0 /\ path' \notin DOMAIN files /\ tool # "none"
    BY <1>0, <1>3, OpensFiles, NewFile, ToolsAssumption DEF Queries
  <2>3. \A r \in Seeders : IsConnected(r)' <=> IsConnected(r) BY <1>0 DEF IsConnected
  <2>4. TypeOK'
    <3>1. conn' \in [Threads -> 0..Len(files')] /\ call' \in [Threads -> Tools \union {"none"}]
      BY <1>0, <1>3, <2>2, NewFile DEF TypeOK, Dials
    <3>2. opened' \in [Seeders -> 0..Len(files')] BY <1>0, <1>3, NewFile DEF TypeOK
    <3>3. /\ abandoned' \subseteq DOMAIN files' /\ recut' \subseteq DOMAIN files'
          /\ path' \in 0..Len(files')
      BY <1>0, <1>3, NewFile DEF TypeOK
    <3>4. QED
      BY <1>0, <1>3, <2>1, <2>2, <2>3, <3>1, <3>2, <3>3, NewFile DEF TypeOK, Calling
  <2>5. Exclusive'
    BY <1>0, <1>3, <2>1, <2>2, <2>3, OpensFiles DEF IInv, Exclusive, Calling
  <2>6. Seeded' BY <1>0, <1>3, <2>3, NewFile, OpensFiles DEF IInv, Seeded
  <2>7. Accounted'
    <3>1. \A g \in DOMAIN files : BeingSeeded(g) => BeingSeeded(g)'
      BY <1>0, <2>3 DEF BeingSeeded
    <3>2. QED BY <1>0, <1>3, <3>1, NewFile DEF IInv, Accounted
  <2>8. BaselinesLast' BY <1>0, <1>3, NewFile, ContentFacts DEF IInv, BaselinesLast
  <2>9. SawBaselines'
    BY <1>0, <1>3, <2>1, NewFile, OpensFiles DEF IInv, SawBaselines, TypeOK
  <2>10. Undisturbed'
    <3>1. \A s \in alone : step[s] \notin {"seed", "done"} BY <1>3 DEF IInv, Undisturbed
    <3>2. QED BY <1>0, <3>1 DEF IInv, Undisturbed, Running
  <2>11. MissingIsEmpty' BY <1>0, <1>3, LacksInNew DEF IInv
  <2>12. QED BY <2>4, <2>5, <2>6, <2>7, <2>8, <2>9, <2>10, <2>11 DEF IInv
<1>4. QED BY <1>1, <1>2, <1>3 DEF Call

LEMMA AnswerStep == ASSUME IInv, NEW t \in Threads, Answer(t) PROVE IInv'
<1> USE DEF Answer, seeding
<1>0. TypeOK BY DEF IInv
<1>1. /\ answered'[t] = answered[t] + 1 /\ answered[t] \in Nat
      /\ \A u \in Threads \ {t} : answered'[u] = answered[u]
  BY <1>0 DEF TypeOK
<1>2. \A r \in Seeders : IsConnected(r)' <=> IsConnected(r) BY DEF IsConnected
<1>3. TypeOK'
  <2>1. answered' \in [Threads -> Nat] BY <1>0 DEF TypeOK
  <2>2. QED BY <1>0, <1>1, <1>2, <2>1 DEF TypeOK, Calling
<1>4. Exclusive' BY <1>2 DEF IInv, Exclusive, Calling
<1>5. Seeded' BY <1>2 DEF IInv, Seeded
<1>6. Accounted'
  <2>1. \A g \in DOMAIN files : BeingSeeded(g)' <=> BeingSeeded(g) BY <1>2 DEF BeingSeeded
  <2>2. QED BY <2>1 DEF IInv, Accounted
<1>7. BaselinesLast' BY DEF IInv, BaselinesLast
<1>8. SawBaselines'
  <2> SUFFICES ASSUME NEW u \in Threads, call[u] = "schema_drift", answered'[u] = 2
               PROVE  files[conn[u]]["snapshots"] # 0
    BY DEF SawBaselines
  <2>1. CASE u = t
    <3>1. answered[t] = 1 BY <1>1, <2>1
    <3>2. Queries["schema_drift"][1] = {"snapshots"} BY DEF Queries, DriftReads
    <3>3. QED BY <2>1, <3>1, <3>2 DEF FindsNothing
  <2>2. CASE u # t BY <1>1, <2>2 DEF IInv, SawBaselines
  <2>3. QED BY <2>1, <2>2
<1>9. Undisturbed' BY DEF IInv, Undisturbed, Running
<1>10. MissingIsEmpty' BY DEF IInv, MissingIsEmpty, LacksTable
<1>11. QED BY <1>3, <1>4, <1>5, <1>6, <1>7, <1>8, <1>9, <1>10 DEF IInv

LEMMA HangUpStep == ASSUME IInv, NEW t \in Threads, HangUp(t) PROVE IInv'
<1> USE DEF HangUp, seeding
<1>0. TypeOK BY DEF IInv
<1>1. /\ call'[t] = "none" /\ conn'[t] = 0 /\ answered'[t] = 0
      /\ \A u \in Threads \ {t} :
            call'[u] = call[u] /\ conn'[u] = conn[u] /\ answered'[u] = answered[u]
      /\ UNCHANGED <<path, files, abandoned, seeding>>
  BY <1>0 DEF TypeOK
<1>2. \A r \in Seeders : IsConnected(r)' <=> IsConnected(r) BY DEF IsConnected
<1>3. TypeOK'
  <2>1. /\ answered' \in [Threads -> Nat] /\ conn' \in [Threads -> 0..Len(files)]
        /\ call' \in [Threads -> Tools \union {"none"}]
    BY <1>0, OpensFiles DEF TypeOK
  <2>2. QED BY <1>0, <1>1, <1>2, <2>1 DEF TypeOK, Calling
<1>4. Exclusive' BY <1>1, <1>2 DEF IInv, Exclusive, Calling
<1>5. Seeded' BY <1>1, <1>2 DEF IInv, Seeded
<1>6. Accounted'
  <2>1. \A g \in DOMAIN files : BeingSeeded(g)' <=> BeingSeeded(g)
    BY <1>1, <1>2 DEF BeingSeeded
  <2>2. QED BY <1>1, <2>1 DEF IInv, Accounted
<1>7. BaselinesLast' BY <1>1 DEF IInv, BaselinesLast
<1>8. SawBaselines' BY <1>1 DEF IInv, SawBaselines
<1>9. Undisturbed' BY <1>1 DEF IInv, Undisturbed, Running
<1>10. MissingIsEmpty' BY <1>1 DEF IInv, MissingIsEmpty, LacksTable
<1>11. QED BY <1>3, <1>4, <1>5, <1>6, <1>7, <1>8, <1>9, <1>10 DEF IInv

LEMMA NextIInv == IInv /\ [Next]_vars => IInv'
<1> SUFFICES ASSUME IInv, [Next]_vars PROVE IInv'
  OBVIOUS
<1>1. CASE \E s \in Seeders : SeederStep(s)
  BY <1>1, StartStep, LookStep, UnlinkStep, ConnectStep, SeedStep, SkipStep, DieStep, CloseStep,
     DieCountingStep
  DEF SeederStep
<1>2. CASE Remove BY <1>2, RemoveStep
<1>3. CASE \E t \in Threads, tool \in Tools : Call(t, tool) BY <1>3, CallStep
<1>4. CASE \E t \in Threads : Answer(t) \/ HangUp(t) BY <1>4, AnswerStep, HangUpStep
<1>5. CASE UNCHANGED vars
  <2>1. UNCHANGED <<path, files, phase, opened, calls, abandoned, recut, step, starts, alone>>
    BY <1>5 DEF vars, seeding
  <2>2. TypeOK' BY <2>1 DEF IInv, TypeOK, IsConnected, Calling, calls
  <2>3. Undisturbed' BY <2>1 DEF IInv, Undisturbed, Running
  <2>4. QED BY <2>1, <2>2, <2>3, QuietStep DEF IsConnected
<1>6. QED BY <1>1, <1>2, <1>3, <1>4, <1>5 DEF Next

(* The inductive invariant holds for any number of seeders and threads.    *)
THEOREM InvariantHolds == Spec => []IInv
BY InitIInv, NextIInv, PTL DEF Spec
-----------------------------------------------------------------------------
(* The type invariant, for any number of seeders, threads and files.       *)
THEOREM TypeCorrect == Spec => []TypeOK
BY InvariantHolds, PTL DEF IInv

(* What the tools read was seeded completely (seeder.py:231-256), or lies  *)
(* in a file on which a seeder died or that a check created, and that no   *)
(* seeder has completed since.                                             *)
THEOREM CallsSeeWhole == Spec => []ReadsWhole
<1>1. IInv => ReadsWhole
  <2> SUFFICES ASSUME IInv, NEW t \in Threads, Calling(t)
               PROVE  files[conn[t]] = Whole \/ conn[t] \in abandoned
    BY DEF ReadsWhole
  <2>1. conn[t] \in DOMAIN files BY OpensFiles DEF IInv
  <2>2. ~BeingSeeded(conn[t]) BY DEF IInv, Exclusive, BeingSeeded
  <2>3. QED BY <2>1, <2>2 DEF IInv, Accounted
<1>2. QED BY <1>1, InvariantHolds, PTL

(* A seeder that ends without an error leaves a complete database behind   *)
(* (seeder.py:231-257), although it skips the statements of the schema     *)
(* that fail (:51-54): a missing table ends it at the first DELETE.        *)
THEOREM SeedersComplete == Spec => []DoneMeansComplete
<1>1. IInv => DoneMeansComplete BY DEF IInv, Undisturbed, DoneMeansComplete
<1>2. QED BY <1>1, InvariantHolds, PTL

(* The drift report compares with a whole catalogue or ends without one    *)
(* (mcp_resources.py:46-56), because the snapshots are seeded last.        *)
THEOREM DriftComparesWhole == Spec => []DriftHasCatalogue
<1>1. IInv => DriftHasCatalogue
  <2> SUFFICES ASSUME IInv, NEW t \in Threads, call[t] = "schema_drift", answered[t] = 2
               PROVE  \/ files[conn[t]]["tables"] = 2 /\ files[conn[t]]["columns"] = 2
                      \/ conn[t] \in recut
    BY DEF DriftHasCatalogue
  <2>1. conn[t] \in DOMAIN files BY OpensFiles DEF IInv, TypeOK
  <2>2. files[conn[t]]["snapshots"] # 0 BY DEF IInv, SawBaselines
  <2>3. QED BY <2>1, <2>2 DEF IInv, BaselinesLast
<1>2. QED BY <1>1, InvariantHolds, PTL

(* The queries of a tool, each a statement of its own, are answered from   *)
(* one content (pipeline_tools.py:85-102, dq_tools.py:63-116), although    *)
(* other processes start and end seeders meanwhile.                        *)
THEOREM OneContent == Spec => OneContentPerCall
<1>1. IInv /\ [Next]_vars =>
        [\A t \in Threads :
            Calling(t) /\ conn'[t] = conn[t] => files'[conn[t]] = files[conn[t]]]_vars
  <2> SUFFICES ASSUME IInv, Next, NEW t \in Threads, Calling(t)
               PROVE  files'[conn[t]] = files[conn[t]]
    OBVIOUS
  <2>0. TypeOK /\ conn[t] \in DOMAIN files BY OpensFiles DEF IInv
  <2>1. ASSUME NEW s \in Seeders, SeederStep(s) PROVE files'[conn[t]] = files[conn[t]]
    <3>1. CASE Seed(s) \/ SkipStatements(s) \/ Die(s)
      <4>1. IsConnected(s) BY <3>1 DEF Seed, SkipStatements, Die, Seeds, IsConnected
      <4>2. conn[t] # opened[s] BY <4>1, ReadsElsewhere
      <4>3. PICK c : files' = [files EXCEPT ![opened[s]][Phases[phase[s]]] = c]
        BY <3>1, Zenon DEF Seed, SkipStatements, Die
      <4>4. QED BY <2>0, <4>2, <4>3 DEF TypeOK
    <3>2. CASE Connect(s)
      <4>1. files' = files \/ files' = Append(files, Empty) BY <3>2 DEF Connect
      <4>2. QED BY <2>0, <4>1, NewFile
    <3>3. CASE StartSeeder(s) \/ Look(s) \/ Unlink(s) \/ Close(s) \/ DieCounting(s)
      BY <3>3 DEF StartSeeder, Look, Unlink, Close, DieCounting
    <3>4. QED BY <2>1, <3>1, <3>2, <3>3 DEF SeederStep
  <2>2. ASSUME Remove PROVE files' = files BY <2>2 DEF Remove
  <2>3. ASSUME NEW u \in Threads, NEW tool \in Tools, Call(u, tool)
        PROVE  files'[conn[t]] = files[conn[t]]
    <3>1. files' = files \/ files' = Append(files, Empty) BY <2>3 DEF Call
    <3>2. QED BY <2>0, <3>1, NewFile
  <2>4. ASSUME NEW u \in Threads, Answer(u) \/ HangUp(u) PROVE files' = files
    BY <2>4 DEF Answer, HangUp
  <2>5. QED BY <2>1, <2>2, <2>3, <2>4 DEF Next
<1>2. QED BY <1>1, InvariantHolds, PTL DEF Spec, OneContentPerCall
=============================================================================
