------------------------------ MODULE Chunkers ------------------------------
(***************************************************************************)
(* How the four chunkers (ingestion/chunkers/) cut a file into chunks and  *)
(* address them.  A chunk's id is a hash of the path and of the tuple that *)
(* IdOf gives here; the collection is keyed by ids, refuses a batch in     *)
(* which one occurs twice and keeps an id that a later version of the file *)
(* no longer has.  So the questions are when two chunks share an id, which *)
(* ids an edit leaves in place, and whether any text is in no chunk.       *)
(*                                                                         *)
(* A file is a sequence of parts, by its language:                         *)
(*   python    the top-level nodes; a decorated definition is none of the  *)
(*             two node types that become chunks, so it is "other";        *)
(*   yaml      the task ids of a DAG, Unnamed where a task has none;       *)
(*   markdown  lengths: of the text before the first heading and of every  *)
(*             section, heading included;                                  *)
(*   sql       the lines.                                                  *)
(* The regular expressions that stand in for tree-sitter are left out.     *)
(***************************************************************************)
EXTENDS Integers, Sequences, FiniteSets

CONSTANTS MaxParts,    \* bound: parts of a file
          MaxBody,     \* bound: statements of a class
          Names,       \* explicit task ids
          MaxChars,    \* MAX_CHUNK_TOKENS * APPROX_CHARS_PER_TOKEN
          MaxLength,   \* bound: characters of a section
          MaxTokens    \* bound: semicolons and texts between them in a line

ASSUME BoundsAssumption == /\ {MaxBody, MaxLength, MaxTokens} \subseteq Nat
                           /\ MaxParts \in Nat \ {0}
ASSUME WindowAssumption == MaxChars \in Nat /\ MaxChars >= 2

UpTo(S, n) == UNION {[1..k -> S] : k \in 0..n}

Body == UpTo({"function", "other"}, MaxBody)
Node == {[kind |-> k, body |-> <<>>] : k \in {"function", "other"}}
            \union {[kind |-> "class", body |-> b] : b \in Body}

Default(k) == <<"task", k>>     \* f"task_{idx}", idx counting from 1
Reserved == {<<"dag_config">>, <<"slo">>}
Unnamed == <<"no task_id">>
TaskIds == Names \union Reserved \union {Default(k) : k \in 1..MaxParts}
               \union {Unnamed}

(* A line is a comment as a whole or not at all: like the code, the module *)
(* knows no comment behind other text and no string.                       *)
Line == [comment : BOOLEAN, tokens : UpTo({"text", ";"}, MaxTokens)]

PartsOf == [python |-> Node, yaml |-> TaskIds, markdown |-> 0..MaxLength, sql |-> Line]

VARIABLE file   \* its language, its parts and whether a YAML file has "slo"

FilesInit ==
    \E lang \in DOMAIN PartsOf, slo \in BOOLEAN :
        /\ slo => lang = "yaml"
        /\ file = [lang |-> lang, slo |-> slo,
                   parts |-> IF lang = "markdown" THEN <<0>> ELSE <<>>]

parts == file.parts
Is(lang) == file.lang = lang

(* Somebody goes on writing the file, or changes a part of it.             *)
Extend ==
    /\ Len(parts) < MaxParts
    /\ \E p \in PartsOf[file.lang] :
          /\ Is("markdown") => p > 0
          /\ file' = [file EXCEPT !.parts = Append(@, p)]

Edit ==
    \E i \in DOMAIN parts, p \in PartsOf[file.lang] :
        /\ Is("markdown") /\ i > 1 => p > 0
        /\ file' = [file EXCEPT !.parts[i] = p]

FilesNext == Extend \/ Edit
FilesSpec == FilesInit /\ [][FilesNext]_file

-----------------------------------------------------------------------------
(* ast_chunker.py.  A place is a top-level definition and, for a method,   *)
(* its position among the statements of the body, 0 for the definition.    *)
Definitions(f) == {n \in DOMAIN f : f[n].kind # "other"}
Methods(f) == {p \in (DOMAIN f) \X (1..MaxBody) :
                  p[2] \in DOMAIN f[p[1]].body /\ f[p[1]].body[p[2]] = "function"}
Places(f) == (Definitions(f) \X {0}) \union Methods(f)

(* idx, when the loop over the top-level nodes comes to node n: the number *)
(* of chunks so far.                                                       *)
CountsNodes(f, n) == n - 1
Start(f, n) == Cardinality({p \in Places(f) : p[1] < n})

(* "start_idx + i + 1": i counts every statement of the body.              *)
BehindDefinitions(f, n, i) == <<Cardinality(Definitions(f)) + i>>
MethodId(f, n, i) == <<Start(f, n) + i>>

PythonId(f, p) ==
    IF p[2] # 0 THEN MethodId(f, p[1], p[2])
    ELSE IF f[p[1]].kind = "class" THEN <<Start(f, p[1]), "cls">>
    ELSE <<Start(f, p[1])>>

(* yaml_chunker.py: place 0 is the configuration, the last one the SLO.    *)
UnnamedShare(f, k) == IF f[k] = Unnamed THEN Default(1) ELSE f[k]
TaskId(f, k) == IF f[k] = Unnamed THEN Default(k) ELSE f[k]

YamlPlaces(f, slo) == 0..Len(f) \union (IF slo THEN {-1} ELSE {})
YamlId(f, k) == CASE k = 0 -> <<"dag_config">>
                  [] k = -1 -> <<"slo">>
                  [] OTHER -> TaskId(f, k)

(* semantic_chunker.py: _sliding_window gives the windows' numbers; window *)
(* j begins at character j * Stride of the section.                        *)
NoOverlap == MaxChars
Stride == (MaxChars * 3) \div 4

Windows(length) ==
    IF length <= MaxChars THEN {0} ELSE {j \in 0..length : j * Stride < length}

MarkdownPlaces(f) == {p \in (2..Len(f)) \X (0..MaxLength) : p[2] \in Windows(f[p[1]])}

(* sql_chunker.py: _split_statements.  A line is cut at its first          *)
(* semicolon, in a trailing comment or a string too, unless it begins as a *)
(* comment.                                                                *)
Tokens(f, l) == [k \in DOMAIN f[l].tokens |-> <<l, k, f[l].tokens[k]>>]
Semicolons(f, l) == {k \in DOMAIN f[l].tokens : f[l].tokens[k] = ";" /\ ~f[l].comment}
FirstOf(S) == CHOOSE k \in S : \A i \in S : k <= i

DropsRest(line, cut) == <<>>
Rest(line, cut) == SubSeq(line, cut + 1, Len(line))

(* What one line adds to the statements that are done and to the current.  *)
WithLine(before, f, l) ==
    LET line == Tokens(f, l)
        cut == FirstOf(Semicolons(f, l))
    IN  IF Semicolons(f, l) = {}
        THEN [done |-> before.done, current |-> before.current \o line]
        ELSE [done |-> Append(before.done, before.current \o SubSeq(line, 1, cut - 1)),
              current |-> Rest(line, cut)]

Split(f) ==
    LET after[l \in 0..Len(f)] == IF l = 0 THEN [done |-> <<>>, current |-> <<>>]
                                  ELSE WithLine(after[l - 1], f, l)
    IN  after[Len(f)]

Statements(f) == IF Split(f).current = <<>> THEN Split(f).done
                 ELSE Append(Split(f).done, Split(f).current)

SqlPlaces(f) == {k \in DOMAIN Statements(f) : Statements(f)[k] # <<>>}

-----------------------------------------------------------------------------
(* The chunks of a file and their ids.  A Python file without a definition *)
(* and a Markdown file without a heading are one chunk with an id of its   *)
(* own, the hash of the path.                                              *)
IsOneChunk(d) == \/ d.lang = "python" /\ Places(d.parts) = {}
                 \/ d.lang = "markdown" /\ Len(d.parts) = 1

PlacesOf(d) ==
    CASE IsOneChunk(d) -> {<<>>}
      [] d.lang = "python" -> Places(d.parts)
      [] d.lang = "yaml" -> YamlPlaces(d.parts, d.slo)
      [] d.lang = "markdown" -> MarkdownPlaces(d.parts)
      [] d.lang = "sql" -> SqlPlaces(d.parts)

IdOf(d, p) ==
    CASE IsOneChunk(d) -> <<>>
      [] d.lang = "python" -> PythonId(d.parts, p)
      [] d.lang = "yaml" -> YamlId(d.parts, p)
      [] d.lang = "markdown" -> p
      [] d.lang = "sql" -> <<p>>

-----------------------------------------------------------------------------
FilesTypeOK ==
    /\ file = [lang |-> file.lang, slo |-> file.slo, parts |-> parts]
    /\ file.lang \in DOMAIN PartsOf
    /\ file.slo \in BOOLEAN
    /\ parts \in Seq(PartsOf[file.lang]) /\ Len(parts) <= MaxParts

(* The method comes behind a statement that is no plain function.          *)
IsBehindStatement(f, p) == \E i \in 1..p[2] - 1 : f[p[1]].body[i] # "function"

PythonIdsExplained ==
    \A p, q \in Places(parts) :
        PythonId(parts, p) = PythonId(parts, q) /\ p # q =>
            \/ p[1] < q[1] /\ IsBehindStatement(parts, p)
            \/ q[1] < p[1] /\ IsBehindStatement(parts, q)

RepeatsId(k, i) == \/ parts[k] # Unnamed /\ parts[i] = parts[k]
                   \/ parts[k] = Unnamed /\ parts[i] = Default(k)

YamlIdsExplained ==
    \A p, q \in YamlPlaces(parts, file.slo) :
        YamlId(parts, p) = YamlId(parts, q) /\ p # q =>
            \E k \in DOMAIN parts :
                \/ parts[k] \in Reserved
                \/ \E i \in DOMAIN parts \ {k} : RepeatsId(k, i)

(* Two chunks of a file have one id, for which the collection refuses the  *)
(* whole batch, only in these cases.  Python: the upper one is a method    *)
(* behind a docstring, a field or a decorated method, since its position   *)
(* counts what no chunk was made of and the next definition's does not.    *)
(* YAML: the DAG repeats a task id, takes a reserved one or one that an    *)
(* unnamed task gets.                                                      *)
SharedIdsExplained ==
    /\ Is("python") => PythonIdsExplained
    /\ Is("yaml") => YamlIdsExplained

(* Text that is added at the end of a file leaves the ids of its chunks in *)
(* place, so that ingesting the longer file replaces every old chunk by    *)
(* its successor; except that the first definition or heading ends the     *)
(* time of the single chunk.                                               *)
KeepsIds ==
    Len(parts') > Len(parts) /\ ~IsOneChunk(file) =>
        \A p \in PlacesOf(file) : p \in PlacesOf(file') /\ IdOf(file', p) = IdOf(file, p)
AppendKeepsIds == [][KeepsIds]_file

(* A passage of up to a quarter of a window is whole in one of them,       *)
(* wherever in a section it is.                                            *)
PassagesWhole ==
    Is("markdown") =>
        \A i \in 2..Len(parts) : \A from \in 1..parts[i] : \A to \in from..parts[i] :
            to - from < MaxChars \div 4 =>
                \E j \in Windows(parts[i]) : j * Stride < from /\ to <= j * Stride + MaxChars

(* Reference: the statements are what semicolons outside comments divide.  *)
Text(f) == UNION {{<<l, k>> : k \in DOMAIN f[l].tokens \ Semicolons(f, l)} : l \in DOMAIN f}
Before(a, b) == a[1] < b[1] \/ (a[1] = b[1] /\ a[2] < b[2])
AreDivided(f, a, b) ==
    \E l \in DOMAIN f : \E k \in Semicolons(f, l) : Before(a, <<l, k>>) /\ Before(<<l, k>>, b)
ReferenceStatements(f) ==
    {{b \in Text(f) : ~AreDivided(f, a, b) /\ ~AreDivided(f, b, a)} : a \in Text(f)}

Marks(s) == {<<s[k][1], s[k][2]>> : k \in DOMAIN s}

(* Every text of a SQL file is in exactly one chunk, and the chunks are    *)
(* its statements as long as no line ends two of them.                     *)
StatementsAgree ==
    Is("sql") =>
        LET chunks == {Marks(Statements(parts)[k]) : k \in SqlPlaces(parts)}
        IN  /\ Text(parts) \subseteq UNION chunks
            /\ \A c, d \in chunks : c # d => c \intersect d = {}
            /\ (\A l \in DOMAIN parts : Cardinality(Semicolons(parts, l)) <= 1) =>
                   chunks = ReferenceStatements(parts)
=============================================================================
