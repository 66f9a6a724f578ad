---------------------------- MODULE ChunksProofs ----------------------------
(* Proofs about Chunkers, for files, classes, lines and windows of any     *)
(* length, and about Retrieval, for lists of any chunks, sizes and scores. *)
(* What a recursive function computes is shown by the least index at which *)
(* it would fail.                                                          *)
EXTENDS Chunkers, Retrieval, FiniteSetTheorems, WellFoundedInduction, TLAPS

(* A file is made of parts of its language, whatever is done to it.        *)
LEMMA FilesInitially == FilesInit => FilesTypeOK
<1> SUFFICES ASSUME FilesInit PROVE FilesTypeOK
  OBVIOUS
<1> PICK lang \in DOMAIN PartsOf, slo \in BOOLEAN :
        file = [lang |-> lang, slo |-> slo,
                parts |-> IF lang = "markdown" THEN <<0>> ELSE <<>>]
  BY DEF FilesInit
<1>1. file.lang = lang /\ file.slo = slo OBVIOUS
<1>2. parts \in Seq(PartsOf[lang]) /\ Len(parts) <= MaxParts
  <2>1. CASE lang = "markdown"
    <3>1. 0 \in PartsOf[lang] BY <2>1, BoundsAssumption DEF PartsOf
    <3>2. <<0>> \in Seq(PartsOf[lang]) /\ Len(<<0>>) = 1 BY <3>1
    <3>3. parts = <<0>> BY <2>1 DEF parts
    <3>4. QED BY <3>2, <3>3, BoundsAssumption
  <2>2. CASE lang # "markdown"
    <3>1. <<>> \in Seq(PartsOf[lang]) /\ Len(<<>>) = 0 OBVIOUS
    <3>2. parts = <<>> BY <2>2 DEF parts
    <3>3. QED BY <3>1, <3>2, BoundsAssumption
  <2>3. QED BY <2>1, <2>2
<1>3. file = [lang |-> file.lang, slo |-> file.slo, parts |-> parts]
  BY <1>1 DEF parts
<1>4. QED BY <1>1, <1>2, <1>3 DEF FilesTypeOK

LEMMA FilesStep == FilesTypeOK /\ [FilesNext]_file => FilesTypeOK'
<1> SUFFICES ASSUME FilesTypeOK, [FilesNext]_file PROVE FilesTypeOK'
  OBVIOUS
<1>1. CASE Extend
  <2> PICK p \in PartsOf[file.lang] : file' = [file EXCEPT !.parts = Append(@, p)]
    BY <1>1 DEF Extend
  <2>1. /\ file'.lang = file.lang /\ file'.slo = file.slo
        /\ parts' = Append(parts, p)
        /\ file' = [lang |-> file'.lang, slo |-> file'.slo, parts |-> parts']
    BY DEF FilesTypeOK, parts
  <2>2. parts' \in Seq(PartsOf[file.lang]) /\ Len(parts') = Len(parts) + 1
    BY <2>1 DEF FilesTypeOK
  <2>3. Len(parts) < MaxParts /\ Len(parts) \in Nat BY <1>1 DEF Extend, FilesTypeOK
  <2>4. QED BY <2>1, <2>2, <2>3, BoundsAssumption DEF FilesTypeOK
<1>2. CASE Edit
  <2> PICK i \in DOMAIN parts, p \in PartsOf[file.lang] : file' = [file EXCEPT !.parts[i] = p]
    BY <1>2 DEF Edit
  <2>1. /\ file'.lang = file.lang /\ file'.slo = file.slo
        /\ parts' = [parts EXCEPT ![i] = p]
        /\ file' = [lang |-> file'.lang, slo |-> file'.slo, parts |-> parts']
    BY DEF FilesTypeOK, parts
  <2>2. parts' \in Seq(PartsOf[file.lang]) /\ Len(parts') = Len(parts)
    BY <2>1 DEF FilesTypeOK
  <2>3. QED BY <2>1, <2>2 DEF FilesTypeOK
<1>3. CASE UNCHANGED file
  BY <1>3 DEF FilesTypeOK, parts
<1>4. QED BY <1>1, <1>2, <1>3 DEF FilesNext

(* A file never has parts of another language than its own.                *)
THEOREM FilesTypeCorrect == FilesSpec => []FilesTypeOK
BY FilesInitially, FilesStep, PTL DEF FilesSpec

-----------------------------------------------------------------------------
LEMMA PlacesFinite ==
    ASSUME NEW f \in Seq(Node)
    PROVE  IsFiniteSet(Places(f))
<1>1. IsFiniteSet(DOMAIN f) /\ IsFiniteSet(0..MaxBody)
  <2>1. DOMAIN f = 1..Len(f) /\ Len(f) \in Int OBVIOUS
  <2>2. QED BY <2>1, FS_Interval, BoundsAssumption
<1>2. IsFiniteSet((DOMAIN f) \X (0..MaxBody)) BY <1>1, FS_Product
<1>3. Places(f) \in SUBSET ((DOMAIN f) \X (0..MaxBody))
  BY BoundsAssumption DEF Places, Definitions, Methods
<1>4. QED BY <1>2, <1>3, FS_Subset

(* A method with nothing but plain functions before it in its body has a   *)
(* position among the chunks of its class, and these are all counted       *)
(* before the next definition.                                             *)
LEMMA StartsBehind ==
    ASSUME NEW f \in Seq(Node), NEW n \in Definitions(f), NEW m \in DOMAIN f, n < m,
           NEW i \in 0..MaxBody,
           \A k \in 1..i : k \in DOMAIN f[n].body /\ f[n].body[k] = "function"
    PROVE  /\ Start(f, n) \in Nat /\ Start(f, m) \in Nat
           /\ Start(f, n) + i < Start(f, m)
<1> DEFINE A == {p \in Places(f) : p[1] < n}
           C == {p \in Places(f) : p[1] < m}
           place == [k \in 0..i |-> <<n, k>>]
<1>1. IsFiniteSet(C) /\ IsFiniteSet(C \ A) /\ IsFiniteSet(A)
  BY PlacesFinite, FS_Subset, FS_Difference
<1>2. n \in DOMAIN f /\ DOMAIN f \subseteq Nat BY DEF Definitions
<1>3. A \subseteq C
  <2>1. \A p \in Places(f) : p[1] \in DOMAIN f BY DEF Places, Definitions, Methods
  <2>2. QED BY <1>2, <2>1
<1>4. \A k \in 0..i : <<n, k>> \in C \ A
  <2> TAKE k \in 0..i
  <2>1. CASE k = 0 BY <2>1, <1>2 DEF Places
  <2>2. CASE k # 0
    <3>1. k \in 1..i /\ k \in 1..MaxBody BY <2>2, BoundsAssumption
    <3>2. <<n, k>> \in Methods(f) BY <3>1, <1>2 DEF Methods
    <3>3. QED BY <3>2, <1>2 DEF Places
  <2>3. QED BY <2>1, <2>2
<1>5. place \in Injection(0..i, C \ A)
  BY <1>4 DEF Injection, IsInjective
<1>6. IsFiniteSet(0..i) /\ Cardinality(0..i) = i + 1
  BY FS_Interval, BoundsAssumption
<1>7. i + 1 <= Cardinality(C \ A) BY <1>1, <1>5, <1>6, FS_Injection
<1>8. Cardinality(C \ A) = Cardinality(C) - Cardinality(A)
  <2>1. C \cap A = A BY <1>3
  <2>2. QED BY <1>1, <2>1, FS_Difference
<1>9. Cardinality(A) \in Nat /\ Cardinality(C) \in Nat BY <1>1, FS_CardinalityType
<1>10. Start(f, n) = Cardinality(A) /\ Start(f, m) = Cardinality(C) BY DEF Start
<1>11. QED BY <1>7, <1>8, <1>9, <1>10, BoundsAssumption

LEMMA StartIsNat ==
    ASSUME NEW f \in Seq(Node), NEW n \in Int
    PROVE  Start(f, n) \in Nat
<1>1. IsFiniteSet({p \in Places(f) : p[1] < n}) BY PlacesFinite, FS_Subset
<1>2. QED BY <1>1, FS_CardinalityType DEF Start

LEMMA BodyIsSequence ==
    ASSUME NEW f \in Seq(Node), NEW n \in DOMAIN f
    PROVE  /\ \E k \in 0..MaxBody : f[n].body \in [1..k -> {"function", "other"}]
           /\ f[n].kind # "class" => f[n].body = <<>>
<1>1. f[n] \in Node OBVIOUS
<1>2. CASE \E k \in {"function", "other"} : f[n] = [kind |-> k, body |-> <<>>]
  <2>1. f[n].body = <<>> /\ <<>> \in [1..0 -> {"function", "other"}] BY <1>2
  <2>2. QED BY <2>1, BoundsAssumption
<1>3. CASE \E b \in Body : f[n] = [kind |-> "class", body |-> b]
  BY <1>3 DEF Body, UpTo
<1>4. QED BY <1>1, <1>2, <1>3 DEF Node

LEMMA PlaceFacts ==
    ASSUME NEW f \in Seq(Node), NEW p \in Places(f)
    PROVE  /\ p = <<p[1], p[2]>> /\ p[1] \in Definitions(f)
           /\ p[1] \in DOMAIN f /\ p[1] \in Nat
           /\ p[2] \in 0..MaxBody /\ p[2] \in Nat
           /\ p[2] # 0 => p \in Methods(f) /\ f[p[1]].kind = "class"
<1>1. CASE p \in Definitions(f) \X {0}
  BY <1>1, BoundsAssumption DEF Definitions
<1>2. CASE p \in Methods(f)
  <2>1. /\ p = <<p[1], p[2]>> /\ p[1] \in DOMAIN f /\ p[2] \in 1..MaxBody
        /\ p[2] \in DOMAIN f[p[1]].body
    BY <1>2 DEF Methods
  <2>2. f[p[1]].kind = "class" BY <2>1, BodyIsSequence
  <2>3. QED BY <1>2, <2>1, <2>2, BoundsAssumption DEF Definitions
<1>3. QED BY <1>1, <1>2 DEF Places

(* The number in an id counts from the start of the definition.            *)
LEMMA NumberOfId ==
    ASSUME NEW f \in Seq(Node), NEW p \in Places(f)
    PROVE  PythonId(f, p)[1] = Start(f, p[1]) + p[2]
<1>1. Start(f, p[1]) \in Nat /\ p[2] \in Nat BY StartIsNat, PlaceFacts
<1>2. QED BY <1>1 DEF PythonId, MethodId

(* Two chunks of one definition have different ids.                        *)
LEMMA OneDefinition ==
    ASSUME NEW f \in Seq(Node), NEW p \in Places(f), NEW q \in Places(f),
           p[1] = q[1], PythonId(f, p) = PythonId(f, q)
    PROVE  p = q
<1>1. Start(f, p[1]) \in Nat BY StartIsNat, PlaceFacts
<1>2. Start(f, p[1]) + p[2] = Start(f, p[1]) + q[2] BY NumberOfId
<1>3. p[2] = q[2] BY <1>1, <1>2, PlaceFacts
<1>4. QED BY <1>3, PlaceFacts

(* The id of a chunk repeats further down only for a method that comes     *)
(* behind a statement that is no plain function.                           *)
LEMMA TwoDefinitions ==
    ASSUME NEW f \in Seq(Node), NEW p \in Places(f), NEW q \in Places(f),
           p[1] < q[1],
           \A i \in 1..p[2] - 1 : f[p[1]].body[i] = "function"
    PROVE  PythonId(f, p) # PythonId(f, q)
<1> DEFINE n == p[1]
<1>1. \A k \in 1..p[2] : k \in DOMAIN f[n].body /\ f[n].body[k] = "function"
  <2>1. CASE p[2] = 0 BY <2>1
  <2>2. CASE p[2] # 0
    <3>1. p[2] \in DOMAIN f[n].body /\ f[n].body[p[2]] = "function"
      BY <2>2, PlaceFacts DEF Methods
    <3>2. PICK m \in 0..MaxBody : f[n].body \in [1..m -> {"function", "other"}]
      BY PlaceFacts, BodyIsSequence
    <3>3. \A k \in 1..p[2] : k \in DOMAIN f[n].body
      BY <3>1, <3>2, PlaceFacts, BoundsAssumption
    <3>4. \A k \in 1..p[2] : k = p[2] \/ k \in 1..p[2] - 1 BY PlaceFacts
    <3>5. QED BY <3>1, <3>3, <3>4
  <2>3. QED BY <2>1, <2>2
<1>2. /\ Start(f, n) \in Nat /\ Start(f, q[1]) \in Nat
      /\ Start(f, n) + p[2] < Start(f, q[1])
  BY <1>1, PlaceFacts, StartsBehind
<1>3. Start(f, n) + p[2] < Start(f, q[1]) + q[2] BY <1>2, PlaceFacts
<1>4. PythonId(f, p)[1] # PythonId(f, q)[1]
  <2>1. PythonId(f, p)[1] = Start(f, n) + p[2] BY NumberOfId
  <2>2. PythonId(f, q)[1] = Start(f, q[1]) + q[2] BY NumberOfId
  <2>3. QED BY <2>1, <2>2, <1>2, <1>3, PlaceFacts
<1>5. QED BY <1>4

LEMMA PythonShares == FilesTypeOK /\ Is("python") => PythonIdsExplained
<1> SUFFICES ASSUME FilesTypeOK, Is("python"), NEW p \in Places(parts), NEW q \in Places(parts),
                    PythonId(parts, p) = PythonId(parts, q), p # q
             PROVE  \/ p[1] < q[1] /\ IsBehindStatement(parts, p)
                    \/ q[1] < p[1] /\ IsBehindStatement(parts, q)
  BY DEF PythonIdsExplained
<1>1. parts \in Seq(Node) BY DEF FilesTypeOK, Is, PartsOf
<1>2. p[1] # q[1] BY <1>1, OneDefinition
<1>3. p[1] < q[1] \/ q[1] < p[1] BY <1>1, <1>2, PlaceFacts
<1>4. p[1] < q[1] => IsBehindStatement(parts, p)
  BY <1>1, TwoDefinitions DEF IsBehindStatement
<1>5. q[1] < p[1] => IsBehindStatement(parts, q)
  BY <1>1, TwoDefinitions DEF IsBehindStatement
<1>6. QED BY <1>3, <1>4, <1>5

LEMMA YamlShares == FilesTypeOK /\ Is("yaml") => YamlIdsExplained
<1> SUFFICES ASSUME FilesTypeOK, Is("yaml"),
                    NEW p \in YamlPlaces(parts, file.slo), NEW q \in YamlPlaces(parts, file.slo),
                    YamlId(parts, p) = YamlId(parts, q), p # q
             PROVE  \E k \in DOMAIN parts :
                        \/ parts[k] \in Reserved
                        \/ \E i \in DOMAIN parts \ {k} : RepeatsId(k, i)
  BY DEF YamlIdsExplained
<1>1. /\ p \in {0, -1} \/ p \in DOMAIN parts
      /\ q \in {0, -1} \/ q \in DOMAIN parts
      /\ DOMAIN parts \subseteq Nat \ {0}
  BY DEF FilesTypeOK, YamlPlaces
<1>2. ASSUME NEW a \in {0, -1} PROVE YamlId(parts, a) \in Reserved
  BY DEF YamlId, Reserved
<1>3. ASSUME NEW a \in DOMAIN parts
      PROVE  /\ YamlId(parts, a) = TaskId(parts, a)
             /\ TaskId(parts, a) \in Reserved => parts[a] \in Reserved
  <2>1. YamlId(parts, a) = TaskId(parts, a) BY <1>1 DEF YamlId
  <2>2. Default(a) \notin Reserved BY DEF Default, Reserved
  <2>3. QED BY <2>1, <2>2 DEF TaskId
<1>4. CASE p \in {0, -1} /\ q \in {0, -1}
  <2>1. {p, q} = {0, -1} BY <1>4
  <2>2. <<"dag_config">> # <<"slo">> OBVIOUS
  <2>3. YamlId(parts, 0) # YamlId(parts, -1) BY <2>2 DEF YamlId
  <2>4. QED BY <1>4, <2>3
<1>5. CASE p \in {0, -1} /\ q \in DOMAIN parts BY <1>2, <1>3, <1>5
<1>6. CASE p \in DOMAIN parts /\ q \in {0, -1} BY <1>2, <1>3, <1>6
<1>7. CASE p \in DOMAIN parts /\ q \in DOMAIN parts
  <2>1. TaskId(parts, p) = TaskId(parts, q) BY <1>3, <1>7
  <2>2. p \in DOMAIN parts \ {q} /\ q \in DOMAIN parts \ {p} BY <1>7
  <2>3. CASE parts[p] = Unnamed /\ parts[q] = Unnamed
    BY <2>1, <2>3 DEF TaskId, Default
  <2>4. CASE parts[p] = Unnamed /\ parts[q] # Unnamed
    <3>1. RepeatsId(p, q) BY <2>1, <2>4 DEF TaskId, RepeatsId
    <3>2. QED BY <3>1, <2>2
  <2>5. CASE parts[p] # Unnamed /\ parts[q] = Unnamed
    <3>1. RepeatsId(q, p) BY <2>1, <2>5 DEF TaskId, RepeatsId
    <3>2. QED BY <3>1, <2>2
  <2>6. CASE parts[p] # Unnamed /\ parts[q] # Unnamed
    <3>1. RepeatsId(p, q) BY <2>1, <2>6 DEF TaskId, RepeatsId
    <3>2. QED BY <3>1, <2>2
  <2>7. QED BY <2>3, <2>4, <2>5, <2>6
<1>8. QED BY <1>1, <1>4, <1>5, <1>6, <1>7

(* Whatever is written into a file, two of its chunks share an id only in  *)
(* the cases that SharedIdsExplained names (ast_chunker.py:144,            *)
(* yaml_chunker.py:69).                                                    *)
THEOREM SharedIds == FilesSpec => []SharedIdsExplained
<1>1. FilesTypeOK => SharedIdsExplained
  BY PythonShares, YamlShares DEF SharedIdsExplained
<1>2. QED BY <1>1, FilesTypeCorrect, PTL
-----------------------------------------------------------------------------
(* A window begins at every Stride characters and is longer than that by a *)
(* quarter at least.                                                       *)
LEMMA StrideFits ==
    /\ MaxChars \in Nat /\ Stride \in Nat \ {0} /\ MaxChars \div 4 \in Nat
    /\ Stride + (MaxChars \div 4) <= MaxChars
BY WindowAssumption DEF Stride

LEMMA WindowBefore ==
    ASSUME NEW from \in Nat \ {0}
    PROVE  \E j \in 0..from : j * Stride < from /\ from <= j * Stride + Stride
<1> PICK s \in Nat \ {0} : s = Stride BY StrideFits
<1> DEFINE j == (from - 1) \div s
<1>1. j \in Nat /\ s * j <= from - 1 /\ from - 1 < s * j + s OBVIOUS
<1>2. j * s = s * j /\ j <= s * j BY <1>1
<1> HIDE DEF j
<1>3. j \in 0..from /\ j * s < from /\ from <= j * s + s BY <1>1, <1>2
<1>4. QED BY <1>3

(* Wherever a passage of at most a quarter of a window begins, one of the  *)
(* windows of its section has all of it (semantic_chunker.py:96).         *)
THEOREM PassagesStayWhole == FilesSpec => []PassagesWhole
<1>1. FilesTypeOK => PassagesWhole
  <2> SUFFICES ASSUME FilesTypeOK, Is("markdown"), NEW i \in 2..Len(parts),
                      NEW from \in 1..parts[i], NEW to \in from..parts[i],
                      to - from < MaxChars \div 4
               PROVE  \E j \in Windows(parts[i]) : /\ j * Stride < from
                                                   /\ to <= j * Stride + MaxChars
    BY DEF PassagesWhole
  <2>1. parts[i] \in Nat
    <3>1. parts \in Seq(0..MaxLength) BY DEF FilesTypeOK, Is, PartsOf
    <3>2. i \in 1..Len(parts) BY <3>1
    <3>3. QED BY <3>1, <3>2, BoundsAssumption
  <2>2. from \in Nat \ {0} /\ to \in Nat /\ from <= parts[i] /\ to <= parts[i] BY <2>1
  <2>3. CASE parts[i] <= MaxChars
    <3>1. 0 * Stride = 0 BY StrideFits
    <3>2. 0 \in Windows(parts[i]) BY <2>3 DEF Windows
    <3>3. 0 * Stride < from /\ to <= 0 * Stride + MaxChars
      BY <2>1, <2>2, <2>3, <3>1, StrideFits
    <3>4. QED BY <3>2, <3>3
  <2>4. CASE ~(parts[i] <= MaxChars)
    <3>1. PICK j \in 0..from : j * Stride < from /\ from <= j * Stride + Stride
      BY <2>2, WindowBefore
    <3>2. PICK b \in Int : b = j * Stride BY StrideFits
    <3>3. j \in 0..parts[i] /\ b < parts[i] BY <2>1, <2>2, <3>1, <3>2
    <3>4. j \in Windows(parts[i]) BY <2>4, <3>2, <3>3 DEF Windows
    <3>5. to <= b + MaxChars BY <2>2, <3>1, <3>2, StrideFits
    <3>6. QED BY <3>1, <3>2, <3>4, <3>5
  <2>5. QED BY <2>3, <2>4
<1>2. QED BY <1>1, FilesTypeCorrect, PTL
-----------------------------------------------------------------------------
(* The statements of a SQL file.  Split is a recursion over the lines; what *)
(* is said of it is said of the first line for which it would fail.        *)
LEMMA LeastOf ==
    ASSUME NEW T, T \subseteq Nat, T # {}
    PROVE  \E t \in T : \A s \in T : t <= s
<1> DEFINE Less == {p \in Nat \X Nat : p[1] < p[2]}
<1>1. IsWellFoundedOn(Less, Nat) BY NatLessThanWellFounded DEF OpToRel
<1> HIDE DEF Less
<1>2. PICK t \in T : \A s \in T : <<s, t>> \notin Less BY <1>1, WFMin
<1>3. \A s \in T : s \in Nat /\ t \in Nat /\ ~(s < t) BY <1>2 DEF Less
<1>4. QED BY <1>3

Token == Nat \X Nat \X {"text", ";"}
Pieces == [done : Seq(Seq(Token)), current : Seq(Token)]
NoPieces == [done |-> <<>>, current |-> <<>>]
IsSplit(f, n, after) ==
    after = [l \in 0..n |-> IF l = 0 THEN NoPieces ELSE WithLine(after[l - 1], f, l)]

LEMMA LineFacts ==
    ASSUME NEW f \in Seq(Line), NEW l \in DOMAIN f
    PROVE  /\ \E n \in Nat : f[l].tokens \in [1..n -> {"text", ";"}]
           /\ Tokens(f, l) \in Seq(Token) /\ DOMAIN Tokens(f, l) = DOMAIN f[l].tokens
           /\ \A k \in DOMAIN f[l].tokens : Tokens(f, l)[k] = <<l, k, f[l].tokens[k]>>
           /\ Semicolons(f, l) \subseteq DOMAIN f[l].tokens
           /\ Semicolons(f, l) # {} => /\ FirstOf(Semicolons(f, l)) \in Semicolons(f, l)
                                       /\ \A k \in Semicolons(f, l) : FirstOf(Semicolons(f, l)) <= k
<1>1. f[l] \in Line /\ l \in Nat OBVIOUS
<1>2. PICK n \in 0..MaxTokens : f[l].tokens \in [1..n -> {"text", ";"}]
  <2>1. f[l].tokens \in UpTo({"text", ";"}, MaxTokens) BY <1>1 DEF Line
  <2>2. QED BY <2>1 DEF UpTo
<1>3. n \in Nat BY BoundsAssumption
<1>4. Tokens(f, l) \in [1..n -> Token]
  <2>1. ASSUME NEW k \in 1..n PROVE <<l, k, f[l].tokens[k]>> \in Token
    <3>1. k \in Nat BY <1>3
    <3>2. f[l].tokens[k] \in {"text", ";"} BY <1>2
    <3>3. QED BY <1>1, <3>1, <3>2 DEF Token
  <2>2. Tokens(f, l) = [k \in 1..n |-> <<l, k, f[l].tokens[k]>>] BY <1>2 DEF Tokens
  <2>3. QED BY <2>1, <2>2
<1>5. Tokens(f, l) \in Seq(Token) BY <1>3, <1>4
<1>6. Semicolons(f, l) \subseteq 1..n BY <1>2 DEF Semicolons
<1>7. ASSUME Semicolons(f, l) # {}
      PROVE  /\ FirstOf(Semicolons(f, l)) \in Semicolons(f, l)
             /\ \A k \in Semicolons(f, l) : FirstOf(Semicolons(f, l)) <= k
  <2>1. Semicolons(f, l) \subseteq Nat BY <1>3, <1>6
  <2>2. QED BY <1>7, <2>1, LeastOf DEF FirstOf
<1>8. QED BY <1>2, <1>3, <1>5, <1>6, <1>7 DEF Tokens

LEMMA WithLineType ==
    ASSUME NEW f \in Seq(Line), NEW l \in DOMAIN f, NEW before \in Pieces
    PROVE  WithLine(before, f, l) \in Pieces
<1>1. before.done \in Seq(Seq(Token)) /\ before.current \in Seq(Token) BY DEF Pieces
<1>2. PICK line \in Seq(Token) : line = Tokens(f, l) BY LineFacts
<1>3. CASE Semicolons(f, l) = {}
  <2>1. WithLine(before, f, l) = [done |-> before.done, current |-> before.current \o line]
    BY <1>2, <1>3 DEF WithLine
  <2>2. before.current \o line \in Seq(Token) BY <1>1
  <2>3. QED BY <1>1, <2>1, <2>2 DEF Pieces
<1>4. CASE Semicolons(f, l) # {}
  <2>1. PICK cut \in 1..Len(line) : cut = FirstOf(Semicolons(f, l))
    <3>1. DOMAIN line = 1..Len(line) OBVIOUS
    <3>2. FirstOf(Semicolons(f, l)) \in DOMAIN line BY <1>2, <1>4, LineFacts
    <3>3. QED BY <3>1, <3>2
  <2>2. WithLine(before, f, l) =
          [done |-> Append(before.done, before.current \o SubSeq(line, 1, cut - 1)),
           current |-> SubSeq(line, cut + 1, Len(line))]
    BY <1>2, <1>4, <2>1 DEF WithLine, Rest
  <2>3. SubSeq(line, 1, cut - 1) \in Seq(Token) /\ SubSeq(line, cut + 1, Len(line)) \in Seq(Token)
    OBVIOUS
  <2>4. before.current \o SubSeq(line, 1, cut - 1) \in Seq(Token) BY <1>1, <2>3
  <2>5. Append(before.done, before.current \o SubSeq(line, 1, cut - 1)) \in Seq(Seq(Token))
    BY <1>1, <2>4
  <2>6. QED BY <2>2, <2>3, <2>5 DEF Pieces
<1>5. QED BY <1>3, <1>4

LEMMA SplitSteps ==
    ASSUME NEW f \in Seq(Line), NEW n \in Nat, NEW after, IsSplit(f, n, after)
    PROVE  /\ DOMAIN after = 0..n /\ after[0] = NoPieces
           /\ \A l \in 1..n : after[l] = WithLine(after[l - 1], f, l)
<1>1. after = [l \in 0..n |-> IF l = 0 THEN NoPieces ELSE WithLine(after[l - 1], f, l)]
  BY DEF IsSplit
<1>2. \A l \in 0..n : after[l] = IF l = 0 THEN NoPieces ELSE WithLine(after[l - 1], f, l)
  BY <1>1
<1>3. QED BY <1>1, <1>2

LEMMA SplitType ==
    ASSUME NEW f \in Seq(Line), NEW n \in 0..Len(f), NEW after, IsSplit(f, n, after)
    PROVE  after \in [0..n -> Pieces]
<1>0. Len(f) \in Nat /\ n \in Nat OBVIOUS
<1>1. /\ DOMAIN after = 0..n /\ after[0] = NoPieces
      /\ \A l \in 1..n : after[l] = WithLine(after[l - 1], f, l)
  BY <1>0, SplitSteps
<1> DEFINE Bad == {l \in 0..n : after[l] \notin Pieces}
<1> Bad \subseteq Nat OBVIOUS
<1> \A l : l \in Bad <=> l \in 0..n /\ after[l] \notin Pieces OBVIOUS
<1> HIDE DEF Bad
<1>2. ASSUME Bad # {} PROVE FALSE
  <2>1. PICK l \in Bad : \A k \in Bad : l <= k BY <1>0, <1>2, LeastOf
  <2>2. NoPieces \in Pieces BY DEF NoPieces, Pieces
  <2>3. l \in 1..n /\ l - 1 \in 0..n BY <1>0, <1>1, <2>1, <2>2
  <2>4. after[l - 1] \in Pieces BY <1>0, <2>1, <2>3
  <2>5. l \in DOMAIN f BY <2>3
  <2>6. QED BY <1>1, <2>1, <2>3, <2>4, <2>5, WithLineType
<1>3. after = [l \in 0..n |-> after[l]] BY <1>1 DEF IsSplit
<1>4. QED BY <1>2, <1>3

LEMMA SplitExists ==
    ASSUME NEW f \in Seq(Line), NEW n \in Nat
    PROVE  \E after : IsSplit(f, n, after)
<1> DEFINE Bad == {m \in 0..n : ~\E after : IsSplit(f, m, after)}
<1> Bad \subseteq Nat OBVIOUS
<1> \A m : m \in Bad <=> m \in 0..n /\ ~\E after : IsSplit(f, m, after) OBVIOUS
<1> HIDE DEF Bad
<1>1. CASE 0 \in Bad
  <2>1. IsSplit(f, 0, [l \in 0..0 |-> NoPieces]) BY DEF IsSplit
  <2>2. QED BY <1>1, <2>1
<1>2. CASE Bad # {} /\ 0 \notin Bad
  <2>1. PICK m \in Bad : \A k \in Bad : m <= k BY <1>2, LeastOf
  <2>2. m \in 1..n /\ m - 1 \in 0..n /\ m - 1 \in Nat BY <1>2, <2>1
  <2>3. m - 1 \notin Bad BY <2>1, <2>2
  <2>4. PICK g : IsSplit(f, m - 1, g) BY <2>2, <2>3
  <2> DEFINE h == [l \in 0..m |-> IF l < m THEN g[l] ELSE WithLine(g[m - 1], f, m)]
  <2>5. g[0] = NoPieces /\ \A l \in 1..m - 1 : g[l] = WithLine(g[l - 1], f, l)
    BY <2>2, <2>4, SplitSteps
  <2>6. \A l \in 0..m : h[l] = IF l = 0 THEN NoPieces ELSE WithLine(h[l - 1], f, l)
    <3>1. h[0] = NoPieces BY <2>2, <2>5
    <3>2. ASSUME NEW l \in 1..m PROVE h[l] = WithLine(h[l - 1], f, l)
      <4>1. l - 1 \in 0..m /\ l - 1 < m /\ l \in 0..m BY <2>2
      <4>2. h[l - 1] = g[l - 1] BY <4>1
      <4>3. CASE l = m BY <4>1, <4>2, <4>3
      <4>4. CASE l # m
        <5>1. l \in 1..m - 1 /\ l < m BY <2>2, <4>4
        <5>2. QED BY <2>5, <4>1, <4>2, <5>1
      <4>5. QED BY <4>3, <4>4
    <3>3. \A l \in 0..m : l = 0 \/ l \in 1..m BY <2>2
    <3>4. QED BY <3>1, <3>2, <3>3
  <2>7. h = [l \in 0..m |-> h[l]] OBVIOUS
  <2> HIDE DEF h
  <2>8. IsSplit(f, m, h) BY <2>6, <2>7 DEF IsSplit
  <2>9. QED BY <2>1, <2>8
<1>3. n \in 0..n OBVIOUS
<1>4. QED BY <1>1, <1>2, <1>3

(* Two files that are the same up to a line are split alike up to it.      *)
LEMMA SplitAgrees ==
    ASSUME NEW f \in Seq(Line), NEW g \in Seq(Line), NEW n \in Nat, NEW m \in Nat, n <= m,
           n <= Len(f), n <= Len(g), \A l \in 1..n : f[l] = g[l],
           NEW a, NEW b, IsSplit(f, n, a), IsSplit(g, m, b)
    PROVE  \A l \in 0..n : a[l] = b[l]
<1>1. a[0] = NoPieces /\ \A l \in 1..n : a[l] = WithLine(a[l - 1], f, l) BY SplitSteps
<1>2. b[0] = NoPieces /\ \A l \in 1..m : b[l] = WithLine(b[l - 1], g, l) BY SplitSteps
<1>3. \A l \in 1..n : \A x : WithLine(x, f, l) = WithLine(x, g, l)
  BY DEF WithLine, Tokens, Semicolons
<1> DEFINE Bad == {l \in 0..n : a[l] # b[l]}
<1> Bad \subseteq Nat OBVIOUS
<1> \A l : l \in Bad <=> l \in 0..n /\ a[l] # b[l] OBVIOUS
<1> HIDE DEF Bad
<1>4. ASSUME Bad # {} PROVE FALSE
  <2>1. PICK l \in Bad : \A k \in Bad : l <= k BY <1>4, LeastOf
  <2>2. l \in 1..n /\ l \in 1..m /\ l - 1 \in 0..n BY <1>1, <1>2, <2>1
  <2>3. a[l - 1] = b[l - 1] BY <2>1, <2>2
  <2>4. QED BY <1>1, <1>2, <1>3, <2>1, <2>2, <2>3
<1>5. QED BY <1>4

LEMMA SplitIs ==
    ASSUME NEW f \in Seq(Line), NEW after, IsSplit(f, Len(f), after)
    PROVE  Split(f) = after[Len(f)]
<1> DEFINE chosen == CHOOSE a : IsSplit(f, Len(f), a)
<1>1. IsSplit(f, Len(f), chosen) OBVIOUS
<1>2. Split(f) = chosen[Len(f)] BY DEF Split, IsSplit, NoPieces
<1> HIDE DEF chosen
<1>3. Len(f) \in Nat OBVIOUS
<1>4. chosen[Len(f)] = after[Len(f)] BY <1>1, <1>3, SplitAgrees
<1>5. QED BY <1>2, <1>4

LEMMA SplitAppend ==
    ASSUME NEW f \in Seq(Line), NEW p \in Line
    PROVE  /\ Split(f) \in Pieces
           /\ Split(Append(f, p)) = WithLine(Split(f), Append(f, p), Len(f) + 1)
<1>1. PICK g \in Seq(Line) : g = Append(f, p)
  <2>1. Append(f, p) \in Seq(Line) OBVIOUS
  <2>2. QED BY <2>1
<1>2. PICK n \in Nat : n = Len(f) OBVIOUS
<1>3. Len(g) = n + 1 /\ n + 1 \in Nat /\ \A l \in 1..n : f[l] = g[l] BY <1>1, <1>2
<1>4. PICK a : IsSplit(f, n, a) BY SplitExists
<1>5. PICK b : IsSplit(g, n + 1, b) BY <1>3, SplitExists
<1>6. Split(f) = a[n] BY <1>2, <1>4, SplitIs
<1>7. Split(g) = b[n + 1] BY <1>3, <1>5, SplitIs
<1>8. a[n] = b[n]
  <2>1. n \in 0..n /\ n <= n + 1 /\ n <= Len(f) /\ n <= Len(g) BY <1>2, <1>3
  <2>2. QED BY <1>3, <1>4, <1>5, <2>1, SplitAgrees
<1>9. b[n + 1] = WithLine(b[n], g, n + 1)
  <2>1. \A l \in 1..n + 1 : b[l] = WithLine(b[l - 1], g, l) BY <1>3, <1>5, SplitSteps
  <2>2. n + 1 \in 1..n + 1 /\ (n + 1) - 1 = n OBVIOUS
  <2>3. QED BY <2>1, <2>2
<1>10. a[n] \in Pieces
  <2>1. n \in 0..Len(f) /\ n \in 0..n BY <1>2
  <2>2. a \in [0..n -> Pieces] BY <1>4, <2>1, SplitType
  <2>3. QED BY <2>1, <2>2
<1>11. QED BY <1>1, <1>2, <1>6, <1>7, <1>8, <1>9, <1>10

(* A line behind the end leaves the places of the statements.              *)
LEMMA StatementsStay ==
    ASSUME NEW f \in Seq(Line), NEW p \in Line, NEW k \in SqlPlaces(f)
    PROVE  k \in SqlPlaces(Append(f, p))
<1>1. PICK g \in Seq(Line) : g = Append(f, p)
  <2>1. Append(f, p) \in Seq(Line) OBVIOUS
  <2>2. QED BY <2>1
<1>2. PICK D \in Seq(Seq(Token)), C \in Seq(Token) : Split(f) = [done |-> D, current |-> C]
  BY SplitAppend DEF Pieces
<1>3. PICK l \in DOMAIN g : l = Len(f) + 1 BY <1>1
<1>4. Split(g) = WithLine([done |-> D, current |-> C], g, l) BY <1>1, <1>2, <1>3, SplitAppend
<1>5. PICK line \in Seq(Token) : line = Tokens(g, l) BY LineFacts
<1>6. PICK d \in Nat : d = Len(D) OBVIOUS
<1>7. \/ k \in 1..d /\ D[k] # <<>>
      \/ k = d + 1 /\ C # <<>>
  <2>1. Statements(f) = IF C = <<>> THEN D ELSE Append(D, C) BY <1>2 DEF Statements
  <2>2. k \in DOMAIN Statements(f) /\ Statements(f)[k] # <<>> BY DEF SqlPlaces
  <2>3. CASE C = <<>> BY <1>6, <2>1, <2>2, <2>3
  <2>4. CASE C # <<>>
    <3>1. Statements(f) = Append(D, C) BY <2>1, <2>4
    <3>2. k \in 1..d + 1 /\ (k # d + 1 => k \in 1..d /\ D[k] = Append(D, C)[k])
      BY <1>6, <2>2, <3>1
    <3>3. QED BY <2>2, <2>4, <3>1, <3>2
  <2>5. QED BY <2>3, <2>4
<1>8. ASSUME NEW x \in Seq(Token), C # <<>> PROVE C \o x # <<>>
  <2>1. Len(C) \in Nat \ {0} /\ Len(x) \in Nat BY <1>8
  <2>2. Len(C \o x) = Len(C) + Len(x) OBVIOUS
  <2>3. Len(C \o x) # 0 BY <2>1, <2>2
  <2>4. QED BY <2>3
<1>9. CASE Semicolons(g, l) = {}
  <2>1. PICK e \in Seq(Token) : e = C \o line
    <3>1. C \o line \in Seq(Token) OBVIOUS
    <3>2. QED BY <3>1
  <2>2. Split(g) = [done |-> D, current |-> e] BY <1>4, <1>5, <1>9, <2>1 DEF WithLine
  <2>3. Statements(g) = IF e = <<>> THEN D ELSE Append(D, e) BY <2>2 DEF Statements
  <2>4. C # <<>> => e # <<>> BY <1>8, <2>1
  <2>5. k \in DOMAIN Statements(g) /\ Statements(g)[k] # <<>>
    BY <1>6, <1>7, <2>3, <2>4
  <2>6. QED BY <1>1, <2>5 DEF SqlPlaces
<1>10. CASE Semicolons(g, l) # {}
  <2> DEFINE cut == FirstOf(Semicolons(g, l))
  <2>1. PICK x \in Seq(Token) : x = SubSeq(line, 1, cut - 1)
    <3>1. DOMAIN line = 1..Len(line) OBVIOUS
    <3>2. cut \in 1..Len(line) BY <1>5, <1>10, <3>1, LineFacts
    <3> HIDE DEF cut
    <3>3. SubSeq(line, 1, cut - 1) \in Seq(Token) BY <3>2
    <3>4. QED BY <3>3
  <2>2. PICK r \in Seq(Token) : r = Rest(line, cut)
    <3>1. DOMAIN line = 1..Len(line) OBVIOUS
    <3>2. cut \in 1..Len(line) BY <1>5, <1>10, <3>1, LineFacts
    <3> HIDE DEF cut
    <3>3. SubSeq(line, cut + 1, Len(line)) \in Seq(Token) BY <3>2
    <3>4. QED BY <3>3 DEF Rest
  <2>3. PICK e \in Seq(Token) : e = C \o x
    <3>1. C \o x \in Seq(Token) OBVIOUS
    <3>2. QED BY <3>1
  <2>4. Split(g) = [done |-> Append(D, e), current |-> r]
    BY <1>4, <1>5, <1>10, <2>1, <2>2, <2>3 DEF WithLine
  <2>5. Statements(g) = IF r = <<>> THEN Append(D, e) ELSE Append(Append(D, e), r)
    BY <2>4 DEF Statements
  <2>6. C # <<>> => e # <<>> BY <1>8, <2>3
  <2>7. k \in DOMAIN Append(D, e) /\ Append(D, e)[k] # <<>> BY <1>6, <1>7, <2>6
  <2>8. k \in DOMAIN Append(Append(D, e), r) /\ Append(Append(D, e), r)[k] = Append(D, e)[k]
    BY <2>7
  <2>9. k \in DOMAIN Statements(g) /\ Statements(g)[k] # <<>> BY <2>5, <2>7, <2>8
  <2>10. QED BY <1>1, <2>9 DEF SqlPlaces
<1>11. QED BY <1>9, <1>10

-----------------------------------------------------------------------------
(* A definition keeps its place and its number when a part comes behind    *)
(* all of them.                                                            *)
LEMMA PythonStays ==
    ASSUME NEW f \in Seq(Node), NEW x \in Node, NEW p \in Places(f)
    PROVE  /\ p \in Places(Append(f, x))
           /\ PythonId(Append(f, x), p) = PythonId(f, p)
<1>1. PICK g \in Seq(Node) : g = Append(f, x)
  <2>1. Append(f, x) \in Seq(Node) OBVIOUS
  <2>2. QED BY <2>1
<1>2. /\ DOMAIN f \subseteq DOMAIN g /\ \A n \in DOMAIN f : g[n] = f[n]
      /\ \A n \in DOMAIN g : n \notin DOMAIN f => \A m \in DOMAIN f : m < n
  BY <1>1
<1>3. \A q : q[1] \in DOMAIN f => (q \in Places(g) <=> q \in Places(f))
  <2>1. \A q : q[1] \in DOMAIN f => (q \in Methods(g) <=> q \in Methods(f))
    BY <1>2 DEF Methods
  <2>2. \A q : q[1] \in DOMAIN f =>
            (q \in Definitions(g) \X {0} <=> q \in Definitions(f) \X {0})
    BY <1>2 DEF Definitions
  <2>3. QED BY <2>1, <2>2 DEF Places
<1>4. p[1] \in DOMAIN f /\ p[2] \in Nat BY PlaceFacts
<1>5. Start(g, p[1]) = Start(f, p[1])
  <2>1. \A q \in Places(g) : q[1] \in DOMAIN g /\ q[1] \in Int BY PlaceFacts
  <2>2. \A q \in Places(f) : q[1] \in DOMAIN f BY PlaceFacts
  <2>3. \A q \in Places(g) : q[1] < p[1] => q[1] \in DOMAIN f
    <3>1. \A m \in DOMAIN f : m \in Int OBVIOUS
    <3>2. QED BY <1>2, <1>4, <2>1, <3>1
  <2>4. {q \in Places(g) : q[1] < p[1]} = {q \in Places(f) : q[1] < p[1]}
    BY <1>3, <2>2, <2>3
  <2>5. QED BY <2>4 DEF Start
<1>6. g[p[1]] = f[p[1]] BY <1>2, <1>4
<1>7. PythonId(g, p) = PythonId(f, p) BY <1>5, <1>6 DEF PythonId, MethodId
<1>8. QED BY <1>1, <1>3, <1>4, <1>7

LEMMA YamlStays ==
    ASSUME NEW f \in Seq(TaskIds), NEW x \in TaskIds, NEW slo, NEW k \in YamlPlaces(f, slo)
    PROVE  /\ k \in YamlPlaces(Append(f, x), slo)
           /\ YamlId(Append(f, x), k) = YamlId(f, k)
<1>1. PICK g \in Seq(TaskIds) : g = Append(f, x)
  <2>1. Append(f, x) \in Seq(TaskIds) OBVIOUS
  <2>2. QED BY <2>1
<1>2. Len(f) \in Nat /\ Len(g) = Len(f) + 1 /\ \A n \in 1..Len(f) : g[n] = f[n] BY <1>1
<1>3. k \in 0..Len(f) \/ (k = -1 /\ slo) BY DEF YamlPlaces
<1>4. k \in YamlPlaces(g, slo) BY <1>2, <1>3 DEF YamlPlaces
<1>5. k \in {0, -1} \/ k \in 1..Len(f) BY <1>2, <1>3
<1>6. YamlId(g, k) = YamlId(f, k)
  <2>1. CASE k \in {0, -1} BY <2>1 DEF YamlId
  <2>2. CASE k \in 1..Len(f)
    <3>1. g[k] = f[k] /\ k # 0 /\ k # -1 BY <1>2, <2>2
    <3>2. TaskId(g, k) = TaskId(f, k) BY <3>1 DEF TaskId
    <3>3. QED BY <3>1, <3>2 DEF YamlId
  <2>3. QED BY <1>5, <2>1, <2>2
<1>7. QED BY <1>1, <1>4, <1>6

LEMMA MarkdownStays ==
    ASSUME NEW f \in Seq(0..MaxLength), NEW x \in 0..MaxLength, NEW p \in MarkdownPlaces(f)
    PROVE  p \in MarkdownPlaces(Append(f, x))
<1>1. PICK g \in Seq(0..MaxLength) : g = Append(f, x)
  <2>1. Append(f, x) \in Seq(0..MaxLength) OBVIOUS
  <2>2. QED BY <2>1
<1>2. Len(f) \in Nat /\ Len(g) = Len(f) + 1 /\ \A n \in 1..Len(f) : g[n] = f[n] BY <1>1
<1>3. p \in (2..Len(f)) \X (0..MaxLength) /\ p[2] \in Windows(f[p[1]]) BY DEF MarkdownPlaces
<1>4. p[1] \in 1..Len(f) /\ p \in (2..Len(g)) \X (0..MaxLength) BY <1>2, <1>3
<1>5. QED BY <1>1, <1>2, <1>3, <1>4 DEF MarkdownPlaces

(* Text that is added at the end of a file leaves every chunk its id, once *)
(* the file has left the time of the single chunk.                         *)
THEOREM OldIdsStay == FilesSpec => AppendKeepsIds
<1>1. FilesTypeOK /\ [FilesNext]_file => [KeepsIds]_file
  <2> SUFFICES ASSUME FilesTypeOK, FilesNext, Len(parts') > Len(parts), ~IsOneChunk(file),
                      NEW p \in PlacesOf(file)
               PROVE  p \in PlacesOf(file') /\ IdOf(file', p) = IdOf(file, p)
    BY DEF KeepsIds
  <2>1. CASE Edit
    <3>1. PICK i \in DOMAIN parts, x \in PartsOf[file.lang] :
              file' = [file EXCEPT !.parts[i] = x]
      BY <2>1 DEF Edit
    <3>2. parts' = [parts EXCEPT ![i] = x] BY <3>1 DEF FilesTypeOK, parts
    <3>3. Len(parts') = Len(parts) /\ Len(parts) \in Nat BY <3>2 DEF FilesTypeOK
    <3>4. QED BY <3>3
  <2>2. CASE Extend
    <3>1. PICK x \in PartsOf[file.lang] : file' = [file EXCEPT !.parts = Append(@, x)]
      BY <2>2 DEF Extend
    <3>2. PICK d, e : d = file /\ e = file' OBVIOUS
    <3>3. /\ e.lang = d.lang /\ e.slo = d.slo /\ e.parts = Append(d.parts, x)
          /\ d.parts \in Seq(PartsOf[d.lang]) /\ x \in PartsOf[d.lang]
          /\ ~IsOneChunk(d) /\ p \in PlacesOf(d)
      BY <3>1, <3>2 DEF FilesTypeOK, parts
    <3>4. d.lang \in {"python", "yaml", "markdown", "sql"}
      BY <3>2 DEF FilesTypeOK, PartsOf
    <3>5. CASE d.lang = "python"
      <4>1. d.parts \in Seq(Node) /\ x \in Node BY <3>3, <3>5 DEF PartsOf
      <4>2. p \in Places(d.parts) /\ IdOf(d, p) = PythonId(d.parts, p)
        BY <3>3, <3>5 DEF PlacesOf, IdOf
      <4>3. /\ p \in Places(e.parts)
            /\ PythonId(e.parts, p) = PythonId(d.parts, p)
        BY <3>3, <4>1, <4>2, PythonStays
      <4>4. ~IsOneChunk(e) BY <3>3, <3>5, <4>3 DEF IsOneChunk
      <4>5. PlacesOf(e) = Places(e.parts) /\ IdOf(e, p) = PythonId(e.parts, p)
        BY <3>3, <3>5, <4>4 DEF PlacesOf, IdOf
      <4>6. QED BY <3>2, <4>2, <4>3, <4>5
    <3>6. CASE d.lang = "yaml"
      <4>1. d.parts \in Seq(TaskIds) /\ x \in TaskIds BY <3>3, <3>6 DEF PartsOf
      <4>2. p \in YamlPlaces(d.parts, d.slo) /\ IdOf(d, p) = YamlId(d.parts, p)
        BY <3>3, <3>6 DEF PlacesOf, IdOf
      <4>3. /\ p \in YamlPlaces(e.parts, d.slo)
            /\ YamlId(e.parts, p) = YamlId(d.parts, p)
        BY <3>3, <4>1, <4>2, YamlStays
      <4>4. ~IsOneChunk(e) BY <3>3, <3>6 DEF IsOneChunk
      <4>5. PlacesOf(e) = YamlPlaces(e.parts, d.slo) /\ IdOf(e, p) = YamlId(e.parts, p)
        BY <3>3, <3>6, <4>4 DEF PlacesOf, IdOf
      <4>6. QED BY <3>2, <4>2, <4>3, <4>5
    <3>7. CASE d.lang = "markdown"
      <4>1. d.parts \in Seq(0..MaxLength) /\ x \in 0..MaxLength BY <3>3, <3>7 DEF PartsOf
      <4>2. p \in MarkdownPlaces(d.parts) /\ IdOf(d, p) = p
        BY <3>3, <3>7 DEF PlacesOf, IdOf
      <4>3. p \in MarkdownPlaces(e.parts) BY <3>3, <4>1, <4>2, MarkdownStays
      <4>4. ~IsOneChunk(e)
        <5>1. p[1] \in 2..Len(d.parts) BY <4>2 DEF MarkdownPlaces
        <5>2. Len(d.parts) \in Nat /\ Len(e.parts) = Len(d.parts) + 1 BY <3>3
        <5>3. Len(e.parts) # 1 BY <5>1, <5>2
        <5>4. QED BY <3>3, <3>7, <5>3 DEF IsOneChunk
      <4>5. PlacesOf(e) = MarkdownPlaces(e.parts) /\ IdOf(e, p) = p
        BY <3>3, <3>7, <4>4 DEF PlacesOf, IdOf
      <4>6. QED BY <3>2, <4>2, <4>3, <4>5
    <3>8. CASE d.lang = "sql"
      <4>1. d.parts \in Seq(Line) /\ x \in Line BY <3>3, <3>8 DEF PartsOf
      <4>2. p \in SqlPlaces(d.parts) /\ IdOf(d, p) = <<p>>
        BY <3>3, <3>8 DEF PlacesOf, IdOf
      <4>3. p \in SqlPlaces(e.parts) BY <3>3, <4>1, <4>2, StatementsStay
      <4>4. ~IsOneChunk(e) BY <3>3, <3>8 DEF IsOneChunk
      <4>5. PlacesOf(e) = SqlPlaces(e.parts) /\ IdOf(e, p) = <<p>>
        BY <3>3, <3>8, <4>4 DEF PlacesOf, IdOf
      <4>6. QED BY <3>2, <4>2, <4>3, <4>5
    <3>9. QED BY <3>4, <3>5, <3>6, <3>7, <3>8
  <2>3. QED BY <2>1, <2>2 DEF FilesNext
<1>2. QED BY <1>1, FilesTypeCorrect, PTL DEF FilesSpec, AppendKeepsIds
-----------------------------------------------------------------------------
(* Where the text of a SQL file goes: token k of line l to the statement   *)
(* whose number counts the lines before it that end one, and its own line  *)
(* if the token is behind the semicolon at which the line is cut.          *)
LEMMA Concatenation ==
    ASSUME NEW S, NEW s \in Seq(S), NEW t \in Seq(S)
    PROVE  /\ s \o t \in Seq(S) /\ Len(s \o t) = Len(s) + Len(t)
           /\ \A i \in 1..Len(s) : (s \o t)[i] = s[i]
           /\ \A k \in 1..Len(t) : (s \o t)[Len(s) + k] = t[k]
OBVIOUS

LEMMA MarksJoin ==
    ASSUME NEW s \in Seq(Token), NEW t \in Seq(Token)
    PROVE  Marks(s \o t) = Marks(s) \union Marks(t)
<1> DEFINE mark(x) == <<x[1], x[2]>>
<1>1. /\ s \o t \in Seq(Token) /\ Len(s \o t) = Len(s) + Len(t)
      /\ \A i \in 1..Len(s) : (s \o t)[i] = s[i]
      /\ \A k \in 1..Len(t) : (s \o t)[Len(s) + k] = t[k]
  BY Concatenation
<1>2. PICK u \in Seq(Token) : u = s \o t BY <1>1
<1>3. PICK m \in Nat, n \in Nat : /\ m = Len(s) /\ n = Len(t) /\ DOMAIN s = 1..m /\ DOMAIN t = 1..n
                                  /\ DOMAIN u = 1..m + n
  <2>1. Len(s) \in Nat /\ Len(t) \in Nat OBVIOUS
  <2>2. DOMAIN u = 1..Len(s) + Len(t) BY <1>1, <1>2
  <2>3. DOMAIN s = 1..Len(s) /\ DOMAIN t = 1..Len(t) OBVIOUS
  <2>4. QED BY <2>1, <2>2, <2>3
<1>4. \A p : p \in Marks(u) <=> \E i \in 1..m + n : p = mark(u[i]) BY <1>3 DEF Marks
<1>5. \A p : p \in Marks(s) <=> \E i \in 1..m : p = mark(s[i]) BY <1>3 DEF Marks
<1>6. \A p : p \in Marks(t) <=> \E i \in 1..n : p = mark(t[i]) BY <1>3 DEF Marks
<1> HIDE DEF mark
<1>7. \A i \in 1..m : i \in 1..m + n /\ u[i] = s[i] BY <1>1, <1>2, <1>3
<1>8. \A k \in 1..n : m + k \in 1..m + n /\ u[m + k] = t[k] BY <1>1, <1>2, <1>3
<1>9. \A i \in 1..m + n : i \in 1..m \/ (i - m \in 1..n /\ i = m + (i - m)) BY <1>3
<1>10. ASSUME NEW i \in 1..m + n PROVE mark(u[i]) \in Marks(s) \union Marks(t)
  <2>1. CASE i \in 1..m BY <1>5, <1>7, <2>1
  <2>2. CASE i \notin 1..m
    <3>1. PICK k \in 1..n : i = m + k BY <1>9, <2>2
    <3>2. QED BY <1>6, <1>8, <3>1
  <2>3. QED BY <2>1, <2>2
<1>11. \A p : p \in Marks(u) <=> p \in Marks(s) \/ p \in Marks(t)
  BY <1>4, <1>5, <1>6, <1>7, <1>8, <1>10
<1>12. QED BY <1>2, <1>11

Whole(f, l) == {<<l, k>> : k \in DOMAIN f[l].tokens}
InFront(f, l) == {p \in Whole(f, l) : p[2] < FirstOf(Semicolons(f, l))}
Behind(f, l) == {p \in Whole(f, l) : p[2] > FirstOf(Semicolons(f, l))}

LEMMA LineParts ==
    ASSUME NEW f, NEW l
    PROVE  \A p : /\ p \in Whole(f, l) <=> \E k \in DOMAIN f[l].tokens : p = <<l, k>>
                  /\ p \in InFront(f, l) <=> \E k \in DOMAIN f[l].tokens :
                         p = <<l, k>> /\ k < FirstOf(Semicolons(f, l))
                  /\ p \in Behind(f, l) <=> \E k \in DOMAIN f[l].tokens :
                         p = <<l, k>> /\ k > FirstOf(Semicolons(f, l))
BY DEF Whole, InFront, Behind

LEMMA LineMarks ==
    ASSUME NEW f \in Seq(Line), NEW l \in DOMAIN f
    PROVE  LET line == Tokens(f, l)
               cut == FirstOf(Semicolons(f, l))
           IN  /\ Marks(line) = Whole(f, l)
               /\ Semicolons(f, l) # {} =>
                     /\ Marks(SubSeq(line, 1, cut - 1))
                            = InFront(f, l)
                     /\ Marks(SubSeq(line, cut + 1, Len(line)))
                            = Behind(f, l)
<1> DEFINE cut == FirstOf(Semicolons(f, l))
<1>1. PICK line \in Seq(Token) : line = Tokens(f, l) BY LineFacts
<1>2. DOMAIN line = DOMAIN f[l].tokens /\ \A k \in DOMAIN line : line[k] = <<l, k, f[l].tokens[k]>>
  BY <1>1, LineFacts
<1>3. \A k \in DOMAIN line : <<line[k][1], line[k][2]>> = <<l, k>> BY <1>2
<1>4. PICK n \in Nat : n = Len(line) /\ DOMAIN line = 1..n OBVIOUS
<1>5. Marks(line) = {<<l, k>> : k \in DOMAIN line} BY <1>3 DEF Marks
<1>6. ASSUME Semicolons(f, l) # {}
      PROVE  /\ Marks(SubSeq(line, 1, cut - 1)) = {<<l, k>> : k \in {i \in DOMAIN line : i < cut}}
             /\ Marks(SubSeq(line, cut + 1, n)) = {<<l, k>> : k \in {i \in DOMAIN line : i > cut}}
  <2>1. cut \in 1..n BY <1>1, <1>2, <1>4, <1>6, LineFacts
  <2> HIDE DEF cut
  <2>2. PICK a : a = SubSeq(line, 1, cut - 1) OBVIOUS
  <2>3. DOMAIN a = 1..cut - 1 /\ \A k \in 1..cut - 1 : a[k] = line[k] BY <1>4, <2>1, <2>2
  <2>4. 1..cut - 1 = {i \in DOMAIN line : i < cut} BY <1>4, <2>1
  <2>5. \A k \in DOMAIN a : <<a[k][1], a[k][2]>> = <<l, k>> BY <1>3, <2>3, <2>4
  <2>6. Marks(a) = {<<l, k>> : k \in {i \in DOMAIN line : i < cut}} BY <2>3, <2>4, <2>5 DEF Marks
  <2>7. PICK b : b = SubSeq(line, cut + 1, n) OBVIOUS
  <2>8. DOMAIN b = 1..n - cut /\ \A k \in 1..n - cut : b[k] = line[cut + k] BY <1>4, <2>1, <2>7
  <2>9. \A k \in 1..n - cut : cut + k \in {i \in DOMAIN line : i > cut} BY <1>4, <2>1
  <2>10. \A i \in {i \in DOMAIN line : i > cut} : i - cut \in 1..n - cut /\ i = cut + (i - cut)
    BY <1>4, <2>1
  <2>11. \A k \in DOMAIN b : <<b[k][1], b[k][2]>> = <<l, cut + k>> BY <1>3, <2>8, <2>9
  <2>12. Marks(b) = {<<l, cut + k>> : k \in 1..n - cut} BY <2>8, <2>11 DEF Marks
  <2>13. Marks(b) = {<<l, k>> : k \in {i \in DOMAIN line : i > cut}} BY <2>9, <2>10, <2>12
  <2>14. QED BY <2>2, <2>6, <2>7, <2>13
<1>7. Marks(line) = Whole(f, l) BY <1>2, <1>5, LineParts
<1>8. Semicolons(f, l) # {} => Marks(SubSeq(line, 1, cut - 1)) = InFront(f, l)
                              /\ Marks(SubSeq(line, cut + 1, n)) = Behind(f, l)
  <2>1. InFront(f, l) = {<<l, k>> : k \in {i \in DOMAIN line : i < cut}} BY <1>2, LineParts
  <2>2. Behind(f, l) = {<<l, k>> : k \in {i \in DOMAIN line : i > cut}} BY <1>2, LineParts
  <2>3. QED BY <1>6, <2>1, <2>2
<1>9. QED BY <1>1, <1>4, <1>7, <1>8

KeptText(f) ==
    {p \in Nat \X Nat :
        /\ p[1] \in DOMAIN f /\ p[2] \in DOMAIN f[p[1]].tokens
        /\ ~(Semicolons(f, p[1]) # {} /\ p[2] = FirstOf(Semicolons(f, p[1])))}
IsBehindCut(f, p) == Semicolons(f, p[1]) # {} /\ p[2] > FirstOf(Semicolons(f, p[1]))
StatementOf(f, after, p) == Len(after[p[1] - 1].done) + (IF IsBehindCut(f, p) THEN 1 ELSE 0)
Piece(x, n) == IF n <= Len(x.done) THEN x.done[n] ELSE x.current

Adds(f, l, before, after, c) ==
    /\ \A n \in 1..c : Piece(after, n) = Piece(before, n)
    /\ Semicolons(f, l) = {} =>
          /\ Len(after.done) = c
          /\ Marks(Piece(after, c + 1)) = Marks(Piece(before, c + 1)) \union Whole(f, l)
    /\ Semicolons(f, l) # {} =>
          /\ Len(after.done) = c + 1
          /\ Marks(Piece(after, c + 1)) = Marks(Piece(before, c + 1)) \union InFront(f, l)
          /\ Marks(Piece(after, c + 2)) = Behind(f, l)

LEMMA LineAdds ==
    ASSUME NEW f \in Seq(Line), NEW l \in DOMAIN f, NEW before \in Pieces, NEW c \in Nat,
           c = Len(before.done)
    PROVE  Adds(f, l, before, WithLine(before, f, l), c)
<1> DEFINE cut == FirstOf(Semicolons(f, l))
<1>1. PICK D \in Seq(Seq(Token)), C \in Seq(Token) : before.done = D /\ before.current = C
  BY DEF Pieces
<1>2. PICK line \in Seq(Token) : line = Tokens(f, l) BY LineFacts
<1>3. DOMAIN D = 1..c /\ Len(D) = c BY <1>1
<1>4. Piece(before, c + 1) = C /\ \A n \in 1..c : Piece(before, n) = D[n]
  <2>1. ~(c + 1 <= c) /\ \A n \in 1..c : n <= c OBVIOUS
  <2>2. QED BY <1>1, <1>3, <2>1 DEF Piece
<1>5. CASE Semicolons(f, l) = {}
  <2>1. PICK e \in Seq(Token) : e = C \o line
    <3>1. C \o line \in Seq(Token) OBVIOUS
    <3>2. QED BY <3>1
  <2>2. WithLine(before, f, l) = [done |-> D, current |-> e]
    BY <1>1, <1>2, <1>5, <2>1 DEF WithLine
  <2>3. /\ Piece([done |-> D, current |-> e], c + 1) = e
        /\ \A n \in 1..c : Piece([done |-> D, current |-> e], n) = D[n]
    <3>1. ~(c + 1 <= c) /\ \A n \in 1..c : n <= c OBVIOUS
    <3>2. QED BY <1>3, <3>1 DEF Piece
  <2>4. Marks(e) = Marks(C) \union Marks(line) BY <2>1, MarksJoin
  <2>5. Marks(line) = Whole(f, l) BY <1>2, LineMarks
  <2>6. QED BY <1>3, <1>4, <1>5, <2>2, <2>3, <2>4, <2>5 DEF Adds
<1>6. CASE Semicolons(f, l) # {}
  <2>0. cut \in 1..Len(line)
    <3>1. DOMAIN line = 1..Len(line) OBVIOUS
    <3>2. QED BY <1>2, <1>6, <3>1, LineFacts
  <2>1. PICK x \in Seq(Token) : x = SubSeq(line, 1, cut - 1)
    <3> HIDE DEF cut
    <3>1. SubSeq(line, 1, cut - 1) \in Seq(Token) BY <2>0
    <3>2. QED BY <3>1
  <2>2. PICK r \in Seq(Token) : r = SubSeq(line, cut + 1, Len(line))
    <3> HIDE DEF cut
    <3>1. SubSeq(line, cut + 1, Len(line)) \in Seq(Token) BY <2>0
    <3>2. QED BY <3>1
  <2>3. PICK e \in Seq(Token) : e = C \o x
    <3>1. C \o x \in Seq(Token) OBVIOUS
    <3>2. QED BY <3>1
  <2>4. WithLine(before, f, l) = [done |-> Append(D, e), current |-> r]
    BY <1>1, <1>2, <1>6, <2>1, <2>2, <2>3 DEF WithLine, Rest
  <2>5. Len(Append(D, e)) = c + 1 /\ Append(D, e)[c + 1] = e
        /\ \A n \in 1..c : Append(D, e)[n] = D[n]
    BY <1>3
  <2>6. /\ Piece([done |-> Append(D, e), current |-> r], c + 2) = r
        /\ Piece([done |-> Append(D, e), current |-> r], c + 1) = e
        /\ \A n \in 1..c : Piece([done |-> Append(D, e), current |-> r], n) = D[n]
    <3>1. ~(c + 2 <= c + 1) /\ c + 1 <= c + 1 /\ \A n \in 1..c : n <= c + 1 OBVIOUS
    <3>2. QED BY <2>5, <3>1 DEF Piece
  <2>7. Marks(e) = Marks(C) \union Marks(x) BY <2>3, MarksJoin
  <2>8. /\ Marks(x) = InFront(f, l)
        /\ Marks(r) = Behind(f, l)
    BY <1>2, <1>6, <2>1, <2>2, LineMarks
  <2> HIDE DEF cut
  <2>9. /\ Piece(WithLine(before, f, l), c + 2) = r /\ Piece(WithLine(before, f, l), c + 1) = e
        /\ \A n \in 1..c : Piece(WithLine(before, f, l), n) = Piece(before, n)
        /\ Len(WithLine(before, f, l).done) = c + 1
    <3>1. WithLine(before, f, l).done = Append(D, e) BY <2>4
    <3>2. Len(WithLine(before, f, l).done) = c + 1 BY <2>5, <3>1
    <3>3. \A n \in 1..c : Piece(WithLine(before, f, l), n) = Piece(before, n)
      BY <1>4, <2>4, <2>6
    <3>4. QED BY <2>4, <2>6, <3>2, <3>3
  <2>10. Marks(e) = Marks(Piece(before, c + 1)) \union InFront(f, l)
    BY <1>4, <2>7, <2>8
  <2>11. QED BY <1>6, <2>8, <2>9, <2>10 DEF Adds
<1>7. QED BY <1>5, <1>6

RightUpTo(f, after, l) ==
    /\ \A p \in KeptText(f) :
          p[1] <= l => /\ StatementOf(f, after, p) \in Nat
                       /\ StatementOf(f, after, p) <= Len(after[l].done)
    /\ \A n \in 1..Len(after[l].done) + 1 :
          Marks(Piece(after[l], n)) = {p \in KeptText(f) :
                                          p[1] <= l /\ StatementOf(f, after, p) = n - 1}

LEMMA KeptOfLine ==
    ASSUME NEW f \in Seq(Line), NEW l \in DOMAIN f
    PROVE  LET kept == {p \in KeptText(f) : p[1] = l}
           IN  /\ Semicolons(f, l) = {} =>
                     /\ kept = Whole(f, l)
                     /\ \A p \in kept : ~IsBehindCut(f, p)
               /\ Semicolons(f, l) # {} =>
                     /\ {p \in kept : ~IsBehindCut(f, p)} = InFront(f, l)
                     /\ {p \in kept : IsBehindCut(f, p)} = Behind(f, l)
<1> DEFINE kept == {p \in KeptText(f) : p[1] = l}
           cut == FirstOf(Semicolons(f, l))
<1>1. PICK n \in Nat : f[l].tokens \in [1..n -> {"text", ";"}] BY LineFacts
<1>2. l \in Nat /\ DOMAIN f[l].tokens = 1..n
  <2>1. l \in Nat OBVIOUS
  <2>2. QED BY <1>1, <2>1
<1>3. \A p : p \in kept <=> \E k \in 1..n : p = <<l, k>> /\ ~(Semicolons(f, l) # {} /\ k = cut)
  <2>1. ASSUME NEW p \in kept
        PROVE  \E k \in 1..n : p = <<l, k>> /\ ~(Semicolons(f, l) # {} /\ k = cut)
    <3>1. p \in Nat \X Nat /\ p[1] = l /\ p[2] \in 1..n /\ ~(Semicolons(f, l) # {} /\ p[2] = cut)
      BY <1>2 DEF KeptText
    <3>2. p = <<l, p[2]>> BY <3>1
    <3>3. QED BY <3>1, <3>2
  <2>2. ASSUME NEW k \in 1..n, ~(Semicolons(f, l) # {} /\ k = cut)
        PROVE  <<l, k>> \in kept
    <3>1. k \in Nat OBVIOUS
    <3>2. <<l, k>> \in Nat \X Nat /\ <<l, k>>[1] = l /\ <<l, k>>[2] = k BY <1>2, <3>1
    <3>3. QED BY <1>2, <2>2, <3>2 DEF KeptText
  <2>3. QED BY <2>1, <2>2
<1> HIDE DEF kept
<1>4. \A k : IsBehindCut(f, <<l, k>>) <=> Semicolons(f, l) # {} /\ k > cut BY DEF IsBehindCut
<1>5. CASE Semicolons(f, l) = {}
  <2>1. \A p : p \in kept <=> p \in Whole(f, l) BY <1>2, <1>3, <1>5, LineParts
  <2>2. \A p \in kept : p[1] = l BY DEF kept
  <2>3. \A p \in kept : ~IsBehindCut(f, p) BY <1>5, <2>2 DEF IsBehindCut
  <2>4. QED BY <1>5, <2>1, <2>3 DEF kept
<1>6. CASE Semicolons(f, l) # {}
  <2>1. cut \in 1..n BY <1>2, <1>6, LineFacts
  <2> HIDE DEF cut
  <2>2. \A k \in 1..n : k # cut <=> k < cut \/ k > cut BY <2>1
  <2>3. \A k \in 1..n : k < cut => ~(k > cut) BY <2>1
  <2>4. \A p : p \in {q \in kept : ~IsBehindCut(f, q)} <=> \E k \in 1..n : p = <<l, k>> /\ k < cut
    BY <1>3, <1>4, <1>6, <2>2, <2>3
  <2>5. \A p : p \in {q \in kept : IsBehindCut(f, q)} <=> \E k \in 1..n : p = <<l, k>> /\ k > cut
    BY <1>3, <1>4, <1>6, <2>2, <2>3
  <2>6. \A p : p \in InFront(f, l) <=> \E k \in 1..n : p = <<l, k>> /\ k < cut
    BY <1>2, LineParts DEF cut
  <2>7. \A p : p \in Behind(f, l) <=> \E k \in 1..n : p = <<l, k>> /\ k > cut
    BY <1>2, LineParts DEF cut
  <2>8. {q \in kept : ~IsBehindCut(f, q)} = InFront(f, l) BY <2>4, <2>6
  <2>9. {q \in kept : IsBehindCut(f, q)} = Behind(f, l) BY <2>5, <2>7
  <2>10. QED BY <1>6, <2>8, <2>9 DEF kept
<1>7. QED BY <1>5, <1>6

LEMMA NextLine ==
    ASSUME NEW f \in Seq(Line), NEW after, NEW l \in DOMAIN f, after[l - 1] \in Pieces,
           after[l] = WithLine(after[l - 1], f, l), RightUpTo(f, after, l - 1)
    PROVE  RightUpTo(f, after, l)
<1> DEFINE S(p) == StatementOf(f, after, p)
           old(n) == {p \in KeptText(f) : p[1] <= l - 1 /\ S(p) = n - 1}
           kept == {p \in KeptText(f) : p[1] = l}
           marks(n) == Marks(Piece(after[l], n))
<1>0. l \in Nat /\ l - 1 \in Nat OBVIOUS
<1>1. PICK c \in Nat : c = Len(after[l - 1].done)
  <2>1. after[l - 1].done \in Seq(Seq(Token)) BY DEF Pieces
  <2>2. QED BY <2>1
<1>2. /\ \A p \in KeptText(f) : p[1] <= l - 1 => S(p) \in Nat /\ S(p) <= c
      /\ \A n \in 1..c + 1 : Marks(Piece(after[l - 1], n)) = old(n)
  BY <1>1 DEF RightUpTo
<1>3. \A p \in KeptText(f) : p[1] \in Int BY DEF KeptText
<1>4. \A p \in KeptText(f) : p[1] <= l <=> p[1] <= l - 1 \/ p[1] = l BY <1>0, <1>3
<1>5. \A p \in kept : S(p) = IF IsBehindCut(f, p) THEN c + 1 ELSE c
  <2> TAKE p \in kept
  <2>1. p[1] - 1 = l - 1 OBVIOUS
  <2>2. Len(after[p[1] - 1].done) = c BY <1>1, <2>1
  <2>3. S(p) = c + (IF IsBehindCut(f, p) THEN 1 ELSE 0) BY <2>2 DEF StatementOf
  <2>4. QED BY <2>3
<1>6. \A n : {p \in KeptText(f) : p[1] <= l /\ S(p) = n - 1}
               = old(n) \union {p \in kept : S(p) = n - 1}
  BY <1>4
<1>7. Adds(f, l, after[l - 1], after[l], c) BY <1>1, LineAdds
<1>8. \A n \in 1..c : marks(n) = old(n)
  <2>1. \A n \in 1..c : Piece(after[l], n) = Piece(after[l - 1], n) BY <1>7 DEF Adds
  <2>2. \A n \in 1..c : n \in 1..c + 1 OBVIOUS
  <2>3. QED BY <1>2, <2>1, <2>2
<1>9. CASE Semicolons(f, l) = {}
  <2>1. Len(after[l].done) = c /\ marks(c + 1) = old(c + 1) \union kept
    <3>1. /\ Len(after[l].done) = c
          /\ marks(c + 1) = Marks(Piece(after[l - 1], c + 1))
                               \union Whole(f, l)
      BY <1>9, <1>7 DEF Adds
    <3>2. kept = Whole(f, l) BY <1>9, KeptOfLine
    <3>3. c + 1 \in 1..c + 1 OBVIOUS
    <3>4. QED BY <1>2, <3>1, <3>2, <3>3
  <2>2. \A p \in kept : S(p) = c
    <3>1. \A p \in kept : ~IsBehindCut(f, p) BY <1>9, KeptOfLine
    <3>2. QED BY <1>5, <3>1
  <2> HIDE DEF S, marks, old, kept
  <2>3. \A n \in 1..c : {p \in kept : S(p) = n - 1} = {} BY <2>2
  <2>4. {p \in kept : S(p) = (c + 1) - 1} = kept BY <2>2
  <2>5. \A n \in 1..c + 1 : n \in 1..c \/ n = c + 1 OBVIOUS
  <2>6. \A n \in 1..c + 1 : marks(n) = old(n) \union {p \in kept : S(p) = n - 1}
    BY <1>8, <2>1, <2>3, <2>4, <2>5
  <2>7. \A p \in KeptText(f) : p[1] <= l => S(p) \in Nat /\ S(p) <= c
    BY <1>2, <1>4, <2>2 DEF kept
  <2>8. QED BY <1>6, <2>1, <2>6, <2>7 DEF RightUpTo, S, marks
<1>10. CASE Semicolons(f, l) # {}
  <2> DEFINE behind == {p \in kept : IsBehindCut(f, p)}
             inFront == {p \in kept : ~IsBehindCut(f, p)}
  <2>1. /\ Len(after[l].done) = c + 1
        /\ marks(c + 1) = old(c + 1) \union inFront
        /\ marks(c + 2) = behind
    <3>1. /\ Len(after[l].done) = c + 1
          /\ marks(c + 1) = Marks(Piece(after[l - 1], c + 1))
                               \union InFront(f, l)
          /\ marks(c + 2) = Behind(f, l)
      BY <1>10, <1>7 DEF Adds
    <3>2. /\ inFront = InFront(f, l)
          /\ behind = Behind(f, l)
      BY <1>10, KeptOfLine
    <3>3. c + 1 \in 1..c + 1 OBVIOUS
    <3>4. QED BY <1>2, <3>1, <3>2, <3>3
  <2>2. \A p \in kept : (p \in behind => S(p) = c + 1) /\ (p \in inFront => S(p) = c)
                        /\ (p \in behind \/ p \in inFront)
    BY <1>5
  <2>3. \A p : p \in behind \/ p \in inFront => p \in kept OBVIOUS
  <2> HIDE DEF behind, inFront
  <2>4. old(c + 2) = {}
    <3>1. \A p \in KeptText(f) : p[1] <= l - 1 => S(p) # (c + 2) - 1 BY <1>2
    <3>2. QED BY <3>1
  <2> HIDE DEF S, marks, old, kept
  <2>5. \A n \in 1..c : {p \in kept : S(p) = n - 1} = {}
    <3>1. \A p \in kept : S(p) = c \/ S(p) = c + 1 BY <2>2
    <3>2. \A n \in 1..c : n - 1 # c /\ n - 1 # c + 1 OBVIOUS
    <3>3. QED BY <3>1, <3>2
  <2>6. {p \in kept : S(p) = (c + 1) - 1} = inFront BY <2>2, <2>3
  <2>7. {p \in kept : S(p) = (c + 2) - 1} = behind BY <2>2, <2>3
  <2>8. \A n \in 1..(c + 1) + 1 : n \in 1..c \/ n = c + 1 \/ n = c + 2 OBVIOUS
  <2>9. \A n \in 1..(c + 1) + 1 : marks(n) = old(n) \union {p \in kept : S(p) = n - 1}
    BY <1>8, <2>1, <2>4, <2>5, <2>6, <2>7, <2>8
  <2>10. \A p \in KeptText(f) : p[1] <= l => S(p) \in Nat /\ S(p) <= c + 1
    <3>1. \A p \in kept : S(p) \in Nat /\ S(p) <= c + 1 BY <2>2
    <3>2. \A p \in KeptText(f) : p[1] <= l - 1 => S(p) \in Nat /\ S(p) <= c + 1 BY <1>2
    <3>3. QED BY <1>4, <3>1, <3>2 DEF kept
  <2>11. QED BY <1>6, <2>1, <2>9, <2>10 DEF RightUpTo, S, marks
<1>11. QED BY <1>9, <1>10

LEMMA SplitMarks ==
    ASSUME NEW f \in Seq(Line), NEW after, IsSplit(f, Len(f), after)
    PROVE  /\ RightUpTo(f, after, Len(f))
           /\ \A l \in 0..Len(f) : Len(after[l].done) \in Nat
           /\ \A l \in DOMAIN f : Len(after[l].done) = Len(after[l - 1].done)
                                     + (IF Semicolons(f, l) # {} THEN 1 ELSE 0)
<1>1. PICK L \in Nat : L = Len(f) /\ DOMAIN f = 1..L OBVIOUS
<1>2. after \in [0..L -> Pieces]
  <2>1. L \in 0..Len(f) BY <1>1
  <2>2. QED BY <1>1, <2>1, SplitType
<1>3. after[0] = NoPieces /\ \A l \in 1..L : after[l] = WithLine(after[l - 1], f, l)
  BY <1>1, SplitSteps
<1>4. \A l \in 0..L : Len(after[l].done) \in Nat
  <2>1. \A x \in Pieces : Len(x.done) \in Nat
    <3>1. \A x \in Pieces : x.done \in Seq(Seq(Token)) BY DEF Pieces
    <3>2. QED BY <3>1
  <2>2. QED BY <1>2, <2>1
<1>5. \A l \in 1..L : l - 1 \in 0..L /\ l \in DOMAIN f BY <1>1
<1>6. ASSUME NEW l \in 1..L
      PROVE  Len(after[l].done) = Len(after[l - 1].done)
                                     + (IF Semicolons(f, l) # {} THEN 1 ELSE 0)
  <2>1. PICK c \in Nat : c = Len(after[l - 1].done) BY <1>4, <1>5
  <2>2. after[l - 1] \in Pieces /\ l \in DOMAIN f BY <1>2, <1>5
  <2>3. Adds(f, l, after[l - 1], after[l], c) BY <1>3, <2>1, <2>2, LineAdds
  <2>4. CASE Semicolons(f, l) = {} BY <2>1, <2>3, <2>4 DEF Adds
  <2>5. CASE Semicolons(f, l) # {} BY <2>1, <2>3, <2>5 DEF Adds
  <2>6. QED BY <2>4, <2>5
<1>7. RightUpTo(f, after, 0)
  <2>1. after[0].done = <<>> /\ after[0].current = <<>> BY <1>3 DEF NoPieces
  <2>2. \A p \in KeptText(f) : ~(p[1] <= 0)
    <3>1. \A i \in 1..L : ~(i <= 0) OBVIOUS
    <3>2. QED BY <1>1, <3>1 DEF KeptText
  <2>3. Len(after[0].done) = 0 BY <2>1
  <2>4. Piece(after[0], 1) = <<>>
    <3>1. ~(1 <= Len(after[0].done)) BY <2>3
    <3>2. QED BY <2>1, <3>1 DEF Piece
  <2>5. Marks(<<>>) = {} BY DEF Marks
  <2>6. \A n \in 1..0 + 1 : n = 1 OBVIOUS
  <2>7. \A n \in 1..Len(after[0].done) + 1 : Marks(Piece(after[0], n)) = {}
    BY <2>3, <2>4, <2>5, <2>6
  <2>8. QED BY <2>2, <2>7 DEF RightUpTo
<1> DEFINE Bad == {l \in 0..L : ~RightUpTo(f, after, l)}
<1>8. \A l : l \in Bad <=> l \in 0..L /\ ~RightUpTo(f, after, l) OBVIOUS
<1>9. Bad \subseteq Nat OBVIOUS
<1> HIDE DEF Bad
<1>10. CASE Bad # {}
  <2>1. PICK l \in Bad : \A k \in Bad : l <= k BY <1>9, <1>10, LeastOf
  <2>2. l \in 1..L /\ ~(l <= l - 1) BY <1>7, <1>8, <2>1
  <2>3. RightUpTo(f, after, l - 1) BY <1>5, <1>8, <2>1, <2>2
  <2>4. after[l - 1] \in Pieces /\ l \in DOMAIN f BY <1>2, <1>5, <2>2
  <2>5. RightUpTo(f, after, l) BY <1>3, <2>2, <2>3, <2>4, NextLine
  <2>6. QED BY <1>8, <2>5
<1>11. CASE Bad = {}
  <2>1. L \in 0..L OBVIOUS
  <2>2. RightUpTo(f, after, L) BY <1>8, <1>11, <2>1
  <2>3. QED BY <1>1, <1>4, <1>6, <2>2
<1>12. QED BY <1>10, <1>11

(* The chunks are the statements that are not empty.                       *)
TextOf(f, after, n) == {p \in KeptText(f) : StatementOf(f, after, p) = n - 1}

LEMMA ChunksAre ==
    ASSUME NEW f \in Seq(Line), NEW after, IsSplit(f, Len(f), after),
           NEW N \in Nat, N = Len(after[Len(f)].done)
    PROVE  /\ \A p \in KeptText(f) : StatementOf(f, after, p) \in 0..N
           /\ {Marks(Statements(f)[k]) : k \in SqlPlaces(f)}
                  = {TextOf(f, after, n) : n \in 1..N + 1} \ {{}}
<1>1. PICK L \in Nat : L = Len(f) /\ DOMAIN f = 1..L OBVIOUS
<1>2. RightUpTo(f, after, L) BY <1>1, SplitMarks
<1>3. after[L] \in Pieces
  <2>1. L \in 0..Len(f) /\ L \in 0..L BY <1>1
  <2>2. after \in [0..L -> Pieces] BY <1>1, <2>1, SplitType
  <2>3. QED BY <2>1, <2>2
<1>4. PICK D \in Seq(Seq(Token)), C \in Seq(Token) :
          after[L].done = D /\ after[L].current = C /\ Len(D) = N
  BY <1>1, <1>3 DEF Pieces
<1>5. Split(f) = after[L] BY <1>1, SplitIs
<1>6. Statements(f) = IF C = <<>> THEN D ELSE Append(D, C) BY <1>4, <1>5 DEF Statements
<1>7. \A p \in KeptText(f) : p[1] <= L
  <2>1. \A i \in 1..L : i <= L OBVIOUS
  <2>2. QED BY <1>1, <2>1 DEF KeptText
<1>8. \A p \in KeptText(f) : StatementOf(f, after, p) \in 0..N
  <2> TAKE p \in KeptText(f)
  <2>1. StatementOf(f, after, p) \in Nat /\ StatementOf(f, after, p) <= N
    BY <1>2, <1>4, <1>7 DEF RightUpTo
  <2>2. QED BY <2>1
<1> DEFINE P(n) == Piece(after[L], n)
<1>9. \A n \in 1..N + 1 : Marks(P(n)) = TextOf(f, after, n)
  <2> TAKE n \in 1..N + 1
  <2>1. Marks(P(n)) = {p \in KeptText(f) : p[1] <= L /\ StatementOf(f, after, p) = n - 1}
    BY <1>2, <1>4 DEF RightUpTo
  <2>2. QED BY <1>7, <2>1 DEF TextOf
<1>10. P(N + 1) = C /\ \A n \in 1..N : P(n) = D[n]
  <2>1. ~(N + 1 <= N) /\ \A n \in 1..N : n <= N OBVIOUS
  <2>2. QED BY <1>4, <2>1 DEF Piece
<1>11. \A n \in 1..N + 1 : P(n) \in Seq(Token)
  <2>1. \A n \in 1..N : D[n] \in Seq(Token) BY <1>4
  <2>2. \A n \in 1..N + 1 : n \in 1..N \/ n = N + 1 OBVIOUS
  <2>3. QED BY <1>10, <2>1, <2>2
<1> HIDE DEF P
<1>12. \A k : k \in SqlPlaces(f) <=> k \in 1..N + 1 /\ P(k) # <<>>
  <2>1. CASE C = <<>>
    <3>1. DOMAIN D = 1..N BY <1>4
    <3>2. SqlPlaces(f) = {k \in 1..N : D[k] # <<>>} BY <1>6, <2>1, <3>1 DEF SqlPlaces
    <3>3. \A k : k \in 1..N + 1 <=> k \in 1..N \/ k = N + 1 OBVIOUS
    <3>4. QED BY <1>10, <2>1, <3>2, <3>3
  <2>2. CASE C # <<>>
    <3>1. DOMAIN Append(D, C) = 1..N + 1 /\ Append(D, C)[N + 1] = C
          /\ \A k \in 1..N : Append(D, C)[k] = D[k]
      BY <1>4
    <3>2. SqlPlaces(f) = {k \in 1..N + 1 : Append(D, C)[k] # <<>>}
      BY <1>6, <2>2, <3>1 DEF SqlPlaces
    <3>3. \A k : k \in 1..N + 1 <=> k \in 1..N \/ k = N + 1 OBVIOUS
    <3>4. QED BY <1>10, <3>1, <3>2, <3>3
  <2>3. QED BY <2>1, <2>2
<1>13. \A k \in SqlPlaces(f) : Statements(f)[k] = P(k)
  <2>1. ASSUME NEW k \in 1..N + 1, P(k) # <<>> PROVE Statements(f)[k] = P(k)
    <3>1. CASE k \in 1..N
      <4>1. Append(D, C)[k] = D[k] BY <1>4, <3>1
      <4>2. QED BY <1>6, <1>10, <3>1, <4>1
    <3>2. CASE k = N + 1
      <4>1. C # <<>> BY <1>10, <2>1, <3>2
      <4>2. Append(D, C)[N + 1] = C BY <1>4
      <4>3. QED BY <1>6, <1>10, <3>2, <4>1, <4>2
    <3>3. k \in 1..N \/ k = N + 1 OBVIOUS
    <3>4. QED BY <3>1, <3>2, <3>3
  <2>2. QED BY <1>12, <2>1
<1>14. \A s \in Seq(Token) : Marks(s) = {} <=> s = <<>>
  <2>1. \A s \in Seq(Token) : DOMAIN s = {} <=> s = <<>> OBVIOUS
  <2>2. \A s : Marks(s) = {} <=> DOMAIN s = {} BY DEF Marks
  <2>3. QED BY <2>1, <2>2
<1>15. \A n \in 1..N + 1 : P(n) # <<>> <=> TextOf(f, after, n) # {} BY <1>9, <1>11, <1>14
<1>16. \A k \in SqlPlaces(f) : Marks(Statements(f)[k]) = TextOf(f, after, k)
  BY <1>9, <1>12, <1>13
<1>17. \A k : k \in SqlPlaces(f) <=> k \in 1..N + 1 /\ TextOf(f, after, k) # {} BY <1>12, <1>15
<1>18. {Marks(Statements(f)[k]) : k \in SqlPlaces(f)}
         = {TextOf(f, after, n) : n \in 1..N + 1} \ {{}}
  BY <1>16, <1>17
<1>19. QED BY <1>8, <1>18

(* Behind a line that is cut, the numbers are greater.                     *)
LEMMA CountGrows ==
    ASSUME NEW f \in Seq(Line), NEW after, IsSplit(f, Len(f), after),
           NEW i \in 0..Len(f), NEW j \in i..Len(f)
    PROVE  /\ Len(after[i].done) \in Nat /\ Len(after[j].done) \in Nat
           /\ Len(after[i].done) <= Len(after[j].done)
           /\ Len(after[i].done) < Len(after[j].done) =>
                 \E m \in i + 1..j : Semicolons(f, m) # {}
<1>1. PICK L \in Nat : L = Len(f) /\ DOMAIN f = 1..L OBVIOUS
<1> DEFINE c(l) == Len(after[l].done)
<1>2. \A l \in 0..L : c(l) \in Nat BY <1>1, SplitMarks
<1>3. \A l \in 1..L : c(l) = c(l - 1) + (IF Semicolons(f, l) # {} THEN 1 ELSE 0)
  BY <1>1, SplitMarks
<1> HIDE DEF c
<1> DEFINE Fine(k) == c(i) <= c(k) /\ (c(i) < c(k) => \E m \in i + 1..k : Semicolons(f, m) # {})
           Bad == {k \in i..L : ~Fine(k)}
<1>4. i \in Nat /\ i <= L BY <1>1
<1>5. \A k : k \in Bad <=> k \in i..L /\ ~Fine(k) OBVIOUS
<1>6. Bad \subseteq Nat BY <1>4
<1> HIDE DEF Bad
<1>7. CASE Bad # {}
  <2>1. PICK k \in Bad : \A l \in Bad : k <= l BY <1>6, <1>7, LeastOf
  <2>2. k # i
    <3>1. Fine(i) BY <1>2, <1>4
    <3>2. QED BY <1>5, <3>1
  <2>3. k \in 1..L /\ k - 1 \in i..L /\ k - 1 \in 0..L /\ ~(k <= k - 1) /\ k \in i + 1..k
    BY <1>4, <1>5, <2>2
  <2>4. Fine(k - 1) BY <1>5, <2>1, <2>3
  <2>5. c(k - 1) \in Nat /\ c(i) \in Nat /\ c(k) \in Nat BY <1>2, <1>4, <2>3
  <2>6. CASE Semicolons(f, k) # {}
    <3>1. c(k) = c(k - 1) + 1 BY <1>3, <2>3, <2>6
    <3>2. c(i) <= c(k) BY <2>4, <2>5, <3>1
    <3>3. QED BY <1>5, <2>1, <2>3, <2>6, <3>2
  <2>7. CASE Semicolons(f, k) = {}
    <3>1. c(k) = c(k - 1) BY <1>3, <2>3, <2>5, <2>7
    <3>2. \A m \in i + 1..k - 1 : m \in i + 1..k BY <1>4, <2>3
    <3>3. Fine(k) BY <2>4, <3>1, <3>2
    <3>4. QED BY <1>5, <3>3
  <2>8. QED BY <2>6, <2>7
<1>8. CASE Bad = {}
  <2>1. j \in i..L /\ i \in 0..L /\ j \in 0..L BY <1>1, <1>4
  <2>2. Fine(j) BY <1>5, <1>8, <2>1
  <2>3. QED BY <1>2, <2>1, <2>2 DEF c
<1>9. QED BY <1>7, <1>8

LEMMA BeforeGrows ==
    ASSUME NEW f \in Seq(Line), NEW after, IsSplit(f, Len(f), after),
           NEW a \in KeptText(f), NEW b \in KeptText(f), Before(a, b)
    PROVE  /\ StatementOf(f, after, a) \in Nat /\ StatementOf(f, after, b) \in Nat
           /\ StatementOf(f, after, a) <= StatementOf(f, after, b)
           /\ StatementOf(f, after, a) < StatementOf(f, after, b) =>
                 \E l \in DOMAIN f : /\ Semicolons(f, l) # {}
                                     /\ Before(a, <<l, FirstOf(Semicolons(f, l))>>)
                                     /\ Before(<<l, FirstOf(Semicolons(f, l))>>, b)
<1> DEFINE first(l) == FirstOf(Semicolons(f, l))
           c(l) == Len(after[l].done)
           x(p) == IF IsBehindCut(f, p) THEN 1 ELSE 0
           found == \E l \in DOMAIN f : /\ Semicolons(f, l) # {}
                                        /\ Before(a, <<l, first(l)>>) /\ Before(<<l, first(l)>>, b)
<1>1. PICK L \in Nat : L = Len(f) /\ DOMAIN f = 1..L OBVIOUS
<1>2. PICK i \in 1..L, k \in Nat : a = <<i, k>> /\ a[1] = i /\ a[2] = k
  <2>1. a \in Nat \X Nat /\ a[1] \in DOMAIN f BY DEF KeptText
  <2>2. a = <<a[1], a[2]>> /\ a[2] \in Nat BY <2>1
  <2>3. QED BY <1>1, <2>1, <2>2
<1>3. PICK j \in 1..L, m \in Nat : b = <<j, m>> /\ b[1] = j /\ b[2] = m
  <2>1. b \in Nat \X Nat /\ b[1] \in DOMAIN f BY DEF KeptText
  <2>2. b = <<b[1], b[2]>> /\ b[2] \in Nat BY <2>1
  <2>3. QED BY <1>1, <2>1, <2>2
<1>4. /\ Semicolons(f, i) # {} => first(i) \in Nat /\ k # first(i)
      /\ Semicolons(f, j) # {} => first(j) \in Nat /\ m # first(j)
  <2>1. \A l \in 1..L : Semicolons(f, l) # {} => first(l) \in Nat
    <3> SUFFICES ASSUME NEW l \in 1..L, Semicolons(f, l) # {} PROVE first(l) \in Nat OBVIOUS
    <3>1. l \in DOMAIN f BY <1>1
    <3>2. PICK n \in Nat : f[l].tokens \in [1..n -> {"text", ";"}] BY <3>1, LineFacts
    <3>3. first(l) \in DOMAIN f[l].tokens BY <3>1, LineFacts
    <3> HIDE DEF first
    <3>4. first(l) \in 1..n BY <3>2, <3>3
    <3>5. QED BY <3>4
  <2>2. QED BY <1>2, <1>3, <2>1 DEF KeptText
<1>5. /\ x(a) = IF Semicolons(f, i) # {} /\ k > first(i) THEN 1 ELSE 0
      /\ x(b) = IF Semicolons(f, j) # {} /\ m > first(j) THEN 1 ELSE 0
  BY <1>2, <1>3 DEF IsBehindCut
<1>6. StatementOf(f, after, a) = c(i - 1) + x(a) /\ StatementOf(f, after, b) = c(j - 1) + x(b)
  BY <1>2, <1>3 DEF StatementOf
<1>7. i < j \/ (i = j /\ k < m) BY <1>2, <1>3 DEF Before
<1>8. \A l \in 0..L : c(l) \in Nat BY <1>1, SplitMarks
<1>9. \A l \in 1..L : c(l) = c(l - 1) + (IF Semicolons(f, l) # {} THEN 1 ELSE 0)
  BY <1>1, SplitMarks
<1>10. i - 1 \in 0..L /\ j - 1 \in 0..L /\ i \in 0..L BY <1>2, <1>3
<1>11. \A l, n : /\ Before(a, <<l, n>>) <=> i < l \/ (i = l /\ k < n)
                 /\ Before(<<l, n>>, b) <=> l < j \/ (l = j /\ n < m)
  BY <1>2, <1>3 DEF Before
<1>12. \A l \in 1..L : Semicolons(f, l) # {} /\ Before(a, <<l, first(l)>>)
                          /\ Before(<<l, first(l)>>, b) => found
  BY <1>1
<1>13. CASE i = j /\ k < m
  <2>1. x(a) <= x(b) /\ x(a) \in {0, 1} /\ x(b) \in {0, 1} BY <1>4, <1>5, <1>13
  <2>2. ASSUME x(a) < x(b) PROVE found
    <3>1. Semicolons(f, j) # {} /\ m > first(j) BY <1>5, <2>2
    <3>2. k < first(i) BY <1>4, <1>5, <1>13, <2>2, <3>1
    <3>3. QED BY <1>11, <1>12, <1>13, <3>1, <3>2
  <2> HIDE DEF c, x, found
  <2>3. c(i - 1) = c(j - 1) /\ c(i - 1) \in Nat BY <1>8, <1>10, <1>13
  <2>4. QED BY <1>6, <2>1, <2>2, <2>3 DEF found
<1>14. CASE i < j
  <2>1. c(i) <= c(j - 1) /\ (c(i) < c(j - 1) => \E l \in i + 1..j - 1 : Semicolons(f, l) # {})
    <3>1. i \in 0..Len(f) /\ j - 1 \in i..Len(f) BY <1>1, <1>14
    <3>2. QED BY <3>1, CountGrows
  <2>2. x(a) \in {0, 1} /\ x(b) \in {0, 1} OBVIOUS
  <2>3. c(i) \in Nat /\ c(i - 1) \in Nat /\ c(j - 1) \in Nat BY <1>8, <1>10
  <2>4. c(i - 1) + x(a) <= c(i) /\ (c(i - 1) + x(a) < c(i) => Semicolons(f, i) # {} /\ x(a) = 0)
    <3>1. CASE Semicolons(f, i) = {}
      <4>1. c(i) = c(i - 1) + 0 /\ x(a) = 0 BY <1>5, <1>9, <3>1
      <4> HIDE DEF c, x
      <4>2. c(i - 1) + x(a) = c(i) BY <2>3, <4>1
      <4>3. QED BY <2>3, <4>2
    <3>2. CASE Semicolons(f, i) # {}
      <4>1. c(i) = c(i - 1) + 1 BY <1>9, <3>2
      <4> HIDE DEF c, x
      <4>2. QED BY <2>2, <2>3, <3>2, <4>1
    <3>3. QED BY <3>1, <3>2
  <2>5. ASSUME Semicolons(f, i) # {}, x(a) = 0 PROVE found
    <3>1. k < first(i) BY <1>4, <1>5, <2>5
    <3>2. QED BY <1>11, <1>12, <1>14, <2>5, <3>1
  <2>6. ASSUME x(b) = 1 PROVE found
    <3>1. Semicolons(f, j) # {} /\ first(j) < m BY <1>4, <1>5, <2>6
    <3>2. QED BY <1>11, <1>12, <1>14, <3>1
  <2>7. ASSUME c(i) < c(j - 1) PROVE found
    <3>1. PICK l \in i + 1..j - 1 : Semicolons(f, l) # {} BY <2>1, <2>7
    <3>2. l \in 1..L /\ i < l /\ l < j BY <3>1
    <3>3. QED BY <1>11, <1>12, <3>1, <3>2
  <2> HIDE DEF c, x, found
  <2>8. /\ c(i - 1) + x(a) \in Nat /\ c(j - 1) + x(b) \in Nat
        /\ c(i - 1) + x(a) <= c(j - 1) + x(b)
        /\ c(i - 1) + x(a) < c(j - 1) + x(b) =>
              \/ c(i - 1) + x(a) < c(i)
              \/ c(i) < c(j - 1)
              \/ x(b) = 1
    BY <2>1, <2>2, <2>3, <2>4
  <2>9. QED BY <1>6, <2>4, <2>5, <2>6, <2>7, <2>8 DEF found
<1>15. QED BY <1>7, <1>13, <1>14

LEMMA OneSemicolon ==
    ASSUME NEW f \in Seq(Line), NEW l \in DOMAIN f, Cardinality(Semicolons(f, l)) <= 1,
           NEW n \in Semicolons(f, l)
    PROVE  n = FirstOf(Semicolons(f, l)) /\ n \in Nat
<1> DEFINE first == FirstOf(Semicolons(f, l))
<1>1. PICK r \in Nat : f[l].tokens \in [1..r -> {"text", ";"}] BY LineFacts
<1>2. first \in Semicolons(f, l) /\ Semicolons(f, l) \subseteq DOMAIN f[l].tokens
  BY LineFacts
<1>3. DOMAIN f[l].tokens = 1..r BY <1>1
<1>4. IsFiniteSet(Semicolons(f, l))
  <2>1. 1 \in Int /\ r \in Int OBVIOUS
  <2>2. IsFiniteSet(1..r) BY <2>1, FS_Interval
  <2>3. QED BY <1>2, <1>3, <2>2, FS_Subset
<1>5. n = first
  <2>1. CASE Cardinality(Semicolons(f, l)) = 0 BY <1>4, <2>1, FS_EmptySet
  <2>2. CASE Cardinality(Semicolons(f, l)) = 1
    <3>1. \E e : Semicolons(f, l) = {e} BY <1>4, <2>2, FS_Singleton
    <3>2. QED BY <1>2, <3>1
  <2>3. Cardinality(Semicolons(f, l)) \in Nat BY <1>4, FS_CardinalityType
  <2>4. Cardinality(Semicolons(f, l)) <= 1 OBVIOUS
  <2>5. QED BY <2>1, <2>2, <2>3, <2>4
<1>6. n \in Nat BY <1>2, <1>3
<1>7. QED BY <1>5, <1>6

(* With at most one semicolon in a line, a semicolon lies between two      *)
(* texts exactly when the second has the greater number.                   *)
LEMMA Divides ==
    ASSUME NEW f \in Seq(Line), NEW after, IsSplit(f, Len(f), after),
           \A l \in DOMAIN f : Cardinality(Semicolons(f, l)) <= 1,
           NEW a \in KeptText(f), NEW b \in KeptText(f)
    PROVE  AreDivided(f, a, b) <=> StatementOf(f, after, a) < StatementOf(f, after, b)
<1> DEFINE first(l) == FirstOf(Semicolons(f, l))
           c(l) == Len(after[l].done)
           x(p) == IF IsBehindCut(f, p) THEN 1 ELSE 0
<1>1. PICK L \in Nat : L = Len(f) /\ DOMAIN f = 1..L OBVIOUS
<1>2. PICK i \in 1..L, k \in Nat : a = <<i, k>> /\ a[1] = i /\ a[2] = k
  <2>1. a \in Nat \X Nat /\ a[1] \in DOMAIN f BY DEF KeptText
  <2>2. a = <<a[1], a[2]>> /\ a[2] \in Nat BY <2>1
  <2>3. QED BY <1>1, <2>1, <2>2
<1>3. PICK j \in 1..L, m \in Nat : b = <<j, m>> /\ b[1] = j /\ b[2] = m
  <2>1. b \in Nat \X Nat /\ b[1] \in DOMAIN f BY DEF KeptText
  <2>2. b = <<b[1], b[2]>> /\ b[2] \in Nat BY <2>1
  <2>3. QED BY <1>1, <2>1, <2>2
<1>4. \A l \in DOMAIN f : \A n \in Semicolons(f, l) : n = first(l) /\ n \in Nat
  BY OneSemicolon
<1>5. \A p \in KeptText(f) : StatementOf(f, after, p) = c(p[1] - 1) + x(p) BY DEF StatementOf
<1>6. \A l \in 0..L : c(l) \in Nat BY <1>1, SplitMarks
<1>7. \A l \in 1..L : c(l) = c(l - 1) + (IF Semicolons(f, l) # {} THEN 1 ELSE 0)
  BY <1>1, SplitMarks
<1>8. ASSUME AreDivided(f, a, b)
      PROVE  StatementOf(f, after, a) < StatementOf(f, after, b)
  <2>0. PICK l \in DOMAIN f :
            \E n \in Semicolons(f, l) : Before(a, <<l, n>>) /\ Before(<<l, n>>, b)
    BY <1>8 DEF AreDivided
  <2>1. PICK n \in Semicolons(f, l) : Before(a, <<l, n>>) /\ Before(<<l, n>>, b)
    BY <2>0
  <2>2. /\ i < l \/ (i = l /\ k < n)
        /\ l < j \/ (l = j /\ n < m)
        /\ n = first(l) /\ n \in Nat /\ l \in 1..L
    BY <1>1, <1>2, <1>3, <1>4, <2>1 DEF Before
  <2>3. c(l) = c(l - 1) + 1 BY <1>7, <2>1, <2>2
  <2>4. l - 1 \in 0..L /\ i - 1 \in 0..L /\ j - 1 \in 0..L /\ l \in 0..L /\ i \in 0..L
    BY <2>2
  <2>5. c(i - 1) + x(a) <= c(l - 1)
    <3>1. CASE i = l /\ k < n
      <4>1. ~IsBehindCut(f, a) BY <1>2, <2>2, <3>1 DEF IsBehindCut
      <4>2. x(a) = 0 BY <4>1
      <4>3. c(i - 1) \in Nat /\ c(i - 1) = c(l - 1) BY <1>6, <2>4, <3>1
      <4> HIDE DEF c, x
      <4>4. QED BY <4>2, <4>3
    <3>2. CASE i < l
      <4>1. c(i) <= c(l - 1)
        <5>1. i \in 0..Len(f) /\ l - 1 \in i..Len(f) BY <1>1, <2>2, <3>2
        <5>2. QED BY <5>1, CountGrows
      <4>2. c(i) = c(i - 1) + (IF Semicolons(f, i) # {} THEN 1 ELSE 0) BY <1>7
      <4>3. x(a) = 1 => Semicolons(f, i) # {} BY <1>2 DEF IsBehindCut
      <4>4. x(a) \in {0, 1} OBVIOUS
      <4>5. c(i) \in Nat /\ c(i - 1) \in Nat /\ c(l - 1) \in Nat BY <1>6, <2>4
      <4> HIDE DEF c, x
      <4>6. c(i - 1) + x(a) <= c(i) BY <4>2, <4>3, <4>4, <4>5
      <4>7. c(i - 1) + x(a) \in Nat BY <4>4, <4>5
      <4>8. QED BY <4>1, <4>5, <4>6, <4>7
    <3>3. QED BY <2>2, <3>1, <3>2
  <2>6. c(l) <= c(j - 1) + x(b)
    <3>1. CASE l = j /\ n < m
      <4>1. IsBehindCut(f, b) BY <1>3, <2>1, <2>2, <3>1 DEF IsBehindCut
      <4>2. x(b) = 1 BY <4>1
      <4>3. c(l - 1) \in Nat /\ c(l - 1) = c(j - 1) BY <1>6, <2>4, <3>1
      <4> HIDE DEF c, x
      <4>4. QED BY <2>3, <4>2, <4>3
    <3>2. CASE l < j
      <4>1. c(l) <= c(j - 1)
        <5>1. l \in 0..Len(f) /\ j - 1 \in l..Len(f) BY <1>1, <2>2, <3>2
        <5>2. QED BY <5>1, CountGrows
      <4>2. x(b) \in {0, 1} OBVIOUS
      <4>3. c(l) \in Nat /\ c(j - 1) \in Nat BY <1>6, <2>4
      <4> HIDE DEF c, x
      <4>4. QED BY <4>1, <4>2, <4>3
    <3>3. QED BY <2>2, <3>1, <3>2
  <2>7. x(a) \in Nat /\ x(b) \in Nat OBVIOUS
  <2>8. c(i - 1) \in Nat /\ c(j - 1) \in Nat /\ c(l - 1) \in Nat BY <1>6, <2>4
  <2>9. StatementOf(f, after, a) = c(i - 1) + x(a) /\ StatementOf(f, after, b) = c(j - 1) + x(b)
    BY <1>2, <1>3, <1>5
  <2> HIDE DEF c, x
  <2>10. QED BY <2>3, <2>5, <2>6, <2>7, <2>8, <2>9
<1>9. ASSUME StatementOf(f, after, a) < StatementOf(f, after, b)
      PROVE  AreDivided(f, a, b)
  <2>1. a = b \/ Before(a, b) \/ Before(b, a)
    <3>1. i < j \/ j < i \/ (i = j /\ (k < m \/ m < k \/ k = m)) OBVIOUS
    <3>2. QED BY <1>2, <1>3, <3>1 DEF Before
  <2>2. CASE Before(a, b)
    <3>1. PICK l \in DOMAIN f : /\ Semicolons(f, l) # {}
                                /\ Before(a, <<l, first(l)>>) /\ Before(<<l, first(l)>>, b)
      BY <1>9, <2>2, BeforeGrows
    <3>2. first(l) \in Semicolons(f, l) BY <3>1, LineFacts
    <3>3. QED BY <3>1, <3>2 DEF AreDivided
  <2>3. CASE Before(b, a)
    <3>1. /\ StatementOf(f, after, a) \in Nat /\ StatementOf(f, after, b) \in Nat
          /\ StatementOf(f, after, b) <= StatementOf(f, after, a)
      BY <2>3, BeforeGrows
    <3>2. QED BY <1>9, <3>1
  <2>4. CASE a = b
    <3>1. c(i - 1) \in Nat
      <4>1. i - 1 \in 0..L OBVIOUS
      <4>2. QED BY <1>6, <4>1
    <3>2. StatementOf(f, after, a) = c(i - 1) + x(a) BY <1>2, <1>5
    <3>3. x(a) \in Nat OBVIOUS
    <3> HIDE DEF c, x
    <3>4. QED BY <1>9, <2>4, <3>1, <3>2, <3>3
  <2>5. QED BY <2>1, <2>2, <2>3, <2>4
<1>10. QED BY <1>8, <1>9

LEMMA SqlAgrees == FilesTypeOK => StatementsAgree
<1> SUFFICES ASSUME FilesTypeOK, file.lang = "sql" PROVE StatementsAgree
  BY DEF StatementsAgree, Is
<1>1. PICK f \in Seq(Line) : f = parts
  <2>1. PartsOf[file.lang] = Line BY DEF PartsOf
  <2>2. parts \in Seq(Line) BY <2>1 DEF FilesTypeOK
  <2>3. QED BY <2>2
<1>2. PICK L \in Nat : L = Len(f) /\ DOMAIN f = 1..L OBVIOUS
<1>3. PICK after : IsSplit(f, Len(f), after) BY <1>2, SplitExists
<1>4. PICK N \in Nat : N = Len(after[Len(f)].done)
  <2>1. Len(f) \in 0..Len(f) BY <1>2
  <2>2. QED BY <1>3, <2>1, SplitMarks
<1> DEFINE chunks == {Marks(Statements(f)[k]) : k \in SqlPlaces(f)}
           S(p) == StatementOf(f, after, p)
           T(n) == TextOf(f, after, n)
<1>5. /\ \A p \in KeptText(f) : S(p) \in 0..N
      /\ chunks = {T(n) : n \in 1..N + 1} \ {{}}
  BY <1>3, <1>4, ChunksAre
<1>6. \A n, p : p \in T(n) <=> p \in KeptText(f) /\ S(p) = n - 1 BY DEF TextOf
<1>7. \A p \in KeptText(f) : S(p) \in Int /\ S(p) + 1 \in 1..N + 1 /\ (S(p) + 1) - 1 = S(p)
  BY <1>5
<1> HIDE DEF chunks, T
<1>8. \A c : c \in chunks <=> c # {} /\ \E n \in 1..N + 1 : c = T(n) BY <1>5
<1>9. \A p \in KeptText(f) : p \in T(S(p) + 1) /\ T(S(p) + 1) \in chunks
  <2> TAKE p \in KeptText(f)
  <2>1. p \in T(S(p) + 1) BY <1>6, <1>7
  <2>2. QED BY <1>7, <1>8, <2>1
<1>10. \A l \in DOMAIN f : \A k \in DOMAIN f[l].tokens : l \in Nat /\ k \in Nat
  <2> TAKE l \in DOMAIN f
  <2>1. PICK n \in Nat : f[l].tokens \in [1..n -> {"text", ";"}] BY LineFacts
  <2>2. l \in Nat OBVIOUS
  <2>3. DOMAIN f[l].tokens = 1..n BY <2>1
  <2>4. \A k \in 1..n : k \in Nat OBVIOUS
  <2>5. QED BY <2>2, <2>3, <2>4
<1>11. \A p : p \in Text(f) <=>
          \E l \in DOMAIN f : \E k \in DOMAIN f[l].tokens :
              k \notin Semicolons(f, l) /\ p = <<l, k>>
  BY DEF Text
<1>12. \A l \in DOMAIN f : Semicolons(f, l) # {} => FirstOf(Semicolons(f, l)) \in Semicolons(f, l)
  BY LineFacts
<1>13. Text(f) \subseteq KeptText(f)
  <2> SUFFICES ASSUME NEW l \in DOMAIN f, NEW k \in DOMAIN f[l].tokens, k \notin Semicolons(f, l)
               PROVE  <<l, k>> \in KeptText(f)
    BY <1>11
  <2>1. <<l, k>> \in Nat \X Nat /\ <<l, k>>[1] = l /\ <<l, k>>[2] = k BY <1>10
  <2>2. QED BY <1>12, <2>1 DEF KeptText
<1>14. Text(f) \subseteq UNION chunks BY <1>9, <1>13
<1>15. \A c, d \in chunks : c # d => c \intersect d = {}
  <2> SUFFICES ASSUME NEW c \in chunks, NEW d \in chunks, NEW p, p \in c, p \in d PROVE c = d
    OBVIOUS
  <2>1. PICK n \in 1..N + 1, m \in 1..N + 1 : c = T(n) /\ d = T(m) BY <1>8
  <2>2. n - 1 = m - 1 BY <1>6, <2>1
  <2>3. n = m BY <2>2
  <2>4. QED BY <2>1, <2>3
<1>16. ASSUME \A l \in DOMAIN f : Cardinality(Semicolons(f, l)) <= 1
       PROVE  chunks = ReferenceStatements(f)
  <2>1. \A a, b \in KeptText(f) : AreDivided(f, a, b) <=> S(a) < S(b) BY <1>3, <1>16, Divides
  <2>2. KeptText(f) = Text(f)
    <3> SUFFICES ASSUME NEW p \in KeptText(f) PROVE p \in Text(f) BY <1>13
    <3> DEFINE l == p[1]
               k == p[2]
    <3>1. /\ p = <<l, k>> /\ l \in DOMAIN f /\ k \in DOMAIN f[l].tokens
          /\ ~(Semicolons(f, l) # {} /\ k = FirstOf(Semicolons(f, l)))
      <4>1. p \in Nat \X Nat /\ p = <<p[1], p[2]>> BY DEF KeptText
      <4>2. /\ p[1] \in DOMAIN f /\ p[2] \in DOMAIN f[p[1]].tokens
            /\ ~(Semicolons(f, p[1]) # {} /\ p[2] = FirstOf(Semicolons(f, p[1])))
        BY DEF KeptText
      <4>3. QED BY <4>1, <4>2
    <3> HIDE DEF l, k
    <3>2. k \notin Semicolons(f, l)
      <4> SUFFICES ASSUME k \in Semicolons(f, l) PROVE FALSE OBVIOUS
      <4>1. k = FirstOf(Semicolons(f, l)) BY <1>12, <3>1, <1>16, OneSemicolon
      <4>2. QED BY <3>1, <4>1
    <3>3. QED BY <1>11, <3>1, <3>2
  <2>3. \A a, b \in Text(f) : ~AreDivided(f, a, b) /\ ~AreDivided(f, b, a) <=> S(a) = S(b)
    <3>1. \A a, b \in Text(f) : S(a) \in Int /\ S(b) \in Int BY <1>7, <2>2
    <3>2. QED BY <2>1, <2>2, <3>1
  <2>4. \A a \in Text(f) :
          {b \in Text(f) : ~AreDivided(f, a, b) /\ ~AreDivided(f, b, a)} = T(S(a) + 1)
    <3> TAKE a \in Text(f)
    <3>1. \A b : b \in T(S(a) + 1) <=> b \in Text(f) /\ S(b) = S(a) BY <1>6, <1>7, <2>2
    <3>2. QED BY <2>3, <3>1
  <2>5. ReferenceStatements(f) = {T(S(a) + 1) : a \in Text(f)} BY <2>4 DEF ReferenceStatements
  <2> HIDE DEF S
  <2>6. \A c \in chunks : \E a \in Text(f) : c = T(S(a) + 1)
    <3> TAKE c \in chunks
    <3>1. PICK n \in 1..N + 1 : c = T(n) /\ c # {} BY <1>8
    <3>2. PICK a \in Text(f) : S(a) = n - 1 BY <1>6, <2>2, <3>1
    <3>3. S(a) + 1 = n BY <3>2
    <3>4. QED BY <3>1, <3>3
  <2>7. \A a \in Text(f) : T(S(a) + 1) \in chunks BY <1>9, <2>2
  <2>8. QED BY <2>5, <2>6, <2>7
<1>17. StatementsAgree
  <2>1. {Marks(Statements(parts)[k]) : k \in SqlPlaces(parts)} = chunks BY <1>1 DEF chunks
  <2>2. QED BY <1>1, <1>14, <1>15, <1>16, <2>1 DEF StatementsAgree
<1>18. QED BY <1>17

(* However long a SQL file is, each of its texts is in one chunk only, and *)
(* the chunks are the statements unless a line ends two of them.           *)
THEOREM StatementsAreKept == FilesSpec => []StatementsAgree
<1>1. FilesSpec => []FilesTypeOK BY FilesTypeCorrect
<1>2. QED BY <1>1, SqlAgrees, PTL
-----------------------------------------------------------------------------
(* Retrieval.  To arrange is to permute.                                   *)
StrictOrder(R, K) ==
    /\ \A i \in K : <<i, i>> \notin R
    /\ \A i, j \in K : i # j => <<i, j>> \in R \/ <<j, i>> \in R
    /\ \A i, j, k \in K : <<i, j>> \in R /\ <<j, k>> \in R => <<i, k>> \in R

(* b tells which entry comes to which place.                               *)
Permutes(b, s, K, R, t) ==
    /\ Cardinality(K) \in Nat /\ b \in [1..Cardinality(K) -> K]
    /\ t = [n \in 1..Cardinality(K) |-> s[b[n]]]
    /\ \A i \in K : \E n \in 1..Cardinality(K) : b[n] = i
    /\ \A n, m \in 1..Cardinality(K) : n < m <=> <<b[n], b[m]>> \in R

LEMMA Arrangement ==
    ASSUME NEW s, NEW K, IsFiniteSet(K), NEW R, StrictOrder(R, K)
    PROVE  \E b : Permutes(b, s, K, R, Arranged(s, K, R))
<1> DEFINE Below(i) == {j \in K : <<j, i>> \in R}
           n == Cardinality(K)
           place == [i \in K |-> 1 + Cardinality(Below(i))]
           b == [m \in 1..n |-> CHOOSE i \in K : place[i] = m]
<1>1. n \in Nat BY FS_CardinalityType
<1>2. \A i \in K : IsFiniteSet(Below(i)) /\ Cardinality(Below(i)) \in Nat
  <2> TAKE i \in K
  <2>1. Below(i) \in SUBSET K OBVIOUS
  <2>2. IsFiniteSet(Below(i)) BY <2>1, FS_Subset
  <2>3. QED BY <2>2, FS_CardinalityType
<1>3. ASSUME NEW i \in K PROVE Cardinality(Below(i)) <= n - 1
  <2>1. IsFiniteSet(K \ {i}) /\ Cardinality(K \ {i}) = n - 1 BY FS_RemoveElement
  <2>2. Below(i) \in SUBSET (K \ {i}) BY DEF StrictOrder
  <2>3. QED BY <2>1, <2>2, FS_Subset
<1>4. ASSUME NEW i \in K, NEW j \in K, <<i, j>> \in R
      PROVE  Cardinality(Below(i)) < Cardinality(Below(j))
  <2>1. IsFiniteSet(Below(j)) /\ Cardinality(Below(j)) \in Nat /\ i \in Below(j)
    BY <1>2, <1>4
  <2>2. IsFiniteSet(Below(j) \ {i}) /\ Cardinality(Below(j) \ {i}) = Cardinality(Below(j)) - 1
    BY <2>1, FS_RemoveElement
  <2>3. Below(i) \in SUBSET (Below(j) \ {i}) BY <1>4 DEF StrictOrder
  <2>4. Cardinality(Below(i)) <= Cardinality(Below(j) \ {i}) BY <2>2, <2>3, FS_Subset
  <2>5. Cardinality(Below(i)) \in Nat BY <1>2
  <2> HIDE DEF Below
  <2>6. QED BY <2>1, <2>2, <2>4, <2>5
<1> HIDE DEF Below, n
<1>5. place \in [K -> 1..n] BY <1>1, <1>2, <1>3
<1>6. \A i, j \in K : <<i, j>> \in R => place[i] < place[j] BY <1>2, <1>4
<1>7. \A i \in K : place[i] = 1 + Cardinality(Below(i)) OBVIOUS
<1> HIDE DEF place
<1>8. \A i, j \in K : place[i] = place[j] => i = j
  <2> TAKE i, j \in K
  <2>1. place[i] \in Int /\ place[j] \in Int BY <1>5
  <2>2. i # j => place[i] < place[j] \/ place[j] < place[i] BY <1>6 DEF StrictOrder
  <2>3. QED BY <2>1, <2>2
<1>9. \A m \in 1..n : \E i \in K : place[i] = m
  <2>1. place \in Injection(K, 1..n) BY <1>5, <1>8 DEF Injection, IsInjective
  <2>2. IsFiniteSet(1..n) /\ Cardinality(1..n) = n BY <1>1, FS_Interval
  <2>3. place \in Surjection(K, 1..n) BY <2>1, <2>2, FS_Injection DEF n
  <2>4. QED BY <2>3 DEF Surjection
<1>10. \A m \in 1..n : b[m] \in K /\ place[b[m]] = m BY <1>9
<1>11. b \in [1..n -> K] BY <1>9
<1>12. Arranged(s, K, R) = [m \in 1..n |-> s[b[m]]]
  <2>1. \A m \in 1..n : b[m] = CHOOSE i \in K : 1 + Cardinality(Below(i)) = m
    <3>1. \A m : (CHOOSE i \in K : place[i] = m)
                 = CHOOSE i \in K : 1 + Cardinality(Below(i)) = m
      BY <1>7
    <3>2. QED BY <3>1
  <2> HIDE DEF b
  <2>2. Arranged(s, K, R) = [m \in 1..n |-> s[CHOOSE i \in K : 1 + Cardinality(Below(i)) = m]]
    BY DEF Arranged, Below, n
  <2>3. QED BY <2>1, <2>2
<1> HIDE DEF b
<1>13. \A i \in K : \E m \in 1..n : b[m] = i
  <2> TAKE i \in K
  <2>1. place[i] \in 1..n /\ b[place[i]] = i BY <1>5, <1>8, <1>10
  <2>2. QED BY <2>1
<1>14. ASSUME NEW l \in 1..n, NEW m \in 1..n PROVE l < m <=> <<b[l], b[m]>> \in R
  <2>1. b[l] \in K /\ b[m] \in K /\ place[b[l]] = l /\ place[b[m]] = m BY <1>10
  <2>2. l \in Int /\ m \in Int OBVIOUS
  <2>3. <<b[l], b[m]>> \in R => l < m BY <1>6, <2>1
  <2>4. <<b[m], b[l]>> \in R => m < l BY <1>6, <2>1
  <2>5. l < m => b[l] # b[m] BY <2>1, <2>2
  <2>6. QED BY <2>1, <2>2, <2>3, <2>4, <2>5 DEF StrictOrder
<1>15. Permutes(b, s, K, R, Arranged(s, K, R))
  BY <1>1, <1>11, <1>12, <1>13, <1>14 DEF Permutes, n
<1>16. QED BY <1>15

(* Scores are compared like the fractions that they are.                   *)
Fraction == Nat \X (Nat \ {0})
Entry == [chunk : Chunks, from : {"dense", "sparse"}, score : Fraction]

LEMMA ScoresAreOrdered ==
    /\ \A p, q \in Fraction : AtLeast(p, q) \/ AtLeast(q, p)
    /\ \A p, q, r \in Fraction : AtLeast(p, q) /\ AtLeast(q, r) => AtLeast(p, r)
<1>1. ASSUME NEW p \in Fraction, NEW q \in Fraction PROVE AtLeast(p, q) \/ AtLeast(q, p)
  <2>1. p[1] * q[2] \in Int /\ q[1] * p[2] \in Int BY DEF Fraction
  <2>2. QED BY <2>1 DEF AtLeast
<1>2. ASSUME NEW p \in Fraction, NEW q \in Fraction, NEW r \in Fraction,
             AtLeast(p, q), AtLeast(q, r)
      PROVE  AtLeast(p, r)
  <2>1. PICK a \in Nat, b \in Nat \ {0} : a = p[1] /\ b = p[2] BY DEF Fraction
  <2>2. PICK c \in Nat, d \in Nat \ {0} : c = q[1] /\ d = q[2] BY DEF Fraction
  <2>3. PICK e \in Nat, f \in Nat \ {0} : e = r[1] /\ f = r[2] BY DEF Fraction
  <2>4. a * d >= c * b /\ c * f >= e * d BY <1>2, <2>1, <2>2, <2>3 DEF AtLeast
  <2>5. (a * d) * f >= (c * b) * f BY <2>4
  <2>6. (c * f) * b >= (e * d) * b BY <2>4
  <2>7. (a * d) * f = (a * f) * d /\ (c * b) * f = (c * f) * b /\ (e * d) * b = (e * b) * d
    OBVIOUS
  <2>8. PICK x \in Int, y \in Int : x = a * f /\ y = e * b OBVIOUS
  <2>9. x * d >= y * d BY <2>5, <2>6, <2>7, <2>8
  <2>10. x >= y BY <2>9
  <2>11. QED BY <2>1, <2>3, <2>8, <2>10 DEF AtLeast
<1>3. QED BY <1>1, <1>2

LEMMA BetterIsStrict ==
    ASSUME NEW s \in Seq(Entry)
    PROVE  StrictOrder(Better(s), DOMAIN s)
<1> DEFINE Q(i, j) == AtLeast(s[i].score, s[j].score)
<1>1. \A i \in DOMAIN s : i \in Int /\ s[i].score \in Fraction
  <2>1. \A i \in DOMAIN s : i \in Int /\ s[i] \in Entry OBVIOUS
  <2>2. \A e \in Entry : e.score \in Fraction BY DEF Entry
  <2>3. QED BY <2>1, <2>2
<1>2. \A i, j \in DOMAIN s : Q(i, j) \/ Q(j, i) BY <1>1, ScoresAreOrdered
<1>3. \A i, j, k \in DOMAIN s : Q(i, j) /\ Q(j, k) => Q(i, k) BY <1>1, ScoresAreOrdered
<1>4. \A i, j \in DOMAIN s : <<i, j>> \in Better(s) <=> ~Q(j, i) \/ (Q(i, j) /\ i < j)
  BY DEF Better
<1> HIDE DEF Q
<1>5. \A i \in DOMAIN s : <<i, i>> \notin Better(s) BY <1>1, <1>2, <1>4
<1>6. ASSUME NEW i \in DOMAIN s, NEW j \in DOMAIN s, i # j
      PROVE  <<i, j>> \in Better(s) \/ <<j, i>> \in Better(s)
  <2>1. i < j \/ j < i BY <1>1, <1>6
  <2>2. QED BY <1>2, <1>4, <2>1
<1>7. ASSUME NEW i \in DOMAIN s, NEW j \in DOMAIN s, NEW k \in DOMAIN s,
             <<i, j>> \in Better(s), <<j, k>> \in Better(s)
      PROVE  <<i, k>> \in Better(s)
  <2>1. Q(i, j) /\ Q(j, k) BY <1>2, <1>4, <1>7
  <2>2. Q(i, k) BY <1>3, <2>1
  <2>3. CASE ~Q(k, i) BY <1>4, <2>3
  <2>4. CASE Q(k, i)
    <3>1. Q(j, i) /\ Q(k, j) BY <1>3, <2>1, <2>4
    <3>2. i < j /\ j < k BY <1>4, <1>7, <3>1
    <3>3. i < k BY <1>1, <3>2
    <3>4. QED BY <1>4, <2>2, <3>3
  <2>5. QED BY <2>3, <2>4
<1>8. QED BY <1>5, <1>6, <1>7 DEF StrictOrder

Sorted(s) == \A n, m \in DOMAIN s : n < m => AtLeast(s[n].score, s[m].score)

LEMMA SortedByScore ==
    ASSUME NEW s \in Seq(Entry)
    PROVE  /\ \E b : Permutes(b, s, DOMAIN s, Better(s), ByScore(s))
           /\ ByScore(s) \in Seq(Entry) /\ Len(ByScore(s)) = Len(s)
           /\ Sorted(ByScore(s))
<1> DEFINE t == ByScore(s)
<1>1. Len(s) \in Nat /\ DOMAIN s = 1..Len(s) OBVIOUS
<1>2. IsFiniteSet(DOMAIN s) /\ Cardinality(DOMAIN s) = Len(s)
  <2>1. IsFiniteSet(1..Len(s)) /\ Cardinality(1..Len(s)) = Len(s) BY <1>1, FS_Interval
  <2>2. QED BY <1>1, <2>1
<1>3. PICK b : Permutes(b, s, DOMAIN s, Better(s), t)
  BY <1>2, BetterIsStrict, Arrangement DEF ByScore
<1> HIDE DEF t
<1>4. /\ b \in [1..Len(s) -> DOMAIN s] /\ t = [n \in 1..Len(s) |-> s[b[n]]]
      /\ \A n, m \in 1..Len(s) : n < m => <<b[n], b[m]>> \in Better(s)
  BY <1>2, <1>3 DEF Permutes
<1>5. t \in Seq(Entry) /\ Len(t) = Len(s)
  <2>1. \A n \in 1..Len(s) : s[b[n]] \in Entry BY <1>4
  <2>2. QED BY <1>1, <1>4, <2>1
<1>6. ASSUME NEW n \in DOMAIN t, NEW m \in DOMAIN t, n < m
      PROVE  AtLeast(t[n].score, t[m].score)
  <2>1. n \in 1..Len(s) /\ m \in 1..Len(s) BY <1>4
  <2>2. /\ b[n] \in DOMAIN s /\ b[m] \in DOMAIN s
        /\ t[n] = s[b[n]] /\ t[m] = s[b[m]] /\ <<b[n], b[m]>> \in Better(s)
    BY <1>4, <1>6, <2>1
  <2>3. t[n].score \in Fraction /\ t[m].score \in Fraction
    <3>1. s[b[n]] \in Entry /\ s[b[m]] \in Entry BY <2>2
    <3>2. \A e \in Entry : e.score \in Fraction BY DEF Entry
    <3>3. QED BY <2>2, <3>1, <3>2
  <2>4. ~AtLeast(t[m].score, t[n].score) \/ AtLeast(t[n].score, t[m].score)
    BY <2>2 DEF Better
  <2>5. QED BY <2>3, <2>4, ScoresAreOrdered
<1>7. QED BY <1>3, <1>5, <1>6 DEF Sorted, t

LEMMA Selection ==
    ASSUME NEW X, NEW s \in Seq(X), NEW K \in SUBSET DOMAIN s
    PROVE  /\ \E b : Permutes(b, s, K, {p \in K \X K : p[1] < p[2]}, Selected(s, K))
           /\ Selected(s, K) \in Seq(X) /\ Len(Selected(s, K)) = Cardinality(K)
<1> DEFINE R == {p \in K \X K : p[1] < p[2]}
           t == Selected(s, K)
<1>1. Len(s) \in Nat /\ DOMAIN s = 1..Len(s) OBVIOUS
<1>2. IsFiniteSet(K)
  <2>1. IsFiniteSet(1..Len(s)) BY <1>1, FS_Interval
  <2>2. QED BY <1>1, <2>1, FS_Subset
<1>3. StrictOrder(R, K)
  <2>1. \A i, j \in K : <<i, j>> \in R <=> i < j OBVIOUS
  <2>2. \A i \in K : i \in Int BY <1>1
  <2> HIDE DEF R
  <2>3. QED BY <2>1, <2>2 DEF StrictOrder
<1>4. PICK b : Permutes(b, s, K, R, t) BY <1>2, <1>3, Arrangement DEF Selected
<1> HIDE DEF t, R
<1>5. /\ Cardinality(K) \in Nat /\ b \in [1..Cardinality(K) -> K]
      /\ t = [n \in 1..Cardinality(K) |-> s[b[n]]]
  BY <1>4 DEF Permutes
<1>6. t \in Seq(X) /\ Len(t) = Cardinality(K)
  <2>1. \A n \in 1..Cardinality(K) : s[b[n]] \in X BY <1>5
  <2>2. QED BY <1>5, <2>1
<1>7. QED BY <1>4, <1>6 DEF t, R

(* The lists of the two retrievers.                                        *)
LEMMA ListFacts ==
    ASSUME NEW s \in Lists
    PROVE  /\ s \in Seq(Chunks) /\ \A i, j \in DOMAIN s : s[i] = s[j] => i = j
           /\ \A e \in Elements(s) : /\ PositionIn(s, e) \in DOMAIN s
                                     /\ PositionIn(s, e) \in Nat \ {0}
                                     /\ s[PositionIn(s, e)] = e
           /\ Elements(s) \subseteq Chunks
<1>1. PICK n \in 0..TopK : s \in [1..n -> Chunks] /\ \A i, j \in 1..n : s[i] = s[j] => i = j
  BY DEF Lists
<1>2. n \in Nat BY LimitsAssumption
<1>3. s \in Seq(Chunks) /\ DOMAIN s = 1..n BY <1>1, <1>2
<1>4. \A e \in Elements(s) : PositionIn(s, e) \in DOMAIN s /\ s[PositionIn(s, e)] = e
  BY DEF Elements, PositionIn
<1>5. \A i \in DOMAIN s : i \in Nat \ {0} /\ s[i] \in Chunks BY <1>3
<1>6. QED BY <1>1, <1>3, <1>4, <1>5 DEF Elements

LEMMA MergedFacts ==
    ASSUME dense \in Lists, sparse \in Lists
    PROVE  /\ Merged \in Seq(Chunks)
           /\ \A i, j \in DOMAIN Merged : Merged[i] = Merged[j] => i = j
           /\ Elements(Merged) = Elements(dense) \union Elements(sparse)
<1> DEFINE K == {i \in DOMAIN sparse : sparse[i] \notin Elements(dense)}
           t == Selected(sparse, K)
<1>1. dense \in Seq(Chunks) /\ sparse \in Seq(Chunks) BY ListFacts
<1>2. K \in SUBSET DOMAIN sparse OBVIOUS
<1>3. \A i : i \in K <=> i \in DOMAIN sparse /\ sparse[i] \notin Elements(dense) OBVIOUS
<1> HIDE DEF K
<1>4. t \in Seq(Chunks) /\ Len(t) = Cardinality(K) BY <1>1, <1>2, Selection
<1>5. PICK b : Permutes(b, sparse, K, {p \in K \X K : p[1] < p[2]}, t)
  BY <1>1, <1>2, Selection
<1>6. Merged = dense \o t BY DEF Merged, K
<1> HIDE DEF t
<1>7. /\ DOMAIN t = 1..Cardinality(K) /\ b \in [1..Cardinality(K) -> K] /\ Cardinality(K) \in Nat
      /\ \A n \in DOMAIN t : b[n] \in K /\ t[n] = sparse[b[n]]
      /\ \A i \in K : \E n \in DOMAIN t : b[n] = i
      /\ \A n, m \in 1..Cardinality(K) : n < m <=> <<b[n], b[m]>> \in {p \in K \X K : p[1] < p[2]}
  BY <1>5 DEF Permutes
<1>8. \A n, m \in DOMAIN t : t[n] = t[m] => n = m
  <2> SUFFICES ASSUME NEW n \in DOMAIN t, NEW m \in DOMAIN t, t[n] = t[m] PROVE n = m OBVIOUS
  <2>1. b[n] = b[m] BY <1>3, <1>7, ListFacts
  <2>2. n < m <=> b[n] < b[m] BY <1>7
  <2>3. m < n <=> b[m] < b[n] BY <1>7
  <2>4. b[n] \in Int /\ n \in Int /\ m \in Int BY <1>1, <1>2, <1>7
  <2>5. QED BY <2>1, <2>2, <2>3, <2>4
<1>9. \A n \in DOMAIN t : t[n] \notin Elements(dense) BY <1>3, <1>7
<1>10. /\ Merged \in Seq(Chunks) /\ Len(Merged) = Len(dense) + Len(t)
       /\ \A i \in 1..Len(dense) : Merged[i] = dense[i]
       /\ \A i \in 1..Len(Merged) : i \notin 1..Len(dense) =>
              i - Len(dense) \in 1..Len(t) /\ Merged[i] = t[i - Len(dense)]
       /\ \A i \in 1..Len(t) : Len(dense) + i \in 1..Len(Merged) /\ Merged[Len(dense) + i] = t[i]
  <2>1. /\ dense \o t \in Seq(Chunks) /\ Len(dense \o t) = Len(dense) + Len(t)
        /\ \A i \in 1..Len(dense) : (dense \o t)[i] = dense[i]
        /\ \A k \in 1..Len(t) : (dense \o t)[Len(dense) + k] = t[k]
    BY <1>1, <1>4, Concatenation
  <2>2. Len(dense) \in Nat /\ Len(t) \in Nat BY <1>1, <1>4
  <2>3. \A i \in 1..Len(dense) + Len(t) : i \notin 1..Len(dense) =>
            i - Len(dense) \in 1..Len(t) /\ i = Len(dense) + (i - Len(dense))
    BY <2>2
  <2>4. \A i \in 1..Len(t) : Len(dense) + i \in 1..Len(dense) + Len(t) BY <2>2
  <2>5. QED BY <1>6, <2>1, <2>3, <2>4
<1>11. Len(dense) \in Nat /\ DOMAIN dense = 1..Len(dense) /\ DOMAIN t = 1..Len(t)
       /\ DOMAIN Merged = 1..Len(Merged)
  BY <1>1, <1>4, <1>10
<1>12. \A i, j \in DOMAIN Merged : Merged[i] = Merged[j] => i = j
  <2> SUFFICES ASSUME NEW i \in DOMAIN Merged, NEW j \in DOMAIN Merged, Merged[i] = Merged[j]
               PROVE  i = j
    OBVIOUS
  <2>1. i \in Int /\ j \in Int BY <1>11
  <2>2. \A k \in DOMAIN dense : Merged[k] \in Elements(dense) BY <1>10, <1>11 DEF Elements
  <2>3. \A k \in DOMAIN Merged : k \notin DOMAIN dense => Merged[k] \notin Elements(dense)
    BY <1>9, <1>10, <1>11
  <2>4. CASE i \in DOMAIN dense /\ j \in DOMAIN dense BY <1>10, <1>11, <2>4, ListFacts
  <2>5. CASE i \notin DOMAIN dense /\ j \notin DOMAIN dense
    <3>1. i - Len(dense) \in DOMAIN t /\ j - Len(dense) \in DOMAIN t
          /\ t[i - Len(dense)] = t[j - Len(dense)]
      BY <1>10, <1>11, <2>5
    <3>2. i - Len(dense) = j - Len(dense) BY <1>8, <3>1
    <3>3. QED BY <1>11, <2>1, <3>2
  <2>6. QED BY <2>2, <2>3, <2>4, <2>5
<1>13. \A c : c \in Elements(Merged) <=> c \in Elements(dense) \union Elements(sparse)
  <2>1. ASSUME NEW i \in DOMAIN Merged
        PROVE  Merged[i] \in Elements(dense) \union Elements(sparse)
    <3>1. CASE i \in 1..Len(dense) BY <1>10, <1>11, <3>1 DEF Elements
    <3>2. CASE i \notin 1..Len(dense)
      <4>1. PICK n \in DOMAIN t : Merged[i] = t[n] BY <1>10, <1>11, <3>2
      <4>2. b[n] \in DOMAIN sparse /\ Merged[i] = sparse[b[n]] BY <1>3, <1>7, <4>1
      <4>3. QED BY <4>2 DEF Elements
    <3>3. QED BY <3>1, <3>2
  <2>2. \A k \in DOMAIN dense : dense[k] \in Elements(Merged)
    BY <1>4, <1>10, <1>11 DEF Elements
  <2>3. ASSUME NEW k \in DOMAIN sparse, sparse[k] \notin Elements(dense)
        PROVE  sparse[k] \in Elements(Merged)
    <3>1. PICK n \in DOMAIN t : b[n] = k BY <1>3, <1>7, <2>3
    <3>2. t[n] = sparse[k] BY <1>7, <3>1
    <3>3. Len(dense) + n \in DOMAIN Merged /\ Merged[Len(dense) + n] = sparse[k]
      BY <1>10, <1>11, <3>2
    <3>4. QED BY <3>3 DEF Elements
  <2>4. QED BY <2>1, <2>2, <2>3 DEF Elements
<1>14. QED BY <1>10, <1>12, <1>13

(* Agreement shows in the sums of the reciprocal ranks.                    *)
LEMMA ScoreIsFraction ==
    ASSUME dense \in Lists, sparse \in Lists, NEW c \in Elements(dense) \union Elements(sparse)
    PROVE  RRFScore(c) \in Fraction
<1>1. RRFk \in Nat \ {0} BY LimitsAssumption
<1>2. c \in Elements(dense) => RRFk + PositionIn(dense, c) \in Nat \ {0} BY <1>1, ListFacts
<1>3. c \in Elements(sparse) => RRFk + PositionIn(sparse, c) \in Nat \ {0} BY <1>1, ListFacts
<1>4. \A d, s \in Nat \ {0} : d + s \in Nat /\ d * s \in Nat \ {0} OBVIOUS
<1>5. QED BY <1>2, <1>3, <1>4 DEF RRFScore, Fraction

LEMMA LargerSum ==
    ASSUME NEW d \in Nat \ {0}, NEW s \in Nat \ {0}, NEW e \in Nat \ {0}, NEW t \in Nat \ {0},
           d < e, s < t
    PROVE  (d + s) * (e * t) > (e + t) * (d * s)
<1>1. PICK x \in Nat \ {0}, y \in Nat \ {0} : e = d + x /\ t = s + y
  <2>1. e - d \in Nat \ {0} /\ t - s \in Nat \ {0} /\ e = d + (e - d) /\ t = s + (t - s) OBVIOUS
  <2>2. QED BY <2>1
<1>2. PICK p \in Nat \ {0}, q \in Nat \ {0} : p = s * t /\ q = d * e OBVIOUS
<1>3. (d + s) * (e * t) = q * t + p * e
  <2>1. (d + s) * (e * t) = d * (e * t) + s * (e * t) OBVIOUS
  <2>2. d * (e * t) = (d * e) * t /\ s * (e * t) = (s * t) * e OBVIOUS
  <2>3. QED BY <1>2, <2>1, <2>2
<1>4. (e + t) * (d * s) = q * s + p * d
  <2>1. (e + t) * (d * s) = e * (d * s) + t * (d * s) OBVIOUS
  <2>2. e * (d * s) = (d * e) * s /\ t * (d * s) = (s * t) * d OBVIOUS
  <2>3. QED BY <1>2, <2>1, <2>2
<1>5. q * t > q * s
  <2>1. q * t = q * s + q * y BY <1>1
  <2>2. q * y \in Nat \ {0} /\ q * s \in Nat OBVIOUS
  <2>3. QED BY <2>1, <2>2
<1>6. p * e > p * d
  <2>1. p * e = p * d + p * x BY <1>1
  <2>2. p * x \in Nat \ {0} /\ p * d \in Nat OBVIOUS
  <2>3. QED BY <2>1, <2>2
<1>7. q * t \in Int /\ q * s \in Int /\ p * e \in Int /\ p * d \in Int OBVIOUS
<1>8. q * t + p * e > q * s + p * d BY <1>5, <1>6, <1>7
<1>9. QED BY <1>3, <1>4, <1>8

LEMMA AgreementScores ==
    ASSUME dense \in Lists, sparse \in Lists,
           NEW c \in Elements(dense) \union Elements(sparse),
           NEW e \in Elements(dense) \union Elements(sparse), c # e, AsGood(c, e)
    PROVE  ~AtLeast(RRFScore(e), RRFScore(c))
<1>1. RRFk \in Nat \ {0} BY LimitsAssumption
<1> DEFINE D(x) == RRFk + PositionIn(dense, x)
           S(x) == RRFk + PositionIn(sparse, x)
<1>2. \A x \in Elements(dense) : D(x) \in Nat \ {0} BY <1>1, ListFacts
<1>3. \A x \in Elements(sparse) : S(x) \in Nat \ {0} BY <1>1, ListFacts
<1>4. e \in Elements(dense) => c \in Elements(dense) /\ D(c) < D(e)
  <2> SUFFICES ASSUME e \in Elements(dense) PROVE c \in Elements(dense) /\ D(c) < D(e) OBVIOUS
  <2>1. c \in Elements(dense) /\ PositionIn(dense, c) <= PositionIn(dense, e)
    BY DEF AsGood, AsGoodIn
  <2>2. PositionIn(dense, c) # PositionIn(dense, e) BY <2>1, ListFacts
  <2>3. PositionIn(dense, c) \in Nat /\ PositionIn(dense, e) \in Nat BY <2>1, ListFacts
  <2>4. QED BY <1>1, <2>1, <2>2, <2>3
<1>5. e \in Elements(sparse) => c \in Elements(sparse) /\ S(c) < S(e)
  <2> SUFFICES ASSUME e \in Elements(sparse) PROVE c \in Elements(sparse) /\ S(c) < S(e) OBVIOUS
  <2>1. c \in Elements(sparse) /\ PositionIn(sparse, c) <= PositionIn(sparse, e)
    BY DEF AsGood, AsGoodIn
  <2>2. PositionIn(sparse, c) # PositionIn(sparse, e) BY <2>1, ListFacts
  <2>3. PositionIn(sparse, c) \in Nat /\ PositionIn(sparse, e) \in Nat BY <2>1, ListFacts
  <2>4. QED BY <1>1, <2>1, <2>2, <2>3
<1>6. \A x : RRFScore(x) = IF x \notin Elements(sparse) THEN <<1, D(x)>>
                           ELSE IF x \notin Elements(dense) THEN <<1, S(x)>>
                           ELSE <<D(x) + S(x), D(x) * S(x)>>
  BY DEF RRFScore
<1> HIDE DEF D, S
<1>7. CASE e \in Elements(dense) /\ e \notin Elements(sparse)
  <2>1. PICK d \in Nat \ {0}, f \in Nat \ {0} : d = D(c) /\ f = D(e) /\ d < f
    BY <1>2, <1>4, <1>7
  <2>2. RRFScore(e) = <<1, f>> BY <1>6, <1>7, <2>1
  <2>3. CASE c \notin Elements(sparse)
    <3>1. RRFScore(c) = <<1, d>> BY <1>6, <2>1, <2>3
    <3>2. QED BY <2>1, <2>2, <3>1 DEF AtLeast
  <2>4. CASE c \in Elements(sparse)
    <3>1. PICK s \in Nat \ {0} : s = S(c) BY <1>3, <2>4
    <3>2. RRFScore(c) = <<d + s, d * s>> BY <1>4, <1>6, <1>7, <2>1, <2>4, <3>1
    <3>3. d * s < f * s /\ f * s < (d + s) * f
      <4>1. PICK x \in Nat \ {0} : f = d + x
        <5>1. f - d \in Nat \ {0} /\ f = d + (f - d) BY <2>1
        <5>2. QED BY <5>1
      <4>2. f * s = d * s + x * s /\ x * s \in Nat \ {0} /\ d * s \in Nat BY <4>1
      <4>3. (d + s) * f = d * f + f * s /\ d * f \in Nat \ {0} /\ f * s \in Nat OBVIOUS
      <4>4. QED BY <4>2, <4>3
    <3>4. d * s \in Int /\ f * s \in Int /\ (d + s) * f \in Int OBVIOUS
    <3>5. ~(1 * (d * s) >= (d + s) * f) BY <3>3, <3>4
    <3>6. QED BY <2>2, <3>2, <3>5 DEF AtLeast
  <2>5. QED BY <2>3, <2>4
<1>8. CASE e \in Elements(sparse) /\ e \notin Elements(dense)
  <2>1. PICK s \in Nat \ {0}, f \in Nat \ {0} : s = S(c) /\ f = S(e) /\ s < f
    BY <1>3, <1>5, <1>8
  <2>2. RRFScore(e) = <<1, f>> BY <1>6, <1>8, <2>1
  <2>3. CASE c \notin Elements(dense)
    <3>1. RRFScore(c) = <<1, s>> BY <1>5, <1>6, <1>8, <2>1, <2>3
    <3>2. QED BY <2>1, <2>2, <3>1 DEF AtLeast
  <2>4. CASE c \in Elements(dense)
    <3>1. PICK d \in Nat \ {0} : d = D(c) BY <1>2, <2>4
    <3>2. RRFScore(c) = <<d + s, d * s>> BY <1>5, <1>6, <1>8, <2>1, <2>4, <3>1
    <3>3. d * s < d * f /\ d * f < (d + s) * f
      <4>1. PICK x \in Nat \ {0} : f = s + x
        <5>1. f - s \in Nat \ {0} /\ f = s + (f - s) BY <2>1
        <5>2. QED BY <5>1
      <4>2. d * f = d * s + d * x /\ d * x \in Nat \ {0} /\ d * s \in Nat BY <4>1
      <4>3. (d + s) * f = d * f + s * f /\ s * f \in Nat \ {0} /\ d * f \in Nat OBVIOUS
      <4>4. QED BY <4>2, <4>3
    <3>4. d * s \in Int /\ d * f \in Int /\ (d + s) * f \in Int OBVIOUS
    <3>5. ~(1 * (d * s) >= (d + s) * f) BY <3>3, <3>4
    <3>6. QED BY <2>2, <3>2, <3>5 DEF AtLeast
  <2>5. QED BY <2>3, <2>4
<1>9. CASE e \in Elements(dense) /\ e \in Elements(sparse)
  <2>1. PICK d \in Nat \ {0}, f \in Nat \ {0} : d = D(c) /\ f = D(e) /\ d < f
    BY <1>2, <1>4, <1>9
  <2>2. PICK s \in Nat \ {0}, g \in Nat \ {0} : s = S(c) /\ g = S(e) /\ s < g
    BY <1>3, <1>5, <1>9
  <2>3. RRFScore(c) = <<d + s, d * s>> /\ RRFScore(e) = <<f + g, f * g>>
    BY <1>4, <1>5, <1>6, <1>9, <2>1, <2>2
  <2>4. (d + s) * (f * g) > (f + g) * (d * s) BY <2>1, <2>2, LargerSum
  <2>5. PICK x \in Int, y \in Int : x = (d + s) * (f * g) /\ y = (f + g) * (d * s) OBVIOUS
  <2>6. ~(y >= x) BY <2>4, <2>5
  <2>7. QED BY <2>3, <2>5, <2>6 DEF AtLeast
<1>10. QED BY <1>7, <1>8, <1>9

LEMMA PrefixFacts ==
    ASSUME NEW X, NEW s \in Seq(X), NEW n \in Nat
    PROVE  /\ Prefix(s, n) \in Seq(X)
           /\ DOMAIN Prefix(s, n) = 1..Len(Prefix(s, n))
           /\ DOMAIN Prefix(s, n) = {i \in DOMAIN s : i <= n}
           /\ \A i \in DOMAIN Prefix(s, n) : Prefix(s, n)[i] = s[i]
<1>1. PICK k \in 0..Len(s) : k = (IF n < Len(s) THEN n ELSE Len(s))
  <2>1. Len(s) \in Nat OBVIOUS
  <2>2. QED BY <2>1
<1>2. Prefix(s, n) = SubSeq(s, 1, k) BY <1>1 DEF Prefix
<1>3. SubSeq(s, 1, k) \in Seq(X) /\ Len(SubSeq(s, 1, k)) = k
      /\ \A i \in 1..k : SubSeq(s, 1, k)[i] = s[i]
  BY <1>1
<1>4. 1..k = {i \in DOMAIN s : i <= n} BY <1>1
<1>5. QED BY <1>2, <1>3, <1>4

FromDense(s) == \A i \in DOMAIN s : s[i].chunk \in Elements(dense) => s[i].from = "dense"

(* The list that Fuse makes: no chunk twice, the best first, and behind a  *)
(* chunk none that both retrievers prefer.                                 *)
LEMMA Fused ==
    ASSUME dense \in Lists, sparse \in Lists, Fuse
    PROVE  /\ ranked' \in Seq(Entry) /\ Sorted(ranked') /\ FromDense(ranked')
           /\ FusionAgrees'
<1> DEFINE entry(c) == [chunk |-> c, from |-> PrefersDense(c), score |-> RRFScore(c)]
           F == [i \in DOMAIN Merged |-> entry(Merged[i])]
           t == ByScore(F)
<1>1. /\ Merged \in Seq(Chunks) /\ \A i, j \in DOMAIN Merged : Merged[i] = Merged[j] => i = j
      /\ Elements(Merged) = Elements(dense) \union Elements(sparse)
  BY MergedFacts
<1>2. \A c \in Elements(Merged) : c \in Chunks /\ entry(c) \in Entry
  <2> TAKE c \in Elements(Merged)
  <2>1. c \in Chunks BY <1>1 DEF Elements
  <2>2. RRFScore(c) \in Fraction BY <1>1, ScoreIsFraction
  <2>3. PrefersDense(c) \in {"dense", "sparse"} BY DEF PrefersDense
  <2>4. QED BY <2>1, <2>2, <2>3 DEF Entry
<1>3. \A c : entry(c).chunk = c /\ entry(c).from = PrefersDense(c) /\ entry(c).score = RRFScore(c)
  OBVIOUS
<1> HIDE DEF entry
<1>4. \A i \in DOMAIN Merged : Merged[i] \in Elements(Merged) BY DEF Elements
<1>5. F \in Seq(Entry) /\ DOMAIN F = DOMAIN Merged /\ Len(F) = Len(Merged)
      /\ \A i \in DOMAIN F : F[i] = entry(Merged[i])
  <2>1. \A i \in 1..Len(Merged) : entry(Merged[i]) \in Entry BY <1>1, <1>2, <1>4
  <2>2. Len(Merged) \in Nat /\ DOMAIN Merged = 1..Len(Merged) BY <1>1
  <2>3. QED BY <2>1, <2>2
<1>6. ranked' = Prefix(t, TopFused) BY DEF Fuse, entry
<1> HIDE DEF F
<1>7. t \in Seq(Entry) /\ Len(t) = Len(F) /\ Sorted(t) BY <1>5, SortedByScore
<1>8. PICK b : Permutes(b, F, DOMAIN F, Better(F), t) BY <1>5, SortedByScore
<1> HIDE DEF t
<1>9. PICK N \in Nat : /\ N = Cardinality(DOMAIN F) /\ DOMAIN t = 1..N /\ b \in [1..N -> DOMAIN F]
                       /\ \A n \in 1..N : t[n] = entry(Merged[b[n]])
                       /\ \A i \in DOMAIN F : \E n \in 1..N : b[n] = i
                       /\ \A n, m \in 1..N : n < m <=> <<b[n], b[m]>> \in Better(F)
  BY <1>5, <1>8 DEF Permutes
<1>10. \A n, m \in 1..N : b[n] = b[m] => n = m
  <2> SUFFICES ASSUME NEW n \in 1..N, NEW m \in 1..N, b[n] = b[m] PROVE n = m OBVIOUS
  <2>1. n < m <=> m < n BY <1>9
  <2>2. QED BY <2>1
<1>11. TopFused \in Nat BY LimitsAssumption
<1>12. /\ ranked' \in Seq(Entry) /\ \A i \in DOMAIN ranked' : i \in 1..N /\ ranked'[i] = t[i]
       /\ \A i \in DOMAIN ranked', j \in 1..N : j <= i => j \in DOMAIN ranked'
  <2>1. /\ ranked' \in Seq(Entry) /\ DOMAIN ranked' = {i \in DOMAIN t : i <= TopFused}
        /\ \A i \in DOMAIN ranked' : ranked'[i] = t[i]
    BY <1>6, <1>7, <1>11, PrefixFacts
  <2>2. QED BY <1>9, <1>11, <2>1
<1>13. \A i \in DOMAIN ranked' : /\ b[i] \in DOMAIN Merged
                                 /\ ranked'[i] = entry(Merged[b[i]])
  BY <1>5, <1>9, <1>12
<1>14. Sorted(ranked') BY <1>7, <1>9, <1>12 DEF Sorted
<1>15. FromDense(ranked') BY <1>3, <1>13 DEF FromDense, PrefersDense
<1>16. \A i, j \in DOMAIN ranked' : ranked'[i].chunk = ranked'[j].chunk => i = j
  <2> SUFFICES ASSUME NEW i \in DOMAIN ranked', NEW j \in DOMAIN ranked',
                      ranked'[i].chunk = ranked'[j].chunk
               PROVE  i = j
    OBVIOUS
  <2>1. Merged[b[i]] = Merged[b[j]] BY <1>3, <1>13
  <2>2. b[i] = b[j] BY <1>1, <1>13, <2>1
  <2>3. QED BY <1>10, <1>12, <2>2
<1>17. ASSUME NEW c \in Elements(dense) \union Elements(sparse), NEW j \in DOMAIN ranked',
              AsGood(c, ranked'[j].chunk)
       PROVE  \E i \in 1..j : ranked'[i].chunk = c
  <2>1. PICK e \in Elements(Merged) : e = Merged[b[j]] /\ ranked'[j].chunk = e
    BY <1>3, <1>4, <1>13
  <2>2. j \in 1..N BY <1>12
  <2>3. CASE c = e
    <3>1. j \in 1..j BY <2>2
    <3>2. QED BY <2>1, <2>3, <3>1
  <2>4. CASE c # e
    <3>1. PICK m \in DOMAIN Merged : c = Merged[m] BY <1>1 DEF Elements
    <3>2. PICK i \in 1..N : b[i] = m BY <1>5, <1>9, <3>1
    <3>3. ~AtLeast(RRFScore(e), RRFScore(c)) BY <1>1, <1>17, <2>1, <2>4, AgreementScores
    <3>4. F[m].score = RRFScore(c) /\ F[b[j]].score = RRFScore(e)
          /\ m \in DOMAIN F /\ b[j] \in DOMAIN F
      BY <1>3, <1>5, <1>13, <2>1, <3>1
    <3>5. <<b[i], b[j]>> \in Better(F) BY <3>2, <3>3, <3>4 DEF Better
    <3>6. i < j BY <1>9, <2>2, <3>2, <3>5
    <3>7. i \in 1..j /\ i \in DOMAIN ranked' BY <1>12, <2>2, <3>2, <3>6
    <3>8. ranked'[i].chunk = c BY <1>3, <1>13, <3>1, <3>2, <3>7
    <3>9. QED BY <3>7, <3>8
  <2>5. QED BY <2>3, <2>4
<1>18. dense' = dense /\ sparse' = sparse BY DEF Fuse
<1>19. FusionAgrees'
  <2>1. \A c, e : AsGood(c, e)' = AsGood(c, e) BY <1>18 DEF AsGood, AsGoodIn
  <2>2. QED BY <1>16, <1>17, <1>18, <2>1 DEF FusionAgrees
<1>20. QED BY <1>12, <1>14, <1>15, <1>19

(* Re-ranking keeps the chunks and where their objects came from.          *)
LEMMA Reranked ==
    ASSUME ranked \in Seq(Entry), FromDense(ranked), Sorted(ranked),
           \/ RerankOff
           \/ \E logit \in [{r.chunk : r \in Elements(ranked)} -> Logits] : Rerank(logit)
    PROVE  ranked' \in Seq(Entry) /\ Sorted(ranked') /\ FromDense(ranked')
<1>1. TopRerank \in Nat BY LimitsAssumption
<1>2. ASSUME NEW s \in Seq(Entry), Sorted(s), FromDense(s)
      PROVE  /\ Prefix(s, TopRerank) \in Seq(Entry)
             /\ Sorted(Prefix(s, TopRerank)) /\ FromDense(Prefix(s, TopRerank))
  <2> DEFINE p == Prefix(s, TopRerank)
  <2>1. p \in Seq(Entry) /\ \A i \in DOMAIN p : i \in DOMAIN s /\ p[i] = s[i]
    <3>1. /\ p \in Seq(Entry) /\ DOMAIN p = {i \in DOMAIN s : i <= TopRerank}
          /\ \A i \in DOMAIN p : p[i] = s[i]
      BY <1>1, PrefixFacts
    <3>2. QED BY <3>1
  <2> HIDE DEF p
  <2>2. Sorted(p) BY <1>2, <2>1 DEF Sorted
  <2>3. FromDense(p) BY <1>2, <2>1 DEF FromDense
  <2>4. QED BY <2>1, <2>2, <2>3 DEF p
<1>3. CASE RerankOff BY <1>2, <1>3 DEF RerankOff
<1>4. ASSUME NEW logit \in [{r.chunk : r \in Elements(ranked)} -> Logits], Rerank(logit)
      PROVE  ranked' \in Seq(Entry) /\ Sorted(ranked') /\ FromDense(ranked')
  <2> DEFINE scored(r) == [r EXCEPT !.score = <<logit[r.chunk], 100>>]
             F == [i \in DOMAIN ranked |-> scored(ranked[i])]
             t == ByScore(F)
  <2>1. \A r \in Entry : scored(r).chunk = r.chunk /\ scored(r).from = r.from BY DEF Entry
  <2>2. \A r \in Elements(ranked) : scored(r) \in Entry
    <3> TAKE r \in Elements(ranked)
    <3>1. r \in Entry BY DEF Elements
    <3>2. logit[r.chunk] \in Logits OBVIOUS
    <3>3. logit[r.chunk] \in Nat
      <4>1. \A x \in Logits : x \in Nat
        <5>1. \A x \in 0..100 : x \in Nat OBVIOUS
        <5>2. QED BY <5>1, LogitsAssumption
      <4>2. QED BY <3>2, <4>1
    <3>4. <<logit[r.chunk], 100>> \in Fraction BY <3>3 DEF Fraction
    <3>5. QED BY <3>1, <3>4 DEF Entry
  <2>3. \A i \in DOMAIN ranked : ranked[i] \in Entry /\ ranked[i] \in Elements(ranked)
    BY DEF Elements
  <2> HIDE DEF scored
  <2>4. F \in Seq(Entry) /\ DOMAIN F = DOMAIN ranked /\ \A i \in DOMAIN F : F[i] = scored(ranked[i])
    <3>1. Len(ranked) \in Nat /\ DOMAIN ranked = 1..Len(ranked) OBVIOUS
    <3>2. \A i \in 1..Len(ranked) : scored(ranked[i]) \in Entry BY <2>2, <2>3, <3>1
    <3>3. QED BY <3>1, <3>2
  <2>5. ranked' = Prefix(t, TopRerank) BY <1>4 DEF Rerank, scored
  <2> HIDE DEF F
  <2>6. t \in Seq(Entry) /\ Sorted(t) BY <2>4, SortedByScore
  <2>7. PICK b : Permutes(b, F, DOMAIN F, Better(F), t) BY <2>4, SortedByScore
  <2> HIDE DEF t
  <2>8. \A n \in DOMAIN t : \E i \in DOMAIN ranked : t[n] = scored(ranked[i])
    BY <2>4, <2>7 DEF Permutes
  <2>9. FromDense(t) BY <2>1, <2>3, <2>8 DEF FromDense
  <2>10. QED BY <1>2, <2>5, <2>6, <2>9
<1>5. QED BY <1>3, <1>4

(* The useful sources of a sorted list are its first ones.                 *)
LEMMA UsefulFacts ==
    ASSUME NEW s \in Seq(Entry), Sorted(s)
    PROVE  /\ UsefulOnes(s) \in Seq(Entry) /\ Len(UsefulOnes(s)) <= Len(s)
           /\ \A i \in DOMAIN UsefulOnes(s) :
                 /\ i \in DOMAIN s /\ UsefulOnes(s)[i] = s[i]
                 /\ i > 1 => AtLeast(s[i].score, MinUseful)
           /\ s # <<>> => UsefulOnes(s) # <<>>
<1> DEFINE K == {i \in DOMAIN s : AtLeast(s[i].score, MinUseful)}
           t == Selected(s, K)
           n == Cardinality(K)
<1>1. Len(s) \in Nat /\ DOMAIN s = 1..Len(s) OBVIOUS
<1>2. K \in SUBSET DOMAIN s OBVIOUS
<1>3. \A i : i \in K <=> i \in DOMAIN s /\ AtLeast(s[i].score, MinUseful) OBVIOUS
<1>4. UsefulOnes(s) = IF t = <<>> THEN Prefix(s, 1) ELSE t BY DEF UsefulOnes
<1> HIDE DEF K
<1>5. t \in Seq(Entry) /\ Len(t) = n BY <1>2, Selection
<1>6. PICK b : Permutes(b, s, K, {p \in K \X K : p[1] < p[2]}, t) BY <1>2, Selection
<1> HIDE DEF t
<1>7. /\ n \in Nat /\ b \in [1..n -> K]
      /\ t = [m \in 1..n |-> s[b[m]]]
      /\ \A i \in K : \E m \in 1..n : b[m] = i
      /\ \A l, m \in 1..n : l < m <=> <<b[l], b[m]>> \in {p \in K \X K : p[1] < p[2]}
  BY <1>6 DEF Permutes, n
<1> HIDE DEF n
<1>8. \A l, m \in 1..n : l < m <=> b[l] < b[m] BY <1>7
<1>9. \A i \in K, j \in DOMAIN s : j <= i => j \in K
  <2> TAKE i \in K, j \in DOMAIN s
  <2> SUFFICES ASSUME j < i PROVE j \in K BY <1>1, <1>2
  <2>1. i \in DOMAIN s /\ AtLeast(s[j].score, s[i].score) BY <1>3 DEF Sorted
  <2>2. s[i] \in Entry /\ s[j] \in Entry BY <2>1
  <2>3. \A e \in Entry : e.score \in Fraction BY DEF Entry
  <2>4. MinUseful \in Fraction BY DEF MinUseful, Fraction
  <2>5. QED BY <1>3, <2>1, <2>2, <2>3, <2>4, ScoresAreOrdered
<1>10. \A m \in 1..n : b[m] \in K /\ b[m] \in Nat \ {0} BY <1>1, <1>2, <1>7
<1> DEFINE Bad == {m \in 1..n : b[m] # m}
<1> Bad \subseteq Nat OBVIOUS
<1> \A m : m \in Bad <=> m \in 1..n /\ b[m] # m OBVIOUS
<1> HIDE DEF Bad
<1>11. CASE Bad # {}
  <2>1. PICK m \in Bad : \A k \in Bad : m <= k BY <1>11, LeastOf
  <2>2. m \in 1..n /\ m \in Nat /\ b[m] # m BY <2>1
  <2>3. \A l \in 1..n : l < m => b[l] = l BY <2>1
  <2>4. b[m] > m
    <3>1. CASE m = 1 BY <1>10, <2>2, <3>1
    <3>2. CASE m # 1
      <4>1. m - 1 \in 1..n /\ m - 1 < m BY <1>7, <2>2, <3>2
      <4>2. b[m - 1] = m - 1 /\ b[m - 1] < b[m] BY <1>8, <2>2, <2>3, <4>1
      <4>3. QED BY <1>10, <2>2, <4>2
    <3>3. QED BY <3>1, <3>2
  <2>5. m \in DOMAIN s BY <1>1, <1>2, <1>10, <2>2, <2>4
  <2>6. m \in K BY <1>9, <1>10, <2>2, <2>4, <2>5
  <2>7. PICK l \in 1..n : b[l] = m BY <1>7, <2>6
  <2>8. ~(l < m) BY <2>3, <2>7
  <2>9. l # m BY <2>2, <2>7
  <2>10. ~(m < l) BY <1>8, <2>2, <2>4, <2>7
  <2>11. QED BY <2>2, <2>7, <2>8, <2>9, <2>10
<1>12. CASE Bad = {}
  <2>1. \A m \in 1..n : b[m] = m BY <1>12
  <2>2. \A i \in DOMAIN t : i \in DOMAIN s /\ t[i] = s[i] /\ AtLeast(s[i].score, MinUseful)
    <3> TAKE i \in DOMAIN t
    <3>1. i \in 1..n /\ b[i] = i BY <1>7, <2>1
    <3>2. i \in K BY <1>10, <3>1
    <3>3. QED BY <1>3, <1>7, <3>1, <3>2
  <2>3. CASE t = <<>>
    <3>0. 1 \in Nat OBVIOUS
    <3>1. /\ Prefix(s, 1) \in Seq(Entry)
          /\ DOMAIN Prefix(s, 1) = 1..Len(Prefix(s, 1))
          /\ DOMAIN Prefix(s, 1) = {i \in DOMAIN s : i <= 1}
          /\ \A i \in DOMAIN Prefix(s, 1) : Prefix(s, 1)[i] = s[i]
      BY <3>0, PrefixFacts
    <3>2. UsefulOnes(s) = Prefix(s, 1) BY <1>4, <2>3
    <3>3. Len(Prefix(s, 1)) <= Len(s)
      <4>1. Len(Prefix(s, 1)) \in Nat BY <3>1
      <4>2. CASE Len(Prefix(s, 1)) = 0 BY <1>1, <4>2
      <4>3. CASE Len(Prefix(s, 1)) # 0
        <5>1. Len(Prefix(s, 1)) \in DOMAIN Prefix(s, 1) BY <3>1, <4>1, <4>3
        <5>2. QED BY <1>1, <3>1, <5>1
      <4>4. QED BY <4>2, <4>3
    <3>4. s # <<>> => 1 \in DOMAIN Prefix(s, 1) BY <1>1, <3>1
    <3>5. s # <<>> => Prefix(s, 1) # <<>> BY <3>1, <3>4
    <3>6. \A i \in DOMAIN Prefix(s, 1) : i \in DOMAIN s /\ ~(i > 1) BY <1>1, <3>1
    <3>7. QED BY <3>1, <3>2, <3>3, <3>5, <3>6
  <2>4. CASE t # <<>>
    <3>1. UsefulOnes(s) = t BY <1>4, <2>4
    <3>2. Len(t) <= Len(s)
      <4>1. CASE n = 0 BY <1>1, <1>5, <4>1
      <4>2. CASE n # 0
        <5>1. n \in 1..n BY <1>7, <4>2
        <5>2. n \in DOMAIN s BY <1>2, <1>10, <2>1, <5>1
        <5>3. QED BY <1>1, <1>5, <5>2
      <4>3. QED BY <4>1, <4>2
    <3>3. QED BY <1>5, <2>2, <2>4, <3>1, <3>2
  <2>5. QED BY <2>3, <2>4
<1>13. QED BY <1>11, <1>12

(* Sums of sizes, from the first one on.                                   *)
IsSum(sizes, n, upto) == upto = [m \in 0..n |-> IF m = 0 THEN 0 ELSE upto[m - 1] + sizes[m]]

LEMMA SumSteps ==
    ASSUME NEW sizes, NEW n \in Nat, NEW upto, IsSum(sizes, n, upto)
    PROVE  upto[0] = 0 /\ \A m \in 1..n : upto[m] = upto[m - 1] + sizes[m]
<1>1. \A m \in 0..n : upto[m] = IF m = 0 THEN 0 ELSE upto[m - 1] + sizes[m] BY DEF IsSum
<1>2. 0 \in 0..n /\ \A m \in 1..n : m \in 0..n /\ m # 0 OBVIOUS
<1>3. QED BY <1>1, <1>2

LEMMA SumExists ==
    ASSUME NEW sizes \in Seq(Nat), NEW n \in Nat
    PROVE  \E upto : IsSum(sizes, n, upto)
<1> DEFINE Bad == {m \in 0..n : ~\E upto : IsSum(sizes, m, upto)}
<1> Bad \subseteq Nat OBVIOUS
<1> \A m : m \in Bad <=> m \in 0..n /\ ~\E upto : IsSum(sizes, m, upto) OBVIOUS
<1> HIDE DEF Bad
<1>1. CASE 0 \in Bad
  <2>1. IsSum(sizes, 0, [l \in 0..0 |-> 0]) BY DEF IsSum
  <2>2. QED BY <1>1, <2>1
<1>2. CASE Bad # {} /\ 0 \notin Bad
  <2>1. PICK m \in Bad : \A k \in Bad : m <= k BY <1>2, LeastOf
  <2>2. m \in 1..n /\ m - 1 \in 0..n /\ m - 1 \in Nat BY <1>2, <2>1
  <2>3. m - 1 \notin Bad BY <2>1, <2>2
  <2>4. PICK g : IsSum(sizes, m - 1, g) BY <2>2, <2>3
  <2> DEFINE h == [l \in 0..m |-> IF l < m THEN g[l] ELSE g[m - 1] + sizes[m]]
  <2>5. g[0] = 0 /\ \A l \in 1..m - 1 : g[l] = g[l - 1] + sizes[l] BY <2>2, <2>4, SumSteps
  <2>6. \A l \in 0..m : h[l] = IF l = 0 THEN 0 ELSE h[l - 1] + sizes[l]
    <3>1. h[0] = 0 BY <2>2, <2>5
    <3>2. ASSUME NEW l \in 1..m PROVE h[l] = h[l - 1] + sizes[l]
      <4>1. l - 1 \in 0..m /\ l - 1 < m /\ l \in 0..m BY <2>2
      <4>2. h[l - 1] = g[l - 1] BY <4>1
      <4>3. CASE l = m BY <4>1, <4>2, <4>3
      <4>4. CASE l # m
        <5>1. l \in 1..m - 1 /\ l < m BY <2>2, <4>4
        <5>2. QED BY <2>5, <4>1, <4>2, <5>1
      <4>5. QED BY <4>3, <4>4
    <3>3. \A l \in 0..m : l = 0 \/ l \in 1..m BY <2>2
    <3>4. QED BY <3>1, <3>2, <3>3
  <2>7. h = [l \in 0..m |-> h[l]] OBVIOUS
  <2> HIDE DEF h
  <2>8. IsSum(sizes, m, h) BY <2>6, <2>7 DEF IsSum
  <2>9. QED BY <2>1, <2>8
<1>3. n \in 0..n OBVIOUS
<1>4. QED BY <1>1, <1>2, <1>3

LEMMA SumOf ==
    ASSUME NEW sizes \in Seq(Nat)
    PROVE  \E upto : IsSum(sizes, Len(sizes), upto) /\ Total(sizes) = upto[Len(sizes)]
<1>1. Len(sizes) \in Nat OBVIOUS
<1>2. \E upto : IsSum(sizes, Len(sizes), upto) BY <1>1, SumExists
<1> DEFINE sum == CHOOSE upto : IsSum(sizes, Len(sizes), upto)
<1>3. IsSum(sizes, Len(sizes), sum) BY <1>2
<1>4. Total(sizes) = sum[Len(sizes)] BY DEF Total, IsSum
<1>5. QED BY <1>3, <1>4

LEMMA SizesOf ==
    ASSUME NEW b \in Seq(Nat)
    PROVE  \A i \in 1..Len(b) : b[i] \in Nat
OBVIOUS

(* When every size of a list is at most the sum of those of two others at  *)
(* its place, so is its sum.                                               *)
LEMMA SmallerSum ==
    ASSUME NEW a \in Seq(Nat), NEW b \in Seq(Nat), NEW e \in Seq(Nat),
           Len(a) = Len(b), Len(a) = Len(e),
           \A i \in 1..Len(a) : a[i] <= b[i] + e[i]
    PROVE  /\ Total(a) \in Nat /\ Total(b) \in Nat /\ Total(e) \in Nat
           /\ Total(a) <= Total(b) + Total(e)
<1> DEFINE N == Len(a)
<1>1. N \in Nat /\ N = Len(b) /\ N = Len(e) OBVIOUS
<1>2. PICK f : IsSum(a, N, f) /\ Total(a) = f[N] BY SumOf
<1>3. PICK g : IsSum(b, N, g) /\ Total(b) = g[N] BY <1>1, SumOf
<1>4. PICK h : IsSum(e, N, h) /\ Total(e) = h[N] BY <1>1, SumOf
<1>5. \A i \in 1..N : a[i] \in Nat /\ b[i] \in Nat /\ e[i] \in Nat /\ a[i] <= b[i] + e[i]
  <2>1. \A i \in 1..N : a[i] <= b[i] + e[i] OBVIOUS
  <2>2. QED BY <1>1, <2>1, SizesOf
<1> HIDE DEF N
<1>6. f[0] = 0 /\ \A m \in 1..N : f[m] = f[m - 1] + a[m] BY <1>1, <1>2, SumSteps
<1>7. g[0] = 0 /\ \A m \in 1..N : g[m] = g[m - 1] + b[m] BY <1>1, <1>3, SumSteps
<1>8. h[0] = 0 /\ \A m \in 1..N : h[m] = h[m - 1] + e[m] BY <1>1, <1>4, SumSteps
<1> DEFINE Fine(m) == f[m] \in Nat /\ g[m] \in Nat /\ h[m] \in Nat /\ f[m] <= g[m] + h[m]
           Bad == {m \in 0..N : ~Fine(m)}
<1> Bad \subseteq Nat OBVIOUS
<1> \A m : m \in Bad <=> m \in 0..N /\ ~Fine(m) OBVIOUS
<1>9. Fine(0) BY <1>6, <1>7, <1>8
<1>10. ASSUME NEW m \in 1..N, Fine(m - 1) PROVE Fine(m)
  <2>1. f[m] = f[m - 1] + a[m] /\ g[m] = g[m - 1] + b[m] /\ h[m] = h[m - 1] + e[m]
    BY <1>6, <1>7, <1>8
  <2>2. PICK p \in Nat, q \in Nat, r \in Nat :
            p = f[m - 1] /\ q = g[m - 1] /\ r = h[m - 1] /\ p <= q + r
    BY <1>10
  <2>3. PICK x \in Nat, y \in Nat, z \in Nat :
            x = a[m] /\ y = b[m] /\ z = e[m] /\ x <= y + z
    BY <1>5
  <2>4. f[m] = p + x /\ g[m] = q + y /\ h[m] = r + z BY <2>1, <2>2, <2>3
  <2>5. p <= q + r /\ x <= y + z BY <2>2, <2>3
  <2>6. /\ p + x \in Nat /\ q + y \in Nat /\ r + z \in Nat
        /\ p + x <= (q + y) + (r + z)
    BY <2>5
  <2>7. QED BY <2>4, <2>6
<1> HIDE DEF Bad
<1>11. CASE Bad # {}
  <2>1. PICK m \in Bad : \A k \in Bad : m <= k BY <1>11, LeastOf
  <2>2. m # 0 BY <1>9, <2>1
  <2>3. m \in 1..N /\ m - 1 \in 0..N /\ ~(m <= m - 1) BY <1>1, <2>1, <2>2
  <2>4. Fine(m - 1) BY <2>1, <2>3
  <2>5. QED BY <1>10, <2>1, <2>3, <2>4
<1>12. CASE Bad = {}
  <2>1. N \in 0..N BY <1>1
  <2>2. Fine(N) BY <1>12, <2>1
  <2>3. QED BY <1>2, <1>3, <1>4, <2>2
<1>13. QED BY <1>11, <1>12

LEMMA EmptySum == Total(<<>>) = 0
<1>1. <<>> \in Seq(Nat) /\ Len(<<>>) = 0 OBVIOUS
<1>2. PICK upto : IsSum(<<>>, 0, upto) /\ Total(<<>>) = upto[0] BY <1>1, SumOf
<1>3. QED BY <1>2, SumSteps

(* What is written of a source is what is counted and the white space      *)
(* around it, unless it is flagged and not code.                           *)
LEMMA SourceSizes ==
    ASSUME NEW r \in Entry
    PROVE  /\ CountedSize(r) \in Nat /\ WrittenSize(r) \in Nat /\ Blank(r) \in Nat
           /\ \/ WrittenSize(r) <= CountedSize(r) + Blank(r)
              \/ IsFlagged(r) /\ r.chunk \notin Code
<1>1. r.chunk \in Chunks BY DEF Entry
<1>2. HeaderSize \in Nat BY LimitsAssumption
<1>3. /\ DocSize[r.chunk] \in Nat /\ RawSize[r.chunk] \in Nat
      /\ DocStripped[r.chunk] \in Nat /\ RawStripped[r.chunk] \in Nat
      /\ DocStripped[r.chunk] <= DocSize[r.chunk] /\ RawStripped[r.chunk] <= RawSize[r.chunk]
  BY <1>1, SizesAssumption, StrippedAssumption
<1>4. PICK h \in Nat, d \in Nat, w \in Nat, e \in Nat, x \in Nat :
          /\ h = HeaderSize /\ d = DocSize[r.chunk] /\ w = RawSize[r.chunk]
          /\ e = DocStripped[r.chunk] /\ x = RawStripped[r.chunk] /\ e <= d /\ x <= w
  BY <1>2, <1>3
<1>5. CountedSize(r) = h + (IF IsCode(r) THEN x ELSE e) BY <1>4 DEF CountedSize
<1>6. WrittenSize(r) = h + (IF IsCode(r) \/ (IsFlagged(r) /\ HasCode(r)) THEN w ELSE d)
  BY <1>4 DEF WrittenSize
<1>7. Blank(r) = IF IsCode(r) THEN w - x ELSE d - e BY <1>4 DEF Blank
<1>8. /\ h + w \in Nat /\ h + d \in Nat /\ h + x \in Nat /\ h + e \in Nat
      /\ w - x \in Nat /\ d - e \in Nat
      /\ h + w <= (h + x) + (w - x) /\ h + d <= (h + e) + (d - e)
  <2>1. e <= d /\ x <= w BY <1>4
  <2>2. QED BY <2>1
<1>9. CASE IsCode(r) BY <1>5, <1>6, <1>7, <1>8, <1>9
<1>10. CASE ~IsCode(r) /\ ~(IsFlagged(r) /\ HasCode(r)) BY <1>5, <1>6, <1>7, <1>8, <1>10
<1>11. CASE ~IsCode(r) /\ IsFlagged(r) /\ HasCode(r)
  <2>1. r.chunk \notin Code BY <1>11 DEF IsCode
  <2>2. QED BY <1>5, <1>6, <1>7, <1>8, <1>11, <2>1
<1>12. QED BY <1>9, <1>10, <1>11

LEMMA HasLargest ==
    ASSUME NEW N \in Nat, NEW T, T \subseteq 0..N, T # {}
    PROVE  \E t \in T : \A s \in T : s <= t
<1> DEFINE Mirror == {s \in Nat : \E t \in T : s = N - t}
<1>1. \A t \in T : t \in 0..N /\ N - t \in Nat OBVIOUS
<1>2. Mirror # {} /\ Mirror \subseteq Nat /\ \A t \in T : N - t \in Mirror BY <1>1
<1>3. \A s \in Mirror : \E t \in T : s = N - t OBVIOUS
<1> HIDE DEF Mirror
<1>4. PICK r \in Mirror : \A s \in Mirror : r <= s BY <1>2, LeastOf
<1>5. PICK t \in T : r = N - t BY <1>3
<1>6. \A s \in T : N - t <= N - s BY <1>2, <1>4, <1>5
<1>7. QED BY <1>1, <1>6

LEMMA FittingFacts ==
    ASSUME NEW s \in Seq(Entry)
    PROVE  /\ Fitting(s) \in Seq(Entry) /\ Len(Fitting(s)) \in 0..Len(s)
           /\ \A i \in DOMAIN Fitting(s) : i \in DOMAIN s /\ Fitting(s)[i] = s[i]
           /\ Used(s, Len(Fitting(s))) <= Budget
<1> DEFINE fits == {n \in 0..Len(s) : Used(s, n) <= Budget}
           n == CHOOSE n \in fits : \A m \in fits : m <= n
<1>1. Len(s) \in Nat /\ DOMAIN s = 1..Len(s) OBVIOUS
<1>2. fits \subseteq 0..Len(s) OBVIOUS
<1>3. 0 \in fits
  <2>1. [i \in 1..0 |-> CountedSize(s[i])] = <<>> OBVIOUS
  <2>2. Used(s, 0) = 0 BY <2>1, EmptySum DEF Used
  <2>3. Budget \in Nat BY LimitsAssumption
  <2>4. QED BY <1>1, <2>2, <2>3
<1>4. Fitting(s) = SubSeq(s, 1, n) BY DEF Fitting
<1>5. \A m \in fits : Used(s, m) <= Budget OBVIOUS
<1> HIDE DEF fits
<1>6. \E m \in fits : \A k \in fits : k <= m BY <1>1, <1>2, <1>3, HasLargest
<1>7. n \in fits BY <1>6
<1> HIDE DEF n
<1>8. n \in 0..Len(s) /\ Used(s, n) <= Budget BY <1>2, <1>5, <1>7
<1>9. /\ SubSeq(s, 1, n) \in Seq(Entry) /\ Len(SubSeq(s, 1, n)) = n
      /\ \A i \in 1..n : i \in DOMAIN s /\ SubSeq(s, 1, n)[i] = s[i]
  BY <1>1, <1>8
<1>10. QED BY <1>4, <1>8, <1>9

(* What is written of the sources that fit exceeds the budget by the white *)
(* space around them at most.                                              *)
LEMMA WrittenFits ==
    ASSUME NEW s \in Seq(Entry),
           \A i \in DOMAIN Fitting(s) :
               ~(IsFlagged(Fitting(s)[i]) /\ Fitting(s)[i].chunk \notin Code)
    PROVE  Total([i \in DOMAIN Fitting(s) |-> WrittenSize(Fitting(s)[i])])
           <= Budget + Total([i \in DOMAIN Fitting(s) |-> Blank(Fitting(s)[i])])
<1> DEFINE t == Fitting(s)
<1>1. /\ t \in Seq(Entry) /\ \A i \in DOMAIN t : i \in DOMAIN s /\ t[i] = s[i]
      /\ Used(s, Len(t)) <= Budget
  BY FittingFacts
<1>2. \A i \in DOMAIN t : ~(IsFlagged(t[i]) /\ t[i].chunk \notin Code) OBVIOUS
<1> HIDE DEF t
<1> DEFINE n == Len(t)
           W == [i \in 1..n |-> WrittenSize(t[i])]
           C == [i \in 1..n |-> CountedSize(t[i])]
           B == [i \in 1..n |-> Blank(t[i])]
<1>3. n \in Nat /\ DOMAIN t = 1..n BY <1>1
<1>4. \A i \in 1..n : /\ CountedSize(t[i]) \in Nat /\ WrittenSize(t[i]) \in Nat
                      /\ Blank(t[i]) \in Nat
                      /\ WrittenSize(t[i]) <= CountedSize(t[i]) + Blank(t[i])
  <2> TAKE i \in 1..n
  <2>1. t[i] \in Entry BY <1>1, <1>3
  <2>2. ~(IsFlagged(t[i]) /\ t[i].chunk \notin Code) BY <1>2, <1>3
  <2>3. QED BY <2>1, <2>2, SourceSizes
<1>5. C = [i \in 1..n |-> CountedSize(s[i])] BY <1>1, <1>3
<1>6. Total(C) <= Budget BY <1>1, <1>5 DEF Used
<1> HIDE DEF n
<1>7. W \in Seq(Nat) /\ Len(W) = n /\ \A i \in 1..n : W[i] = WrittenSize(t[i]) BY <1>3, <1>4
<1>8. C \in Seq(Nat) /\ Len(C) = n /\ \A i \in 1..n : C[i] = CountedSize(t[i]) BY <1>3, <1>4
<1>9. B \in Seq(Nat) /\ Len(B) = n /\ \A i \in 1..n : B[i] = Blank(t[i]) BY <1>3, <1>4
<1>10. W = [i \in DOMAIN t |-> WrittenSize(t[i])] /\ B = [i \in DOMAIN t |-> Blank(t[i])]
  BY <1>3
<1> HIDE DEF W, C, B
<1>11. /\ Total(W) \in Nat /\ Total(C) \in Nat /\ Total(B) \in Nat
       /\ Total(W) <= Total(C) + Total(B)
  BY <1>4, <1>7, <1>8, <1>9, SmallerSum
<1>12. Budget \in Nat BY LimitsAssumption
<1>13. Total(W) <= Budget + Total(B) BY <1>6, <1>11, <1>12
<1>14. QED BY <1>10, <1>13 DEF t

(* The inductive invariant of a query: until the context is built, the     *)
(* current list is sorted and prefers the objects of the dense list.       *)
QueryInv ==
    /\ dense \in Lists /\ sparse \in Lists /\ ranked \in Seq(Entry)
    /\ pc = "ask" => used = <<>> /\ text = 0
    /\ pc \in {"rerank", "build"} => Sorted(ranked) /\ FromDense(ranked)
    /\ FusionAgrees /\ FlaggedIsRedacted /\ BestSourcesUsed

LEMMA QueryInitially == Init => QueryInv
<1> SUFFICES ASSUME Init PROVE QueryInv OBVIOUS
<1>1. <<>> \in Lists
  <2>1. 0 \in 0..TopK BY LimitsAssumption
  <2>2. <<>> \in {s \in [1..0 -> Chunks] : \A i, j \in 1..0 : s[i] = s[j] => i = j} OBVIOUS
  <2>3. QED BY <2>1, <2>2 DEF Lists
<1>2. QED BY <1>1 DEF Init, QueryInv, FusionAgrees, FlaggedIsRedacted, BestSourcesUsed

LEMMA GeneralStep == QueryInv /\ AskGeneral => QueryInv'
<1> SUFFICES ASSUME QueryInv, AskGeneral PROVE QueryInv' OBVIOUS
<1>1. /\ dense' = dense /\ sparse' = sparse /\ ranked' = ranked /\ pc' = "answered"
      /\ used' = <<>> /\ text' = 0 /\ ranked \in Seq(Entry)
  BY DEF AskGeneral, QueryInv
<1>2. <<>> = Prefix(ranked, 0)
  <2>1. 0 \in Nat OBVIOUS
  <2>2. /\ DOMAIN Prefix(ranked, 0) = {i \in DOMAIN ranked : i <= 0}
        /\ Prefix(ranked, 0) \in Seq(Entry)
    BY <1>1, <2>1, PrefixFacts
  <2>3. \A i \in DOMAIN ranked : ~(i <= 0) BY <1>1
  <2>4. DOMAIN Prefix(ranked, 0) = {} BY <2>2, <2>3
  <2>5. QED BY <2>2, <2>4
<1>3. BestSourcesUsed'
  <2>1. Budget \in Nat BY LimitsAssumption
  <2>2. Len(<<>>) = 0 /\ DOMAIN <<>> = {} OBVIOUS
  <2>3. [i \in DOMAIN used' |-> Blank(used'[i])] = <<>> BY <1>1, <2>2
  <2>4. 0 <= Budget + Total([i \in DOMAIN used' |-> Blank(used'[i])])
    BY <2>1, <2>3, EmptySum
  <2>5. QED BY <1>1, <1>2, <2>2, <2>4 DEF BestSourcesUsed
<1>4. FlaggedIsRedacted' BY <1>1 DEF FlaggedIsRedacted, Elements
<1>5. QED BY <1>1, <1>3, <1>4 DEF QueryInv, FusionAgrees

LEMMA BuildStep == QueryInv /\ Build => QueryInv'
<1> SUFFICES ASSUME QueryInv, Build PROVE QueryInv' OBVIOUS
<1> DEFINE u == UsefulOnes(ranked)
           f == Fitting(u)
<1>1. /\ dense' = dense /\ sparse' = sparse /\ ranked' = ranked /\ pc' = "answered"
      /\ used' = f /\ text' = Total([i \in DOMAIN f |-> WrittenSize(f[i])])
      /\ redacted' = Redacted(f)
      /\ has_pii' = \E r \in Elements(Prefix(u, Len(f) + 1)) : IsFlagged(r)
  BY DEF Build
<1>2. ranked \in Seq(Entry) /\ Sorted(ranked) /\ FromDense(ranked) BY DEF Build, QueryInv
<1>3. /\ u \in Seq(Entry) /\ Len(u) <= Len(ranked)
      /\ \A i \in DOMAIN u : /\ i \in DOMAIN ranked /\ u[i] = ranked[i]
                             /\ i > 1 => AtLeast(ranked[i].score, MinUseful)
  BY <1>2, UsefulFacts
<1> HIDE DEF u
<1>4. /\ f \in Seq(Entry) /\ Len(f) \in 0..Len(u)
      /\ \A i \in DOMAIN f : i \in DOMAIN u /\ f[i] = u[i]
  BY <1>3, FittingFacts
<1>5. (\E r \in Elements(f) : IsFlagged(r) /\ r.chunk \notin Code)
      \/ Total([i \in DOMAIN f |-> WrittenSize(f[i])])
         <= Budget + Total([i \in DOMAIN f |-> Blank(f[i])])
  <2>1. \A i \in DOMAIN f : f[i] \in Elements(f) BY DEF Elements
  <2>2. QED BY <1>3, <2>1, WrittenFits
<1> HIDE DEF f
<1>6. Len(f) \in Nat /\ DOMAIN f = 1..Len(f) /\ Len(u) \in Nat /\ DOMAIN u = 1..Len(u)
      /\ Len(ranked) \in Nat /\ DOMAIN ranked = 1..Len(ranked)
  BY <1>2, <1>3, <1>4
<1>7. f = Prefix(ranked, Len(f))
  <2> DEFINE p == Prefix(ranked, Len(f))
  <2>1. /\ p \in Seq(Entry) /\ DOMAIN p = 1..Len(p)
        /\ DOMAIN p = {i \in DOMAIN ranked : i <= Len(f)}
        /\ \A i \in DOMAIN p : p[i] = ranked[i]
    <3>1. Len(f) \in Nat BY <1>6
    <3>2. QED BY <1>2, <3>1, PrefixFacts
  <2> HIDE DEF p
  <2>2. DOMAIN p = DOMAIN f
    <3>1. \A i : i \in 1..Len(f) <=> i \in 1..Len(ranked) /\ i <= Len(f)
      <4>1. Len(f) <= Len(ranked) BY <1>3, <1>4, <1>6
      <4>2. QED BY <1>6, <4>1
    <3>2. QED BY <1>6, <2>1, <3>1
  <2>3. \A i \in DOMAIN f : f[i] = p[i] BY <1>3, <1>4, <2>1, <2>2
  <2>4. f = [i \in DOMAIN f |-> f[i]] /\ p = [i \in DOMAIN p |-> p[i]] BY <1>4, <2>1
  <2>5. f = p BY <2>2, <2>3, <2>4
  <2>6. QED BY <2>5 DEF p
<1>8. BestSourcesUsed' BY <1>1, <1>3, <1>4, <1>5, <1>7 DEF BestSourcesUsed
<1>9. FlaggedIsRedacted'
  <2> SUFFICES ASSUME NEW r \in Elements(f), r.chunk \in Flagged, r.chunk \in Elements(dense)
               PROVE  r.chunk \in Redacted(f) /\ has_pii'
    BY <1>1 DEF FlaggedIsRedacted
  <2>1. PICK i \in DOMAIN f : r = f[i] BY DEF Elements
  <2>2. i \in DOMAIN u /\ u[i] = r /\ i \in DOMAIN ranked /\ ranked[i] = r
    BY <1>3, <1>4, <2>1
  <2>3. IsFlagged(r) BY <1>2, <2>2 DEF FromDense, IsFlagged
  <2>4. r.chunk \in Redacted(f) BY <2>3 DEF Redacted
  <2>5. Len(f) + 1 \in Nat /\ i <= Len(f) + 1 BY <1>6, <2>1
  <2>6. /\ DOMAIN Prefix(u, Len(f) + 1) = {j \in DOMAIN u : j <= Len(f) + 1}
        /\ \A j \in DOMAIN Prefix(u, Len(f) + 1) : Prefix(u, Len(f) + 1)[j] = u[j]
    BY <1>3, <2>5, PrefixFacts
  <2>7. i \in DOMAIN Prefix(u, Len(f) + 1) /\ Prefix(u, Len(f) + 1)[i] = r
    BY <2>2, <2>5, <2>6
  <2>8. r \in Elements(Prefix(u, Len(f) + 1)) BY <2>7 DEF Elements
  <2>9. QED BY <1>1, <2>3, <2>4, <2>8
<1>10. QED BY <1>1, <1>8, <1>9 DEF QueryInv, FusionAgrees

LEMMA QueryStep == QueryInv /\ [Next]_vars => QueryInv'
<1> SUFFICES ASSUME QueryInv, [Next]_vars PROVE QueryInv' OBVIOUS
<1>1. CASE AskGeneral BY <1>1, GeneralStep
<1>2. ASSUME NEW d \in Lists, NEW s \in Lists, Retrieve(d, s) PROVE QueryInv'
  BY <1>2 DEF Retrieve, QueryInv, FusionAgrees, FlaggedIsRedacted, BestSourcesUsed
<1>3. CASE Fuse
  <2>1. ranked' \in Seq(Entry) /\ Sorted(ranked') /\ FromDense(ranked') /\ FusionAgrees'
    BY <1>3, Fused DEF QueryInv
  <2>2. dense' = dense /\ sparse' = sparse /\ pc' = "rerank" BY <1>3 DEF Fuse
  <2>3. QED BY <2>1, <2>2 DEF QueryInv, FromDense, FlaggedIsRedacted, BestSourcesUsed
<1>4. CASE \/ RerankOff
           \/ \E logit \in [{r.chunk : r \in Elements(ranked)} -> Logits] : Rerank(logit)
  <2>1. pc = "rerank" /\ dense' = dense /\ sparse' = sparse /\ pc' = "build"
    BY <1>4 DEF RerankOff, Rerank
  <2>2. ranked' \in Seq(Entry) /\ Sorted(ranked') /\ FromDense(ranked')
    BY <1>4, <2>1, Reranked DEF QueryInv
  <2>3. QED
    BY <2>1, <2>2 DEF QueryInv, FromDense, FusionAgrees, FlaggedIsRedacted, BestSourcesUsed
<1>5. CASE Build BY <1>5, BuildStep
<1>6. CASE UNCHANGED vars
  <2>1. /\ dense' = dense /\ sparse' = sparse /\ ranked' = ranked /\ pc' = pc
        /\ used' = used /\ text' = text /\ redacted' = redacted /\ has_pii' = has_pii
    BY <1>6 DEF vars, context
  <2>2. \A c, e : AsGood(c, e)' = AsGood(c, e) BY <2>1 DEF AsGood, AsGoodIn
  <2>3. FusionAgrees'
    <3>1. FusionAgrees BY DEF QueryInv
    <3>2. QED BY <2>1, <2>2, <3>1 DEF FusionAgrees
  <2>4. QED BY <2>1, <2>3 DEF QueryInv, FromDense, FlaggedIsRedacted, BestSourcesUsed
<1>7. QED BY <1>1, <1>2, <1>3, <1>4, <1>5, <1>6 DEF Next

LEMMA QueryInvariant == Spec => []QueryInv
BY QueryInitially, QueryStep, PTL DEF Spec

(* Whatever lists the two retrievers return, for any rrf_k and any cut: a  *)
(* chunk that both rank at least as well as another is not behind it, and  *)
(* no chunk is there twice.                                                *)
THEOREM AgreementRespected == Spec => []FusionAgrees
<1>1. QueryInv => FusionAgrees BY DEF QueryInv
<1>2. QED BY <1>1, QueryInvariant, PTL

(* A flagged text of the dense list never reaches the agent unredacted,    *)
(* whatever the sparse list, the scores and the budget are.                *)
THEOREM FlaggedStayRedacted == Spec => []FlaggedIsRedacted
<1>1. QueryInv => FlaggedIsRedacted BY DEF QueryInv
<1>2. QED BY <1>1, QueryInvariant, PTL

(* The context holds the best sources without a gap, and exceeds the       *)
(* budget by no more than the white space around them, for sources of any  *)
(* size and scores of any order.                                           *)
THEOREM BestAreUsed == Spec => []BestSourcesUsed
<1>1. QueryInv => BestSourcesUsed BY DEF QueryInv
<1>2. QED BY <1>1, QueryInvariant, PTL

=============================================================================
