\* Every Python file of three definitions with class bodies of three statements, every DAG of
\* three tasks, Markdown sections of up to three windows and SQL lines with two semicolons.
SPECIFICATION FilesSpec
CONSTANTS
    MaxParts = 3
    MaxBody = 3
    Names <- MCNames
    MaxChars = 8
    MaxLength = 21
    MaxTokens = 3
CHECK_DEADLOCK FALSE
INVARIANTS
    SharedIdsExplained
    PassagesWhole
    StatementsAgree
PROPERTIES
    AppendKeepsIds
