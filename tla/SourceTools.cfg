\* A source is read, printed once and read again; a script is previewed and run; an
\* editor has a session of three messages; a client of tools sends four lines.
SPECIFICATION ToolsSpec
CONSTANTS
    Word <- Words
    Number = {"1"}
    String = {"'k'", "'failed'"}
    Sources <- ToolSources
    Core = {"len"}
    MaxTree = 12
    Capability = {"pay"}
    Scripts <- AllScripts
    MaxDepth = 2
    MaxScopes = 6
    Uri = {"a", "b"}
    Texts = {"", "t"}
    NoText = ""
    MaxMessages = 3
    MaxLines = 4
INVARIANTS
    ParsedAsMeant
    MeaningKept
    PreviewSees
    NoFalseAlarm
    EditorMirrored
    AnsweredAsAsked
    EachAnsweredOnce
CHECK_DEADLOCK FALSE
