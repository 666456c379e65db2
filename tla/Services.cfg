SPECIFICATION Spec
CONSTANT Users = {p, q}
SYMMETRY Symmetry
INVARIANTS
    InodeTable
    IputNeverBlocks
    LinksCounted
    NoPanic
    FilesCounted
    Conserved
    ChunkFitsLog
    ImageMapped
    ConsoleSleepers
    Wired
    PromptAfterCommand
    SomebodyRuns
    ReadBack
PROPERTIES
    WritesExactly
    FailureChangesNothing
    ImplementsLineEditor
