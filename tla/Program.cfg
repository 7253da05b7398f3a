SPECIFICATION Spec
CONSTANTS
    None = None
    Damaged = Damaged
    Seeds = {0, 1}
    Edits = {e1, e2}
    Extension = "legacy"
    InitialFiles <- MCInitialFiles
INVARIANTS
    TypeOK
    ExitKeepsWorld
PROPERTIES
    FileKeepsFormat
    EndsWhenAsked
