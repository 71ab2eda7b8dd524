CONSTANTS
    p1 = p1
    p2 = p2
    Procs <- MCProcs
    Version <- MCVersion
    Slug <- MCSlug
    Requests <- MCRequests
    ImportIds <- MCImportIds
    Frames = 2
    MaxCommands = 3
SPECIFICATION Spec
INVARIANTS
    FacadesMatchTheirServer
    IndexMatchesRuns
    UngatedToolsWereTrusted
    ResolvedBuiltinIsShipped
CHECK_DEADLOCK FALSE
