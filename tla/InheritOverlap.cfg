SPECIFICATION Spec
CONSTANTS
    Procs = {1, 2}
    Creators = {1}
    DataPages = 5
    GuardPages = 1
    MaxInherit = 2
    MaxSegs = 2
    Sizes = {1}
    QuietStart = TRUE
    NoOrphans = TRUE
    InStep = FALSE
INVARIANT HeapsApart
