\* A program and two modules, one name, six statements.  A file that has been run is over.
SPECIFICATION Spec
CONSTANTS
    Strand = {main, m, n}
    Main = main
    Name = {x}
    MaxOps = 6
    MaxDepth = 5
INVARIANTS
    KnowsWhereItIs
    GreenIsGreen
PROPERTY
    LoadedForGood
SYMMETRY Symmetry
CHECK_DEADLOCK FALSE
