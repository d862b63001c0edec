CONSTANTS
    Names <- MCNames
    Paths <- MCPaths
    Root = root
    c1 = c1
    c2 = c2
    Clusters = {c1, c2}
    f1 = f1
    f2 = f2
    Files = {f1, f2}
    MaxTroubles = 0
SPECIFICATION DotSpec
SYMMETRY NodeSymmetry
INVARIANTS
    EntriesNameWhatIsThere
