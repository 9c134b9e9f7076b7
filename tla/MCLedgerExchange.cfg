SPECIFICATION Spec
CONSTANTS
    n1 = n1
    n2 = n2
    dir = dir
    file = file
    Node <- TwoNodes
    Path <- TreePath
    Ancestors <- TreeAncestors
    Stamp <- Stamps
    Ttl = 0
    MaxWire = 1
SYMMETRY Symmetric
INVARIANTS
    SupersededNeverStored
    VerdictIsNewest
    ExchangeAgrees
    VetoIsLastWriter
PROPERTY AliveNeverRegresses
