SPECIFICATION Spec
CONSTANTS
    n1 = n1
    n2 = n2
    c1 = c1
    c2 = c2
    s1 = s1
    s2 = s2
    bad = bad
    NoSchema = NoSchema
    Node <- TwoNodes
    Collection <- OneCollection
    Schema <- ThreeSchemas
    Invalid <- OneInvalid
    MaxCreations = 2
    MaxCrashes = 1
    MaxDrops = 1
    MaxDiskErrors = 1
SYMMETRY Symmetry
CHECK_DEADLOCK FALSE
INVARIANTS
    SchemaIsIndexed
    DocumentsConform
    ReachesAll
    DocumentsFound
PROPERTIES
    SchemaKept
