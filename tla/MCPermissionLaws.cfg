CONSTANTS
    Key = {"administration", "contents", "retired"}
    Catalog <- MCCatalog
SPECIFICATION Spec
INVARIANTS
    TypeOK
    IntersectIsMeet
    MergeIsJoin
    SatisfiesIsInclusion
    GapsNameTheShortfall
    GapFreeIntersectIsRequest
