\* Three documents whose IDs begin alike, two of which may fork.
CONSTANTS
    d1 = d1
    d2 = d2
    d3 = d3
    h1 = h1
    h2 = h2
    h3 = h3
    h4 = h4
    h5 = h5
    Doc = {d1, d2, d3}
    Version = {h1, h2, h3, h4, h5}
    Text <- MCText
    DocId <- MCDocId
    VersionId <- MCVersionId
    TypeOf <- MCTypeOf
    Edition <- MCEdition
    Unindexed = Unindexed
    Compound <- MCCompound
    MaxDepth = 3
SPECIFICATION Spec
INVARIANTS ListedResolves TagsReachable FacetsNarrow
PROPERTY LeafKeepsDocument
