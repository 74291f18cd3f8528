\* Two stores and a third to recover into, two editors, three or so edits.
CONSTANTS
    Store = {s1, s2}
    Editor = {e1, e2}
    Path <- MCDeepPath
    TagArgs <- MCDeepArgs
    NoScope = NoScope
    MaxClaims = 7
SPECIFICATION Spec
CHECK_DEADLOCK FALSE
INVARIANT CompetingSetsFlagged
