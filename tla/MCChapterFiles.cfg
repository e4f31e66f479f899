SPECIFICATION Spec
CONSTANTS
    p1 = p1
    p2 = p2
    p3 = p3
    Pages = {p1, p2, p3}
    Kinds = {"manga", "episode", "novel"}
    Settings = {TRUE, FALSE}
    BatchSize = 2
    MaxCrashes = 1
INVARIANTS
    CompleteHasAllPages
PROPERTIES
    DeletedOnceArchived
