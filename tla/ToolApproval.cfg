\* One tool and one file with two versions, one user, two executions at a time,
\* an administrator.
SPECIFICATION Spec
CONSTANTS
    Tool = {t}
    File = {f}
    Caller = {alice}
    Argument = {x}
    Call = {c1, c2}
    Admin = {a1}
    None = None
    MaxPolicy = 3
    MaxAsked = 1
    MaxEdits = 2
SYMMETRY TheSymmetry
INVARIANTS
    ApprovalInv
PROPERTIES
    OldAnswersAreVoid
    PoliciesChangeAsSeen
    FilesGoAsShown
