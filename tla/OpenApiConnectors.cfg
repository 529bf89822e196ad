\* Two requests at a time on one connector with two operations.
SPECIFICATION Spec
CONSTANTS
    Connector = {c1}
    Operation = {x1, x2}
    Document <- Documents
    Request = {r1, r2}
    Whole = Whole
    Missing = Missing
INVARIANTS
    OpenApiInv
    ImportsKeepWhatIsGranted
SYMMETRY Symmetry
