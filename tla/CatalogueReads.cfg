\* Two readers of one page and one writer over one connection, two
\* operations admitted, two commits, one fault.
SPECIFICATION Spec
CONSTANTS
    Readers = {r1, r2}
    Writers = {w1}
    Pages = {p1}
    Size = 1
    Operations = 2
    MaxWrites = 2
    MaxFaults = 1
    None = None
INVARIANTS TypeOK Fresh Accounted ConnectionReady
PROPERTIES Answered
