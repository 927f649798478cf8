CONSTANTS
    Jobs = {j1, j2}
    Nil = Nil
    Automatic = {}
    Pausable = {}
    MayRefuse = FALSE
SPECIFICATION Spec
PROPERTIES NothingStartsLate
