CONSTANTS
    N = 3
    Configs <- Either
SPECIFICATION Spec
INVARIANTS TypeOK NoFault NothingLeft Backed
