CONSTANTS
    Procs = {p1, p2}
    Devices = {d1, d2}
    Removable = {d2}
    NoDevice = NoDevice
    Attributes = 2
SPECIFICATION Spec
SYMMETRY MpuSymmetry
INVARIANTS TypeOK ClientsAlive ShowsBound
