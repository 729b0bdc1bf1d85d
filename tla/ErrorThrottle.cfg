SPECIFICATION Spec
CONSTANTS
    Thread = {t1, t2, t3}
    Window = {0, 2}
    MinWindow = 2
    MaxTime = 4
    MaxErrors = 3
INVARIANTS Conserved RecoveryOnce
PROPERTIES LogSpacing
