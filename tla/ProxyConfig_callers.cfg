CONSTANTS
    t1 = t1
    t2 = t2
    t3 = t3
    Nobody = Nobody
    Callers = {t1, t2, t3}
    Values <- MCValues
    Default = 2
    IntCount = 16
    SizeCount = 256
SPECIFICATION Spec
SYMMETRY CallerSymmetry
INVARIANTS
    TypeOK
    ThreadsAgree
PROPERTIES
    SettingsHoldInRun
    QuietGetIsRight
