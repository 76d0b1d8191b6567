SPECIFICATION Spec
CONSTANTS
    Names = {ttwid, msToken}
    Values = {v1, v2}
    Absent = Absent
    EvalFails = FALSE
    MaxRuntimes = 1
    MaxFailures = 1
INVARIANTS
    SignsWithSameCookies
