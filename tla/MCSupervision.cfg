\* A property with two values; two changes and three failures.
CONSTANTS
    v1 = v1
    v2 = v2
    Values = {v1, v2}
    NoValue = NoValue
    MaxChanges = 2
    MaxFaults = 3
SPECIFICATION FairSpec
INVARIANTS
    TornHasACause
PROPERTIES
    ChangesAreTakenUp
    IsolatedIsTold
