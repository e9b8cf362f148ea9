SPECIFICATION Spec
CONSTANTS
    Zero = Zero
    PerMs = 10
    Half = 1000
    Invalid = Invalid
    Trim <- MCTrim
    Squash <- MCSquash
    WellFormedKeys <- MCWellFormedKeys
    Alphanumeric <- MCAlphanumeric
    HostMethods <- MCHostMethods
    Rank <- MCRank
    Inputs <- MCInputs
INVARIANTS
    Faithful
    AdmissionIsSound
