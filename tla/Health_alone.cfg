SPECIFICATION Spec
CONSTANTS
    Setters = {s1, s2, s3}
    MaxStarts = 3
SYMMETRY HealthSymmetry
INVARIANTS
    TypeOK
    AgreeWhenAlone
