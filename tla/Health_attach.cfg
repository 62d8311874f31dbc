SPECIFICATION Spec
CONSTANTS
    Setters = {s1}
    MaxStarts = 1
INVARIANT
    SurfacesAgree
