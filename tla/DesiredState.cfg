SPECIFICATION Spec
CONSTANTS
    c1 = c1
    c2 = c2
    c3 = c3
    None = None
    MaxInt = 9
    BadNames = {"Web"}
    Containers = {c1, c2, c3}
    Local = {c1, c2}
    Images <- ImagesOf
    NotRunning = NotRunning
INVARIANTS
    FieldsAsDeclared
    PoliciesWhole
    ServicesPublished
    BindingsPublished
