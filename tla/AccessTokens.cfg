SPECIFICATION Spec
CONSTANTS
    i1 = i1
    i2 = i2
    Instance = {i1, i2}
    UserRole = {"OPERATOR", "SUPERADMIN"}
    AccessTTL = 2
    RefreshTTL = 4
    LoginTime = 1
    Rotations = 2
    MaxTokens = 1
SYMMETRY Symmetry
INVARIANTS
    KeyInvariant
    AuthorityExpires

