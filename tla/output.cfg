CONSTANT Strings <- MCStrings
SPECIFICATION Spec
INVARIANTS
    TypeOK
    HostTypesTheMatch
    NothingHeld
