SPECIFICATION Spec
CONSTANTS
    Requests = {q1, q2}
    Kinds <- MCKinds
    Engines = {"plain", "lead"}
    EngineOf <- MCEngineOf
    First = "plain"
    GraphQLPaths = {"gql"}
    BodyField <- MCBodyField
    Bodies <- MCBodies
    Policies <- MCPolicies
    Patterns <- MCPatterns
CHECK_DEADLOCK FALSE
SYMMETRY RequestSymmetry
INVARIANTS
    LateBindingComplete
    NeverLifted
    ErrorsRescued
    GaugesAccounted
    MaskedExactly
    ReadersExact
