SPECIFICATION Spec
CONSTANTS
    Requests = {q1}
    Kinds <- MCKinds
    Engines = {"plain", "lead"}
    EngineOf <- MCEngineOf
    First = "plain"
    GraphQLPaths = {"gql"}
    BodyField <- MCBodyField
    Bodies <- MCBodies
    Policies <- MCPolicies
    Patterns <- MCPatterns
CHECK_DEADLOCK FALSE
INVARIANT RestrictedRequestNotStored
