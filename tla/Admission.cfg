SPECIFICATION MCSpec
CONSTANTS
    h1 = h1
    h2 = h2
    k1 = k1
    exact = exact
    net1 = net1
    net2 = net2
    p1 = p1
    p2 = p2
    p3 = p3
    NoKey = NoKey
    Handlers = {h1, h2}
    Keys = {k1}
    Providers = {exact}
    Networks = {net1, net2}
    Payments = {p1, p2, p3}
    Route <- MCRoute
    Profiles <- MCProfiles
    Inputs <- AllInputs
INVARIANTS
    AnswersJustified
PROPERTIES
    RecordedNeverLimited
    PauseQuiesces
