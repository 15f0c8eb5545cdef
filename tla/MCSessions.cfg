SPECIFICATION Spec
SYMMETRY Symmetry
INVARIANTS TypeOK TokensConfined RotationKeepsTokens LoginLasts
CONSTANTS
    alice = alice
    app = app
    other = other
    plain = plain
    Clients = {alice}
    AgentOf <- MCAgentOf
    Agents <- MCAgents
    AddressOf <- MCAddressOf
    Addresses <- MCAddresses
    Payloads <- MCPayloads
    NoToken = NoToken
    Nodes = {d1, d2}
    Locations = {app, other, plain}
    Conf <- MCConf
    MaxSecret = 3
    MaxClock = 3
CHECK_DEADLOCK FALSE
