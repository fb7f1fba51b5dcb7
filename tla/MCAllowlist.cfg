CONSTANTS
    local = local
    remote = remote
    self = self
    docker = docker
    inner = inner
    home = home
    lan = lan
    phone = phone
    bridge = bridge
    gateway = gateway
    supervisor = supervisor
    loop = loop
    Addr = {local, remote, self, docker, inner, home}
    Net = {lan, bridge, gateway, supervisor, loop}
    Name = {phone}
    Covers <- MCCovers
    Adapters <- MCAdapters
    Hidden = {bridge, loop}
    Bridge = bridge
    Gateway = gateway
    Supervisor = supervisor
    Loopback = loop
    Banned = {}
    Command = {c1, c2}
    Setup = setup
    Cancellable = {c1}
    Timer = timer
    Interval = 2
    Timeout = 1
    Grace = 3
    Entries = {lan, phone}
    Answers <- MCAnswers
SPECIFICATION FairSpec
INVARIANTS
    TypeOK
    LocalPathKept
    TrustExpires
    SettledAllowlist
    EdgeHearsOfChanges
PROPERTIES
    TrustFollowsNames
CHECK_DEADLOCK FALSE
