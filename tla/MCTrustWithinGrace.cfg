CONSTANTS
    local = local
    remote = remote
    self = self
    docker = docker
    inner = inner
    home = home
    lan = lan
    phone = phone
    bridge = bridge
    gateway = gateway
    supervisor = supervisor
    loop = loop
    Addr = {local, remote, self, docker, inner, home}
    Net = {lan, bridge, gateway, supervisor, loop}
    Name = {phone}
    Covers <- MCCovers
    Adapters <- MCAdapters
    Hidden = {bridge, loop}
    Bridge = bridge
    Gateway = gateway
    Supervisor = supervisor
    Loopback = loop
    Banned = {}
    Command = {}
    Setup = setup
    Cancellable = {}
    Timer = timer
    Interval = 2
    Timeout = 1
    Grace = 4
    Entries = {lan, phone}
    Answers <- MCAnswers
SPECIFICATION FairSpec
INVARIANTS
    TrustWithinGrace
CHECK_DEADLOCK FALSE
