SPECIFICATION Spec
CONSTANTS
    name = name
    pub = pub
    priv = priv
    zero = zero
    six = six
    map = map
    local = local
    up = up
    None = None
    Names = {name}
    V4 <- MCV4
    V6 <- MCV6
    Mapped <- MCMapped
    Reserved = {priv, zero}
    Unspecified = {zero}
    MAX_PAYLOAD_LEN = 3
    ServerConfigs <- MCServerConfigs
    Users = {"alice", "bob"}
    InboundTag = "in"
    Socks5Requests <- MCSocks5Requests
    HttpRequests <- MCHttpRequests
    Origins <- MCOrigins
    UpstreamReplies <- MCUpstreamReplies
    Answers <- MCAnswers
    Sources <- MCSources
    ClientIp = local
    AppDatagrams <- MCAppDatagrams
    OriginDatagrams <- MCOriginDatagrams
    UpstreamIp = up
    UDP_CHANNEL_CAPACITY = 1
    Window = 5
    WuThreshold = 2
    MaxDatagrams = 2
INVARIANTS  NothingBlocked DatagramsFaithful 
CHECK_DEADLOCK FALSE
